----------------------------- MODULE DropletUpload -----------------------------
(***************************************************************************)
(* `cf local push` uploading a droplet: Push.pushDroplet (cf/cmd/push.go)  *)
(* and App.SetDroplet with the requests and the job polling under it       *)
(* (remote/droplet.go, remote/app.go).                                     *)
(*                                                                         *)
(* Two goroutines share an io.Pipe and a channel of capacity one.  The     *)
(* writer copies the droplet file into a multipart form written to the     *)
(* pipe, sends its outcome to errChan and closes the pipe.  The main       *)
(* goroutine hands the reading end to an HTTP PUT, polls the job the PUT   *)
(* created, receives from errChan and returns.  The HTTP transport, Cloud  *)
(* Foundry and the cf CLI are external: they may answer, refuse or fail    *)
(* whenever the code lets them.                                            *)
(*                                                                         *)
(* The body is counted in pieces: one for the form's header, Size for the  *)
(* file, one for the form's trailer.                                       *)
(***************************************************************************)
EXTENDS Naturals

CONSTANT Size   \* pieces in the droplet file when it is opened

ASSUME SizeAssumption == Size \in Nat

\* contentLength: the empty form (header and trailer) and the file.
Declared == Size + 2

VARIABLES
  main,      \* where the main goroutine is
  request,   \* the request it is making: the upload, or a poll of the job
  failure,   \* the step putJob failed at, "none" until it does
  ret,       \* what pushDroplet returns, "pending" until SetDroplet is done
  file,      \* the local droplet file: "unopened", "open", "closed"
  writer,    \* where the writer goroutine is
  writeErr,  \* the error the writer met, or "nil"
  copied,    \* pieces of the file written to the pipe
  errChan,   \* content of errChan: "empty", "nil" or an error
  body,      \* reading end of the pipe: "unread", "reading", "closed"
  sent,      \* pieces of the body the transport has taken from the pipe
  job,       \* the job Cloud Foundry made of the upload
  reply      \* the job's status in the response being decoded

mainVars   == <<main, request, failure, ret, file>>
writerVars == <<writer, writeErr, copied, errChan>>
pipeVars   == <<body, sent>>
vars == <<mainVars, writerVars, pipeVars, job, reply>>

CLICalls == {"IsLoggedIn", "GetApp", "ApiEndpoint", "AccessToken"}
JobStatus == {"none", "queued", "running", "finished", "failed"}

\* The writer may still touch the droplet file or the pipe.
Writing == {"header", "chunk", "trailer"}

TypeOK ==
  /\ main \in CLICalls \cup
       {"ReadFile", "Do", "Decode", "Drain", "Finish", "Return", "Returned"}
  /\ request \in {"upload", "poll"}
  /\ failure \in CLICalls \cup {"none", "ReadFile", "Do", "Status", "Decode", "Job"}
  /\ ret \in CLICalls \cup
       {"pending", "nil", "ReadFile", "Do", "Status", "Decode", "Job", "pipe", "file"}
  /\ file \in {"unopened", "open", "closed"}
  /\ writer \in Writing \cup {"unstarted", "send", "close", "done"}
  /\ writeErr \in {"nil", "pipe", "file"}
  /\ copied \in 0..Size
  /\ errChan \in {"empty", "nil", "pipe", "file"}
  /\ body \in {"unread", "reading", "closed"}
  /\ sent \in 0..Declared
  /\ job \in JobStatus
  /\ reply \in JobStatus

Init ==
  /\ main = "ReadFile" /\ request = "upload"
  /\ failure = "none" /\ ret = "pending" /\ file = "unopened"
  /\ writer = "unstarted" /\ writeErr = "nil" /\ copied = 0 /\ errChan = "empty"
  /\ body = "unread" /\ sent = 0
  /\ job = "none" /\ reply = "none"

---------------------------------------------------------------------------------
(* The main goroutine. *)

\* pushDroplet opens the file, SetDroplet makes the pipe and starts the writer.
OpenDroplet ==
  /\ main = "ReadFile"
  /\ file' = "open"
  /\ writer' = "header"
  /\ main' = "IsLoggedIn"
  /\ UNCHANGED <<request, failure, ret, writeErr, copied, errChan, pipeVars, job, reply>>

OpenFails ==
  /\ main = "ReadFile"
  /\ failure' = "ReadFile"
  /\ ret' = "ReadFile"
  /\ main' = "Returned"
  /\ UNCHANGED <<request, file, writerVars, pipeVars, job, reply>>

\* putJob returns an error: SetDroplet receives from errChan before it returns.
PutJobFails(site) ==
  /\ failure' = site
  /\ main' = "Drain"
  /\ UNCHANGED <<request, ret, file>>

\* checkAuth, GetApp and the beginning of doRequest, one call to the CLI a step.
AfterCall == [IsLoggedIn  |-> "GetApp",
              GetApp      |-> "ApiEndpoint",
              ApiEndpoint |-> "AccessToken",
              AccessToken |-> "Do"]

\* The call before HTTP.Do is the last: Do makes the transport own the body.
CLIAnswers ==
  /\ main \in CLICalls
  /\ main' = AfterCall[main]
  /\ body' = IF main = "AccessToken" /\ request = "upload" THEN "reading" ELSE body
  /\ UNCHANGED <<request, failure, ret, file, writerVars, sent, job, reply>>

CLIFails ==
  /\ main \in CLICalls
  /\ PutJobFails(main)
  /\ UNCHANGED <<writerVars, pipeVars, job, reply>>

\* decodeJob and the switch of waitForJob.
DecodeFails ==
  /\ main = "Decode"
  /\ PutJobFails("Decode")
  /\ UNCHANGED <<writerVars, pipeVars, job, reply>>

PollAgain ==
  /\ main = "Decode"
  /\ reply \in {"queued", "running"}
  /\ request' = "poll"
  /\ main' = "ApiEndpoint"
  /\ UNCHANGED <<failure, ret, file, writerVars, pipeVars, job, reply>>

\* Mutant of JobSeenFinished: any job not reported as failed is taken as done.
JobNotSeenFailed ==
  /\ main = "Decode"
  /\ reply # "failed"
  /\ main' = "Finish"
  /\ UNCHANGED <<request, failure, ret, file, writerVars, pipeVars, job, reply>>

JobSeenFinished ==
  /\ main = "Decode"
  /\ reply = "finished"
  /\ main' = "Finish"
  /\ UNCHANGED <<request, failure, ret, file, writerVars, pipeVars, job, reply>>

\* Mutant of JobSeenFailed: the default case of the switch ends the loop without error.
JobFailureIgnored ==
  /\ main = "Decode"
  /\ reply \notin {"queued", "running", "finished"}
  /\ main' = "Finish"
  /\ UNCHANGED <<request, failure, ret, file, writerVars, pipeVars, job, reply>>

JobSeenFailed ==
  /\ main = "Decode"
  /\ reply \notin {"queued", "running", "finished"}
  /\ PutJobFails("Job")
  /\ UNCHANGED <<writerVars, pipeVars, job, reply>>

\* Mutant of DrainErrChan: putJob's error is returned without waiting for the writer.
DrainWithoutWaiting ==
  /\ main = "Drain"
  /\ errChan' = "empty"
  /\ ret' = failure
  /\ main' = "Return"
  /\ UNCHANGED <<request, failure, file, writer, writeErr, copied, pipeVars, job, reply>>

\* `<-errChan` of the error path: whatever it holds, putJob's error is returned.
DrainErrChan ==
  /\ main = "Drain"
  /\ errChan # "empty"
  /\ errChan' = "empty"
  /\ ret' = failure
  /\ main' = "Return"
  /\ UNCHANGED <<request, failure, file, writer, writeErr, copied, pipeVars, job, reply>>

\* `return <-errChan`: the upload's outcome is the writer's.
ReturnErrChan ==
  /\ main = "Finish"
  /\ errChan # "empty"
  /\ errChan' = "empty"
  /\ ret' = errChan
  /\ main' = "Return"
  /\ UNCHANGED <<request, failure, file, writer, writeErr, copied, pipeVars, job, reply>>

\* The deferred calls: SetDroplet closes the pipe, pushDroplet the file.
RunDefers ==
  /\ main = "Return"
  /\ body' = "closed"
  /\ file' = "closed"
  /\ main' = "Returned"
  /\ UNCHANGED <<request, failure, ret, writerVars, sent, job, reply>>

---------------------------------------------------------------------------------
(* The writer goroutine. *)

\* Mutant of AfterPiece: Copy in place of CopyN, which follows a growing file.
AfterPieceUnbounded(n) == IF n > Size THEN "trailer" ELSE "chunk"

\* What CopyN writes next, n pieces of the file written.
AfterPiece(n) == IF n = Size THEN "trailer" ELSE "chunk"

\* A write to the pipe returns when the transport has read it.
WriteHeader ==
  /\ writer = "header"
  /\ body = "reading"
  /\ sent' = sent + 1
  /\ writer' = AfterPiece(0)
  /\ UNCHANGED <<mainVars, writeErr, copied, errChan, body, job, reply>>

CopyChunk ==
  /\ writer = "chunk"
  /\ body = "reading"
  /\ sent' = sent + 1
  /\ copied' = copied + 1
  /\ writer' = AfterPiece(copied + 1)
  /\ UNCHANGED <<mainVars, writeErr, errChan, body, job, reply>>

\* Mutant of FileFails: the goroutine returns without sending the error.
FileFailsSilently ==
  /\ writer = "chunk"
  /\ writeErr' = "file"
  /\ writer' = "close"
  /\ UNCHANGED <<mainVars, copied, errChan, pipeVars, job, reply>>

\* The file cannot be read, or has become shorter than it was when opened.
FileFails ==
  /\ writer = "chunk"
  /\ writeErr' = "file"
  /\ writer' = "send"
  /\ UNCHANGED <<mainVars, copied, errChan, pipeVars, job, reply>>

WriteTrailer ==
  /\ writer = "trailer"
  /\ body = "reading"
  /\ sent' = sent + 1
  /\ writer' = "send"
  /\ UNCHANGED <<mainVars, writeErr, copied, errChan, body, job, reply>>

\* A write after the reading end was closed returns ErrClosedPipe.
WriteFails ==
  /\ writer \in Writing
  /\ body = "closed"
  /\ writeErr' = "pipe"
  /\ writer' = "send"
  /\ UNCHANGED <<mainVars, copied, errChan, pipeVars, job, reply>>

SendOutcome ==
  /\ writer = "send"
  /\ errChan = "empty"          \* capacity one
  /\ errChan' = writeErr
  /\ writer' = "close"
  /\ UNCHANGED <<mainVars, writeErr, copied, pipeVars, job, reply>>

\* The deferred writeBody.Close: the reader now meets the end of the body.
CloseWriter ==
  /\ writer = "close"
  /\ writer' = "done"
  /\ UNCHANGED <<mainVars, writeErr, copied, errChan, pipeVars, job, reply>>

---------------------------------------------------------------------------------
(* External: the HTTP transport and Cloud Foundry. *)

\* The transport reads up to the end of the body and closes it.
BodyEnds ==
  /\ body = "reading"
  /\ writer = "done"
  /\ body' = "closed"
  /\ UNCHANGED <<mainVars, writerVars, sent, job, reply>>

\* The transport drops the body: a connection is lost, or an answer came early.
AbandonBody ==
  /\ body = "reading"
  /\ body' = "closed"
  /\ UNCHANGED <<mainVars, writerVars, sent, job, reply>>

\* Do returns an error: no connection, a connection lost before or after the
\* request was served, or a body shorter than its Content-Length.
DoFails ==
  /\ main = "Do"
  /\ PutJobFails("Do")
  /\ body' = IF request = "upload" THEN "closed" ELSE body
  /\ UNCHANGED <<writerVars, sent, job, reply>>

\* Any answer with a status other than the desired one, at any time.
UnexpectedStatus ==
  /\ main = "Do"
  /\ PutJobFails("Status")
  /\ UNCHANGED <<writerVars, pipeVars, job, reply>>

\* The whole body makes a job; Cloud Foundry may then work on it unobserved.
EnqueueJob ==
  /\ job = "none"
  /\ sent = Declared
  /\ job' = "queued"
  /\ UNCHANGED <<mainVars, writerVars, pipeVars, reply>>

StartJob ==
  /\ job = "queued"
  /\ job' = "running"
  /\ UNCHANGED <<mainVars, writerVars, pipeVars, reply>>

FinishJob ==
  /\ job = "running"
  /\ job' \in {"finished", "failed"}
  /\ UNCHANGED <<mainVars, writerVars, pipeVars, reply>>

\* 201 Created for the upload, 200 OK for a poll: the job as it is now, which
\* it may no longer be when the body is decoded.
AnswerJob ==
  /\ main = "Do"
  /\ job # "none"
  /\ reply' = job
  /\ main' = "Decode"
  /\ UNCHANGED <<request, failure, ret, file, writerVars, pipeVars, job>>

---------------------------------------------------------------------------------

Main ==
  \/ OpenDroplet \/ OpenFails
  \/ CLIAnswers \/ CLIFails
  \/ DecodeFails \/ PollAgain \/ JobSeenFinished \/ JobSeenFailed
  \/ DrainErrChan \/ ReturnErrChan \/ RunDefers

Writer ==
  \/ WriteHeader \/ CopyChunk \/ FileFails \/ WriteTrailer \/ WriteFails
  \/ SendOutcome \/ CloseWriter

Response == DoFails \/ UnexpectedStatus \/ AnswerJob

Server == EnqueueJob \/ StartJob \/ FinishJob

Next == Main \/ Writer \/ Response \/ Server \/ BodyEnds \/ AbandonBody

Spec == Init /\ [][Next]_vars

\* Goroutines are scheduled.  A request in flight is answered or fails, and a
\* job ends: the code sets no timeout of its own for either.
Fairness == WF_vars(Main) /\ WF_vars(Writer) /\ WF_vars(Response) /\ WF_vars(Server)

FairSpec == Spec /\ Fairness

---------------------------------------------------------------------------------
(* Properties *)

\* A push reports success only when Cloud Foundry has made the whole file, as
\* it was sized on opening, the app's droplet.
SuccessMeansDeployed ==
  ret = "nil" => /\ job = "finished"
                 /\ copied = Size
                 /\ sent = Declared

\* Nothing the writer goroutine goes through is lost: when it failed, no job
\* exists, and what the command returns is an error.
WriteErrorIsFatal ==
  writeErr # "nil" => job = "none" /\ ret # "nil"

\* pushDroplet's deferred Close never takes the file from under the writer.
FileOutlivesWriter ==
  file = "closed" => writer \notin Writing

\* Once a request for the upload has been handed to the HTTP client, the
\* command returns and its goroutine ends, whichever side fails first.
StartedUploadReturns ==
  body = "reading" ~> main = "Returned" /\ writer = "done"

\* The upload implements what its caller relies on.
Contract == INSTANCE PushContract WITH
  droplet <- IF job = "finished" THEN "new" ELSE "old",
  result  <- IF ret = "pending" THEN "pending"
             ELSE IF ret = "nil" THEN "ok" ELSE "error"

MeetsContract == Contract!Spec

\* putJob failed before HTTP.Do: nobody reads the pipe, so the writer cannot
\* send to errChan, which SetDroplet waits for.
Hung ==
  /\ main = "Drain"
  /\ body = "unread"
  /\ errChan = "empty"

\* A push that failed before the upload began never leaves the receive from
\* errChan (droplet.go:45).
HungForever == [][Hung => Hung']_vars

\* An error met before or during the upload is the error the command returns.
ErrorIsReturned == failure # "none" ~> ret = failure
=================================================================================
