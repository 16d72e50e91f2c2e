-------------------------- MODULE DropletUploadProofs --------------------------
(***************************************************************************)
(* Proofs about DropletUpload for every file size.  The safety properties  *)
(* follow from one inductive invariant, IInv, that ties the writer's place *)
(* to what went through the pipe, errChan to the writer's outcome, the job *)
(* to the body, and the main goroutine's place to all of them.             *)
(***************************************************************************)
EXTENDS DropletUpload, TLAPS

\* The writer has nothing left to write.
Over == {"send", "close", "done"}

\* How much of the form is through the pipe at each place of the writer.
PipeInv ==
  /\ writer \in {"unstarted", "header"} => copied = 0 /\ sent = 0
  /\ writer = "chunk" => copied < Size /\ sent = copied + 1
  /\ writer = "trailer" => copied = Size /\ sent = Size + 1
  /\ writer \in Over => IF writeErr = "nil"
                        THEN copied = Size /\ sent = Declared
                        ELSE sent < Declared
  /\ writer \notin Over => writeErr = "nil"
  /\ body = "unread" => writer \in {"unstarted", "header"}

\* errChan holds the writer's outcome until the main goroutine takes it.
ChanInv ==
  /\ errChan # "empty" => errChan = writeErr /\ writer \in {"close", "done"}
  /\ writer \in {"close", "done"} /\ ret = "pending" => errChan # "empty"

\* A job comes from a whole body, and its end is final.
JobInv ==
  /\ job # "none" => sent = Declared
  /\ reply = "finished" => job = "finished"

MainInv ==
  /\ main = "ReadFile" => writer = "unstarted"
  /\ main = "Finish" => job = "finished"
  /\ main = "Drain" => failure # "none"
  /\ ret = "pending" <=> main \notin {"Return", "Returned"}
  /\ ret = "nil" => job = "finished" /\ writeErr = "nil" /\ writer \in Over
  /\ main = "Return" => writer \in {"close", "done"}
  /\ file = "closed" => main = "Returned" /\ writer \in {"close", "done"}

IInv == TypeOK /\ PipeInv /\ ChanInv /\ JobInv /\ MainInv
--------------------------------------------------------------------------------
(* The invariant holds initially and every action preserves it. *)

LEMMA InitIInv == Init => IInv
BY SizeAssumption DEF Init, IInv, TypeOK, PipeInv, ChanInv, JobInv, MainInv,
     Writing, Over, CLICalls, JobStatus, Declared

LEMMA NextIInv == IInv /\ [Next]_vars => IInv'
<1> SUFFICES ASSUME IInv, [Next]_vars
             PROVE  IInv'
  OBVIOUS
<1> USE SizeAssumption DEF IInv, TypeOK, PipeInv, ChanInv, JobInv, MainInv,
      Writing, Over, CLICalls, JobStatus, Declared, mainVars, writerVars, pipeVars
<1>1. CASE OpenDroplet
  BY <1>1 DEF OpenDroplet
<1>2. CASE OpenFails
  BY <1>2 DEF OpenFails
<1>3. CASE CLIAnswers
  BY <1>3 DEF CLIAnswers, AfterCall
<1>4. CASE CLIFails
  BY <1>4 DEF CLIFails, PutJobFails
<1>5. CASE DecodeFails
  BY <1>5 DEF DecodeFails, PutJobFails
<1>6. CASE PollAgain
  BY <1>6 DEF PollAgain
<1>7. CASE JobSeenFinished
  BY <1>7 DEF JobSeenFinished
<1>8. CASE JobSeenFailed
  BY <1>8 DEF JobSeenFailed, PutJobFails
<1>9. CASE DrainErrChan
  BY <1>9 DEF DrainErrChan
<1>10. CASE ReturnErrChan
  BY <1>10 DEF ReturnErrChan
<1>11. CASE RunDefers
  BY <1>11 DEF RunDefers
<1>12. CASE WriteHeader
  BY <1>12 DEF WriteHeader, AfterPiece
<1>13. CASE CopyChunk
  BY <1>13 DEF CopyChunk, AfterPiece
<1>14. CASE FileFails
  BY <1>14 DEF FileFails
<1>15. CASE WriteTrailer
  BY <1>15 DEF WriteTrailer
<1>16. CASE WriteFails
  BY <1>16 DEF WriteFails
<1>17. CASE SendOutcome
  BY <1>17 DEF SendOutcome
<1>18. CASE CloseWriter
  BY <1>18 DEF CloseWriter
<1>19. CASE DoFails
  BY <1>19 DEF DoFails, PutJobFails
<1>20. CASE UnexpectedStatus
  BY <1>20 DEF UnexpectedStatus, PutJobFails
<1>21. CASE AnswerJob
  BY <1>21 DEF AnswerJob
<1>22. CASE EnqueueJob
  BY <1>22 DEF EnqueueJob
<1>23. CASE StartJob
  BY <1>23 DEF StartJob
<1>24. CASE FinishJob
  BY <1>24 DEF FinishJob
<1>25. CASE BodyEnds
  BY <1>25 DEF BodyEnds
<1>26. CASE AbandonBody
  BY <1>26 DEF AbandonBody
<1>27. CASE UNCHANGED vars
  BY <1>27 DEF vars
<1>28. QED
  BY <1>1, <1>2, <1>3, <1>4, <1>5, <1>6, <1>7, <1>8, <1>9, <1>10, <1>11, <1>12, <1>13, <1>14, <1>15, <1>16, <1>17, <1>18, <1>19, <1>20, <1>21, <1>22, <1>23, <1>24, <1>25, <1>26, <1>27
     DEF Next, Main, Writer, Response, Server

LEMMA InvariantHolds == Spec => []IInv
BY InitIInv, NextIInv, PTL DEF Spec

--------------------------------------------------------------------------------
(* What follows from it. *)

\* Type correctness: the writer never copies more than the file had when it was
\* opened, nor puts more on the pipe than the Content-Length of the request.
THEOREM TypeCorrect == Spec => []TypeOK
BY InvariantHolds, PTL DEF IInv

\* pushDroplet returns nil only when Cloud Foundry finished a job made of the
\* whole file: the receive from errChan after waitForJob (droplet.go:49).
THEOREM SuccessIsDeployment == Spec => []SuccessMeansDeployed
<1>1. IInv => SuccessMeansDeployed
  BY DEF IInv, PipeInv, JobInv, MainInv, SuccessMeansDeployed
<1>2. QED
  BY <1>1, InvariantHolds, PTL

\* A copy that failed makes no job and is never reported as a success, although
\* its error may be superseded by putJob's (droplet.go:44-49).
THEOREM WriteErrorsAreFatal == Spec => []WriteErrorIsFatal
<1>1. IInv => WriteErrorIsFatal
  BY SizeAssumption
     DEF IInv, TypeOK, PipeInv, JobInv, MainInv, WriteErrorIsFatal, Declared,
         Writing, Over, JobStatus
<1>2. QED
  BY <1>1, InvariantHolds, PTL

\* The droplet file is closed (push.go:55) only after the writer is done with it,
\* on every path on which it is closed at all.
THEOREM FileIsSafe == Spec => []FileOutlivesWriter
<1>1. IInv => FileOutlivesWriter
  BY DEF IInv, MainInv, FileOutlivesWriter, Writing
<1>2. QED
  BY <1>1, InvariantHolds, PTL

\* Once SetDroplet waits for a writer whose pipe nobody was given to read, no step
\* of any goroutine, of the transport or of Cloud Foundry ends the wait.
THEOREM HungIsFinal == Spec => HungForever
<1>1. IInv /\ [Next]_vars => [Hung => Hung']_vars
  <2> SUFFICES ASSUME IInv, Next, Hung
               PROVE  Hung'
    BY DEF vars, Hung, mainVars, writerVars, pipeVars
  <2>1. writer \in {"unstarted", "header"} /\ sent = 0
    BY DEF IInv, PipeInv, Hung
  <2>2. CASE Main
    BY <2>2 DEF Main, OpenDroplet, OpenFails, CLIAnswers, CLIFails, DecodeFails,
         PollAgain, JobSeenFinished, JobSeenFailed, DrainErrChan, ReturnErrChan,
         RunDefers, Hung, CLICalls
  <2>3. CASE Writer
    BY <2>1, <2>3 DEF Writer, WriteHeader, CopyChunk, FileFails, WriteTrailer,
         WriteFails, SendOutcome, CloseWriter, Hung, Writing
  <2>4. CASE Response
    BY <2>4 DEF Response, DoFails, UnexpectedStatus, AnswerJob, Hung
  <2>5. CASE Server \/ BodyEnds \/ AbandonBody
    BY <2>5 DEF Server, EnqueueJob, StartJob, FinishJob, BodyEnds, AbandonBody,
         Hung, mainVars, writerVars, pipeVars
  <2>6. QED
    BY <2>2, <2>3, <2>4, <2>5 DEF Next
<1>2. QED
  BY <1>1, InvariantHolds, PTL DEF Spec, HungForever

--------------------------------------------------------------------------------
(* The upload implements PushContract. *)

\* A step of the upload is the deployment (the job finishes), the return of the
\* result, or invisible to the caller.
LEMMA StepRefines == IInv /\ [Next]_vars => [Contract!Next]_(Contract!vars)
<1> SUFFICES ASSUME IInv, [Next]_vars
             PROVE  [Contract!Next]_(Contract!vars)
  OBVIOUS
<1> USE DEF Contract!Next, Contract!vars, mainVars, writerVars, pipeVars
<1>1. CASE FinishJob
  BY <1>1 DEF FinishJob, Contract!Deploy
<1>2. CASE OpenFails
  BY <1>2 DEF OpenFails, Contract!ReturnError, IInv, MainInv
<1>3. CASE DrainErrChan
  <2>1. ret = "pending" /\ ret' \notin {"pending", "nil"}
    BY <1>3 DEF DrainErrChan, IInv, MainInv, TypeOK, CLICalls
  <2>2. QED
    BY <1>3, <2>1 DEF DrainErrChan, Contract!ReturnError
<1>4. CASE ReturnErrChan
  <2>1. ret = "pending" /\ ret' # "pending" /\ job = "finished"
    BY <1>4 DEF ReturnErrChan, IInv, MainInv, TypeOK
  <2>2. QED
    BY <1>4, <2>1 DEF ReturnErrChan, Contract!ReturnOk, Contract!ReturnError
<1>5. CASE StartJob \/ EnqueueJob
  BY <1>5 DEF StartJob, EnqueueJob
<1>6. CASE UNCHANGED <<ret, job>>
  BY <1>6
<1>7. QED
  BY <1>1, <1>2, <1>3, <1>4, <1>5, <1>6
     DEF Next, Main, Writer, Response, Server, vars, OpenDroplet, CLIAnswers,
         CLIFails, PutJobFails, DecodeFails, PollAgain, JobSeenFinished,
         JobSeenFailed, RunDefers, WriteHeader, CopyChunk, FileFails, WriteTrailer,
         WriteFails, SendOutcome, CloseWriter, DoFails, UnexpectedStatus, AnswerJob,
         BodyEnds, AbandonBody

\* pushDroplet meets its contract: the app's droplet changes at one instant, and
\* the outcome is given once and is a success only after that instant.
THEOREM UploadMeetsContract == Spec => MeetsContract
<1>1. Init => Contract!Init
  BY DEF Init, Contract!Init
<1>2. QED
  BY <1>1, StepRefines, InvariantHolds, PTL DEF Spec, MeetsContract, Contract!Spec
================================================================================
