------------------------------- MODULE WatchDarwin -------------------------------
(***************************************************************************)
(* FS.Watch on macOS (fs/watch_darwin.go).                                 *)
(*                                                                         *)
(* FSEvents reports changes in batches, already debounced by its latency.  *)
(* The goroutine sends one restart for a batch with a change in it.  It    *)
(* sends outside its select: until somebody receives it looks neither at   *)
(* the next batch nor at the stop channel.  The stream of batches and the  *)
(* runner that receives the restarts are external.                         *)
(***************************************************************************)
EXTENDS Naturals, Sequences

CONSTANT MaxBatches  \* bound on the batches reported

VARIABLES
  opened,     \* of the caller: Watch has been called
  stop,       \* of the caller: the stop channel is closed
  receiving,  \* of the caller: the app runs and its runner receives restarts
  source,     \* the batches to receive: whether there is a change in each
  loop,       \* the goroutine: "select", "sending", "returned"
  restarting, \* the runner is restarting the app
  batches,    \* batches reported
  changed,    \* batches with a change that the goroutine has received
  restarts,   \* restarts that the runner has received
  heard       \* a change was reported since the last restart began

ownVars == <<source, loop, restarting, batches, changed, restarts, heard>>

Init ==
  /\ source = <<>> /\ loop = "select" /\ restarting = FALSE
  /\ batches = 0 /\ changed = 0 /\ restarts = 0 /\ heard = FALSE

Count(b) == IF b THEN 1 ELSE 0

\* External: the stream reports a batch, until the goroutine stops it.
Report(change) ==
  /\ opened /\ loop # "returned"
  /\ batches < MaxBatches
  /\ batches' = batches + 1
  /\ source' = Append(source, change)
  /\ heard' = (heard \/ change)
  /\ UNCHANGED <<loop, restarting, changed, restarts>>

Receive ==
  /\ opened /\ loop = "select"
  /\ source # <<>>
  /\ source' = Tail(source)
  /\ loop' = IF Head(source) THEN "sending" ELSE "select"
  /\ changed' = changed + Count(Head(source))
  /\ UNCHANGED <<restarting, batches, restarts, heard>>

\* Mutant of Send: the restart is sent only to a runner that waits for one.
SendOrDrop ==
  /\ loop = "sending"
  /\ loop' = "select"
  /\ restarting' = receiving
  /\ restarts' = restarts + Count(receiving /\ ~restarting)
  /\ heard' = (heard /\ ~(receiving /\ ~restarting))
  /\ UNCHANGED <<source, batches, changed>>

\* `break` after it: the other changes of the batch are not looked at.
Send ==
  /\ loop = "sending"
  /\ receiving /\ ~restarting
  /\ loop' = "select"
  /\ restarting' = TRUE
  /\ restarts' = restarts + 1
  /\ heard' = FALSE
  /\ UNCHANGED <<source, batches, changed>>

RunnerRestarted ==
  /\ restarting
  /\ restarting' = FALSE
  /\ UNCHANGED <<source, loop, batches, changed, restarts, heard>>

Stop ==
  /\ loop = "select" /\ stop
  /\ loop' = "returned"
  /\ UNCHANGED <<source, restarting, batches, changed, restarts, heard>>

Next ==
  \/ \E change \in BOOLEAN : Report(change)
  \/ Receive \/ Send \/ Stop \/ RunnerRestarted

\* The goroutine is scheduled, and its select does not pass over a case that stays ready.
Fairness ==
  /\ WF_ownVars(Receive) /\ WF_ownVars(Send) /\ WF_ownVars(Stop)
  /\ WF_ownVars(RunnerRestarted)
==================================================================================
