------------------------------- MODULE RunOnDarwin -------------------------------
(***************************************************************************)
(* `cf local run` on macOS: RunCommand and the watcher WatchDarwin that it *)
(* opens for -w, in one state space.  The watcher's goroutine may be stuck *)
(* in a send that nobody will receive when the command stops it.  A run on *)
(* another system has the same steps of RunCommand.                        *)
(***************************************************************************)
EXTENDS RunCommand

CONSTANT MaxBatches

ASSUME MaxBatchesAssumption == MaxBatches \in Nat

VARIABLES source, loop, restarting, batches, changed, restarts, heard

watcherVars == <<source, loop, restarting, batches, changed, restarts, heard>>

\* The runner receives while Runner.Run has not returned; `defer close(done)` stops the
\* watcher.
Watcher == INSTANCE WatchDarwin WITH
  opened    <- (watch # "none"),
  stop      <- (watch = "closed"),
  receiving <- (pc = "Run")

allVars == <<vars, watcherVars>>

RunOrWatch ==
  \/ Next /\ UNCHANGED watcherVars
  \/ Watcher!Next /\ UNCHANGED vars

DarwinInit == Init /\ Watcher!Init

DarwinSpec ==
  /\ DarwinInit
  /\ [][RunOrWatch]_allVars
  /\ Fairness /\ Watcher!Fairness

---------------------------------------------------------------------------------
(* Properties *)

\* A batch of changes that the goroutine received is answered by one restart, however
\* many changes are in it and whatever the runner is at; and a change that was reported
\* restarts the app, unless the command ends first.
ChangeRestartsOnce ==
  /\ [](restarts + Watcher!Count(loop = "sending") = changed)
  /\ heard ~> ~heard \/ pc \in {"Unwind", "Returned"}

\* The watcher of macOS keeps the same promise as that of other systems.
Contract == INSTANCE WatchContract WITH
  noted <- changed,
  owing <- (loop = "sending"),
  ended <- (loop = "returned")

DarwinKeepsWatchContract == Contract!Spec
==================================================================================
