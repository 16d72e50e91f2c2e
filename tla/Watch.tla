--------------------------------- MODULE Watch ---------------------------------
(***************************************************************************)
(* FS.Watch (fs/watch.go), which `cf local run -d <dir> -w` uses to        *)
(* restart the app when its directory changes.                             *)
(*                                                                         *)
(* A goroutine selects over the events of an fsnotify watcher, a debounce  *)
(* timer that every event re-arms, the channel on which it asks for a      *)
(* restart, and a stop channel.  Watch puts the watcher on the directories *)
(* that exist when it is called.  The file system, the watcher's event     *)
(* queue and the container runner that receives the restarts are external. *)
(***************************************************************************)
EXTENDS Naturals, Sequences

CONSTANTS
  Root,        \* the directory being watched
  Subdirs,     \* directories that may exist in it
  QueueLimit,  \* events the kernel queues before it drops them
  MaxChanges,  \* bound on the changes made to the directory
  AddMayFail   \* the watcher may refuse a directory, as when it has no watch left

ASSUME RootAssumption == Root \notin Subdirs
ASSUME AddAssumption == AddMayFail \in BOOLEAN
ASSUME BoundAssumption == QueueLimit \in Nat \ {0} /\ MaxChanges \in Nat

VARIABLES
  exists,    \* the subdirectories there are
  watched,   \* the directories the watcher is on
  queue,     \* operations the watcher has still to deliver to the loop
  after,     \* the debounce timer: "idle", "armed", "fired"
  send,      \* the loop offers a restart (send = out)
  loop,      \* the goroutine: "select" or "returned"
  stop,      \* the stop channel is closed
  runner,    \* who receives: "starting", "running", "restarting", "gone"
  stale,     \* directories whose content the running app has not started with
  heard,     \* a change was queued since the last restart began
  handled,   \* events that re-armed the timer
  restarts,  \* restarts received by the runner
  changes    \* changes made so far

dirVars  == <<exists, watched, stale, heard, changes>>
loopVars == <<after, send, loop, handled, restarts>>
vars == <<dirVars, queue, loopVars, stop, runner>>

Dirs == {Root} \cup Subdirs
Ops  == {"Create", "Write", "Remove", "Chmod", "Overflow"}

TypeOK ==
  /\ exists \subseteq Subdirs
  /\ watched \subseteq Dirs
  /\ queue \in Seq(Ops) /\ Len(queue) <= QueueLimit + 1
  /\ after \in {"idle", "armed", "fired"}
  /\ send \in BOOLEAN
  /\ loop \in {"select", "returned"}
  /\ stop \in BOOLEAN
  /\ runner \in {"starting", "running", "restarting", "gone"}
  /\ stale \subseteq Dirs
  /\ heard \in BOOLEAN
  /\ handled \in Nat /\ restarts \in Nat
  /\ changes \in 0..MaxChanges

\* Mutant of Walked: plain files are added like directories.
WalkedAll == {Root} \cup exists \cup {"file"}

\* What filepath.Walk visits and the callback does not pass over.
Walked == {Root} \cup exists

\* Errors of Add are ignored.
Init ==
  /\ exists \in SUBSET Subdirs
  /\ watched \in SUBSET Walked
  /\ AddMayFail \/ watched = Walked
  /\ queue = <<>>
  /\ after = "idle" /\ send = FALSE /\ loop = "select"
  /\ stop = FALSE /\ runner = "starting"
  /\ stale = {} /\ heard = FALSE
  /\ handled = 0 /\ restarts = 0 /\ changes = 0

--------------------------------------------------------------------------------
(* External: the directory and the watcher's queue. *)

\* The operations that are not content changes to the loop.
Ignored == {"Chmod", "Overflow"}

\* A full queue drops the event and ends in one overflow error.
Enqueue(op) ==
  queue' = IF Len(queue) < QueueLimit THEN Append(queue, op)
           ELSE IF Len(queue) = QueueLimit THEN Append(queue, "Overflow")
           ELSE queue

\* An operation on directory d makes an event only where the watcher is.
Notify(d, op) ==
  IF d \in watched /\ loop = "select"
  THEN /\ Enqueue(op)
       /\ heard' = (heard \/ (op \notin Ignored /\ Len(queue) < QueueLimit))
  ELSE UNCHANGED <<queue, heard>>

Change ==
  /\ changes < MaxChanges
  /\ changes' = changes + 1

Edit(d) ==
  /\ d \in exists \cup {Root}
  /\ Change
  /\ Notify(d, "Write")
  /\ stale' = stale \cup {d}
  /\ UNCHANGED <<exists, watched, loopVars, stop, runner>>

\* Permissions and times only.
Touch(d) ==
  /\ d \in exists \cup {Root}
  /\ Change
  /\ Notify(d, "Chmod")
  /\ UNCHANGED <<exists, watched, stale, loopVars, stop, runner>>

CreateDir(d) ==
  /\ d \in Subdirs \ exists
  /\ Change
  /\ Notify(Root, "Create")
  /\ exists' = exists \cup {d}
  /\ stale' = stale \cup {Root}
  /\ UNCHANGED <<watched, loopVars, stop, runner>>

\* A watch ends with its directory.
RemoveDir(d) ==
  /\ d \in exists
  /\ Change
  /\ Notify(Root, "Remove")
  /\ exists' = exists \ {d}
  /\ watched' = watched \ {d}
  /\ stale' = stale \cup {Root}
  /\ UNCHANGED <<loopVars, stop, runner>>

--------------------------------------------------------------------------------
(* The goroutine: the cases of its select. *)

\* Mutant of HandleEvent: a timer is made for the first event only.
HandleFirstEvent ==
  /\ loop = "select"
  /\ queue # <<>> /\ Head(queue) \notin Ignored
  /\ queue' = Tail(queue)
  /\ after' = IF handled = 0 THEN "armed" ELSE after
  /\ handled' = handled + 1
  /\ UNCHANGED <<dirVars, send, loop, restarts, stop, runner>>

\* An event other than Chmod re-arms the timer; its channel is a new one, so
\* that a time already fired is dropped.
HandleEvent ==
  /\ loop = "select"
  /\ queue # <<>> /\ Head(queue) \notin Ignored
  /\ queue' = Tail(queue)
  /\ after' = "armed"
  /\ handled' = handled + 1
  /\ UNCHANGED <<dirVars, send, loop, restarts, stop, runner>>

\* Chmod events and the watcher's errors are received and forgotten.
IgnoreEvent ==
  /\ loop = "select"
  /\ queue # <<>> /\ Head(queue) \in Ignored
  /\ queue' = Tail(queue)
  /\ UNCHANGED <<dirVars, loopVars, stop, runner>>

\* time.After, in the runtime.
TimerFires ==
  /\ after = "armed"
  /\ after' = "fired"
  /\ UNCHANGED <<dirVars, queue, send, loop, handled, restarts, stop, runner>>

\* Mutant of TakeTime: a send that does not wait for the runner.
TakeTimeOrDrop ==
  /\ loop = "select"
  /\ after = "fired"
  /\ after' = "idle"
  /\ send' = (runner = "running")
  /\ UNCHANGED <<dirVars, queue, loop, handled, restarts, stop, runner>>

TakeTime ==
  /\ loop = "select"
  /\ after = "fired"
  /\ after' = "idle"
  /\ send' = TRUE
  /\ UNCHANGED <<dirVars, queue, loop, handled, restarts, stop, runner>>

\* Mutant of SendRestart: the offer is not withdrawn once taken.
SendRestartRepeats ==
  /\ loop = "select"
  /\ send
  /\ runner = "running"
  /\ restarts' = restarts + 1
  /\ runner' = "restarting"
  /\ stale' = {}
  /\ heard' = FALSE
  /\ UNCHANGED <<exists, watched, changes, queue, after, send, loop, handled, stop>>

\* A rendezvous with the runner, which restarts the app on the directory as it is.
SendRestart ==
  /\ loop = "select"
  /\ send
  /\ runner = "running"
  /\ send' = FALSE
  /\ restarts' = restarts + 1
  /\ runner' = "restarting"
  /\ stale' = {}
  /\ heard' = FALSE
  /\ UNCHANGED <<exists, watched, changes, queue, after, loop, handled, stop>>

\* Mutant of StopLoop: the restart is sent outside the select.
StopUnlessSending ==
  /\ loop = "select"
  /\ stop
  /\ ~send
  /\ loop' = "returned"
  /\ UNCHANGED <<dirVars, queue, after, send, handled, restarts, stop, runner>>

StopLoop ==
  /\ loop = "select"
  /\ stop
  /\ loop' = "returned"
  /\ UNCHANGED <<dirVars, queue, after, send, handled, restarts, stop, runner>>

--------------------------------------------------------------------------------
(* External: the runner; and Run's deferred close of the stop channel. *)

\* The app starts on the directory as it is.
RunnerStarts ==
  /\ runner = "starting"
  /\ runner' = "running"
  /\ stale' = {}
  /\ UNCHANGED <<exists, watched, heard, changes, queue, loopVars, stop>>

RunnerRestarted ==
  /\ runner = "restarting"
  /\ runner' = "running"
  /\ UNCHANGED <<dirVars, queue, loopVars, stop>>

\* The app ended, the user interrupted it, or Run failed before it started.
RunnerEnds ==
  /\ runner # "gone"
  /\ runner' = "gone"
  /\ UNCHANGED <<dirVars, queue, loopVars, stop>>

CloseStop ==
  /\ runner = "gone"
  /\ ~stop
  /\ stop' = TRUE
  /\ UNCHANGED <<dirVars, queue, loopVars, runner>>

--------------------------------------------------------------------------------

Environment ==
  \/ \E d \in Dirs : Edit(d) \/ Touch(d)
  \/ \E d \in Subdirs : CreateDir(d) \/ RemoveDir(d)

Loop == HandleEvent \/ IgnoreEvent \/ TakeTime \/ SendRestart \/ StopLoop

Runner == RunnerStarts \/ RunnerRestarted \/ RunnerEnds

Next == Environment \/ Loop \/ TimerFires \/ Runner \/ CloseStop

Spec == Init /\ [][Next]_vars

\* select chooses at random among the cases that are ready, so that none that
\* stays ready is passed over for ever.  The runner may run for ever.
Fairness ==
  /\ WF_vars(HandleEvent \/ IgnoreEvent)
  /\ WF_vars(TimerFires) /\ WF_vars(TakeTime)
  /\ WF_vars(SendRestart) /\ WF_vars(StopLoop)
  /\ WF_vars(RunnerStarts) /\ WF_vars(RunnerRestarted) /\ WF_vars(CloseStop)

FairSpec == Spec /\ Fairness

--------------------------------------------------------------------------------
(* Properties *)

\* A change the watcher queued is never forgotten: until a restart that began
\* after it, it is in the queue, in the timer or in the offer to the runner,
\* whatever events, timers and restarts overlap.
NoLostChange ==
  heard => \/ \E i \in 1..Len(queue) : queue[i] \notin Ignored
           \/ after # "idle"
           \/ send
           \/ loop = "returned"

\* The watcher keeps the promise that its caller relies on: from an event on, through
\* timer and offer, a restart is owed, and only a restart settles it.
Contract == INSTANCE WatchContract WITH
  noted <- handled,
  owing <- (after # "idle" \/ send),
  ended <- (loop = "returned")

KeepsWatchContract == Contract!Spec

\* Once the directory is quiet, a change that was queued restarts the app, or the
\* app is over.
QueuedChangeRestarts == heard ~> ~heard \/ runner = "gone"

\* Closing the stop channel ends the goroutine, even while it offers a restart
\* that nobody will receive.
StopEndsLoop == stop ~> loop = "returned"

\* What the help of -w promises: the app is restarted when the contents of the
\* directory are changed.
EveryChangeRestarts == stale # {} ~> stale = {} \/ runner = "gone"
================================================================================
