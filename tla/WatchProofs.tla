------------------------------ MODULE WatchProofs ------------------------------
(***************************************************************************)
(* Proofs about Watch, for every set of subdirectories, queue limit and    *)
(* number of changes.  That no change is lost and that each restart has a  *)
(* change of its own are inductive once the type invariant is known; the   *)
(* second is what the refinement of WatchContract takes.                   *)
(***************************************************************************)
EXTENDS Watch, TLAPS

--------------------------------------------------------------------------------
(* The watcher's queue. *)

\* Enqueue keeps the queue within its limit and one overflow error.
LEMMA EnqueueType ==
  ASSUME TypeOK, NEW op \in Ops, Enqueue(op)
  PROVE  queue' \in Seq(Ops) /\ Len(queue') <= QueueLimit + 1
BY BoundAssumption DEF TypeOK, Enqueue, Ops

LEMMA NotifyType ==
  ASSUME TypeOK, NEW d, NEW op \in Ops, Notify(d, op)
  PROVE  /\ queue' \in Seq(Ops) /\ Len(queue') <= QueueLimit + 1
         /\ heard' \in BOOLEAN
<1>1. CASE d \in watched /\ loop = "select"
  <2>1. Enqueue(op) /\ heard' = (heard \/ (op \notin Ignored /\ Len(queue) < QueueLimit))
    BY <1>1 DEF Notify
  <2>2. heard' \in BOOLEAN
    BY <2>1
  <2>3. QED
    BY <2>1, <2>2, EnqueueType
<1>2. CASE ~(d \in watched /\ loop = "select")
  BY <1>2 DEF Notify, TypeOK
<1>3. QED
  BY <1>1, <1>2

\* It keeps what is queued, and a change it has room for is queued.
LEMMA EnqueueKeeps ==
  ASSUME TypeOK, NEW op \in Ops, Enqueue(op)
  PROVE  /\ \A i \in 1..Len(queue) : i \in 1..Len(queue') /\ queue'[i] = queue[i]
         /\ Len(queue) < QueueLimit =>
              \E i \in 1..Len(queue') : queue'[i] = op
<1>1. queue \in Seq(Ops) /\ QueueLimit \in Nat
  BY BoundAssumption DEF TypeOK
<1>2. CASE Len(queue) < QueueLimit
  <2>1. queue' = Append(queue, op)
    BY <1>2 DEF Enqueue
  <2>2. Len(queue') = Len(queue) + 1 /\ queue'[Len(queue) + 1] = op
    BY <1>1, <2>1
  <2>3. \A i \in 1..Len(queue) : i \in 1..Len(queue') /\ queue'[i] = queue[i]
    BY <1>1, <2>1
  <2>4. QED
    BY <1>1, <2>2, <2>3
<1>3. CASE ~(Len(queue) < QueueLimit)
  <2>1. queue' = Append(queue, "Overflow") \/ queue' = queue
    BY <1>3 DEF Enqueue
  <2>2. QED
    BY <1>1, <1>3, <2>1 DEF Ops
<1>4. QED
  BY <1>2, <1>3

--------------------------------------------------------------------------------
(* Type correctness. *)

\* Every state is well typed; the queue never outgrows its limit and one error.
THEOREM TypeCorrect == Spec => []TypeOK
<1>1. Init => TypeOK
  <2> SUFFICES ASSUME Init
               PROVE  TypeOK
    OBVIOUS
  <2>1. queue \in Seq(Ops) /\ Len(queue) <= QueueLimit + 1
    BY BoundAssumption DEF Init
  <2>2. changes \in 0..MaxChanges
    BY BoundAssumption DEF Init
  <2>3. QED
    BY <2>1, <2>2 DEF Init, Walked, TypeOK, Dirs
<1>2. TypeOK /\ [Next]_vars => TypeOK'
  <2> SUFFICES ASSUME TypeOK, [Next]_vars
               PROVE  TypeOK'
    OBVIOUS
  <2> USE DEF Dirs, dirVars, loopVars
  <2>0. ASSUME Change
        PROVE  changes' \in 0..MaxChanges
    BY <2>0, BoundAssumption DEF Change, TypeOK
  <2>1. ASSUME NEW d \in Dirs, Edit(d)
        PROVE  TypeOK'
    <3>1. Notify(d, "Write") /\ Change
      BY <2>1 DEF Edit
    <3>2. QED
      BY <2>0, <2>1, <3>1, NotifyType DEF Edit, TypeOK, Ops
  <2>2. ASSUME NEW d \in Dirs, Touch(d)
        PROVE  TypeOK'
    <3>1. Notify(d, "Chmod") /\ Change
      BY <2>2 DEF Touch
    <3>2. QED
      BY <2>0, <2>2, <3>1, NotifyType DEF Touch, TypeOK, Ops
  <2>3. ASSUME NEW d \in Subdirs, CreateDir(d)
        PROVE  TypeOK'
    <3>1. Notify(Root, "Create") /\ Change
      BY <2>3 DEF CreateDir
    <3>2. QED
      BY <2>0, <2>3, <3>1, NotifyType DEF CreateDir, TypeOK, Ops
  <2>4. ASSUME NEW d \in Subdirs, RemoveDir(d)
        PROVE  TypeOK'
    <3>1. Notify(Root, "Remove") /\ Change
      BY <2>4 DEF RemoveDir
    <3>2. QED
      BY <2>0, <2>4, <3>1, NotifyType DEF RemoveDir, TypeOK, Ops
  <2>5. CASE HandleEvent \/ IgnoreEvent
    <3>1. queue \in Seq(Ops) /\ queue # <<>> /\ queue' = Tail(queue)
      BY <2>5 DEF HandleEvent, IgnoreEvent, TypeOK
    <3>2. queue' \in Seq(Ops) /\ Len(queue') = Len(queue) - 1
      BY <3>1
    <3>3. Len(queue') <= QueueLimit + 1
      BY <3>1, <3>2, BoundAssumption DEF TypeOK
    <3>4. QED
      BY <2>5, <3>2, <3>3 DEF HandleEvent, IgnoreEvent, TypeOK
  <2>6. CASE TakeTime
    BY <2>6 DEF TakeTime, TypeOK
  <2>7. CASE SendRestart
    <3>1. restarts' \in Nat
      BY <2>7 DEF SendRestart, TypeOK
    <3>2. send' \in BOOLEAN /\ heard' \in BOOLEAN /\ stale' \subseteq Dirs
      BY <2>7 DEF SendRestart
    <3>3. UNCHANGED <<exists, watched, changes, queue, after, loop, handled, stop>>
          /\ runner' = "restarting"
      BY <2>7 DEF SendRestart
    <3>4. QED
      BY <3>1, <3>2, <3>3 DEF TypeOK
  <2>8. CASE StopLoop
    BY <2>8 DEF StopLoop, TypeOK
  <2>9. CASE TimerFires
    BY <2>9 DEF TimerFires, TypeOK
  <2>10. CASE Runner \/ CloseStop
    BY <2>10 DEF Runner, RunnerStarts, RunnerRestarted, RunnerEnds, CloseStop, TypeOK
  <2>11. CASE UNCHANGED vars
    BY <2>11 DEF vars, TypeOK
  <2>12. QED
    BY <2>1, <2>2, <2>3, <2>4, <2>5, <2>6, <2>7, <2>8, <2>9, <2>10, <2>11
       DEF Next, Environment, Loop
<1>3. QED
  BY <1>1, <1>2, PTL DEF Spec

--------------------------------------------------------------------------------
(* No queued change is forgotten. *)

\* The part of NoLostChange that the directory can disturb.
LEMMA NotifyKeepsChanges ==
  ASSUME TypeOK, NoLostChange, NEW d, NEW op \in Ops, Notify(d, op),
         UNCHANGED loopVars
  PROVE  NoLostChange'
<1> USE DEF loopVars
<1>1. CASE d \in watched /\ loop = "select"
  <2>1. Enqueue(op) /\ heard' = (heard \/ (op \notin Ignored /\ Len(queue) < QueueLimit))
    BY <1>1 DEF Notify
  <2>2. CASE heard
    BY <2>1, <2>2, EnqueueKeeps DEF NoLostChange
  <2>3. CASE op \notin Ignored /\ Len(queue) < QueueLimit
    BY <2>1, <2>3, EnqueueKeeps DEF NoLostChange
  <2>4. CASE ~heard /\ ~(op \notin Ignored /\ Len(queue) < QueueLimit)
    BY <2>1, <2>4 DEF NoLostChange
  <2>5. QED
    BY <2>2, <2>3, <2>4
<1>2. CASE ~(d \in watched /\ loop = "select")
  BY <1>2 DEF Notify, NoLostChange
<1>3. QED
  BY <1>1, <1>2

\* A change the watcher queued waits in the queue, the timer or the offer until a
\* restart: no interleaving of events, timer, restarts and stop loses it
\* (watch.go:37-52).
THEOREM ChangesAreKept == Spec => []NoLostChange
<1>1. Init => NoLostChange
  BY DEF Init, NoLostChange
<1>2. TypeOK /\ NoLostChange /\ [Next]_vars => NoLostChange'
  <2> SUFFICES ASSUME TypeOK, NoLostChange, [Next]_vars
               PROVE  NoLostChange'
    OBVIOUS
  <2> USE DEF dirVars, loopVars
  <2>1. ASSUME NEW d \in Dirs, Edit(d) \/ Touch(d)
        PROVE  NoLostChange'
    BY <2>1, NotifyKeepsChanges DEF Edit, Touch, Ops
  <2>2. ASSUME NEW d \in Subdirs, CreateDir(d) \/ RemoveDir(d)
        PROVE  NoLostChange'
    BY <2>2, NotifyKeepsChanges DEF CreateDir, RemoveDir, Ops
  <2>3. CASE HandleEvent
    BY <2>3 DEF HandleEvent, NoLostChange
  <2>4. CASE IgnoreEvent
    <3>1. /\ queue \in Seq(Ops) /\ queue # <<>> /\ queue' = Tail(queue)
          /\ queue[1] \in Ignored
      BY <2>4 DEF IgnoreEvent, TypeOK
    <3>2. ASSUME NEW i \in 1..Len(queue), queue[i] \notin Ignored
          PROVE  i - 1 \in 1..Len(queue') /\ queue'[i - 1] = queue[i]
      BY <3>1, <3>2
    <3>3. UNCHANGED <<heard, loopVars>>
      BY <2>4 DEF IgnoreEvent
    <3>4. QED
      BY <3>2, <3>3 DEF NoLostChange
  <2>5. CASE TakeTime \/ SendRestart \/ StopLoop \/ TimerFires
    BY <2>5 DEF TakeTime, SendRestart, StopLoop, TimerFires, NoLostChange
  <2>6. CASE Runner \/ CloseStop
    BY <2>6 DEF Runner, RunnerStarts, RunnerRestarted, RunnerEnds, CloseStop,
         NoLostChange
  <2>7. CASE UNCHANGED vars
    BY <2>7 DEF vars, NoLostChange
  <2>8. QED
    BY <2>1, <2>2, <2>3, <2>4, <2>5, <2>6, <2>7 DEF Next, Environment, Loop
<1>3. QED
  BY <1>1, <1>2, TypeCorrect, PTL DEF Spec

--------------------------------------------------------------------------------
(* No restart without a change. *)

Count(b) == IF b THEN 1 ELSE 0

\* Each restart is owed to a change of its own: one change never restarts the
\* app twice, and changes of permissions never do.
RestartsAreEarned ==
  restarts + Count(send) + Count(after # "idle") <= handled

\* A change restarts the app at most once, and an event that is not a change never
\* does: the timer and the offer are each spent before the restart counts.
THEOREM RestartsHaveCauses == Spec => []RestartsAreEarned
<1>1. Init => RestartsAreEarned
  BY DEF Init, RestartsAreEarned, Count
<1>2. TypeOK /\ RestartsAreEarned /\ [Next]_vars => RestartsAreEarned'
  <2> SUFFICES ASSUME TypeOK, RestartsAreEarned, [Next]_vars
               PROVE  RestartsAreEarned'
    OBVIOUS
  <2> USE DEF RestartsAreEarned, Count, TypeOK, dirVars, loopVars
  <2>1. CASE Environment
    BY <2>1 DEF Environment, Edit, Touch, CreateDir, RemoveDir
  <2>2. CASE HandleEvent
    BY <2>2 DEF HandleEvent
  <2>3. CASE TakeTime
    BY <2>3 DEF TakeTime
  <2>4. CASE SendRestart
    BY <2>4 DEF SendRestart
  <2>5. CASE IgnoreEvent \/ StopLoop \/ TimerFires
    BY <2>5 DEF IgnoreEvent, StopLoop, TimerFires
  <2>6. CASE Runner \/ CloseStop
    BY <2>6 DEF Runner, RunnerStarts, RunnerRestarted, RunnerEnds, CloseStop
  <2>7. CASE UNCHANGED vars
    BY <2>7 DEF vars
  <2>8. QED
    BY <2>1, <2>2, <2>3, <2>4, <2>5, <2>6, <2>7 DEF Next, Loop
<1>3. QED
  BY <1>1, <1>2, TypeCorrect, PTL DEF Spec

--------------------------------------------------------------------------------
(* The watcher implements WatchContract. *)

\* An event is noted, whatever timer or offer there is; the offer taken settles what is
\* owed but for a timer set since.
LEMMA StepRefines ==
  TypeOK /\ RestartsAreEarned /\ [Next]_vars => [Contract!Next]_(Contract!vars)
<1> SUFFICES ASSUME TypeOK, RestartsAreEarned, [Next]_vars
             PROVE  [Contract!Next]_(Contract!vars)
  OBVIOUS
<1> USE DEF Contract!Next, Contract!vars, dirVars, loopVars
<1>1. CASE Environment
  BY <1>1 DEF Environment, Edit, Touch, CreateDir, RemoveDir
<1>2. CASE HandleEvent
  BY <1>2 DEF HandleEvent, Contract!Note
<1>3. CASE TakeTime \/ IgnoreEvent \/ TimerFires
  BY <1>3 DEF TakeTime, IgnoreEvent, TimerFires
<1>4. CASE SendRestart
  <2>1. /\ loop = "select" /\ send /\ ~send'
        /\ restarts' = restarts + 1
        /\ UNCHANGED <<after, loop, handled>>
    BY <1>4 DEF SendRestart
  <2>2. restarts' + Contract!Count((after # "idle" \/ send)') <= handled
    BY <2>1 DEF RestartsAreEarned, Count, Contract!Count, TypeOK
  <2>3. QED
    BY <2>1, <2>2 DEF Contract!Restart
<1>5. CASE StopLoop
  BY <1>5 DEF StopLoop, Contract!End
<1>6. CASE Runner \/ CloseStop
  BY <1>6 DEF Runner, RunnerStarts, RunnerRestarted, RunnerEnds, CloseStop
<1>7. CASE UNCHANGED vars
  BY <1>7 DEF vars
<1>8. QED
  BY <1>1, <1>2, <1>3, <1>4, <1>5, <1>6, <1>7 DEF Next, Loop

\* FS.Watch of watch.go keeps its promise to run.go: no event, timer, restart or stop, in
\* whatever order, settles what is owed but a restart, and none comes without a change.
THEOREM WatcherKeepsContract == Spec => KeepsWatchContract
<1>1. Init => Contract!Init
  BY DEF Init, Contract!Init
<1>2. QED
  BY <1>1, StepRefines, TypeCorrect, RestartsHaveCauses, PTL
     DEF Spec, KeepsWatchContract, Contract!Spec
================================================================================
