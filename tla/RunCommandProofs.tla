---------------------------- MODULE RunCommandProofs ----------------------------
(***************************************************************************)
(* Proofs about RunCommand.  The invariant says that the deferred calls    *)
(* are exactly the releases of what the command holds, each once and the   *)
(* tunnel's after the waiter's, and what is held at each step.  Composed   *)
(* with the watcher of macOS the command has the same behaviours.          *)
(***************************************************************************)
EXTENDS RunOnDarwin, SequenceTheorems, TLAPS

\* What the command holds and has still to release.
HeldNow ==
  {r \in Resources :
     \/ r = "watch"   /\ watch = "open"
     \/ r = "droplet" /\ droplet = "open"
     \/ r = "waiter"  /\ waiter # "none" /\ ~waiterStop
     \/ r = "tunnel"  /\ tunnel = "open"}

Deferred == 1..Len(defers)

\* What is held is deferred, what is deferred is held, and no call is there twice.
DefersInv ==
  /\ \A r \in HeldNow : \E i \in Deferred : defers[i] = r
  /\ \A i \in Deferred : defers[i] \in HeldNow
  /\ \A i, j \in Deferred : defers[i] = defers[j] => i = j
  /\ \A i, j \in Deferred : defers[i] = "waiter" /\ defers[j] = "tunnel" => i < j

\* What the command has acquired at each step.
HeldInv ==
  /\ pc \in {"Options", "Dir"} => Len(defers) = 0
  /\ pc \in {"Flags", "Load", "Droplet"} => Len(defers) <= 1
  /\ pc \in {"Services", "PullNet"} => Len(defers) <= 2
  /\ pc = "Forward" => Len(defers) <= 3
  /\ pc \in {"Options", "Dir"} => watch = "none"
  /\ pc \in {"Options", "Dir", "Flags", "Load", "Droplet"} => droplet = "none"
  /\ pc \in {"Options", "Dir", "Flags", "Load", "Droplet", "Services", "PullNet"} =>
       waiter = "none" /\ ~waiterStop
  /\ pc \notin {"Health", "PullRun", "Run", "Unwind", "Returned"} =>
       tunnel = "none" /\ ~inTunnel
  /\ pc \in {"Flags", "Load", "Droplet", "Services", "PullNet", "Forward", "Health",
             "PullRun", "Run"} =>
       (opts.watch => watch = "open" /\ opts.dir)
  /\ pc \in {"Load", "Droplet", "Services", "PullNet", "Forward", "Health",
             "PullRun", "Run"} => ~(opts.watch /\ opts.term)
  /\ pc \in {"Services", "PullNet", "Forward", "Health", "PullRun", "Run"} =>
       droplet = "open"
  /\ pc \in {"PullNet", "Forward", "Health"} => details /\ ~inTunnel
  /\ pc = "Forward" => waiter # "none" /\ ~waiterStop
  /\ pc = "Health" => tunnel = "open"
  /\ pc \in {"PullRun", "Run"} =>
       /\ details <=> inTunnel
       /\ inTunnel => tunnel = "open"
  /\ details => opts.forward
  /\ pc = "Returned" => defers = <<>>

\* The tunnel, and whatever it asks of the waiter, come before the waiter's end.
WaiterInv ==
  /\ tunnel = "open" => waiter # "none" /\ ~waiterStop
  /\ asking => tunnel = "open" \/ pc = "Forward"
  /\ waiter = "returned" => waiterStop

IInv == TypeOK /\ DefersInv /\ HeldInv /\ WaiterInv
---------------------------------------------------------------------------------
(* The deferred calls. *)

\* A sequence without its last element.
LEMMA FrontProperties ==
  ASSUME NEW S, NEW s \in Seq(S), Len(s) # 0
  PROVE  /\ SubSeq(s, 1, Len(s) - 1) \in Seq(S)
         /\ Len(SubSeq(s, 1, Len(s) - 1)) = Len(s) - 1
         /\ \A i \in 1..(Len(s) - 1) : SubSeq(s, 1, Len(s) - 1)[i] = s[i]
<1>1. PICK n \in Nat : n = Len(s) - 1
  OBVIOUS
<1>2. \A i \in 1..n : s[i] \in S
  BY <1>1
<1>3. /\ SubSeq(s, 1, n) \in Seq(S)
      /\ Len(SubSeq(s, 1, n)) = IF 1 <= n THEN n - 1 + 1 ELSE 0
      /\ \A i \in 1..(n - 1 + 1) : SubSeq(s, 1, n)[i] = s[1 + i - 1]
  BY <1>2, SubSeqProperties
<1>4. Len(SubSeq(s, 1, n)) = n
  BY <1>3
<1>5. \A i \in 1..n : SubSeq(s, 1, n)[i] = s[i]
  BY <1>3
<1>6. QED
  BY <1>1, <1>3, <1>4, <1>5

\* Acquiring a resource and deferring its release; a waiter before its tunnel.
LEMMA DeferKeeps ==
  ASSUME defers \in Seq(Resources), DefersInv,
         NEW r \in Resources, r \notin HeldNow, Defer(r),
         HeldNow' = HeldNow \cup {r},
         r = "waiter" => "tunnel" \notin HeldNow
  PROVE  /\ DefersInv'
         /\ defers' \in Seq(Resources) /\ Len(defers') = Len(defers) + 1
<1>1. /\ defers' \in Seq(Resources) /\ Len(defers') = Len(defers) + 1
      /\ defers'[Len(defers) + 1] = r
      /\ \A i \in Deferred : defers'[i] = defers[i]
  BY DEF Defer, Deferred
<1>2. Deferred' = Deferred \cup {Len(defers) + 1} /\ Len(defers) \in Nat
  BY <1>1 DEF Deferred
<1>3. \A i \in Deferred : defers[i] \in HeldNow /\ defers[i] # r /\ i < Len(defers) + 1
  BY DEF DefersInv, Deferred
<1>4. \A q \in HeldNow' : \E i \in Deferred' : defers'[i] = q
  BY <1>1, <1>2 DEF DefersInv
<1>5. \A i \in Deferred' : defers'[i] \in HeldNow'
  BY <1>1, <1>2, <1>3
<1>6. \A i, j \in Deferred' : defers'[i] = defers'[j] => i = j
  BY <1>1, <1>2, <1>3 DEF DefersInv
<1>7. \A i, j \in Deferred' : defers'[i] = "waiter" /\ defers'[j] = "tunnel" => i < j
  BY <1>1, <1>2, <1>3 DEF DefersInv
<1>8. DefersInv'
  BY <1>4, <1>5, <1>6, <1>7 DEF DefersInv
<1>9. QED
  BY <1>1, <1>8

\* Steps that neither acquire nor release.
LEMMA SameKeeps ==
  ASSUME DefersInv, UNCHANGED <<defers, HeldNow>>
  PROVE  DefersInv'
BY DEF DefersInv, Deferred

\* Running the last deferred call: the resource it releases was held, and is the
\* only one that is no longer; the waiter is not released before the tunnel.
LEMMA ReleaseKeeps ==
  ASSUME TypeOK, DefersInv, RunDeferred
  PROVE  /\ DefersInv'
         /\ defers' \in Seq(Resources) /\ Len(defers') = Len(defers) - 1
         /\ tunnel' = "open" => tunnel = "open" /\ (waiterStop' <=> waiterStop)
<1> DEFINE n == Len(defers)
           r == defers[n]
<1>1. defers \in Seq(Resources) /\ n \in Nat /\ n # 0
  BY DEF TypeOK, RunDeferred
<1>2. Deferred = 1..n /\ n \in Deferred /\ r \in Resources
  BY <1>1 DEF Deferred
<1>3. defers' = SubSeq(defers, 1, n - 1)
  BY DEF RunDeferred
<1>4. /\ defers' \in Seq(Resources) /\ Len(defers') = n - 1
      /\ \A i \in 1..(n - 1) : defers'[i] = defers[i]
  BY <1>1, <1>3, FrontProperties
<1>5. Deferred' = 1..(n - 1)
  BY <1>4 DEF Deferred
<1>6. /\ watch' = (IF r = "watch" THEN "closed" ELSE watch)
      /\ droplet' = (IF r = "droplet" THEN "closed" ELSE droplet)
      /\ tunnel' = (IF r = "tunnel" THEN "closed" ELSE tunnel)
      /\ r = "waiter" => waiterStop'
      /\ r # "waiter" => (waiterStop' <=> waiterStop)
      /\ waiter' = waiter
  BY DEF RunDeferred, Release
<1>7. HeldNow' = HeldNow \ {r}
  <2> HIDE DEF r, n
  <2>1. QED
    BY <1>2, <1>6 DEF HeldNow, Resources
<1>8. \A i \in 1..(n - 1) : i \in Deferred /\ defers[i] \in HeldNow /\ defers[i] # r
  BY <1>1, <1>2 DEF DefersInv
<1>9. DefersInv'
  <2>1. \A q \in HeldNow' : \E i \in Deferred' : defers'[i] = q
    <3> SUFFICES ASSUME NEW q \in HeldNow'
                 PROVE  \E i \in Deferred' : defers'[i] = q
      OBVIOUS
    <3>1. PICK i \in Deferred : defers[i] = q
      BY <1>7 DEF DefersInv
    <3>2. i \in 1..(n - 1)
      BY <1>1, <1>2, <1>7, <3>1
    <3>3. QED
      BY <1>4, <1>5, <3>1, <3>2
  <2>2. \A i \in Deferred' : defers'[i] \in HeldNow'
    BY <1>4, <1>5, <1>7, <1>8
  <2>3. \A i \in Deferred' : i \in Deferred /\ defers'[i] = defers[i]
    BY <1>4, <1>5, <1>8
  <2>4. /\ \A i, j \in Deferred' : defers'[i] = defers'[j] => i = j
        /\ \A i, j \in Deferred' : defers'[i] = "waiter" /\ defers'[j] = "tunnel" => i < j
    BY <2>3 DEF DefersInv
  <2>5. QED
    BY <2>1, <2>2, <2>4 DEF DefersInv
<1>10. ASSUME tunnel' = "open"
       PROVE  tunnel = "open" /\ (waiterStop' <=> waiterStop)
  <2>1. tunnel = "open" /\ "tunnel" \in HeldNow
    BY <1>6, <1>10 DEF HeldNow, Resources
  <2>2. PICK j \in Deferred : defers[j] = "tunnel"
    BY <2>1 DEF DefersInv
  <2>3. r # "waiter"
    BY <1>1, <1>2, <2>2 DEF DefersInv
  <2>4. QED
    BY <1>6, <2>1, <2>3
<1>11. QED
  BY <1>4, <1>9, <1>10

---------------------------------------------------------------------------------
(* The invariant holds initially and every action preserves it. *)

LEMMA InitIInv == Init => IInv
<1> SUFFICES ASSUME Init
             PROVE  IInv
  OBVIOUS
<1>1. defers \in Seq(Resources) /\ Len(defers) = 0 /\ Deferred = {}
  BY DEF Init, Deferred
<1>2. TypeOK
  <2>1. /\ pc = "Options" /\ opts \in Options /\ details = FALSE /\ failed = FALSE
        /\ watch = "none" /\ droplet = "none" /\ tunnel = "none" /\ asking = FALSE
        /\ waiter = "none" /\ waiterStop = FALSE
        /\ timer = "none" /\ inTunnel = FALSE /\ exit = FALSE
    BY DEF Init
  <2>2. details \in BOOLEAN /\ failed \in BOOLEAN /\ asking \in BOOLEAN /\ waiterStop \in BOOLEAN
        /\ inTunnel \in BOOLEAN /\ exit \in BOOLEAN
    BY <2>1
  <2>3. pc \in Steps
    BY <2>1 DEF Steps
  <2>4. Len(defers) <= 4
    BY <1>1
  <2>5. QED
    BY <1>1, <2>1, <2>2, <2>3, <2>4 DEF TypeOK
<1>3. HeldNow = {}
  BY DEF Init, HeldNow, Resources
<1>4. DefersInv
  BY <1>1, <1>3 DEF DefersInv
<1>5. HeldInv /\ WaiterInv
  BY <1>1 DEF Init, HeldInv, WaiterInv
<1>6. QED
  BY <1>2, <1>4, <1>5 DEF IInv

LEMMA NextIInv == IInv /\ [Next]_vars => IInv'
<1> SUFFICES ASSUME IInv, [Next]_vars
             PROVE  IInv'
  OBVIOUS
<1>0. /\ TypeOK /\ DefersInv /\ HeldInv /\ WaiterInv
      /\ defers \in Seq(Resources) /\ Len(defers) \in Nat
  BY DEF IInv, TypeOK
<1> USE DEF held, tunnelVars, waiterVars
<1>1. CASE StepFails
  <2>1. UNCHANGED <<defers, HeldNow>>
    BY <1>0, <1>1 DEF StepFails, ReturnError, HeldNow, WaiterInv
  <2>2. DefersInv'
    BY <1>0, <2>1, SameKeeps
  <2>3. TypeOK'
    BY <1>0, <1>1 DEF StepFails, ReturnError, TypeOK, Steps
  <2>4. HeldInv' /\ WaiterInv'
    BY <1>0, <1>1 DEF StepFails, ReturnError, HeldInv, WaiterInv, TypeOK, Steps
  <2>5. QED
    BY <2>2, <2>3, <2>4 DEF IInv
<1>2. CASE ParseOptions
  <2>1. UNCHANGED <<defers, HeldNow>>
    BY <1>0, <1>2 DEF ParseOptions, HeldNow, WaiterInv
  <2>2. DefersInv'
    BY <1>0, <2>1, SameKeeps
  <2>3. TypeOK'
    BY <1>0, <1>2 DEF ParseOptions, TypeOK, Steps
  <2>4. HeldInv' /\ WaiterInv'
    BY <1>0, <1>2 DEF ParseOptions, HeldInv, WaiterInv, TypeOK, Steps
  <2>5. QED
    BY <2>2, <2>3, <2>4 DEF IInv
<1>3. CASE SkipWatch
  <2>1. UNCHANGED <<defers, HeldNow>>
    BY <1>0, <1>3 DEF SkipWatch, HeldNow, WaiterInv
  <2>2. DefersInv'
    BY <1>0, <2>1, SameKeeps
  <2>3. TypeOK'
    BY <1>0, <1>3 DEF SkipWatch, TypeOK, Steps
  <2>4. HeldInv' /\ WaiterInv'
    BY <1>0, <1>3 DEF SkipWatch, HeldInv, WaiterInv, TypeOK, Steps
  <2>5. QED
    BY <2>2, <2>3, <2>4 DEF IInv
<1>4. CASE WatchNeedsDir
  <2>1. UNCHANGED <<defers, HeldNow>>
    BY <1>0, <1>4 DEF WatchNeedsDir, ReturnError, HeldNow, WaiterInv
  <2>2. DefersInv'
    BY <1>0, <2>1, SameKeeps
  <2>3. TypeOK'
    BY <1>0, <1>4 DEF WatchNeedsDir, ReturnError, TypeOK, Steps
  <2>4. HeldInv' /\ WaiterInv'
    BY <1>0, <1>4 DEF WatchNeedsDir, ReturnError, HeldInv, WaiterInv, TypeOK, Steps
  <2>5. QED
    BY <2>2, <2>3, <2>4 DEF IInv
<1>5. CASE CheckFlags
  <2>1. UNCHANGED <<defers, HeldNow>>
    BY <1>0, <1>5 DEF CheckFlags, ReturnError, HeldNow, WaiterInv
  <2>2. DefersInv'
    BY <1>0, <2>1, SameKeeps
  <2>3. TypeOK'
    <3>1. CASE opts.watch /\ opts.term
      <4>1. ReturnError /\ UNCHANGED held
        BY <1>5, <3>1 DEF CheckFlags
      <4>2. QED
        BY <1>0, <4>1 DEF ReturnError, TypeOK, Steps
    <3>2. CASE ~(opts.watch /\ opts.term)
      <4>1. pc' = "Load" /\ UNCHANGED <<opts, details, defers, failed, held, timer, inTunnel, exit>>
        BY <1>5, <3>2 DEF CheckFlags
      <4>2. QED
        BY <1>0, <4>1 DEF TypeOK, Steps
    <3>3. QED
      BY <3>1, <3>2
  <2>4. HeldInv' /\ WaiterInv'
    BY <1>0, <1>5 DEF CheckFlags, ReturnError, HeldInv, WaiterInv, TypeOK, Steps
  <2>5. QED
    BY <2>2, <2>3, <2>4 DEF IInv
<1>6. CASE LoadConfig
  <2>1. UNCHANGED <<defers, HeldNow>>
    BY <1>0, <1>6 DEF LoadConfig, HeldNow, WaiterInv
  <2>2. DefersInv'
    BY <1>0, <2>1, SameKeeps
  <2>3. TypeOK'
    BY <1>0, <1>6 DEF LoadConfig, TypeOK, Steps
  <2>4. HeldInv' /\ WaiterInv'
    BY <1>0, <1>6 DEF LoadConfig, HeldInv, WaiterInv, TypeOK, Steps
  <2>5. QED
    BY <2>2, <2>3, <2>4 DEF IInv
<1>7. CASE GetServices
  <2>1. UNCHANGED <<defers, HeldNow>>
    BY <1>0, <1>7 DEF GetServices, HeldNow, WaiterInv
  <2>2. DefersInv'
    BY <1>0, <2>1, SameKeeps
  <2>3. TypeOK'
    BY <1>0, <1>7 DEF GetServices, TypeOK, Steps
  <2>4. HeldInv' /\ WaiterInv'
    BY <1>0, <1>7 DEF GetServices, HeldInv, WaiterInv, TypeOK, Steps
  <2>5. QED
    BY <2>2, <2>3, <2>4 DEF IInv
<1>8. CASE TunnelHealthy
  <2>1. UNCHANGED <<defers, HeldNow>>
    BY <1>0, <1>8 DEF TunnelHealthy, HeldNow, WaiterInv
  <2>2. DefersInv'
    BY <1>0, <2>1, SameKeeps
  <2>3. TypeOK'
    BY <1>0, <1>8 DEF TunnelHealthy, TypeOK, Steps
  <2>4. HeldInv' /\ WaiterInv'
    BY <1>0, <1>8 DEF TunnelHealthy, HeldInv, WaiterInv, TypeOK, Steps
  <2>5. QED
    BY <2>2, <2>3, <2>4 DEF IInv
<1>9. CASE TunnelTimeout
  <2>1. UNCHANGED <<defers, HeldNow>>
    BY <1>0, <1>9 DEF TunnelTimeout, ReturnError, HeldNow, WaiterInv
  <2>2. DefersInv'
    BY <1>0, <2>1, SameKeeps
  <2>3. TypeOK'
    BY <1>0, <1>9 DEF TunnelTimeout, ReturnError, TypeOK, Steps
  <2>4. HeldInv' /\ WaiterInv'
    BY <1>0, <1>9 DEF TunnelTimeout, ReturnError, HeldInv, WaiterInv, TypeOK, Steps
  <2>5. QED
    BY <2>2, <2>3, <2>4 DEF IInv
<1>10. CASE PullRunImage
  <2>1. UNCHANGED <<defers, HeldNow>>
    BY <1>0, <1>10 DEF PullRunImage, HeldNow, WaiterInv
  <2>2. DefersInv'
    BY <1>0, <2>1, SameKeeps
  <2>3. TypeOK'
    BY <1>0, <1>10 DEF PullRunImage, TypeOK, Steps
  <2>4. HeldInv' /\ WaiterInv'
    BY <1>0, <1>10 DEF PullRunImage, HeldInv, WaiterInv, TypeOK, Steps
  <2>5. QED
    BY <2>2, <2>3, <2>4 DEF IInv
<1>11. CASE RunnerReturns
  <2>1. UNCHANGED <<defers, HeldNow>>
    BY <1>0, <1>11 DEF RunnerReturns, HeldNow, WaiterInv
  <2>2. DefersInv'
    BY <1>0, <2>1, SameKeeps
  <2>3. TypeOK'
    BY <1>0, <1>11 DEF RunnerReturns, TypeOK, Steps
  <2>4. HeldInv' /\ WaiterInv'
    BY <1>0, <1>11 DEF RunnerReturns, HeldInv, WaiterInv, TypeOK, Steps
  <2>5. QED
    BY <2>2, <2>3, <2>4 DEF IInv
<1>12. CASE Return
  <2>1. UNCHANGED <<defers, HeldNow>>
    BY <1>0, <1>12 DEF Return, HeldNow, WaiterInv
  <2>2. DefersInv'
    BY <1>0, <2>1, SameKeeps
  <2>3. TypeOK'
    BY <1>0, <1>12 DEF Return, TypeOK, Steps
  <2>4. HeldInv' /\ WaiterInv'
    BY <1>0, <1>12 DEF Return, HeldInv, WaiterInv, TypeOK, Steps
  <2>5. QED
    BY <2>2, <2>3, <2>4 DEF IInv
<1>13. CASE LetAsk
  <2>1. UNCHANGED <<defers, HeldNow>>
    BY <1>0, <1>13 DEF LetAsk, HeldNow, WaiterInv
  <2>2. DefersInv'
    BY <1>0, <2>1, SameKeeps
  <2>3. TypeOK'
    <3>1. /\ waiter' = "asleep" /\ asking' = FALSE
          /\ UNCHANGED <<pc, opts, details, defers, failed, watch, droplet, tunnel, waiterStop,
                          timer, inTunnel, exit>>
      BY <1>13 DEF LetAsk
    <3>2. QED
      BY <1>0, <3>1 DEF TypeOK
  <2>4. HeldInv' /\ WaiterInv'
    BY <1>0, <1>13 DEF LetAsk, HeldInv, WaiterInv, TypeOK, Steps
  <2>5. QED
    BY <2>2, <2>3, <2>4 DEF IInv
<1>14. CASE WakeUp
  <2>1. UNCHANGED <<defers, HeldNow>>
    BY <1>0, <1>14 DEF WakeUp, HeldNow, WaiterInv
  <2>2. DefersInv'
    BY <1>0, <2>1, SameKeeps
  <2>3. TypeOK'
    BY <1>0, <1>14 DEF WakeUp, TypeOK, Steps
  <2>4. HeldInv' /\ WaiterInv'
    BY <1>0, <1>14 DEF WakeUp, HeldInv, WaiterInv, TypeOK, Steps
  <2>5. QED
    BY <2>2, <2>3, <2>4 DEF IInv
<1>15. CASE WaiterStops
  <2>1. UNCHANGED <<defers, HeldNow>>
    BY <1>0, <1>15 DEF WaiterStops, HeldNow, WaiterInv
  <2>2. DefersInv'
    BY <1>0, <2>1, SameKeeps
  <2>3. TypeOK'
    BY <1>0, <1>15 DEF WaiterStops, TypeOK, Steps
  <2>4. HeldInv' /\ WaiterInv'
    BY <1>0, <1>15 DEF WaiterStops, HeldInv, WaiterInv, TypeOK, Steps
  <2>5. QED
    BY <2>2, <2>3, <2>4 DEF IInv
<1>16. CASE TunnelAsks
  <2>1. UNCHANGED <<defers, HeldNow>>
    BY <1>0, <1>16 DEF TunnelAsks, HeldNow, WaiterInv
  <2>2. DefersInv'
    BY <1>0, <2>1, SameKeeps
  <2>3. TypeOK'
    BY <1>0, <1>16 DEF TunnelAsks, TypeOK, Steps
  <2>4. HeldInv' /\ WaiterInv'
    BY <1>0, <1>16 DEF TunnelAsks, HeldInv, WaiterInv, TypeOK, Steps
  <2>5. QED
    BY <2>2, <2>3, <2>4 DEF IInv
<1>17. CASE TimerFires
  <2>1. UNCHANGED <<defers, HeldNow>>
    BY <1>0, <1>17 DEF TimerFires, HeldNow, WaiterInv
  <2>2. DefersInv'
    BY <1>0, <2>1, SameKeeps
  <2>3. TypeOK'
    BY <1>0, <1>17 DEF TimerFires, TypeOK, Steps
  <2>4. HeldInv' /\ WaiterInv'
    BY <1>0, <1>17 DEF TimerFires, HeldInv, WaiterInv, TypeOK, Steps
  <2>5. QED
    BY <2>2, <2>3, <2>4 DEF IInv
<1>18. CASE Interrupt
  <2>1. UNCHANGED <<defers, HeldNow>>
    BY <1>0, <1>18 DEF Interrupt, HeldNow, WaiterInv
  <2>2. DefersInv'
    BY <1>0, <2>1, SameKeeps
  <2>3. TypeOK'
    BY <1>0, <1>18 DEF Interrupt, TypeOK, Steps
  <2>4. HeldInv' /\ WaiterInv'
    BY <1>0, <1>18 DEF Interrupt, HeldInv, WaiterInv, TypeOK, Steps
  <2>5. QED
    BY <2>2, <2>3, <2>4 DEF IInv
<1>19. CASE OpenWatch
  <2>1. Defer("watch") /\ "watch" \in Resources
    BY <1>0, <1>19 DEF OpenWatch, Resources
  <2>0. "watch" \notin HeldNow /\ HeldNow' = HeldNow \cup {"watch"}
    BY <1>0, <1>19 DEF OpenWatch, HeldNow, HeldInv, Resources
  <2>2. "watch" = "waiter" => "tunnel" \notin HeldNow
    BY <1>0, <1>19 DEF OpenWatch, HeldNow, HeldInv
  <2>3. DefersInv' /\ defers' \in Seq(Resources) /\ Len(defers') = Len(defers) + 1
    BY <1>0, <2>0, <2>1, <2>2, DeferKeeps
  <2>4. TypeOK'
    BY <1>0, <1>19, <2>3 DEF OpenWatch, TypeOK, Steps, HeldInv
  <2>5. HeldInv' /\ WaiterInv'
    BY <1>0, <1>19, <2>3 DEF OpenWatch, HeldInv, WaiterInv, TypeOK, Steps
  <2>6. QED
    BY <2>3, <2>4, <2>5 DEF IInv
<1>20. CASE OpenDroplet
  <2>1. Defer("droplet") /\ "droplet" \in Resources
    BY <1>0, <1>20 DEF OpenDroplet, Resources
  <2>0. "droplet" \notin HeldNow /\ HeldNow' = HeldNow \cup {"droplet"}
    BY <1>0, <1>20 DEF OpenDroplet, HeldNow, HeldInv, Resources
  <2>2. "droplet" = "waiter" => "tunnel" \notin HeldNow
    BY <1>0, <1>20 DEF OpenDroplet, HeldNow, HeldInv
  <2>3. DefersInv' /\ defers' \in Seq(Resources) /\ Len(defers') = Len(defers) + 1
    BY <1>0, <2>0, <2>1, <2>2, DeferKeeps
  <2>4. TypeOK'
    BY <1>0, <1>20, <2>3 DEF OpenDroplet, TypeOK, Steps, HeldInv
  <2>5. HeldInv' /\ WaiterInv'
    BY <1>0, <1>20, <2>3 DEF OpenDroplet, HeldInv, WaiterInv, TypeOK, Steps
  <2>6. QED
    BY <2>3, <2>4, <2>5 DEF IInv
<1>21. CASE StartWaiter
  <2>1. Defer("waiter") /\ "waiter" \in Resources
    BY <1>0, <1>21 DEF StartWaiter, Resources
  <2>0. "waiter" \notin HeldNow /\ HeldNow' = HeldNow \cup {"waiter"}
    BY <1>0, <1>21 DEF StartWaiter, HeldNow, HeldInv, Resources
  <2>2. "waiter" = "waiter" => "tunnel" \notin HeldNow
    BY <1>0, <1>21 DEF StartWaiter, HeldNow, HeldInv
  <2>3. DefersInv' /\ defers' \in Seq(Resources) /\ Len(defers') = Len(defers) + 1
    BY <1>0, <2>0, <2>1, <2>2, DeferKeeps
  <2>4. TypeOK'
    BY <1>0, <1>21, <2>3 DEF StartWaiter, TypeOK, Steps, HeldInv
  <2>5. HeldInv' /\ WaiterInv'
    BY <1>0, <1>21, <2>3 DEF StartWaiter, HeldInv, WaiterInv, TypeOK, Steps
  <2>6. QED
    BY <2>3, <2>4, <2>5 DEF IInv
<1>22. CASE StartTunnel
  <2>1. Defer("tunnel") /\ "tunnel" \in Resources
    BY <1>0, <1>22 DEF StartTunnel, Resources
  <2>0. "tunnel" \notin HeldNow /\ HeldNow' = HeldNow \cup {"tunnel"}
    BY <1>0, <1>22 DEF StartTunnel, HeldNow, HeldInv, Resources
  <2>2. "tunnel" = "waiter" => "tunnel" \notin HeldNow
    BY <1>0, <1>22 DEF StartTunnel, HeldNow, HeldInv
  <2>3. DefersInv' /\ defers' \in Seq(Resources) /\ Len(defers') = Len(defers) + 1
    BY <1>0, <2>0, <2>1, <2>2, DeferKeeps
  <2>4. TypeOK'
    BY <1>0, <1>22, <2>3 DEF StartTunnel, TypeOK, Steps, HeldInv
  <2>5. HeldInv' /\ WaiterInv'
    BY <1>0, <1>22, <2>3 DEF StartTunnel, HeldInv, WaiterInv, TypeOK, Steps
  <2>6. QED
    BY <2>3, <2>4, <2>5 DEF IInv
<1>23. CASE RunDeferred
  <2>1. /\ DefersInv' /\ defers' \in Seq(Resources) /\ Len(defers') = Len(defers) - 1
        /\ tunnel' = "open" => tunnel = "open" /\ (waiterStop' <=> waiterStop)
    BY <1>0, <1>23, ReleaseKeeps
  <2>2. waiterStop' \in BOOLEAN /\ asking' \in BOOLEAN
    BY <1>23 DEF RunDeferred, Release
  <2>3. TypeOK'
    BY <1>0, <1>23, <2>1, <2>2 DEF RunDeferred, Release, TypeOK
  <2>4. asking' => tunnel' = "open"
    BY <1>0, <1>23 DEF RunDeferred, Release, WaiterInv
  <2>5. waiter' = "returned" => waiterStop'
    BY <1>0, <1>23 DEF RunDeferred, Release, WaiterInv
  <2>6. WaiterInv'
    BY <1>0, <1>23, <2>1, <2>4, <2>5 DEF WaiterInv, RunDeferred
  <2>7. pc' = "Unwind" /\ UNCHANGED <<opts, details>>
    BY <1>23 DEF RunDeferred
  <2>8. HeldInv'
    BY <1>0, <2>7 DEF HeldInv
  <2>9. QED
    BY <2>1, <2>3, <2>6, <2>8 DEF IInv
<1>24. CASE UNCHANGED vars
  <2>1. UNCHANGED <<defers, HeldNow>>
    BY <1>24 DEF vars, HeldNow
  <2>2. DefersInv'
    BY <1>0, <2>1, SameKeeps
  <2>3. QED
    BY <1>0, <1>24, <2>2 DEF vars, IInv, TypeOK, HeldInv, WaiterInv
<1>25. QED
  BY <1>1, <1>2, <1>3, <1>4, <1>5, <1>6, <1>7, <1>8, <1>9, <1>10, <1>11, <1>12,
     <1>13, <1>14, <1>15, <1>16, <1>17, <1>18, <1>19, <1>20, <1>21, <1>22, <1>23, <1>24
     DEF Next, Command, Waiter

LEMMA InvariantHolds == Spec => []IInv
BY InitIInv, NextIInv, PTL DEF Spec

---------------------------------------------------------------------------------
(* What follows from it. *)

\* Type correctness: no more than four calls are ever deferred.
THEOREM TypeCorrect == Spec => []TypeOK
BY InvariantHolds, PTL DEF IInv

\* The command returns with everything released: every `return` of Run (run.go:44-143)
\* runs the deferred calls of all that was acquired before it.
THEOREM ReleasesAll == Spec => []AllReleased
<1>1. IInv => AllReleased
  BY DEF IInv, TypeOK, DefersInv, HeldInv, HeldNow, AllReleased, Resources, Deferred
<1>2. QED
  BY <1>1, InvariantHolds, PTL

\* The tunnel is taken down before the waiter stops, so that the tunnel never waits
\* for a goroutine that has returned (run.go:104-119).
THEOREM WaiterIsThere == Spec => []WaiterOutlivesTunnel
<1>1. IInv => WaiterOutlivesTunnel
  <2> SUFFICES ASSUME IInv, tunnel = "open" \/ asking
               PROVE  waiter \in {"offer", "asleep"} /\ ~waiterStop
    BY DEF WaiterOutlivesTunnel
  <2>1. waiter # "none" /\ ~waiterStop
    BY DEF IInv, WaiterInv, HeldInv
  <2>2. QED
    BY <2>1 DEF IInv, TypeOK, WaiterInv
<1>2. QED
  BY <1>1, InvariantHolds, PTL

\* The app runs with all that its options ask for: services to forward mean in the
\* tunnel's network while the tunnel is up, -w means watched, with -d and without -t.
THEOREM RunsWithAll == Spec => []RunsAsAsked
<1>1. IInv => RunsAsAsked
  <2> SUFFICES ASSUME IInv, pc = "Run"
               PROVE  /\ droplet = "open"
                      /\ opts.watch => watch = "open" /\ opts.dir /\ ~opts.term
                      /\ details <=> inTunnel
                      /\ details => opts.forward
                      /\ inTunnel => tunnel = "open" /\ ~waiterStop
    BY DEF RunsAsAsked
  <2>1. droplet = "open" /\ (details <=> inTunnel) /\ (details => opts.forward) /\ (inTunnel => tunnel = "open")
    BY DEF IInv, HeldInv
  <2>2. opts.watch => watch = "open" /\ opts.dir /\ ~opts.term
    BY DEF IInv, HeldInv
  <2>3. tunnel = "open" => ~waiterStop
    BY DEF IInv, WaiterInv
  <2>4. QED
    BY <2>1, <2>2, <2>3
<1>2. QED
  BY <1>1, InvariantHolds, PTL
---------------------------------------------------------------------------------
(* The command implements WatchClient. *)

\* A step of the command starts the app, ends it, stops the watcher once it has
\* ended, or does nothing that the watcher can tell.
LEMMA StepRefines == IInv /\ [Next]_vars => [Client!Next]_(Client!vars)
<1> SUFFICES ASSUME IInv, [Next]_vars
             PROVE  [Client!Next]_(Client!vars)
  OBVIOUS
<1> USE DEF Client!Next, Client!vars, held, tunnelVars, waiterVars
<1>1. CASE PullRunImage
  BY <1>1 DEF PullRunImage, Client!Start
<1>2. CASE pc \notin {"Run", "Unwind", "Returned"} /\ pc' = "Unwind" /\ watch' = watch
  BY <1>2 DEF Client!End
<1>3. CASE RunnerReturns
  BY <1>3 DEF RunnerReturns, Client!End
<1>4. CASE RunDeferred
  <2>1. pc = "Unwind" /\ pc' = "Unwind"
    BY <1>4 DEF RunDeferred
  <2>2. CASE defers[Len(defers)] = "watch"
    <3>1. defers[Len(defers)] \in HeldNow
      BY <1>4 DEF RunDeferred, IInv, TypeOK, DefersInv, Deferred
    <3>2. watch = "open" /\ watch' = "closed"
      BY <1>4, <2>2, <3>1 DEF RunDeferred, Release, HeldNow
    <3>3. QED
      BY <2>1, <3>2 DEF Client!Stop
  <2>3. CASE defers[Len(defers)] # "watch"
    BY <1>4, <2>1, <2>3 DEF RunDeferred, Release
  <2>4. QED
    BY <2>2, <2>3
<1>5. CASE OpenWatch
  BY <1>5 DEF OpenWatch, IInv, HeldInv
<1>6. CASE Return
  BY <1>6 DEF Return
<1>7. CASE /\ watch' = watch
           /\ \/ pc' = pc
              \/ {pc, pc'} \cap {"Run", "Unwind", "Returned"} = {}
  BY <1>7
<1>8. CASE CheckFlags
  BY <1>2, <1>7, <1>8 DEF CheckFlags, ReturnError
<1>9. CASE StepFails \/ WatchNeedsDir \/ TunnelTimeout
  BY <1>2, <1>9 DEF StepFails, WatchNeedsDir, TunnelTimeout, ReturnError
<1>10. CASE ParseOptions \/ SkipWatch \/ LoadConfig \/ OpenDroplet
  BY <1>7, <1>10 DEF ParseOptions, SkipWatch, LoadConfig, OpenDroplet
<1>11. CASE GetServices \/ StartWaiter \/ StartTunnel \/ TunnelHealthy
  BY <1>7, <1>11 DEF GetServices, StartWaiter, StartTunnel, TunnelHealthy
<1>12. CASE Waiter \/ TunnelAsks \/ TimerFires \/ Interrupt \/ UNCHANGED vars
  BY <1>7, <1>12 DEF Waiter, LetAsk, WakeUp, WaiterStops, TunnelAsks, TimerFires,
       Interrupt, vars
<1>13. QED
  BY <1>1, <1>3, <1>4, <1>5, <1>6, <1>8, <1>9, <1>10, <1>11, <1>12 DEF Next, Command

\* The command is a client FS.Watch can rely on: it closes the stop channel once,
\* and only when the app that received the restarts is over (run.go:60-64).
THEOREM IsWatchClient == Spec => UsesWatchAsExpected
<1>1. Init => Client!Init
  BY DEF Init, Client!Init
<1>2. QED
  BY <1>1, StepRefines, InvariantHolds, PTL DEF Spec, UsesWatchAsExpected, Client!Spec
---------------------------------------------------------------------------------
(* With the watcher of macOS. *)

\* What is proved of the command alone is so of the command with its watcher, which
\* changes none of its variables (run.go:54-142, watch_darwin.go).
THEOREM OnDarwinToo == DarwinSpec => Spec
<1>1. DarwinInit => Init
  BY DEF DarwinInit
<1>2. [RunOrWatch]_allVars => [Next]_vars
  BY DEF RunOrWatch, allVars
<1>3. QED
  BY <1>1, <1>2, PTL DEF DarwinSpec, Spec

\* Every batch of changes that the goroutine has received was answered by one restart, or
\* by the one that it sends now.
RestartsPaired ==
  /\ restarts \in Nat /\ changed \in Nat
  /\ restarts + Watcher!Count(loop = "sending") = changed

\* The watcher on macOS restarts the app once for each batch of changes, neither less
\* when they come during a restart nor more for several in a batch (watch_darwin.go:31-46).
THEOREM OneRestartEach == DarwinSpec => []RestartsPaired
<1>1. DarwinInit => RestartsPaired
  BY DEF DarwinInit, RestartsPaired, Watcher!Init, Watcher!Count
<1>2. RestartsPaired /\ [RunOrWatch]_allVars => RestartsPaired'
  <2> SUFFICES ASSUME RestartsPaired, [RunOrWatch]_allVars
               PROVE  RestartsPaired'
    OBVIOUS
  <2> USE DEF RestartsPaired, Watcher!Count
  <2>1. CASE UNCHANGED watcherVars
    BY <2>1 DEF watcherVars
  <2>2. ASSUME NEW change \in BOOLEAN, Watcher!Report(change)
        PROVE  RestartsPaired'
    BY <2>2 DEF Watcher!Report
  <2>3. CASE Watcher!Receive
    <3>0. loop = "select"
      BY <2>3 DEF Watcher!Receive
    <3>1. restarts = changed
      BY <3>0
    <3>2. CASE Head(source)
      <4>1. loop' = "sending" /\ changed' = changed + 1 /\ restarts' = restarts
        BY <2>3, <3>2 DEF Watcher!Receive
      <4>2. QED
        BY <3>1, <4>1
    <3>3. CASE ~Head(source)
      <4>1. loop' = "select" /\ changed' = changed + 0 /\ restarts' = restarts
        BY <2>3, <3>3 DEF Watcher!Receive
      <4>2. QED
        BY <3>1, <4>1
    <3>4. QED
      BY <3>2, <3>3
  <2>4. CASE Watcher!Send
    BY <2>4 DEF Watcher!Send
  <2>5. CASE Watcher!Stop \/ Watcher!RunnerRestarted
    BY <2>5 DEF Watcher!Stop, Watcher!RunnerRestarted
  <2>6. QED
    BY <2>1, <2>2, <2>3, <2>4, <2>5 DEF RunOrWatch, Watcher!Next, allVars
<1>3. QED
  BY <1>1, <1>2, PTL DEF DarwinSpec

LEMMA DarwinStepRefines ==
  RestartsPaired /\ [RunOrWatch]_allVars => [Contract!Next]_(Contract!vars)
<1> SUFFICES ASSUME RestartsPaired, [RunOrWatch]_allVars
             PROVE  [Contract!Next]_(Contract!vars)
  OBVIOUS
<1> USE DEF Contract!Next, Contract!vars
<1>1. CASE UNCHANGED watcherVars
  BY <1>1 DEF watcherVars
<1>2. ASSUME NEW change \in BOOLEAN, Watcher!Report(change)
      PROVE  [Contract!Next]_(Contract!vars)
  BY <1>2 DEF Watcher!Report
<1>3. CASE Watcher!Receive
  <2>1. loop = "select" /\ UNCHANGED restarts
    BY <1>3 DEF Watcher!Receive
  <2>2. CASE Head(source)
    <3>1. loop' = "sending" /\ changed' = changed + 1
      BY <1>3, <2>2 DEF Watcher!Receive, Watcher!Count
    <3>2. QED
      BY <2>1, <3>1 DEF Contract!Note
  <2>3. CASE ~Head(source)
    <3>1. loop' = "select" /\ changed' = changed + 0
      BY <1>3, <2>3 DEF Watcher!Receive, Watcher!Count
    <3>2. changed' = changed
      BY <3>1 DEF RestartsPaired
    <3>3. QED
      BY <2>1, <3>1, <3>2
  <2>4. QED
    BY <2>2, <2>3
<1>4. CASE Watcher!Send
  <2>1. /\ loop = "sending" /\ loop' = "select" /\ restarts' = restarts + 1
        /\ UNCHANGED changed
    BY <1>4 DEF Watcher!Send
  <2>2. restarts' + Contract!Count((loop = "sending")') <= changed
    BY <2>1 DEF RestartsPaired, Watcher!Count, Contract!Count
  <2>3. QED
    BY <2>1, <2>2 DEF Contract!Restart
<1>5. CASE Watcher!Stop
  BY <1>5 DEF Watcher!Stop, Contract!End
<1>6. CASE Watcher!RunnerRestarted
  BY <1>6 DEF Watcher!RunnerRestarted
<1>7. QED
  BY <1>1, <1>2, <1>3, <1>4, <1>5, <1>6 DEF RunOrWatch, Watcher!Next, allVars

\* The watcher of watch_darwin.go keeps the promise of watch.go to run.go, although its
\* goroutine looks at nothing while it sends.
THEOREM DarwinKeepsContract == DarwinSpec => DarwinKeepsWatchContract
<1>1. DarwinInit => Contract!Init
  BY DEF DarwinInit, Watcher!Init, Contract!Init
<1>2. QED
  BY <1>1, DarwinStepRefines, OneRestartEach, PTL
     DEF DarwinSpec, DarwinKeepsWatchContract, Contract!Spec
=================================================================================
