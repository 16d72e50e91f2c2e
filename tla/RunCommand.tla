------------------------------- MODULE RunCommand -------------------------------
(***************************************************************************)
(* Run.Run (cf/cmd/run.go), the `cf local run` command, with the goroutine *)
(* of newWaiter (cf/cmd/wait.go) and waitForHealthy.                       *)
(*                                                                         *)
(* The command acquires resources one by one, each released by a deferred  *)
(* call, and may fail at every step.  With -f it starts a tunnel container *)
(* and waits until it is healthy; the tunnel asks for a new SSH code each  *)
(* time the waiter lets it, and the app then runs in its network.          *)
(* Forwarder, Runner, Image.Pull and the file system are external, and the *)
(* watcher behind -w is module Watch.                                      *)
(***************************************************************************)
EXTENDS Naturals, Sequences

VARIABLES
  pc,        \* the step the command is at
  opts,      \* its options: -d, -w, -t, -f given
  details,   \* forwardConfig # nil: there is a service to forward
  defers,    \* the deferred calls, in the order they were deferred
  failed,    \* the command returns an error
  watch,     \* the directory watcher: "none", "open", "closed"
  droplet,   \* the droplet file: likewise
  tunnel,    \* the tunnel container: likewise
  asking,    \* the tunnel receives from the waiter for leave to get a code
  waiter,    \* the waiter's goroutine: "none", "offer", "asleep", "returned"
  waiterStop,\* the waiter's stop channel is closed
  timer,     \* waitForHealthy's timer: "none", "armed", "fired"
  inTunnel,  \* netConfig names the tunnel's container
  exit       \* the user interrupted: exitChan is closed

tunnelVars == <<tunnel, asking>>
waiterVars == <<waiter, waiterStop>>
held       == <<watch, droplet, tunnelVars, waiterVars>>
vars == <<pc, opts, details, defers, failed, held, timer, inTunnel, exit>>

Steps == {"Options", "Dir", "Flags", "Load", "Droplet", "Services", "PullNet",
          "Forward", "Health", "PullRun", "Run", "Unwind", "Returned"}

Options == [dir : BOOLEAN, watch : BOOLEAN, term : BOOLEAN, forward : BOOLEAN]

Resources == {"watch", "droplet", "waiter", "tunnel"}

TypeOK ==
  /\ pc \in Steps
  /\ opts \in Options /\ details \in BOOLEAN
  /\ defers \in Seq(Resources) /\ Len(defers) <= 4
  /\ failed \in BOOLEAN
  /\ watch \in {"none", "open", "closed"}
  /\ droplet \in {"none", "open", "closed"}
  /\ tunnel \in {"none", "open", "closed"}
  /\ asking \in BOOLEAN
  /\ waiter \in {"none", "offer", "asleep", "returned"}
  /\ waiterStop \in BOOLEAN
  /\ timer \in {"none", "armed", "fired"}
  /\ inTunnel \in BOOLEAN
  /\ exit \in BOOLEAN

Init ==
  /\ pc = "Options"
  /\ opts \in Options /\ details = FALSE
  /\ defers = <<>> /\ failed = FALSE
  /\ watch = "none" /\ droplet = "none"
  /\ tunnel = "none" /\ asking = FALSE
  /\ waiter = "none" /\ waiterStop = FALSE
  /\ timer = "none" /\ inTunnel = FALSE /\ exit = FALSE

---------------------------------------------------------------------------------
(* The command. *)

Defer(r) == defers' = Append(defers, r)

\* `return err`, from anywhere: the deferred calls run.
ReturnError ==
  /\ failed' = TRUE
  /\ pc' = "Unwind"
  /\ UNCHANGED <<opts, details, defers, timer, inTunnel, exit>>

\* Each of these calls may fail: freePort and the flags, Abs and Watch,
\* Config.Load, FS.ReadFile, Services and Forward of the remote app, Image.Pull
\* and the Forwarder.
StepFails ==
  /\ pc \in {"Options", "Load", "Droplet", "Services", "PullNet", "Forward", "PullRun"}
        \cup (IF opts.dir THEN {"Dir"} ELSE {})
  /\ ReturnError
  /\ asking' = (asking /\ pc # "Forward")
  /\ UNCHANGED <<watch, droplet, tunnel, waiterVars>>

ParseOptions ==
  /\ pc = "Options"
  /\ pc' = "Dir"
  /\ UNCHANGED <<opts, details, defers, failed, held, timer, inTunnel, exit>>

\* Mutant of OpenWatch: the watcher is not stopped.
OpenWatchNoDefer ==
  /\ pc = "Dir" /\ opts.dir /\ opts.watch
  /\ watch' = "open"
  /\ pc' = "Flags"
  /\ UNCHANGED <<opts, details, defers, failed, droplet, tunnelVars, waiterVars, timer, inTunnel, exit>>

\* Mutant of OpenWatch: in a helper function, whose return runs the deferred close.
OpenWatchInHelper ==
  /\ pc = "Dir" /\ opts.dir /\ opts.watch
  /\ watch' = "closed"
  /\ pc' = "Flags"
  /\ UNCHANGED <<opts, details, defers, failed, droplet, tunnelVars, waiterVars, timer, inTunnel, exit>>

OpenWatch ==
  /\ pc = "Dir" /\ opts.dir /\ opts.watch
  /\ watch' = "open"
  /\ Defer("watch")
  /\ pc' = "Flags"
  /\ UNCHANGED <<opts, details, failed, droplet, tunnelVars, waiterVars, timer, inTunnel, exit>>

SkipWatch ==
  /\ pc = "Dir" /\ ~opts.watch
  /\ pc' = "Flags"
  /\ UNCHANGED <<opts, details, defers, failed, held, timer, inTunnel, exit>>

WatchNeedsDir ==
  /\ pc = "Dir" /\ opts.watch /\ ~opts.dir
  /\ ReturnError
  /\ UNCHANGED held

CheckFlags ==
  /\ pc = "Flags"
  /\ IF opts.watch /\ opts.term
     THEN ReturnError
     ELSE /\ pc' = "Load"
          /\ UNCHANGED <<opts, details, defers, failed, timer, inTunnel, exit>>
  /\ UNCHANGED held

LoadConfig ==
  /\ pc = "Load"
  /\ pc' = "Droplet"
  /\ UNCHANGED <<opts, details, defers, failed, held, timer, inTunnel, exit>>

\* Mutant of OpenDroplet: the file is closed twice.
OpenDropletTwoDefers ==
  /\ pc = "Droplet"
  /\ droplet' = "open"
  /\ defers' = defers \o <<"droplet", "droplet">>
  /\ pc' = "Services"
  /\ UNCHANGED <<opts, details, failed, watch, tunnelVars, waiterVars, timer, inTunnel, exit>>

OpenDroplet ==
  /\ pc = "Droplet"
  /\ droplet' = "open"
  /\ Defer("droplet")
  /\ pc' = "Services"
  /\ UNCHANGED <<opts, details, failed, watch, tunnelVars, waiterVars, timer, inTunnel, exit>>

\* getRemoteServices: without -f, or when App.Forward finds no service that can be
\* forwarded, forwardConfig is nil and the command runs the app without a tunnel.
GetServices ==
  /\ pc = "Services"
  /\ details' \in BOOLEAN /\ (details' => opts.forward)
  /\ pc' = IF details' THEN "PullNet" ELSE "PullRun"
  /\ UNCHANGED <<opts, defers, failed, held, timer, inTunnel, exit>>

\* The network image is there; newWaiter starts its goroutine.
StartWaiter ==
  /\ pc = "PullNet"
  /\ waiter' = "offer"
  /\ Defer("waiter")
  /\ pc' = "Forward"
  /\ UNCHANGED <<opts, details, failed, watch, droplet, tunnelVars, waiterStop, timer, inTunnel, exit>>

\* Mutant of StartTunnel: `defer done()` placed before `defer waiterDone()`.
StartTunnelDeferFirst ==
  /\ pc = "Forward"
  /\ tunnel' = "open"
  /\ defers' = SubSeq(defers, 1, Len(defers) - 1) \o <<"tunnel", "waiter">>
  /\ timer' = "armed"
  /\ pc' = "Health"
  /\ UNCHANGED <<opts, details, failed, watch, droplet, asking, waiterVars, inTunnel, exit>>

\* Forwarder.Forward returns, and waitForHealthy makes its timer.
StartTunnel ==
  /\ pc = "Forward"
  /\ tunnel' = "open"
  /\ Defer("tunnel")
  /\ timer' = "armed"
  /\ pc' = "Health"
  /\ UNCHANGED <<opts, details, failed, watch, droplet, asking, waiterVars, inTunnel, exit>>

\* A status other than "healthy", or none from a closed channel, changes nothing.
TunnelHealthy ==
  /\ pc = "Health"
  /\ inTunnel' = TRUE
  /\ pc' = "PullRun"
  /\ UNCHANGED <<opts, details, defers, failed, held, timer, exit>>

\* Mutant of TunnelTimeout: the command goes on without the tunnel.
TunnelTimeoutIgnored ==
  /\ pc = "Health"
  /\ timer = "fired"
  /\ pc' = "PullRun"
  /\ UNCHANGED <<opts, details, defers, failed, held, timer, inTunnel, exit>>

\* Mutant of TunnelTimeout: the timer is made anew in the loop.
TunnelTimeoutRearmed ==
  /\ pc = "Health"
  /\ timer = "fired"
  /\ timer' = "armed"
  /\ UNCHANGED <<pc, opts, details, defers, failed, held, inTunnel, exit>>

TunnelTimeout ==
  /\ pc = "Health"
  /\ timer = "fired"
  /\ ReturnError
  /\ UNCHANGED held

PullRunImage ==
  /\ pc = "PullRun"
  /\ pc' = "Run"
  /\ UNCHANGED <<opts, details, defers, failed, held, timer, inTunnel, exit>>

\* Runner.Run returns: the app ended, could not run, or was interrupted.
RunnerReturns ==
  /\ pc = "Run"
  /\ failed' \in BOOLEAN
  /\ pc' = "Unwind"
  /\ UNCHANGED <<opts, details, defers, held, timer, inTunnel, exit>>

\* The deferred calls, the last one first.
Release(r) ==
  /\ watch'      = IF r = "watch" THEN "closed" ELSE watch
  /\ droplet'    = IF r = "droplet" THEN "closed" ELSE droplet
  /\ tunnel'     = IF r = "tunnel" THEN "closed" ELSE tunnel
  /\ asking'     = (asking /\ r # "tunnel")
  /\ waiterStop' = (waiterStop \/ r = "waiter")

RunDeferred ==
  /\ pc = "Unwind" /\ defers # <<>>
  /\ Release(defers[Len(defers)])
  /\ defers' = SubSeq(defers, 1, Len(defers) - 1)
  /\ UNCHANGED <<pc, opts, details, failed, waiter, timer, inTunnel, exit>>

Return ==
  /\ pc = "Unwind" /\ defers = <<>>
  /\ pc' = "Returned"
  /\ UNCHANGED <<opts, details, defers, failed, held, timer, inTunnel, exit>>

---------------------------------------------------------------------------------
(* newWaiter's goroutine. *)

\* `wait <- time.Now()` meets the tunnel's receive; the goroutine then sleeps.
LetAsk ==
  /\ waiter = "offer" /\ asking
  /\ waiter' = "asleep"
  /\ asking' = FALSE
  /\ UNCHANGED <<pc, opts, details, defers, failed, watch, droplet, tunnel, waiterStop, timer, inTunnel, exit>>

WakeUp ==
  /\ waiter = "asleep"
  /\ waiter' = "offer"
  /\ UNCHANGED <<pc, opts, details, defers, failed, watch, droplet, tunnelVars, waiterStop, timer, inTunnel, exit>>

\* Mutant of WaiterStops: the stop channel is looked at between two sends only.
WaiterStopsAsleep ==
  /\ waiter = "asleep" /\ waiterStop
  /\ waiter' = "returned"
  /\ UNCHANGED <<pc, opts, details, defers, failed, watch, droplet, tunnelVars, waiterStop, timer, inTunnel, exit>>

WaiterStops ==
  /\ waiter = "offer" /\ waiterStop
  /\ waiter' = "returned"
  /\ UNCHANGED <<pc, opts, details, defers, failed, watch, droplet, tunnelVars, waiterStop, timer, inTunnel, exit>>

---------------------------------------------------------------------------------
(* External: the tunnel, the timer of the runtime, the user. *)

TunnelAsks ==
  /\ pc = "Forward" \/ tunnel = "open"
  /\ ~asking
  /\ asking' = TRUE
  /\ UNCHANGED <<pc, opts, details, defers, failed, watch, droplet, tunnel, waiterVars, timer, inTunnel, exit>>

TimerFires ==
  /\ timer = "armed"
  /\ timer' = "fired"
  /\ UNCHANGED <<pc, opts, details, defers, failed, held, inTunnel, exit>>

\* main closes exitChan, which only the container engine listens to.
Interrupt ==
  /\ ~exit
  /\ exit' = TRUE
  /\ UNCHANGED <<pc, opts, details, defers, failed, held, timer, inTunnel>>

---------------------------------------------------------------------------------

\* The steps of the command other than waiting for the tunnel or the app.
Command ==
  \/ StepFails \/ ParseOptions \/ OpenWatch \/ SkipWatch \/ WatchNeedsDir
  \/ CheckFlags \/ LoadConfig \/ OpenDroplet \/ GetServices \/ StartWaiter
  \/ StartTunnel \/ PullRunImage \/ RunDeferred \/ Return

Waiter == LetAsk \/ WakeUp \/ WaiterStops

Next ==
  \/ Command \/ TunnelHealthy \/ TunnelTimeout \/ RunnerReturns
  \/ Waiter \/ TunnelAsks \/ TimerFires \/ Interrupt

Spec == Init /\ [][Next]_vars

\* Calls return; the waiter is scheduled and its select does not pass over a case
\* that stays ready; timers fire.  The tunnel need never be healthy, and the
\* app may run until it is interrupted.
Fairness ==
  /\ WF_vars(Command)
  /\ WF_vars(TunnelTimeout)
  /\ WF_vars(exit /\ RunnerReturns)
  /\ WF_vars(LetAsk) /\ WF_vars(WakeUp) /\ WF_vars(WaiterStops)
  /\ WF_vars(TimerFires)

FairSpec == Spec /\ Fairness

---------------------------------------------------------------------------------
(* Properties *)

\* However the command ends, it has released all that it acquired.
AllReleased ==
  pc = "Returned" =>
    /\ watch # "open" /\ droplet # "open" /\ tunnel # "open"
    /\ waiter # "none" => waiterStop

\* The app runs with what its options asked for, all of it still held: with services
\* to forward never outside the tunnel nor after the tunnel is gone, with -w never
\* without its watcher, and -w never without -d or with -t.
RunsAsAsked ==
  pc = "Run" =>
    /\ droplet = "open"
    /\ opts.watch => watch = "open" /\ opts.dir /\ ~opts.term
    /\ details <=> inTunnel
    /\ details => opts.forward
    /\ inTunnel => tunnel = "open" /\ ~waiterStop

\* The tunnel is taken down before the waiter that it receives from.
WaiterOutlivesTunnel ==
  tunnel = "open" \/ asking => waiter \in {"offer", "asleep"} /\ ~waiterStop

\* A tunnel that asks is let through, or is over: it never waits on a waiter that has
\* ended.  And the waiter's goroutine ends when the command has stopped it, asleep or not.
WaiterServesAndEnds ==
  /\ asking ~> ~asking
  /\ waiterStop ~> waiter = "returned"

\* An interrupt ends the command wherever it finds it.
InterruptEnds == exit ~> pc = "Returned"

\* The command uses the watcher as FS.Watch expects (module Watch).
Client == INSTANCE WatchClient WITH
  runner <- IF pc = "Run" THEN "running"
            ELSE IF pc \in {"Unwind", "Returned"} THEN "gone" ELSE "starting",
  stop   <- (watch = "closed")

UsesWatchAsExpected == Client!Spec
=================================================================================
