------------------------------ MODULE LocalConfig -------------------------------
(***************************************************************************)
(* local.yml and the app in Cloud Foundry, as `cf local pull` and `push`   *)
(* change them (cf/cmd/pull.go, push.go, cmd.go, remote/app.go).           *)
(*                                                                         *)
(* A pull loads local.yml, reads the app's environment and its start       *)
(* command in two requests, and saves the whole file.  A push replaces the *)
(* droplet, with -e the environment too, and without -k restarts the app.  *)
(* Commands run in processes of their own, fail or are killed at any step, *)
(* and a request that fails may have had its effect.  Users edit local.yml *)
(* and others change and restart the app meanwhile.  stage, run and export *)
(* load the file and never save it, and are not shown.                     *)
(*                                                                         *)
(* Loading and saving the file are external and taken as one step each.    *)
(* The history variables quiet, alone and inSync say who was disturbed.    *)
(***************************************************************************)
EXTENDS Naturals

CONSTANTS
  Procs,        \* processes in which commands run
  Apps,         \* app names
  Values,       \* environments, start commands, droplets and other settings
  MaxCommands,  \* bound on the commands started
  MaxChanges    \* bound on what users do besides

ASSUME BoundAssumption == MaxCommands \in Nat /\ MaxChanges \in Nat

\* The value of what is not set.
None == "none"

VARIABLES
  yml,       \* per app: its entry in local.yml
  remote,    \* per app: its droplet, environment and start command
  running,   \* per app: the droplet and the environment it was last started with
  job,       \* per process: the command it runs, the app and the options
  at,        \* how far it is
  loaded,    \* what it loaded from local.yml
  pulled,    \* the environment and the start command it read from Cloud Foundry
  result,    \* how its last command ended: "none", "ok", "error"
  commands,  \* commands started
  changes,   \* changes made by users
  quiet,     \* nobody else has written local.yml since the process loaded it
  alone,     \* nobody else has changed its app since it first used it
  inSync     \* per app: pulled with nobody in between, and not changed since

ymlVars == <<yml, inSync>>
appVars == <<remote, running>>
vars == <<ymlVars, appVars, job, at, loaded, pulled, result, commands, changes, quiet, alone>>

Settings == Values \cup {None}
Entry == [env : Settings, command : Settings, other : Settings]
Remote == [droplet : Values, env : Settings, command : Settings]
Running == [droplet : Values, env : Settings]
Pulls == [cmd : {"pull"}, app : Apps]
Pushes == [cmd : {"push"}, app : Apps, droplet : Values, pushEnv : BOOLEAN, keepState : BOOLEAN]
NoJob == [cmd |-> "none", app |-> None]
Steps == {"idle", "droplet", "load", "env", "command", "save", "setEnv", "restart", "report"}

\* An app that local.yml does not list: getAppConfig adds an entry with its name only.
NoEntry == [env |-> None, command |-> None, other |-> None]

\* What a process holds before it has loaded or read anything.
NotLoaded == [a \in Apps |-> NoEntry]
NotPulled == [env |-> None, command |-> None]

TypeOK ==
  /\ yml \in [Apps -> Entry]
  /\ remote \in [Apps -> Remote]
  /\ running \in [Apps -> Running]
  /\ job \in [Procs -> Pulls \cup Pushes \cup {NoJob}]
  /\ at \in [Procs -> Steps]
  /\ loaded \in [Procs -> [Apps -> Entry]]
  /\ pulled \in [Procs -> [env : Settings, command : Settings]]
  /\ result \in [Procs -> {"none", "ok", "error"}]
  /\ commands \in 0..MaxCommands /\ changes \in 0..MaxChanges
  /\ quiet \in [Procs -> BOOLEAN] /\ alone \in [Procs -> BOOLEAN]
  /\ inSync \in [Apps -> BOOLEAN]

Init ==
  /\ yml \in [Apps -> {NoEntry} \cup {[env |-> v, command |-> None, other |-> v] : v \in Values}]
  /\ \E v \in Values : /\ remote = [a \in Apps |-> [droplet |-> v, env |-> v, command |-> v]]
                       /\ running = [a \in Apps |-> [droplet |-> v, env |-> v]]
  /\ job = [p \in Procs |-> NoJob]
  /\ at = [p \in Procs |-> "idle"]
  /\ loaded = [p \in Procs |-> NotLoaded]
  /\ pulled = [p \in Procs |-> NotPulled]
  /\ result = [p \in Procs |-> "none"]
  /\ commands = 0 /\ changes = 0
  /\ quiet = [p \in Procs |-> TRUE] /\ alone = [p \in Procs |-> TRUE]
  /\ inSync = [a \in Apps |-> FALSE]

---------------------------------------------------------------------------------

Pulling(p, step) == job[p].cmd = "pull" /\ at[p] = step
Pushing(p, step) == job[p].cmd = "push" /\ at[p] = step
App(p) == job[p].app

HasLoaded(p) == at[p] \in {"env", "command", "save", "setEnv"}

GoTo(p, step) == at' = [at EXCEPT ![p] = step]

\* Everyone else who has loaded local.yml has loaded an old one.
DisturbLoaders(p) == quiet' = [q \in Procs |-> quiet[q] /\ (q = p \/ ~HasLoaded(q))]

\* Everyone else who works on the app finds it changed.
DisturbUsers(p, a) == alone' = [q \in Procs |-> alone[q] /\ (q = p \/ App(q) # a)]

Begin(p) ==
  /\ at[p] = "idle"
  /\ commands < MaxCommands
  /\ \E j \in Pulls \cup Pushes : job' = [job EXCEPT ![p] = j]
  /\ GoTo(p, "droplet")
  /\ result' = [result EXCEPT ![p] = "none"]
  /\ commands' = commands + 1
  /\ alone' = [alone EXCEPT ![p] = TRUE]
  /\ UNCHANGED <<ymlVars, appVars, loaded, pulled, changes, quiet>>

\* The process is over, and with it all that it held.
End(p, r) ==
  /\ GoTo(p, "idle")
  /\ result' = [result EXCEPT ![p] = r]
  /\ job' = [job EXCEPT ![p] = NoJob]
  /\ loaded' = [loaded EXCEPT ![p] = NotLoaded]
  /\ pulled' = [pulled EXCEPT ![p] = NotPulled]
  /\ UNCHANGED <<commands, changes>>

\* A step fails with no effect, or the process is killed.
Fail(p) ==
  /\ at[p] # "idle"
  /\ End(p, "error")
  /\ UNCHANGED <<ymlVars, appVars, quiet, alone>>

\* After a request that had its effect: the next step, or an error.
Answered(p, step) ==
  \/ GoTo(p, step) /\ UNCHANGED <<job, loaded, pulled, result, commands, changes>>
  \/ End(p, "error")

Succeed(p) ==
  /\ at[p] = "report"
  /\ End(p, "ok")
  /\ UNCHANGED <<ymlVars, appVars, quiet, alone>>

---------------------------------------------------------------------------------
(* Pull.Run. *)

SaveDroplet(p) ==
  /\ Pulling(p, "droplet")
  /\ GoTo(p, "load")
  /\ UNCHANGED <<ymlVars, appVars, job, loaded, pulled, result, commands, changes, quiet, alone>>

\* Mutant of Load: getAppConfig adds no entry for an app that is not listed.
LoadListedOnly(p) ==
  /\ at[p] = "load"
  /\ loaded' = [loaded EXCEPT ![p] = [a \in {b \in Apps : yml[b] # NoEntry} |-> yml[a]]]
  /\ quiet' = [quiet EXCEPT ![p] = TRUE]
  /\ GoTo(p, IF job[p].cmd = "pull" THEN "env" ELSE "setEnv")
  /\ UNCHANGED <<ymlVars, appVars, job, pulled, result, commands, changes, alone>>

\* Config.Load, for a pull and for a push with -e.
Load(p) ==
  /\ at[p] = "load"
  /\ loaded' = [loaded EXCEPT ![p] = yml]
  /\ quiet' = [quiet EXCEPT ![p] = TRUE]
  /\ GoTo(p, IF job[p].cmd = "pull" THEN "env" ELSE "setEnv")
  /\ UNCHANGED <<ymlVars, appVars, job, pulled, result, commands, changes, alone>>

GetEnv(p) ==
  /\ Pulling(p, "env")
  /\ pulled' = [pulled EXCEPT ![p].env = remote[App(p)].env]
  /\ alone' = [alone EXCEPT ![p] = TRUE]
  /\ GoTo(p, "command")
  /\ UNCHANGED <<ymlVars, appVars, job, loaded, result, commands, changes, quiet>>

GetCommand(p) ==
  /\ Pulling(p, "command")
  /\ pulled' = [pulled EXCEPT ![p].command = remote[App(p)].command]
  /\ GoTo(p, "save")
  /\ UNCHANGED <<ymlVars, appVars, job, loaded, result, commands, changes, quiet, alone>>

\* Mutant of Save: the file is written with the entry that was pulled and no other.
SaveEntryOnly(p) ==
  /\ Pulling(p, "save")
  /\ yml' = [a \in Apps |-> IF a = App(p) THEN [env |-> pulled[p].env,
                 command |-> pulled[p].command, other |-> loaded[p][a].other] ELSE NoEntry]
  /\ inSync' = [a \in Apps |-> IF a = App(p) THEN alone[p] ELSE inSync[a] /\ quiet[p]]
  /\ DisturbLoaders(p)
  /\ GoTo(p, "report")
  /\ UNCHANGED <<appVars, job, loaded, pulled, result, commands, changes, alone>>

\* Mutant of Save: the start command of an entry that has one is kept.
SaveNewCommandOnly(p) ==
  /\ Pulling(p, "save")
  /\ yml' = [loaded[p] EXCEPT ![App(p)] = [@ EXCEPT !.env = pulled[p].env,
       !.command = IF @ = None THEN pulled[p].command ELSE @]]
  /\ inSync' = [a \in Apps |-> IF a = App(p) THEN alone[p] ELSE inSync[a] /\ quiet[p]]
  /\ DisturbLoaders(p)
  /\ GoTo(p, "report")
  /\ UNCHANGED <<appVars, job, loaded, pulled, result, commands, changes, alone>>

\* Config.Save writes all that was loaded, with the app's entry updated.
Save(p) ==
  /\ Pulling(p, "save")
  /\ yml' = [loaded[p] EXCEPT ![App(p)] = [@ EXCEPT !.env = pulled[p].env,
                                                    !.command = pulled[p].command]]
  /\ inSync' = [a \in Apps |-> IF a = App(p) THEN alone[p] ELSE inSync[a] /\ quiet[p]]
  /\ DisturbLoaders(p)
  /\ GoTo(p, "report")
  /\ UNCHANGED <<appVars, job, loaded, pulled, result, commands, changes, alone>>

---------------------------------------------------------------------------------
(* Push.Run. *)

\* Mutant of AfterEnv: a push with -e does not restart the app.
AfterEnvNoRestart(p) == IF job[p].keepState \/ job[p].pushEnv THEN "report" ELSE "restart"

AfterEnv(p) == IF job[p].keepState THEN "report" ELSE "restart"
AfterDroplet(p) == IF job[p].pushEnv THEN "load" ELSE AfterEnv(p)

\* SetDroplet, as PushContract has it.
SetDroplet(p) ==
  /\ Pushing(p, "droplet")
  /\ remote' = [remote EXCEPT ![App(p)].droplet = job[p].droplet]
  /\ alone' = [q \in Procs |-> q = p \/ (alone[q] /\ App(q) # App(p))]
  /\ Answered(p, AfterDroplet(p))
  /\ UNCHANGED <<ymlVars, running, quiet>>

\* The environment of the app's entry replaces the remote one, also when there is no
\* entry.
SetEnv(p) ==
  /\ Pushing(p, "setEnv")
  /\ remote' = [remote EXCEPT ![App(p)].env = loaded[p][App(p)].env]
  /\ inSync' = [inSync EXCEPT ![App(p)] = @ /\ quiet[p]]
  /\ DisturbUsers(p, App(p))
  /\ Answered(p, AfterEnv(p))
  /\ UNCHANGED <<yml, running, quiet>>

Start(a) ==
  running' = [running EXCEPT ![a] = [droplet |-> remote[a].droplet, env |-> remote[a].env]]

Restart(p) ==
  /\ Pushing(p, "restart")
  /\ Start(App(p))
  /\ Answered(p, "report")
  /\ UNCHANGED <<ymlVars, remote, quiet, alone>>

---------------------------------------------------------------------------------
(* External: what users and Cloud Foundry do. *)

Change ==
  /\ changes < MaxChanges
  /\ changes' = changes + 1

EditEntry(a) ==
  /\ Change
  /\ \E v \in Values : yml' = [yml EXCEPT ![a] = [env |-> v, command |-> v, other |-> v]]
  /\ inSync' = [inSync EXCEPT ![a] = FALSE]
  /\ quiet' = [q \in Procs |-> quiet[q] /\ ~HasLoaded(q)]
  /\ UNCHANGED <<appVars, job, at, loaded, pulled, result, commands, alone>>

\* Somebody else deploys another version of the app.
Redeploy(a) ==
  /\ Change
  /\ \E v \in Values : remote' = [remote EXCEPT ![a] = [droplet |-> v, env |-> v, command |-> v]]
  /\ inSync' = [inSync EXCEPT ![a] = FALSE]
  /\ alone' = [q \in Procs |-> alone[q] /\ App(q) # a]
  /\ UNCHANGED <<yml, running, job, at, loaded, pulled, result, commands, quiet>>

\* An instance that crashes or moves is started with what there is now.
Recover(a) ==
  /\ Start(a)
  /\ UNCHANGED <<ymlVars, remote, job, at, loaded, pulled, result, commands, changes, quiet, alone>>

Next ==
  \/ \E p \in Procs :
       \/ Begin(p) \/ Fail(p) \/ Succeed(p)
       \/ SaveDroplet(p) \/ Load(p) \/ GetEnv(p) \/ GetCommand(p) \/ Save(p)
       \/ SetDroplet(p) \/ SetEnv(p) \/ Restart(p)
  \/ \E a \in Apps : EditEntry(a) \/ Redeploy(a) \/ Recover(a)

Spec == Init /\ [][Next]_vars

---------------------------------------------------------------------------------
(* Properties *)

\* A pull that has local.yml to itself changes only the environment and the start
\* command of its app: entries are lost to overlapping commands alone.
OthersAreKept ==
  [][\A p \in Procs : Save(p) /\ quiet[p] =>
       \A a \in Apps : /\ a # App(p) => yml'[a] = yml[a]
                       /\ yml'[a].other = yml[a].other]_vars

\* An entry pulled in one piece and not changed since is the remote app's, whatever
\* pulls and pushes of other commands and other apps come in between; in particular,
\* pushing it back changes nothing.
PulledIsRemote ==
  \A a \in Apps :
    inSync[a] => yml[a].env = remote[a].env /\ yml[a].command = remote[a].command

\* A push that succeeds without -k, and with its app to itself, leaves running what it
\* pushed; with -e, in the environment it loaded.
PushedIsRunning ==
  [][\A p \in Procs :
       Succeed(p) /\ job[p].cmd = "push" /\ alone[p] /\ ~job[p].keepState =>
         /\ running[App(p)].droplet = job[p].droplet
         /\ running[App(p)].env = remote[App(p)].env
         /\ job[p].pushEnv => running[App(p)].env = loaded[p][App(p)].env]_vars
=================================================================================
