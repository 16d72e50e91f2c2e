--------------------------- MODULE LocalConfigProofs ---------------------------
(***************************************************************************)
(* Proofs about LocalConfig, for any number of processes, apps, values,    *)
(* commands and changes.                                                   *)
(***************************************************************************)
EXTENDS LocalConfig, TLAPS

\* A process that nobody disturbed has loaded what is in local.yml.
LoadedInv ==
  \A p \in Procs : HasLoaded(p) /\ quiet[p] => loaded[p] = yml

\* A pull that nobody disturbed has read what the app has.
ReadInv ==
  \A p \in Procs : alone[p] =>
    /\ Pulling(p, "command") => pulled[p].env = remote[App(p)].env
    /\ Pulling(p, "save") => /\ pulled[p].env = remote[App(p)].env
                             /\ pulled[p].command = remote[App(p)].command

\* A push that nobody disturbed finds its droplet, its environment and its instances
\* as it has left them.
PushInv ==
  \A p \in Procs : job[p].cmd = "push" /\ alone[p] =>
    /\ at[p] \in {"load", "setEnv", "restart", "report"} =>
         remote[App(p)].droplet = job[p].droplet
    /\ at[p] \in {"restart", "report"} /\ job[p].pushEnv =>
         remote[App(p)].env = loaded[p][App(p)].env
    /\ at[p] = "report" /\ ~job[p].keepState =>
         /\ running[App(p)].droplet = remote[App(p)].droplet
         /\ running[App(p)].env = remote[App(p)].env

\* A command has an app, and only a push goes through the steps of a push.
JobInv ==
  \A p \in Procs :
    /\ at[p] # "idle" => job[p] \in Pulls \cup Pushes
    /\ at[p] \in {"env", "command", "save"} => job[p].cmd = "pull"
    /\ at[p] \in {"setEnv", "restart"} => job[p].cmd = "push"
    /\ at[p] = "setEnv" => job[p].pushEnv
    /\ at[p] = "load" /\ job[p].cmd = "push" => job[p].pushEnv
    /\ at[p] = "restart" => ~job[p].keepState

Parts == JobInv /\ LoadedInv /\ ReadInv /\ PushInv /\ PulledIsRemote

IInv == TypeOK /\ Parts
---------------------------------------------------------------------------------
(* Type correctness. *)

LEMMA InitType == Init => TypeOK
<1> SUFFICES ASSUME Init
             PROVE  TypeOK
  OBVIOUS
<1>1. NoEntry \in Entry /\ NoJob \in Pulls \cup Pushes \cup {NoJob}
      /\ NotPulled \in [env : Settings, command : Settings]
  BY DEF NoEntry, Entry, Settings, NotPulled
<1>2. yml \in [Apps -> Entry]
  BY <1>1 DEF Init, Entry, Settings
<1>3. remote \in [Apps -> Remote] /\ running \in [Apps -> Running]
  BY DEF Init, Remote, Running, Settings
<1>4. loaded \in [Procs -> [Apps -> Entry]]
  BY <1>1 DEF Init, NotLoaded
<1>5. commands \in 0..MaxCommands /\ changes \in 0..MaxChanges
  BY BoundAssumption DEF Init
<1>6. QED
  BY <1>1, <1>2, <1>3, <1>4, <1>5 DEF Init, TypeOK, Steps

\* A command that ends leaves what it held in its type.
LEMMA EndType ==
  ASSUME TypeOK, NEW p \in Procs, NEW r \in {"ok", "error"}, End(p, r)
  PROVE  /\ job' \in [Procs -> Pulls \cup Pushes \cup {NoJob}]
         /\ at' \in [Procs -> Steps]
         /\ loaded' \in [Procs -> [Apps -> Entry]]
         /\ pulled' \in [Procs -> [env : Settings, command : Settings]]
         /\ result' \in [Procs -> {"none", "ok", "error"}]
         /\ commands' \in 0..MaxCommands /\ changes' \in 0..MaxChanges
<1>1. NotLoaded \in [Apps -> Entry] /\ NotPulled \in [env : Settings, command : Settings]
  BY DEF NotLoaded, NotPulled, NoEntry, Entry, Settings
<1>2. QED
  BY <1>1 DEF TypeOK, End, GoTo, Steps

LEMMA AnsweredType ==
  ASSUME TypeOK, NEW p \in Procs, NEW step \in Steps, Answered(p, step)
  PROVE  /\ job' \in [Procs -> Pulls \cup Pushes \cup {NoJob}]
         /\ at' \in [Procs -> Steps]
         /\ loaded' \in [Procs -> [Apps -> Entry]]
         /\ pulled' \in [Procs -> [env : Settings, command : Settings]]
         /\ result' \in [Procs -> {"none", "ok", "error"}]
         /\ commands' \in 0..MaxCommands /\ changes' \in 0..MaxChanges
<1>1. CASE GoTo(p, step) /\ UNCHANGED <<job, loaded, pulled, result, commands, changes>>
  BY <1>1 DEF TypeOK, GoTo
<1>2. CASE End(p, "error")
  BY <1>2, EndType
<1>3. QED
  BY <1>1, <1>2 DEF Answered

LEMMA TypeStep == TypeOK /\ JobInv /\ [Next]_vars => TypeOK'
<1> SUFFICES ASSUME TypeOK, JobInv, [Next]_vars
             PROVE  TypeOK'
  OBVIOUS
<1> USE DEF ymlVars, appVars
<1>0. CASE UNCHANGED vars
  BY <1>0 DEF vars, TypeOK
<1>1. ASSUME NEW p \in Procs, Begin(p)
      PROVE  TypeOK'
  <2>1. commands' \in 0..MaxCommands
    BY <1>1, BoundAssumption DEF TypeOK, Begin
  <2>2. QED
    BY <1>1, <2>1 DEF TypeOK, Begin, GoTo, Steps
<1>2. ASSUME NEW p \in Procs, Fail(p) \/ Succeed(p)
      PROVE  TypeOK'
  BY <1>2, EndType DEF TypeOK, Fail, Succeed
<1>3. ASSUME NEW p \in Procs, SaveDroplet(p)
      PROVE  TypeOK'
  BY <1>3 DEF TypeOK, SaveDroplet, GoTo, Steps
<1>4. ASSUME NEW p \in Procs, Load(p)
      PROVE  TypeOK'
  BY <1>4 DEF TypeOK, Load, GoTo, Steps
<1>5. ASSUME NEW p \in Procs, GetEnv(p) \/ GetCommand(p)
      PROVE  TypeOK'
  <2>1. App(p) \in Apps
    BY <1>5 DEF GetEnv, GetCommand, Pulling, JobInv, App, Pulls, Pushes
  <2>2. remote[App(p)].env \in Settings /\ remote[App(p)].command \in Settings
    BY <2>1 DEF TypeOK, Remote
  <2>3. pulled' \in [Procs -> [env : Settings, command : Settings]]
    <3>1. pulled[p] \in [env : Settings, command : Settings]
      BY DEF TypeOK
    <3>2. \E new \in [env : Settings, command : Settings] : pulled' = [pulled EXCEPT ![p] = new]
      <4>1. CASE GetEnv(p)
        <5>1. [pulled[p] EXCEPT !.env = remote[App(p)].env] \in [env : Settings, command : Settings]
          BY <2>2, <3>1
        <5>2. QED
          BY <4>1, <5>1 DEF GetEnv
      <4>2. CASE GetCommand(p)
        <5>1. [pulled[p] EXCEPT !.command = remote[App(p)].command] \in [env : Settings, command : Settings]
          BY <2>2, <3>1
        <5>2. QED
          BY <4>2, <5>1 DEF GetCommand
      <4>3. QED
        BY <1>5, <4>1, <4>2
    <3>3. QED
      BY <3>2 DEF TypeOK
  <2>4. QED
    BY <1>5, <2>3 DEF TypeOK, GetEnv, GetCommand, GoTo, Steps
<1>6. ASSUME NEW p \in Procs, Save(p)
      PROVE  TypeOK'
  <2>1. yml' \in [Apps -> Entry]
    <3> DEFINE old == loaded[p][App(p)]
               new == [old EXCEPT !.env = pulled[p].env, !.command = pulled[p].command]
    <3>1. App(p) \in Apps
      BY <1>6 DEF Save, Pulling, JobInv, App, Pulls, Pushes
    <3>2. loaded[p] \in [Apps -> Entry] /\ old \in Entry
          /\ pulled[p].env \in Settings /\ pulled[p].command \in Settings
      BY <3>1 DEF TypeOK
    <3>3. new \in Entry
      BY <3>2 DEF Entry
    <3>4. yml' = [loaded[p] EXCEPT ![App(p)] = new]
      BY <1>6 DEF Save
    <3>5. QED
      BY <3>2, <3>3, <3>4
  <2>2. inSync' \in [Apps -> BOOLEAN] /\ quiet' \in [Procs -> BOOLEAN]
    BY <1>6 DEF TypeOK, Save, DisturbLoaders, HasLoaded
  <2>3. QED
    BY <1>6, <2>1, <2>2 DEF TypeOK, Save, GoTo, Steps
<1>7. ASSUME NEW p \in Procs, SetDroplet(p)
      PROVE  TypeOK'
  <2>1. job[p] \in Pushes
    BY <1>7 DEF SetDroplet, Pushing, JobInv, Pulls
  <2>2. remote' \in [Apps -> Remote]
    <3> DEFINE new == [remote[App(p)] EXCEPT !.droplet = job[p].droplet]
    <3>1. remote[App(p)] \in Remote /\ job[p].droplet \in Values
      BY <2>1 DEF TypeOK, App, Pushes
    <3>2. new \in Remote
      BY <3>1 DEF Remote
    <3>3. remote' = [remote EXCEPT ![App(p)] = new]
      BY <1>7 DEF SetDroplet
    <3>4. QED
      BY <3>2, <3>3 DEF TypeOK
  <2>3. alone' \in [Procs -> BOOLEAN]
    BY <1>7 DEF TypeOK, SetDroplet
  <2>4. AfterDroplet(p) \in Steps
    BY DEF AfterDroplet, AfterEnv, Steps
  <2>5. QED
    BY <1>7, <2>2, <2>3, <2>4, AnsweredType DEF TypeOK, SetDroplet
<1>8. ASSUME NEW p \in Procs, SetEnv(p)
      PROVE  TypeOK'
  <2>1. job[p] \in Pushes
    BY <1>8 DEF SetEnv, Pushing, JobInv, Pulls
  <2>2. remote' \in [Apps -> Remote]
    <3> DEFINE new == [remote[App(p)] EXCEPT !.env = loaded[p][App(p)].env]
    <3>1. remote[App(p)] \in Remote /\ loaded[p][App(p)] \in Entry
      BY <2>1 DEF TypeOK, App, Pushes
    <3>2. loaded[p][App(p)].env \in Settings
      BY <3>1 DEF Entry
    <3>3. new \in Remote
      BY <3>1, <3>2 DEF Remote
    <3>4. remote' = [remote EXCEPT ![App(p)] = new]
      BY <1>8 DEF SetEnv
    <3>5. QED
      BY <3>3, <3>4 DEF TypeOK
  <2>3. alone' \in [Procs -> BOOLEAN] /\ inSync' \in [Apps -> BOOLEAN]
    BY <1>8 DEF TypeOK, SetEnv, DisturbUsers
  <2>4. AfterEnv(p) \in Steps
    BY DEF AfterEnv, Steps
  <2>5. QED
    BY <1>8, <2>2, <2>3, <2>4, AnsweredType DEF TypeOK, SetEnv
<1>9. ASSUME NEW a, Start(a)
      PROVE  running' \in [Apps -> Running]
  BY <1>9 DEF TypeOK, Start, Running, Remote
<1>10. ASSUME NEW p \in Procs, Restart(p)
       PROVE  TypeOK'
  <2>1. "report" \in Steps
    BY DEF Steps
  <2>2. QED
    BY <1>9, <1>10, <2>1, AnsweredType DEF TypeOK, Restart
<1>11. ASSUME Change
       PROVE  changes' \in 0..MaxChanges
  BY <1>11, BoundAssumption DEF TypeOK, Change
<1>12. ASSUME NEW a \in Apps, EditEntry(a)
       PROVE  TypeOK'
  <2>1. yml' \in [Apps -> Entry] /\ inSync' \in [Apps -> BOOLEAN]
    BY <1>12 DEF TypeOK, EditEntry, Entry, Settings
  <2>2. quiet' \in [Procs -> BOOLEAN]
    BY <1>12 DEF TypeOK, EditEntry, HasLoaded
  <2>3. QED
    BY <1>11, <1>12, <2>1, <2>2 DEF TypeOK, EditEntry
<1>13. ASSUME NEW a \in Apps, Redeploy(a)
       PROVE  TypeOK'
  <2>1. remote' \in [Apps -> Remote] /\ inSync' \in [Apps -> BOOLEAN]
    BY <1>13 DEF TypeOK, Redeploy, Remote, Settings
  <2>2. alone' \in [Procs -> BOOLEAN]
    BY <1>13 DEF TypeOK, Redeploy
  <2>3. QED
    BY <1>11, <1>13, <2>1, <2>2 DEF TypeOK, Redeploy
<1>14. ASSUME NEW a \in Apps, Recover(a)
       PROVE  TypeOK'
  BY <1>9, <1>14 DEF TypeOK, Recover
<1>15. QED
  BY <1>0, <1>1, <1>2, <1>3, <1>4, <1>5, <1>6, <1>7, <1>8, <1>10, <1>12, <1>13, <1>14 DEF Next

---------------------------------------------------------------------------------
(* The parts of the invariant. *)

LEMMA InitParts == Init => Parts
BY DEF Init, Parts, JobInv, LoadedInv, ReadInv, PushInv, PulledIsRemote, HasLoaded, Pulling, NoJob

\* What holds of the others when process p takes a step of its own.
OthersStay(p) ==
  \A q \in Procs \ {p} : /\ job'[q] = job[q] /\ at'[q] = at[q]
                         /\ loaded'[q] = loaded[q] /\ pulled'[q] = pulled[q]

LEMMA EndEffect ==
  ASSUME TypeOK, NEW p \in Procs, NEW r, End(p, r)
  PROVE  /\ OthersStay(p)
         /\ at'[p] = "idle" /\ job'[p] = NoJob
BY DEF TypeOK, End, GoTo, OthersStay

LEMMA AnsweredEffect ==
  ASSUME TypeOK, NEW p \in Procs, NEW step, Answered(p, step)
  PROVE  /\ OthersStay(p)
         /\ \/ at'[p] = "idle" /\ job'[p] = NoJob
            \/ at'[p] = step /\ job'[p] = job[p] /\ loaded'[p] = loaded[p]
<1>1. CASE GoTo(p, step) /\ UNCHANGED <<job, loaded, pulled, result, commands, changes>>
  BY <1>1 DEF TypeOK, GoTo, OthersStay
<1>2. CASE End(p, "error")
  BY <1>2, EndEffect
<1>3. QED
  BY <1>1, <1>2 DEF Answered

\* Steps that touch neither local.yml nor the app: starts, ends and reads.
LEMMA QuietStep ==
  ASSUME IInv, NEW p \in Procs, OthersStay(p), UNCHANGED <<ymlVars, appVars>>,
         \A q \in Procs \ {p} : quiet'[q] = quiet[q] /\ alone'[q] = alone[q],
         JobInv',
         HasLoaded(p)' /\ quiet'[p] => loaded'[p] = yml,
         alone'[p] =>
           /\ Pulling(p, "command")' => pulled'[p].env = remote[job'[p].app].env
           /\ Pulling(p, "save")' => /\ pulled'[p].env = remote[job'[p].app].env
                                     /\ pulled'[p].command = remote[job'[p].app].command,
         job'[p].cmd = "push" /\ alone'[p] =>
           /\ at'[p] \in {"load", "setEnv", "restart", "report"} =>
                /\ alone[p] /\ job'[p] = job[p]
                /\ at[p] \in {"load", "setEnv", "restart", "report"}
           /\ at'[p] \notin {"restart", "report"}
  PROVE  Parts'
<1> USE DEF IInv, Parts, ymlVars, appVars
<1>1. LoadedInv'
  BY DEF LoadedInv, HasLoaded, OthersStay
<1>2. ReadInv'
  BY DEF ReadInv, Pulling, App, OthersStay
<1>3. PushInv'
  <2>1. ASSUME NEW q \in Procs \ {p}, job'[q].cmd = "push", alone'[q]
        PROVE  /\ at'[q] \in {"load", "setEnv", "restart", "report"} =>
                    remote'[job'[q].app].droplet = job'[q].droplet
               /\ at'[q] \in {"restart", "report"} /\ job'[q].pushEnv =>
                    remote'[job'[q].app].env = loaded'[q][job'[q].app].env
               /\ at'[q] = "report" /\ ~job'[q].keepState =>
                    /\ running'[job'[q].app].droplet = remote'[job'[q].app].droplet
                    /\ running'[job'[q].app].env = remote'[job'[q].app].env
    BY <2>1 DEF PushInv, App, OthersStay
  <2>2. ASSUME job'[p].cmd = "push", alone'[p]
        PROVE  /\ at'[p] \notin {"restart", "report"}
               /\ at'[p] \in {"load", "setEnv"} => remote'[job'[p].app].droplet = job'[p].droplet
    BY <2>2 DEF PushInv, App
  <2>3. QED
    BY <2>1, <2>2 DEF PushInv, App
<1>4. PulledIsRemote'
  BY DEF PulledIsRemote
<1>5. QED
  BY <1>1, <1>2, <1>3, <1>4

LEMMA ReadSteps ==
  ASSUME IInv, NEW p \in Procs,
         \/ Begin(p) \/ Fail(p) \/ Succeed(p)
         \/ SaveDroplet(p) \/ Load(p) \/ GetEnv(p) \/ GetCommand(p)
  PROVE  Parts'
<1> USE DEF IInv, Parts
<1>1. CASE Begin(p)
  <2>1. /\ OthersStay(p) /\ at'[p] = "droplet" /\ job'[p] \in Pulls \cup Pushes
        /\ UNCHANGED <<ymlVars, appVars>>
        /\ \A q \in Procs \ {p} : quiet'[q] = quiet[q] /\ alone'[q] = alone[q]
    BY <1>1 DEF Begin, GoTo, TypeOK, OthersStay
  <2>2. JobInv'
    BY <2>1 DEF JobInv, OthersStay
  <2>3. QED
    BY <2>1, <2>2, QuietStep DEF HasLoaded, Pulling
<1>2. CASE Fail(p) \/ Succeed(p)
  <2>1. PICK r \in {"ok", "error"} : End(p, r)
    BY <1>2 DEF Fail, Succeed
  <2>2. OthersStay(p) /\ at'[p] = "idle" /\ job'[p] = NoJob
    BY <2>1, EndEffect
  <2>3. UNCHANGED <<ymlVars, appVars, quiet, alone>>
    BY <1>2 DEF Fail, Succeed
  <2>4. JobInv'
    BY <2>2 DEF JobInv, OthersStay
  <2>5. QED
    BY <2>2, <2>3, <2>4, QuietStep DEF HasLoaded, Pulling, NoJob
<1>3. CASE SaveDroplet(p)
  <2>1. /\ OthersStay(p) /\ at'[p] = "load" /\ job'[p] = job[p] /\ job[p].cmd = "pull"
        /\ UNCHANGED <<ymlVars, appVars, quiet, alone>>
    BY <1>3 DEF SaveDroplet, Pulling, GoTo, TypeOK, OthersStay
  <2>2. JobInv'
    BY <1>3, <2>1 DEF SaveDroplet, Pulling, JobInv, OthersStay
  <2>3. QED
    BY <2>1, <2>2, QuietStep DEF HasLoaded, Pulling
<1>4. CASE Load(p)
  <2>1. /\ OthersStay(p) /\ job'[p] = job[p] /\ loaded'[p] = yml
        /\ at[p] = "load" /\ at'[p] = IF job[p].cmd = "pull" THEN "env" ELSE "setEnv"
        /\ UNCHANGED <<ymlVars, appVars, alone>>
        /\ \A q \in Procs \ {p} : quiet'[q] = quiet[q]
    BY <1>4 DEF Load, GoTo, TypeOK, OthersStay
  <2>2. JobInv'
    BY <2>1 DEF JobInv, OthersStay, Pulls, Pushes
  <2>3. QED
    BY <2>1, <2>2, QuietStep DEF HasLoaded, Pulling
<1>5. CASE GetEnv(p)
  <2>1. /\ OthersStay(p) /\ job'[p] = job[p] /\ job[p].cmd = "pull" /\ at[p] = "env"
        /\ at'[p] = "command" /\ loaded' = loaded /\ quiet' = quiet
        /\ UNCHANGED <<ymlVars, appVars>>
        /\ \A q \in Procs \ {p} : alone'[q] = alone[q]
        /\ pulled'[p] = [pulled[p] EXCEPT !.env = remote[App(p)].env]
        /\ pulled[p] \in [env : Settings, command : Settings]
    BY <1>5 DEF GetEnv, Pulling, GoTo, TypeOK, OthersStay
  <2>2. pulled'[p].env = remote[job'[p].app].env
    BY <2>1 DEF App
  <2>3. JobInv'
    BY <2>1 DEF JobInv, OthersStay
  <2>4. HasLoaded(p)' /\ quiet'[p] => loaded'[p] = yml
    BY <2>1 DEF LoadedInv, HasLoaded
  <2>5. QED
    BY <2>1, <2>2, <2>3, <2>4, QuietStep DEF Pulling
<1>6. CASE GetCommand(p)
  <2>1. /\ OthersStay(p) /\ job'[p] = job[p] /\ job[p].cmd = "pull" /\ at[p] = "command"
        /\ at'[p] = "save" /\ loaded' = loaded /\ quiet' = quiet /\ alone' = alone
        /\ UNCHANGED <<ymlVars, appVars>>
        /\ pulled'[p] = [pulled[p] EXCEPT !.command = remote[App(p)].command]
        /\ pulled[p] \in [env : Settings, command : Settings]
    BY <1>6 DEF GetCommand, Pulling, GoTo, TypeOK, OthersStay
  <2>2. pulled'[p].command = remote[job'[p].app].command /\ pulled'[p].env = pulled[p].env
    BY <2>1 DEF App
  <2>3. alone[p] => pulled[p].env = remote[App(p)].env
    BY <2>1 DEF ReadInv, Pulling
  <2>4. JobInv'
    BY <2>1 DEF JobInv, OthersStay
  <2>5. HasLoaded(p)' /\ quiet'[p] => loaded'[p] = yml
    BY <2>1 DEF LoadedInv, HasLoaded
  <2>6. QED
    BY <2>1, <2>2, <2>3, <2>4, <2>5, QuietStep DEF Pulling, App
<1>7. QED
  BY <1>1, <1>2, <1>3, <1>4, <1>5, <1>6

\* An undisturbed pull saves what is in the file, with what the app has.
LEMMA SaveStep ==
  ASSUME IInv, NEW p \in Procs, Save(p)
  PROVE  Parts'
<1> USE DEF IInv, Parts, appVars
<1> DEFINE a == App(p)
<1>1. /\ OthersStay(p) /\ job' = job /\ job[p].cmd = "pull" /\ at[p] = "save"
      /\ at'[p] = "report" /\ loaded' = loaded /\ alone' = alone /\ pulled' = pulled
      /\ UNCHANGED appVars
  BY DEF Save, Pulling, GoTo, TypeOK, OthersStay
<1>2. a \in Apps /\ loaded[p] \in [Apps -> Entry] /\ loaded[p][a] \in Entry
  BY <1>1 DEF JobInv, App, Pulls, Pushes, TypeOK
<1>3. /\ yml'[a].env = pulled[p].env /\ yml'[a].command = pulled[p].command
      /\ yml'[a].other = loaded[p][a].other
      /\ \A b \in Apps : b # a => yml'[b] = loaded[p][b]
  BY <1>2 DEF Save, Entry
<1>4. \A b \in Apps : inSync'[b] = IF b = a THEN alone[p] ELSE inSync[b] /\ quiet[p]
  BY DEF Save
<1>5. \A q \in Procs : quiet'[q] = (quiet[q] /\ (q = p \/ ~HasLoaded(q)))
  BY DEF Save, DisturbLoaders
<1>6. JobInv'
  BY <1>1 DEF JobInv, OthersStay
<1>7. LoadedInv'
  BY <1>1, <1>5 DEF LoadedInv, HasLoaded, OthersStay
<1>8. ReadInv'
  BY <1>1 DEF ReadInv, Pulling, App, OthersStay
<1>9. PushInv'
  BY <1>1 DEF PushInv, App, OthersStay
<1>10. PulledIsRemote'
  <2>1. inSync'[a] => yml'[a].env = remote[a].env /\ yml'[a].command = remote[a].command
    BY <1>1, <1>2, <1>3, <1>4 DEF ReadInv, Pulling
  <2>2. quiet[p] => loaded[p] = yml
    BY <1>1 DEF LoadedInv, HasLoaded
  <2>3. \A b \in Apps : b # a /\ inSync'[b] => yml'[b] = yml[b] /\ inSync[b]
    BY <1>3, <1>4, <2>2
  <2>4. QED
    BY <1>1, <2>1, <2>3 DEF PulledIsRemote
<1>11. QED
  BY <1>6, <1>7, <1>8, <1>9, <1>10

LEMMA SetDropletStep ==
  ASSUME IInv, NEW p \in Procs, SetDroplet(p)
  PROVE  Parts'
<1> USE DEF IInv, Parts, ymlVars
<1> DEFINE a == App(p)
<1>1. /\ job[p] \in Pushes /\ a \in Apps /\ at[p] = "droplet" /\ job[p].cmd = "push"
      /\ remote[a] \in Remote
  BY DEF SetDroplet, Pushing, JobInv, App, Pulls, Pushes, TypeOK
<1>2. /\ OthersStay(p)
      /\ \/ at'[p] = "idle" /\ job'[p] = NoJob
         \/ at'[p] = AfterDroplet(p) /\ job'[p] = job[p]
  BY AnsweredEffect DEF SetDroplet
<1>3. /\ remote'[a].droplet = job[p].droplet /\ remote'[a].env = remote[a].env
      /\ remote'[a].command = remote[a].command
      /\ \A b \in Apps : b # a => remote'[b] = remote[b]
      /\ UNCHANGED <<ymlVars, running, quiet>>
  BY <1>1 DEF SetDroplet, TypeOK, Remote
<1>4. \A q \in Procs \ {p} : alone'[q] => alone[q] /\ App(q) # a
  BY DEF SetDroplet
<1>5. JobInv'
  <2>1. CASE at'[p] = "idle" /\ job'[p] = NoJob
    BY <1>2, <2>1 DEF JobInv, OthersStay
  <2>2. CASE at'[p] = AfterDroplet(p) /\ job'[p] = job[p]
    BY <1>1, <1>2, <2>2 DEF JobInv, OthersStay, AfterDroplet, AfterEnv
  <2>3. QED
    BY <1>2, <2>1, <2>2
<1>6. at'[p] \in {"idle", "load", "restart", "report"}
  BY <1>2 DEF AfterDroplet, AfterEnv
<1>7. LoadedInv'
  BY <1>2, <1>3, <1>6 DEF LoadedInv, HasLoaded, OthersStay
<1>8. ReadInv'
  <2>1. \A q \in Procs \ {p} : alone'[q] /\ at[q] \in {"command", "save"} =>
          App(q) \in Apps /\ remote'[App(q)] = remote[App(q)]
    BY <1>3, <1>4 DEF JobInv, App, Pulls, Pushes
  <2>2. QED
    BY <1>2, <1>4, <1>6, <2>1 DEF ReadInv, Pulling, App, OthersStay
<1>9. PushInv'
  <2>1. ASSUME NEW q \in Procs \ {p}, job'[q].cmd = "push", alone'[q], at'[q] # "idle"
        PROVE  /\ at'[q] \in {"load", "setEnv", "restart", "report"} =>
                    remote'[job'[q].app].droplet = job'[q].droplet
               /\ at'[q] \in {"restart", "report"} /\ job'[q].pushEnv =>
                    remote'[job'[q].app].env = loaded'[q][job'[q].app].env
               /\ at'[q] = "report" /\ ~job'[q].keepState =>
                    /\ running'[job'[q].app].droplet = remote'[job'[q].app].droplet
                    /\ running'[job'[q].app].env = remote'[job'[q].app].env
    <3>1. App(q) \in Apps /\ remote'[App(q)] = remote[App(q)] /\ alone[q]
      BY <1>2, <1>3, <1>4, <2>1 DEF JobInv, App, Pulls, Pushes, OthersStay
    <3>2. QED
      BY <1>2, <1>3, <2>1, <3>1 DEF PushInv, App, OthersStay
  <2>2. ASSUME job'[p].cmd = "push"
        PROVE  /\ remote'[job'[p].app].droplet = job'[p].droplet
               /\ at'[p] \in {"restart", "report"} => ~job'[p].pushEnv
               /\ at'[p] = "report" => job'[p].keepState
    BY <1>1, <1>2, <1>3, <2>2 DEF NoJob, App, AfterDroplet, AfterEnv
  <2>3. QED
    BY <2>1, <2>2 DEF PushInv, App
<1>10. PulledIsRemote'
  BY <1>3 DEF PulledIsRemote
<1>11. QED
  BY <1>5, <1>7, <1>8, <1>9, <1>10

LEMMA SetEnvStep ==
  ASSUME IInv, NEW p \in Procs, SetEnv(p)
  PROVE  Parts'
<1> USE DEF IInv, Parts
<1> DEFINE a == App(p)
<1>1. /\ job[p] \in Pushes /\ a \in Apps /\ at[p] = "setEnv" /\ job[p].cmd = "push"
      /\ remote[a] \in Remote
  BY DEF SetEnv, Pushing, JobInv, App, Pulls, Pushes, TypeOK
<1>2. /\ OthersStay(p)
      /\ \/ at'[p] = "idle" /\ job'[p] = NoJob
         \/ at'[p] = AfterEnv(p) /\ job'[p] = job[p] /\ loaded'[p] = loaded[p]
  BY AnsweredEffect DEF SetEnv
<1>3. /\ remote'[a].env = loaded[p][a].env /\ remote'[a].droplet = remote[a].droplet
      /\ remote'[a].command = remote[a].command
      /\ \A b \in Apps : b # a => remote'[b] = remote[b]
      /\ UNCHANGED <<yml, running, quiet>>
  BY <1>1 DEF SetEnv, TypeOK, Remote
<1>4. \A q \in Procs : alone'[q] => alone[q] /\ (q = p \/ App(q) # a)
  BY DEF SetEnv, DisturbUsers
<1>5. \A b \in Apps : inSync'[b] => inSync[b] /\ (b = a => quiet[p])
  BY <1>1 DEF SetEnv, TypeOK
<1>6. JobInv'
  <2>1. CASE at'[p] = "idle" /\ job'[p] = NoJob
    BY <1>2, <2>1 DEF JobInv, OthersStay
  <2>2. CASE at'[p] = AfterEnv(p) /\ job'[p] = job[p]
    BY <1>1, <1>2, <2>2 DEF JobInv, OthersStay, AfterEnv
  <2>3. QED
    BY <1>2, <2>1, <2>2
<1>7. at'[p] \in {"idle", "restart", "report"}
  BY <1>2 DEF AfterEnv
<1>8. LoadedInv'
  BY <1>2, <1>3, <1>7 DEF LoadedInv, HasLoaded, OthersStay
<1>9. ReadInv'
  <2>1. \A q \in Procs \ {p} : alone'[q] /\ at[q] \in {"command", "save"} =>
          App(q) \in Apps /\ remote'[App(q)] = remote[App(q)]
    BY <1>3, <1>4 DEF JobInv, App, Pulls, Pushes
  <2>2. QED
    BY <1>2, <1>4, <1>7, <2>1 DEF ReadInv, Pulling, App, OthersStay
<1>10. PushInv'
  <2>1. ASSUME NEW q \in Procs \ {p}, job'[q].cmd = "push", alone'[q], at'[q] # "idle"
        PROVE  /\ at'[q] \in {"load", "setEnv", "restart", "report"} =>
                    remote'[job'[q].app].droplet = job'[q].droplet
               /\ at'[q] \in {"restart", "report"} /\ job'[q].pushEnv =>
                    remote'[job'[q].app].env = loaded'[q][job'[q].app].env
               /\ at'[q] = "report" /\ ~job'[q].keepState =>
                    /\ running'[job'[q].app].droplet = remote'[job'[q].app].droplet
                    /\ running'[job'[q].app].env = remote'[job'[q].app].env
    <3>1. App(q) \in Apps /\ remote'[App(q)] = remote[App(q)] /\ alone[q]
      BY <1>2, <1>3, <1>4, <2>1 DEF JobInv, App, Pulls, Pushes, OthersStay
    <3>2. QED
      BY <1>2, <1>3, <2>1, <3>1 DEF PushInv, App, OthersStay
  <2>2. ASSUME job'[p].cmd = "push", alone'[p]
        PROVE  /\ remote'[job'[p].app].droplet = job'[p].droplet
               /\ remote'[job'[p].app].env = loaded'[p][job'[p].app].env
               /\ at'[p] = "report" => job'[p].keepState
    <3>1. remote[a].droplet = job[p].droplet
      BY <1>1, <1>4, <2>2 DEF PushInv
    <3>2. QED
      BY <1>1, <1>2, <1>3, <2>2, <3>1 DEF NoJob, App, AfterEnv
  <2>3. QED
    BY <2>1, <2>2 DEF PushInv, App
<1>11. PulledIsRemote'
  <2>1. quiet[p] => loaded[p] = yml
    BY <1>1 DEF LoadedInv, HasLoaded
  <2>2. QED
    BY <1>1, <1>3, <1>5, <2>1 DEF PulledIsRemote
<1>12. QED
  BY <1>6, <1>8, <1>9, <1>10, <1>11

\* Whoever starts the app, it runs what it has.
LEMMA StartEffect ==
  ASSUME TypeOK, NEW a \in Apps, Start(a)
  PROVE  \A b \in Apps :
           \/ /\ running'[b].droplet = remote[b].droplet
              /\ running'[b].env = remote[b].env
           \/ b # a /\ running'[b] = running[b]
BY DEF TypeOK, Start

LEMMA RestartStep ==
  ASSUME IInv, NEW p \in Procs, Restart(p)
  PROVE  Parts'
<1> USE DEF IInv, Parts, ymlVars
<1> DEFINE a == App(p)
<1>1. job[p] \in Pushes /\ a \in Apps /\ at[p] = "restart" /\ job[p].cmd = "push"
  BY DEF Restart, Pushing, JobInv, App, Pulls, Pushes
<1>2. /\ OthersStay(p)
      /\ \/ at'[p] = "idle" /\ job'[p] = NoJob
         \/ at'[p] = "report" /\ job'[p] = job[p] /\ loaded'[p] = loaded[p]
  BY AnsweredEffect DEF Restart
<1>3. UNCHANGED <<ymlVars, remote, quiet, alone>>
  BY DEF Restart
<1>4. \A b \in Apps :
        \/ running'[b].droplet = remote[b].droplet /\ running'[b].env = remote[b].env
        \/ b # a /\ running'[b] = running[b]
  BY <1>1, StartEffect DEF Restart
<1>5. JobInv'
  <2>1. CASE at'[p] = "idle" /\ job'[p] = NoJob
    BY <1>2, <2>1 DEF JobInv, OthersStay
  <2>2. CASE at'[p] = "report" /\ job'[p] = job[p]
    BY <1>1, <1>2, <2>2 DEF JobInv, OthersStay
  <2>3. QED
    BY <1>2, <2>1, <2>2
<1>6. LoadedInv'
  BY <1>2, <1>3 DEF LoadedInv, HasLoaded, OthersStay
<1>7. ReadInv'
  BY <1>2, <1>3 DEF ReadInv, Pulling, App, OthersStay
<1>8. PushInv'
  <2>1. ASSUME NEW q \in Procs \ {p}, job'[q].cmd = "push", alone'[q], at'[q] # "idle"
        PROVE  /\ at'[q] \in {"load", "setEnv", "restart", "report"} =>
                    remote'[job'[q].app].droplet = job'[q].droplet
               /\ at'[q] \in {"restart", "report"} /\ job'[q].pushEnv =>
                    remote'[job'[q].app].env = loaded'[q][job'[q].app].env
               /\ at'[q] = "report" /\ ~job'[q].keepState =>
                    /\ running'[job'[q].app].droplet = remote'[job'[q].app].droplet
                    /\ running'[job'[q].app].env = remote'[job'[q].app].env
    <3>1. App(q) \in Apps
      BY <1>2, <2>1 DEF JobInv, App, Pulls, Pushes, OthersStay
    <3>2. QED
      BY <1>2, <1>3, <1>4, <2>1, <3>1 DEF PushInv, App, OthersStay
  <2>2. ASSUME job'[p].cmd = "push", alone'[p]
        PROVE  /\ remote'[job'[p].app].droplet = job'[p].droplet
               /\ job'[p].pushEnv => remote'[job'[p].app].env = loaded'[p][job'[p].app].env
               /\ running'[job'[p].app].droplet = remote'[job'[p].app].droplet
               /\ running'[job'[p].app].env = remote'[job'[p].app].env
    BY <1>1, <1>2, <1>3, <1>4, <2>2 DEF PushInv, NoJob, App
  <2>3. QED
    BY <2>1, <2>2 DEF PushInv, App
<1>9. PulledIsRemote'
  BY <1>3 DEF PulledIsRemote
<1>10. QED
  BY <1>5, <1>6, <1>7, <1>8, <1>9

LEMMA OutsideStep ==
  ASSUME IInv, NEW a \in Apps, EditEntry(a) \/ Redeploy(a) \/ Recover(a)
  PROVE  Parts'
<1> USE DEF IInv, Parts
<1>1. UNCHANGED <<job, at, loaded, pulled>>
  BY DEF EditEntry, Redeploy, Recover
<1>2. JobInv'
  BY <1>1 DEF JobInv
<1>3. CASE EditEntry(a)
  <2>1. /\ UNCHANGED <<remote, running, alone>>
        /\ \A b \in Apps : inSync'[b] => inSync[b] /\ yml'[b] = yml[b]
        /\ \A q \in Procs : ~(HasLoaded(q) /\ quiet'[q])
    BY <1>3 DEF EditEntry, TypeOK, appVars
  <2>2. LoadedInv'
    BY <1>1, <2>1 DEF LoadedInv, HasLoaded
  <2>3. ReadInv' /\ PushInv'
    BY <1>1, <2>1 DEF ReadInv, PushInv, Pulling, App
  <2>4. PulledIsRemote'
    BY <2>1 DEF PulledIsRemote
  <2>5. QED
    BY <1>2, <2>2, <2>3, <2>4
<1>4. CASE Redeploy(a)
  <2>1. /\ UNCHANGED <<yml, running, quiet>>
        /\ \A b \in Apps : inSync'[b] => inSync[b] /\ remote'[b] = remote[b]
        /\ \A b \in Apps : b # a => remote'[b] = remote[b]
        /\ \A q \in Procs : alone'[q] => alone[q] /\ App(q) # a
    BY <1>4 DEF Redeploy, TypeOK
  <2>2. LoadedInv'
    BY <1>1, <2>1 DEF LoadedInv, HasLoaded
  <2>3. \A q \in Procs : alone'[q] /\ at[q] # "idle" =>
          alone[q] /\ App(q) \in Apps /\ remote'[App(q)] = remote[App(q)]
    BY <2>1 DEF JobInv, App, Pulls, Pushes
  <2>4. ReadInv'
    BY <1>1, <2>3 DEF ReadInv, Pulling, App
  <2>5. PushInv'
    BY <1>1, <2>1, <2>3 DEF PushInv, App
  <2>6. PulledIsRemote'
    BY <2>1 DEF PulledIsRemote
  <2>7. QED
    BY <1>2, <2>2, <2>4, <2>5, <2>6
<1>5. CASE Recover(a)
  <2>1. UNCHANGED <<yml, inSync, remote, quiet, alone>>
    BY <1>5 DEF Recover, ymlVars
  <2>2. \A b \in Apps :
          \/ running'[b].droplet = remote[b].droplet /\ running'[b].env = remote[b].env
          \/ running'[b] = running[b]
    BY <1>5, StartEffect DEF Recover
  <2>3. \A q \in Procs : at[q] # "idle" => App(q) \in Apps
    BY DEF JobInv, App, Pulls, Pushes
  <2>4. LoadedInv' /\ ReadInv' /\ PulledIsRemote'
    BY <1>1, <2>1 DEF LoadedInv, HasLoaded, ReadInv, Pulling, App, PulledIsRemote
  <2>5. PushInv'
    BY <1>1, <2>1, <2>2, <2>3 DEF PushInv, App
  <2>6. QED
    BY <1>2, <2>4, <2>5
<1>6. QED
  BY <1>3, <1>4, <1>5

LEMMA Inductive == Spec => []IInv
<1>1. Init => IInv
  BY InitType, InitParts DEF IInv
<1>2. IInv /\ [Next]_vars => IInv'
  <2> SUFFICES ASSUME IInv, [Next]_vars
               PROVE  Parts'
    BY TypeStep DEF IInv, Parts
  <2>1. CASE UNCHANGED vars
    BY <2>1 DEF vars, ymlVars, appVars, IInv, Parts, JobInv, LoadedInv, ReadInv, PushInv,
       PulledIsRemote, HasLoaded, Pulling, App
  <2>2. CASE Next
    BY <2>2, ReadSteps, SaveStep, SetDropletStep, SetEnvStep, RestartStep, OutsideStep DEF Next
  <2>3. QED
    BY <2>1, <2>2
<1>3. QED
  BY <1>1, <1>2, PTL DEF Spec

---------------------------------------------------------------------------------

\* Everything keeps its type: in particular every entry that is loaded is complete.
THEOREM TypeCorrect == Spec => []TypeOK
<1>1. IInv => TypeOK
  BY DEF IInv
<1>2. QED
  BY <1>1, Inductive, PTL

\* An entry that was pulled in one piece stays what the remote app has until somebody
\* changes one of the two, for any number of commands in between.
THEOREM PullsAreFaithful == Spec => []PulledIsRemote
<1>1. IInv => PulledIsRemote
  BY DEF IInv, Parts
<1>2. QED
  BY <1>1, Inductive, PTL

\* A pull that has local.yml to itself loses nothing of it.
THEOREM SavesKeepOthers == Spec => OthersAreKept
<1>1. IInv /\ [Next]_vars =>
        [\A p \in Procs : Save(p) /\ quiet[p] =>
           \A a \in Apps : /\ a # App(p) => yml'[a] = yml[a]
                           /\ yml'[a].other = yml[a].other]_vars
  <2> SUFFICES ASSUME IInv, NEW p \in Procs, Save(p), quiet[p], NEW a \in Apps
               PROVE  (a # App(p) => yml'[a] = yml[a]) /\ yml'[a].other = yml[a].other
    OBVIOUS
  <2>1. loaded[p] = yml
    BY DEF IInv, Parts, LoadedInv, HasLoaded, Save, Pulling
  <2>2. yml[a] \in Entry /\ yml \in [Apps -> Entry]
    BY DEF IInv, TypeOK
  <2>3. yml' = [yml EXCEPT ![App(p)] = [@ EXCEPT !.env = pulled[p].env,
                                                 !.command = pulled[p].command]]
    BY <2>1 DEF Save
  <2>4. QED
    BY <2>2, <2>3 DEF Entry
<1>2. QED
  BY <1>1, Inductive, PTL DEF Spec, OthersAreKept

\* A push that succeeds with its app to itself has what it pushed running.
THEOREM PushesRun == Spec => PushedIsRunning
<1>1. IInv /\ [Next]_vars =>
        [\A p \in Procs :
           Succeed(p) /\ job[p].cmd = "push" /\ alone[p] /\ ~job[p].keepState =>
             /\ running[App(p)].droplet = job[p].droplet
             /\ running[App(p)].env = remote[App(p)].env
             /\ job[p].pushEnv => running[App(p)].env = loaded[p][App(p)].env]_vars
  BY DEF IInv, Parts, PushInv, Succeed
<1>2. QED
  BY <1>1, Inductive, PTL DEF Spec, PushedIsRunning

================================================================================
