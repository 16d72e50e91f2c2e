------------------------------ MODULE PluginProcess -----------------------------
(***************************************************************************)
(* The process of the plugin: main (main.go), the start under the cf CLI   *)
(* (cfplugin/plugin_shim.go, cli_connection.go), and Run and Install       *)
(* (plugin/plugin.go), with the dispatch of cf.CF.Run (cf/cf.go).          *)
(*                                                                         *)
(* A goroutine waits for a signal and closes exitChan, which the container *)
(* engine looks at, and main when the command has returned.  The binary    *)
(* started without arguments installs itself with three commands of the    *)
(* cf CLI.  The minimum version of the CLI is not asked for: the metadata  *)
(* names none.                                                             *)
(*                                                                         *)
(* External: the cf CLI, the container engine, and the command itself,     *)
(* which RunCommand, LocalDroplet and LocalConfig model.                   *)
(***************************************************************************)
EXTENDS Naturals

CONSTANT Pings  \* attempts of pingCLI, 5 in the code
ASSUME PingsAssumption == Pings \in Nat \ {0}

VARIABLES
  mode,       \* how the binary was started
  kind,       \* what is asked of `cf local`: a "container" command (stage, run, export), a
              \* "remote" one (push, pull), "info" (help, version) or an "invalid" one
  pc,         \* main's next step
  pings,      \* attempts to dial the cf CLI
  engine,     \* "none", "open", "closed"
  outcome,    \* how the command ended
  RunErr,     \* Plugin.RunErr is set
  exit,       \* the exit code
  handler,    \* the signal goroutine: "starting", "waiting", "closing", "done"
  pending,    \* a signal in signalChan, which holds one
  exitChan,   \* exitChan has been closed
  signalled,  \* a signal was sent to the process
  installed,  \* the plugin that the cf CLI has: "none", "old", "new"
  operation   \* the local variable of Install: "none", "installed", "upgraded"

signalVars == <<handler, pending, exitChan, signalled>>
installVars == <<installed, operation>>
vars == <<mode, kind, pc, pings, engine, outcome, RunErr, exit, signalVars, installVars>>

Modes == {"help", "metadata", "uninstall", "local", "install"}
Kinds == {"container", "remote", "info", "invalid"}
Running == 256  \* no exit code: the process runs

TypeOK ==
  /\ mode \in Modes /\ kind \in Kinds
  /\ pc \in {"start", "ping", "send", "engine", "ssl", "command", "close", "select",
             "uninstall", "version", "add", "exit"}
  /\ pings \in 0..Pings
  /\ engine \in {"none", "open", "closed"}
  /\ outcome \in {"none", "ok", "error", "interrupted"}
  /\ RunErr \in BOOLEAN
  /\ exit \in {0, 1, 128, Running}
  /\ handler \in {"starting", "waiting", "closing", "done"}
  /\ pending \in BOOLEAN /\ exitChan \in BOOLEAN /\ signalled \in BOOLEAN
  /\ installed \in {"none", "old", "new"}
  /\ operation \in {"none", "installed", "upgraded"}

Init ==
  /\ mode \in Modes /\ kind \in Kinds
  /\ pc = "start" /\ pings = 0 /\ engine = "none"
  /\ outcome = "none" /\ RunErr = FALSE /\ exit = Running
  /\ handler = "starting" /\ pending = FALSE /\ exitChan = FALSE /\ signalled = FALSE
  /\ installed \in {"none", "old"} /\ operation = "none"

At(step) == exit = Running /\ pc = step
GoTo(step) == pc' = step /\ UNCHANGED exit
Exit(code) == pc' = "exit" /\ exit' = code

---------------------------------------------------------------------------------
(* The signal goroutine.  signal.Notify does not wait for a receiver: a     *)
(* signal that finds signalChan full is dropped.                            *)

\* Mutant of Signal: signalChan holds nothing, and a signal before the receive is lost.
SignalUnbuffered ==
  /\ exit = Running
  /\ signalled' = TRUE
  /\ handler' = IF handler = "waiting" THEN "closing" ELSE handler
  /\ UNCHANGED <<mode, kind, pc, pings, engine, outcome, RunErr, exit, pending, exitChan, installVars>>

Signal ==
  /\ exit = Running
  /\ signalled' = TRUE /\ pending' = TRUE
  /\ UNCHANGED <<mode, kind, pc, pings, engine, outcome, RunErr, exit, handler, exitChan, installVars>>

\* Between `go` and the receive, and from the receive to the close, main runs on.
ReceiveSignal ==
  /\ exit = Running
  /\ \/ handler = "starting" /\ handler' = "waiting" /\ UNCHANGED pending
     \/ handler = "waiting" /\ pending /\ handler' = "closing" /\ pending' = FALSE
  /\ UNCHANGED <<mode, kind, pc, pings, engine, outcome, RunErr, exit, exitChan, signalled, installVars>>

CloseExit ==
  /\ exit = Running
  /\ handler = "closing"
  /\ handler' = "done" /\ exitChan' = TRUE
  /\ UNCHANGED <<mode, kind, pc, pings, engine, outcome, RunErr, exit, pending, signalled, installVars>>

---------------------------------------------------------------------------------
(* main, cfplugin.Start and Plugin.Run. *)

Main ==
  /\ At("start")
  /\ \/ mode = "help" /\ GoTo("select")
     \/ mode = "install" /\ GoTo("uninstall")
     \/ mode \notin {"help", "install"} /\ GoTo("ping")
  /\ UNCHANGED <<mode, kind, pings, engine, outcome, RunErr, signalVars, installVars>>

\* Mutant of PingFails: the last attempt is not counted.
PingFailsOnceMore ==
  /\ At("ping")
  /\ pings' = pings + 1
  /\ IF pings > Pings THEN Exit(1) ELSE GoTo("ping")
  /\ UNCHANGED <<mode, kind, engine, outcome, RunErr, signalVars, installVars>>

PingFails ==
  /\ At("ping")
  /\ pings' = pings + 1
  /\ IF pings' = Pings THEN Exit(1) ELSE GoTo("ping")
  /\ UNCHANGED <<mode, kind, engine, outcome, RunErr, signalVars, installVars>>

\* The CLI tells a plugin of its removal through Run, which does nothing then.
PingAnswered ==
  /\ At("ping")
  /\ \/ mode = "metadata" /\ GoTo("send")
     \/ mode = "uninstall" /\ GoTo("select")
     \/ mode = "local" /\ GoTo("engine")
  /\ UNCHANGED <<mode, kind, pings, engine, outcome, RunErr, signalVars, installVars>>

\* sendPluginMetadataToCliServer exits by itself.
SendMetadata ==
  /\ At("send")
  /\ \/ Exit(0) /\ outcome' = "ok"
     \/ Exit(1) /\ outcome' = "error"
  /\ UNCHANGED <<mode, kind, pings, engine, RunErr, signalVars, installVars>>

OpenEngine ==
  /\ At("engine")
  /\ \/ GoTo("ssl") /\ engine' = "open" /\ UNCHANGED <<outcome, RunErr>>
     \/ GoTo("select") /\ RunErr' = TRUE /\ outcome' = "error" /\ UNCHANGED engine
  /\ UNCHANGED <<mode, kind, pings, signalVars, installVars>>

IsSSLDisabled ==
  /\ At("ssl")
  /\ \/ GoTo("command") /\ UNCHANGED <<outcome, RunErr>>
     \/ GoTo("close") /\ RunErr' = TRUE /\ outcome' = "error"
  /\ UNCHANGED <<mode, kind, pings, engine, signalVars, installVars>>

\* Help.Long prints the error of the cf CLI, and does not return it.
Shown == {"ok", "error"}

\* cf.CF.Run of help or version.
ShowInfo ==
  /\ At("command") /\ kind = "info"
  /\ GoTo("close")
  /\ outcome' \in Shown
  /\ UNCHANGED <<mode, kind, pings, engine, RunErr, signalVars, installVars>>

RefuseCommand ==
  /\ At("command") /\ kind = "invalid"
  /\ GoTo("close")
  /\ outcome' = "error" /\ RunErr' = TRUE
  /\ UNCHANGED <<mode, kind, pings, engine, signalVars, installVars>>

CommandReturns ==
  /\ At("command") /\ kind \in {"container", "remote"}
  /\ GoTo("close")
  /\ \/ outcome' = "ok" /\ UNCHANGED RunErr
     \/ outcome' = "error" /\ RunErr' = TRUE
  /\ UNCHANGED <<mode, kind, pings, engine, signalVars, installVars>>

\* The engine of a container command ends what it is at when exitChan is closed; the
\* command may take that for an error or for its end.
CommandInterrupted ==
  /\ At("command") /\ exitChan /\ kind = "container"
  /\ GoTo("close") /\ outcome' = "interrupted" /\ RunErr' \in BOOLEAN
  /\ UNCHANGED <<mode, kind, pings, engine, signalVars, installVars>>

CloseEngine ==
  /\ At("close")
  /\ GoTo("select") /\ engine' = "closed"
  /\ UNCHANGED <<mode, kind, pings, outcome, RunErr, signalVars, installVars>>

\* Mutant of Select: the error is looked at first.
SelectErrorFirst ==
  /\ At("select")
  /\ Exit(IF RunErr THEN 1 ELSE IF exitChan THEN 128 ELSE 0)
  /\ UNCHANGED <<mode, kind, pings, engine, outcome, RunErr, signalVars, installVars>>

Select ==
  /\ At("select")
  /\ Exit(IF exitChan THEN 128 ELSE IF RunErr THEN 1 ELSE 0)
  /\ UNCHANGED <<mode, kind, pings, engine, outcome, RunErr, signalVars, installVars>>

---------------------------------------------------------------------------------
(* Plugin.Install.  A command of the CLI that fails may have had its effect. *)

Uninstall ==
  /\ At("uninstall")
  /\ GoTo("version")
  /\ \/ installed = "old" /\ installed' = "none" /\ operation' = "upgraded"
     \/ installed' \in {installed, "none"} /\ operation' = "installed"
  /\ UNCHANGED <<mode, kind, pings, engine, outcome, RunErr, signalVars>>

\* The path of the binary, before all, and the version of the CLI.
InstallFails ==
  /\ pc \in {"uninstall", "version"} /\ At(pc)
  /\ Exit(1) /\ outcome' = "error"
  /\ UNCHANGED <<mode, kind, pings, engine, RunErr, signalVars, installVars>>

CheckVersion ==
  /\ At("version") /\ GoTo("add")
  /\ UNCHANGED <<mode, kind, pings, engine, outcome, RunErr, signalVars, installVars>>

AddPlugin ==
  /\ At("add")
  /\ \/ installed' = "new" /\ Exit(0) /\ outcome' = "ok"
     \/ installed' \in {"new", installed} /\ Exit(1) /\ outcome' = "error"
  /\ UNCHANGED <<mode, kind, pings, engine, RunErr, signalVars, operation>>

---------------------------------------------------------------------------------

Handler == ReceiveSignal \/ CloseExit

\* Steps of main other than the command's own end.
MainSteps ==
  \/ Main \/ PingFails \/ PingAnswered \/ SendMetadata
  \/ OpenEngine \/ IsSSLDisabled \/ ShowInfo \/ RefuseCommand
  \/ CommandInterrupted \/ CloseEngine \/ Select
  \/ Uninstall \/ InstallFails \/ CheckVersion \/ AddPlugin

Next == Signal \/ Handler \/ MainSteps \/ CommandReturns

\* The scheduler runs both goroutines, and what main calls before and after the command
\* answers.  A command ends when its engine is told to, and perhaps never by itself.
Fairness == WF_vars(Handler) /\ WF_vars(MainSteps)

Spec == Init /\ [][Next]_vars /\ Fairness

---------------------------------------------------------------------------------
(* Properties *)

\* The exit code says what happened: 0 for a command that succeeded, 1 for an error, 128
\* for an interrupt, which hides how the command ended; a command that was interrupted
\* does not exit with its error, and one that is not known exits with 1.  Only of a help
\* that could not be shown does the code say nothing.  After an installation that exits
\* with 0 the cf CLI has this plugin.
ExitCodeIsTrue ==
  /\ exit = 0 => outcome = "ok" \/ mode \in {"help", "uninstall"} \/ kind = "info"
  /\ exit = 0 /\ mode = "install" => installed = "new"
  /\ exit = 1 => outcome = "error" \/ pings = Pings
  /\ exit = 128 => signalled
  /\ outcome = "interrupted" => exit \in {Running, 128}

\* A signal ends a container command, whenever it comes: before the goroutine receives,
\* before the command has begun or while it runs.
SignalEndsCommand == signalled /\ mode = "local" /\ kind = "container" ~> exit # Running
=================================================================================
