------------------------------ MODULE PluginProofs -------------------------------
(***************************************************************************)
(* Proofs about the plugin under the cf CLI: about PluginProcess, for any  *)
(* number of pings, and about CliConnection, for any number of commands.   *)
(* The invariant of the process says what main has learnt at each step and *)
(* that whatever closes exitChan goes back to a signal; that of the        *)
(* connection, what the calls that returned no error have done at the      *)
(* server, and whose output is still there.  The two share no variable:    *)
(* of a command the process sees only how it ended.                        *)
(***************************************************************************)
EXTENDS PluginProcess, CliConnection, SequenceTheorems, TLAPS

---------------------------------------------------------------------------------
(* The process: its invariant. *)

\* The steps that each way of starting the binary goes through.
ModeInv ==
  /\ pc \in {"engine", "ssl", "command", "close"} => mode = "local"
  /\ pc = "send" => mode = "metadata"
  /\ pc \in {"uninstall", "version", "add"} => mode = "install"
  /\ pc = "select" => mode \in {"help", "uninstall", "local"}
  /\ exit = Running <=> pc # "exit"

\* pingCLI ends at its last attempt.
PingInv == pc # "exit" => pings < Pings

\* exitChan is closed after a signal only.
SignalInv ==
  /\ pending => signalled
  /\ handler = "closing" => signalled
  /\ exitChan => signalled

\* An error is known as such, an interrupt only with exitChan closed, and nothing is left
\* without an outcome.
OutcomeInv ==
  /\ pc \notin {"close", "select", "exit"} => outcome = "none" /\ ~RunErr
  /\ RunErr => outcome \in {"error", "interrupted"}
  /\ outcome = "interrupted" => exitChan /\ pc \in {"close", "select", "exit"}
  /\ pc \in {"close", "select"} /\ mode = "local" /\ kind # "info" /\ ~RunErr =>
       outcome \in {"ok", "interrupted"}

ProcessInv == TypeOK /\ ModeInv /\ PingInv /\ SignalInv /\ OutcomeInv /\ ExitCodeIsTrue

---------------------------------------------------------------------------------
(* The invariant of the process is inductive. *)

LEMMA ProcessInitInv == Init => ProcessInv
<1> SUFFICES ASSUME Init PROVE ProcessInv
  OBVIOUS
<1>1. pings \in 0..Pings
  BY PingsAssumption DEF Init
<1>2. TypeOK
  BY <1>1 DEF Init, TypeOK, Running
<1>3. ModeInv /\ PingInv /\ SignalInv /\ OutcomeInv
  BY PingsAssumption DEF Init, ModeInv, PingInv, SignalInv, OutcomeInv
<1>4. ExitCodeIsTrue
  BY DEF Init, ExitCodeIsTrue, Running
<1>5. QED
  BY <1>2, <1>3, <1>4 DEF ProcessInv

\* A signal and the goroutine that receives it.
LEMMA HandlerKeepsProcessInv ==
  ASSUME ProcessInv, Signal \/ Handler
  PROVE  ProcessInv'
<1> USE DEF ProcessInv
<1>1. /\ UNCHANGED <<mode, kind, pc, pings, engine, outcome, RunErr, exit, installVars>>
      /\ signalled => signalled'
      /\ exitChan => exitChan'
  BY DEF Signal, Handler, ReceiveSignal, CloseExit, TypeOK
<1>2. TypeOK' /\ SignalInv'
  <2>1. CASE Signal
    <3>1. signalled' = TRUE /\ pending' = TRUE /\ UNCHANGED <<handler, exitChan>>
      BY <2>1 DEF Signal
    <3>2. TypeOK'
      BY <1>1, <3>1 DEF TypeOK, installVars
    <3>3. SignalInv'
      BY <3>1 DEF SignalInv
    <3>4. QED
      BY <3>2, <3>3
  <2>2. CASE ReceiveSignal
    <3>1. UNCHANGED <<exitChan, signalled>>
      BY <2>2 DEF ReceiveSignal
    <3>2. CASE handler' = "waiting" /\ UNCHANGED pending
      <4>1. TypeOK'
        BY <1>1, <3>1, <3>2 DEF TypeOK, installVars
      <4>2. QED
        BY <3>1, <3>2, <4>1 DEF SignalInv
    <3>3. CASE pending /\ handler' = "closing" /\ pending' = FALSE
      <4>1. handler' \in {"waiting", "closing"} /\ pending' \in BOOLEAN
        BY <3>3
      <4>2. TypeOK'
        BY <1>1, <3>1, <4>1 DEF TypeOK, installVars
      <4>3. QED
        BY <3>1, <3>3, <4>2 DEF SignalInv
    <3>4. QED
      BY <2>2, <3>2, <3>3 DEF ReceiveSignal
  <2>3. CASE CloseExit
    BY <1>1, <2>3 DEF CloseExit, TypeOK, SignalInv, installVars
  <2>4. QED
    BY <2>1, <2>2, <2>3 DEF Handler
<1>3. ModeInv' /\ PingInv' /\ OutcomeInv'
  BY <1>1 DEF ModeInv, PingInv, OutcomeInv
<1>4. ExitCodeIsTrue'
  BY <1>1 DEF ExitCodeIsTrue, installVars
<1>5. QED
  BY <1>2, <1>3, <1>4

LEMMA MainKeepsProcessInv ==
  ASSUME ProcessInv, MainSteps \/ CommandReturns
  PROVE  ProcessInv'
<1> USE DEF ProcessInv, At, GoTo, Exit, Running, Modes, Kinds
<1>1. UNCHANGED <<mode, kind, signalVars>>
  BY DEF MainSteps, CommandReturns, Main, PingFails, PingAnswered, SendMetadata, OpenEngine,
     IsSSLDisabled, ShowInfo, RefuseCommand, CommandInterrupted, CloseEngine, Select,
     Uninstall, InstallFails, CheckVersion, AddPlugin
<1>2. SignalInv'
  BY <1>1 DEF SignalInv, signalVars
<1>3. CASE Main \/ PingAnswered
  <2>1. TypeOK'
    BY <1>3 DEF Main, PingAnswered, TypeOK, signalVars, installVars
  <2>2. ModeInv' /\ PingInv'
    BY <1>3 DEF Main, PingAnswered, TypeOK, ModeInv, PingInv
  <2>3. OutcomeInv'
    BY <1>3 DEF Main, PingAnswered, TypeOK, ModeInv, OutcomeInv, signalVars
  <2>4. ExitCodeIsTrue'
    BY <1>3 DEF Main, PingAnswered, TypeOK, ModeInv, SignalInv, OutcomeInv, ExitCodeIsTrue,
       signalVars, installVars
  <2>5. QED
    BY <1>2, <2>1, <2>2, <2>3, <2>4
<1>4. CASE PingFails
  <2>1. pings' \in 0..Pings /\ PingInv'
    <3>1. pings \in Nat /\ Pings \in Nat /\ pings < Pings /\ pings' = pings + 1
      BY <1>4, PingsAssumption DEF PingFails, PingInv, TypeOK
    <3>2. pc' # "exit" => pings' # Pings
      BY <1>4 DEF PingFails
    <3>3. QED
      BY <3>1, <3>2 DEF PingInv
  <2>2. TypeOK'
    BY <1>4, <2>1 DEF PingFails, TypeOK, signalVars, installVars
  <2>3. ModeInv' /\ OutcomeInv' /\ ExitCodeIsTrue'
    BY <1>4 DEF PingFails, TypeOK, ModeInv, OutcomeInv, ExitCodeIsTrue, signalVars,
       installVars
  <2>4. QED
    BY <1>2, <2>1, <2>2, <2>3
<1>5. CASE SendMetadata
  <2>1. TypeOK'
    BY <1>5 DEF SendMetadata, TypeOK, signalVars, installVars
  <2>2. ModeInv' /\ PingInv'
    BY <1>5 DEF SendMetadata, TypeOK, ModeInv, PingInv
  <2>3. OutcomeInv'
    BY <1>5 DEF SendMetadata, TypeOK, ModeInv, OutcomeInv, signalVars
  <2>4. ExitCodeIsTrue'
    BY <1>5 DEF SendMetadata, TypeOK, ModeInv, SignalInv, OutcomeInv, ExitCodeIsTrue,
       signalVars, installVars
  <2>5. QED
    BY <1>2, <2>1, <2>2, <2>3, <2>4
<1>6. CASE OpenEngine \/ IsSSLDisabled
  <2>1. TypeOK'
    BY <1>6 DEF OpenEngine, IsSSLDisabled, TypeOK, signalVars, installVars
  <2>2. ModeInv' /\ PingInv'
    BY <1>6 DEF OpenEngine, IsSSLDisabled, TypeOK, ModeInv, PingInv
  <2>3. OutcomeInv'
    BY <1>6 DEF OpenEngine, IsSSLDisabled, TypeOK, ModeInv, OutcomeInv, signalVars
  <2>4. ExitCodeIsTrue'
    BY <1>6 DEF OpenEngine, IsSSLDisabled, TypeOK, ModeInv, SignalInv, OutcomeInv, ExitCodeIsTrue,
       signalVars, installVars
  <2>5. QED
    BY <1>2, <2>1, <2>2, <2>3, <2>4
<1>7. CASE ShowInfo \/ RefuseCommand
  <2>1. TypeOK'
    BY <1>7 DEF ShowInfo, Shown, RefuseCommand, TypeOK, signalVars, installVars
  <2>2. ModeInv' /\ PingInv'
    BY <1>7 DEF ShowInfo, Shown, RefuseCommand, TypeOK, ModeInv, PingInv
  <2>3. OutcomeInv'
    BY <1>7 DEF ShowInfo, Shown, RefuseCommand, TypeOK, ModeInv, OutcomeInv, signalVars
  <2>4. ExitCodeIsTrue'
    BY <1>7 DEF ShowInfo, Shown, RefuseCommand, TypeOK, ModeInv, SignalInv, OutcomeInv, ExitCodeIsTrue,
       signalVars, installVars
  <2>5. QED
    BY <1>2, <2>1, <2>2, <2>3, <2>4
<1>8. CASE CommandReturns \/ CommandInterrupted
  <2>1. TypeOK'
    BY <1>8 DEF CommandReturns, CommandInterrupted, TypeOK, signalVars, installVars
  <2>2. ModeInv' /\ PingInv'
    BY <1>8 DEF CommandReturns, CommandInterrupted, TypeOK, ModeInv, PingInv
  <2>3. OutcomeInv'
    BY <1>8 DEF CommandReturns, CommandInterrupted, TypeOK, ModeInv, OutcomeInv, signalVars
  <2>4. ExitCodeIsTrue'
    BY <1>8 DEF CommandReturns, CommandInterrupted, TypeOK, ModeInv, SignalInv, OutcomeInv, ExitCodeIsTrue,
       signalVars, installVars
  <2>5. QED
    BY <1>2, <2>1, <2>2, <2>3, <2>4
<1>9. CASE CloseEngine
  <2>1. TypeOK'
    BY <1>9 DEF CloseEngine, TypeOK, signalVars, installVars
  <2>2. ModeInv' /\ PingInv'
    BY <1>9 DEF CloseEngine, TypeOK, ModeInv, PingInv
  <2>3. OutcomeInv'
    BY <1>9 DEF CloseEngine, TypeOK, ModeInv, OutcomeInv, signalVars
  <2>4. ExitCodeIsTrue'
    BY <1>9 DEF CloseEngine, TypeOK, ModeInv, SignalInv, OutcomeInv, ExitCodeIsTrue,
       signalVars, installVars
  <2>5. QED
    BY <1>2, <2>1, <2>2, <2>3, <2>4
<1>10. CASE Select
  <2>1. TypeOK'
    BY <1>10 DEF Select, TypeOK, signalVars, installVars
  <2>2. ModeInv' /\ PingInv'
    BY <1>10 DEF Select, TypeOK, ModeInv, PingInv
  <2>3. OutcomeInv'
    BY <1>10 DEF Select, TypeOK, ModeInv, OutcomeInv, signalVars
  <2>4. ExitCodeIsTrue'
    BY <1>10 DEF Select, TypeOK, ModeInv, SignalInv, OutcomeInv, ExitCodeIsTrue,
       signalVars, installVars
  <2>5. QED
    BY <1>2, <2>1, <2>2, <2>3, <2>4
<1>11. CASE Uninstall \/ CheckVersion
  <2>1. TypeOK'
    BY <1>11 DEF Uninstall, CheckVersion, TypeOK, signalVars, installVars
  <2>2. ModeInv' /\ PingInv'
    BY <1>11 DEF Uninstall, CheckVersion, TypeOK, ModeInv, PingInv
  <2>3. OutcomeInv'
    BY <1>11 DEF Uninstall, CheckVersion, TypeOK, ModeInv, OutcomeInv, signalVars
  <2>4. ExitCodeIsTrue'
    BY <1>11 DEF Uninstall, CheckVersion, TypeOK, ModeInv, SignalInv, OutcomeInv, ExitCodeIsTrue,
       signalVars, installVars
  <2>5. QED
    BY <1>2, <2>1, <2>2, <2>3, <2>4
<1>12. CASE InstallFails \/ AddPlugin
  <2>1. TypeOK'
    BY <1>12 DEF InstallFails, AddPlugin, TypeOK, signalVars, installVars
  <2>2. ModeInv' /\ PingInv'
    BY <1>12 DEF InstallFails, AddPlugin, TypeOK, ModeInv, PingInv
  <2>3. OutcomeInv'
    BY <1>12 DEF InstallFails, AddPlugin, TypeOK, ModeInv, OutcomeInv, signalVars
  <2>4. ExitCodeIsTrue'
    BY <1>12 DEF InstallFails, AddPlugin, TypeOK, ModeInv, SignalInv, OutcomeInv, ExitCodeIsTrue,
       signalVars, installVars
  <2>5. QED
    BY <1>2, <2>1, <2>2, <2>3, <2>4
<1>13. QED
  BY <1>3, <1>4, <1>5, <1>6, <1>7, <1>8, <1>9, <1>10, <1>11, <1>12 DEF MainSteps

LEMMA ProcessInvariant == Spec => []ProcessInv
<1>1. ProcessInv /\ [Next]_vars => ProcessInv'
  <2>1. ProcessInv /\ UNCHANGED vars => ProcessInv'
    BY DEF ProcessInv, TypeOK, ModeInv, PingInv, SignalInv, OutcomeInv, ExitCodeIsTrue, vars, signalVars,
       installVars
  <2>2. QED
    BY <2>1, HandlerKeepsProcessInv, MainKeepsProcessInv DEF Next
<1>2. QED
  BY <1>1, ProcessInitInv, PTL DEF Spec

---------------------------------------------------------------------------------
(* What follows for the process. *)

\* Type correctness: the process exits with 0, 1 or 128 only, and pingCLI gives up after
\* its last attempt (main.go:49-60, cli_connection.go).
THEOREM TypesHold == Spec => []TypeOK
BY ProcessInvariant, PTL DEF ProcessInv

\* The exit code is that of what happened, whenever a signal comes (main.go:20-60,
\* plugin.go).
THEOREM ExitCodesAreTrue == Spec => []ExitCodeIsTrue
BY ProcessInvariant, PTL DEF ProcessInv

---------------------------------------------------------------------------------
(* The connection: its invariant. *)

\* As long as no call of a command has failed, the server did what was asked.
CallInv ==
  /\ shown \subseteq 1..call
  /\ step \notin {"idle", "get"} => call \in Calls
  /\ step \in {"terminal", "core"} => call \notin shown
  /\ step = "core" /\ errs = {} => quiet = silently
  /\ step \in {"output", "decide"} /\ errs = {} /\ success =>
       ran[call] = "ok" /\ (call \in shown <=> ~silently)

\* What is in the buffer was left there by a command that could not take its output, and
\* has not been returned.
BufferInv ==
  /\ ToSet(buffer) \subseteq 1..call
  /\ \A m \in ToSet(buffer) \cap DOMAIN answers : "output" \in answers[m].errs
  /\ \A n \in DOMAIN answers : ToSet(buffer) \cap ToSet(answers[n].output) = {}
  /\ step \in {"terminal", "core"} => call \notin ToSet(buffer)
  /\ step = "output" /\ errs = {} => buffer # <<>> /\ Last(buffer) = call
  /\ step = "decide" /\ call \in ToSet(buffer) => "output" \in errs

\* What will be returned.
OutputInv ==
  step = "decide" /\ errs = {} /\ success =>
    /\ buffer = <<>>
    /\ cmdOutput # <<>> /\ Last(cmdOutput) = call
    /\ \A m \in ToSet(cmdOutput) \ {call} : m < call /\ "output" \in answers[m].errs
    /\ \A n \in DOMAIN answers : ToSet(cmdOutput) \cap ToSet(answers[n].output) = {}

\* An output holds nothing of a later command, and an error comes without output.
AnswersInv ==
  \A n \in DOMAIN answers :
    /\ ToSet(answers[n].output) \subseteq 1..n
    /\ ~answers[n].ok => answers[n].output = <<>>

CliInv ==
  /\ CliTypeOK /\ CallInv /\ BufferInv /\ OutputInv /\ AnswersInv
  /\ OkMeansRanAsAsked /\ OutputIsOwn

---------------------------------------------------------------------------------
(* Sequences of commands. *)

LEMMA AppendElements ==
  ASSUME NEW S, NEW s \in Seq(S), NEW e \in S
  PROVE  /\ Append(s, e) \in Seq(S) /\ Append(s, e) # <<>>
         /\ Last(Append(s, e)) = e
         /\ ToSet(Append(s, e)) = ToSet(s) \cup {e}
<1> DEFINE t == Append(s, e)
<1>1. /\ t \in Seq(S) /\ t # <<>> /\ Len(t) = Len(s) + 1
      /\ \A i \in 1..Len(s) : t[i] = s[i]
      /\ t[Len(s) + 1] = e
  BY AppendProperties
<1>2. Len(s) \in Nat /\ DOMAIN s = 1..Len(s) /\ DOMAIN t = 1..Len(s) + 1
  BY <1>1, LenProperties
<1>3. 1..Len(s) + 1 = (1..Len(s)) \cup {Len(s) + 1}
  BY <1>2
<1>4. ToSet(t) = ToSet(s) \cup {e}
  BY <1>1, <1>2, <1>3 DEF ToSet
<1>5. QED
  BY <1>1, <1>4 DEF Last

LEMMA EmptyElements == ToSet(<<>>) = {}
BY DEF ToSet

\* Where the answers end.
LEMMA AnswersSoFar ==
  ASSUME CliTypeOK
  PROVE  /\ Len(answers) \in Nat /\ DOMAIN answers = 1..Len(answers)
         /\ call \in Nat
         /\ step \in {"idle", "get"} => DOMAIN answers = 1..call
         /\ step \notin {"idle", "get"} => DOMAIN answers = 1..call - 1
BY LenProperties DEF CliTypeOK

---------------------------------------------------------------------------------
(* The connection at the start. *)

LEMMA CliInitInv == CliInit => CliInv
<1> SUFFICES ASSUME CliInit PROVE CliInv
  OBVIOUS
<1>1. <<>> \in Seq(Calls) /\ <<>> \in Seq(Answers) /\ Len(<<>>) = 0 /\ DOMAIN <<>> = {}
  BY EmptySeq
<1>2. call \in 0..MaxCalls
  BY MaxCallsAssumption DEF CliInit
<1>3. CliTypeOK
  <2>1. ran \in [Calls -> {"no", "ok", "failed"}]
    BY DEF CliInit
  <2>2. /\ cmdOutput \in Seq(Calls) /\ buffer \in Seq(Calls) /\ answers \in Seq(Answers)
        /\ Len(answers) = IF step \in {"idle", "get"} THEN call ELSE call - 1
    BY <1>1 DEF CliInit
  <2>3. /\ silently \in BOOLEAN /\ alive \in BOOLEAN /\ success \in BOOLEAN
        /\ quiet \in BOOLEAN
    BY DEF CliInit
  <2>4. QED
    BY <1>2, <2>1, <2>2, <2>3 DEF CliInit, CliTypeOK
<1>4. CallInv /\ OutputInv /\ AnswersInv
  BY <1>1 DEF CliInit, CallInv, OutputInv, AnswersInv
<1>5. BufferInv
  BY <1>1, EmptyElements DEF CliInit, BufferInv
<1>6. OkMeansRanAsAsked /\ OutputIsOwn
  BY <1>1 DEF CliInit, OkMeansRanAsAsked, OutputIsOwn
<1>7. QED
  BY <1>3, <1>4, <1>5, <1>6 DEF CliInv

---------------------------------------------------------------------------------
(* A command that begins, and the call that sets the terminal. *)

LEMMA BeginKeepsCliInv ==
  ASSUME CliInv, NEW s \in BOOLEAN, Begin(s)
  PROVE  CliInv'
<1>0. /\ CliTypeOK /\ CallInv /\ BufferInv /\ AnswersInv /\ OkMeansRanAsAsked /\ OutputIsOwn
      /\ DOMAIN answers = 1..call /\ call \in Nat /\ Len(answers) = call
      /\ MaxCalls \in Nat
  BY AnswersSoFar, MaxCallsAssumption DEF CliInv, CliTypeOK, Begin
<1>1. /\ step' \in {"terminal", "decide"} /\ call' = call + 1 /\ call' \in Calls
      /\ success' = FALSE /\ errs' = {} /\ silently' = s /\ alive' \in BOOLEAN
      /\ cmdOutput' = <<>> /\ got' = "none"
      /\ UNCHANGED <<answers, quiet, buffer, ran, shown>>
  <2>1. call' = call + 1 /\ call < MaxCalls
    BY DEF Begin
  <2>2. call' \in Calls
    BY <1>0, <2>1 DEF Calls
  <2>3. alive' \in BOOLEAN /\ step' \in {"terminal", "decide"}
    BY DEF Begin
  <2>4. QED
    BY <2>1, <2>2, <2>3 DEF Begin, serverVars
<1>2. CliTypeOK'
  <2>1. cmdOutput' \in Seq(Calls)
    BY <1>1, EmptySeq
  <2>2. call' \in 0..MaxCalls /\ Len(answers') = call' - 1
    BY <1>0, <1>1 DEF Calls
  <2>3. success' \in BOOLEAN /\ silently' \in BOOLEAN /\ step' \notin {"idle", "get"}
    BY <1>1
  <2>4. /\ answers' \in Seq(Answers) /\ quiet' \in BOOLEAN /\ buffer' \in Seq(Calls)
        /\ ran' \in [Calls -> {"no", "ok", "failed"}] /\ shown' \subseteq Calls
    BY <1>0, <1>1 DEF CliTypeOK
  <2>5. step' \in {"idle", "decide", "get"} \cup Errors /\ errs' \subseteq Errors
    BY <1>1 DEF Errors
  <2>6. QED
    BY <1>1, <2>1, <2>2, <2>3, <2>4, <2>5 DEF CliTypeOK
<1>3. 1..call \subseteq 1..call' /\ call' \notin 1..call
  BY <1>0, <1>1
<1>4. CallInv'
  BY <1>0, <1>1, <1>3 DEF CallInv
<1>5. BufferInv'
  BY <1>0, <1>1, <1>3 DEF BufferInv
<1>6. OutputInv'
  BY <1>1 DEF OutputInv
<1>7. AnswersInv'
  BY <1>0, <1>1, <1>3 DEF AnswersInv
<1>8. OkMeansRanAsAsked' /\ OutputIsOwn'
  BY <1>0, <1>1 DEF OkMeansRanAsAsked, OutputIsOwn
<1>9. QED
  BY <1>2, <1>4, <1>5, <1>6, <1>7, <1>8 DEF CliInv

LEMMA TerminalKeepsCliInv ==
  ASSUME CliInv, DisableTerminalOutput
  PROVE  CliInv'
<1>0. CliTypeOK /\ CallInv /\ BufferInv /\ AnswersInv /\ OkMeansRanAsAsked /\ OutputIsOwn
  BY DEF CliInv
<1>1. /\ step = "terminal" /\ step' = "core"
      /\ errs' \in {errs, errs \cup {"terminal"}}
      /\ UNCHANGED <<call, silently, answers, got, buffer, ran, shown, cmdOutput>>
  BY DEF DisableTerminalOutput, Replied, Failed
<1>2. alive' \in BOOLEAN /\ success' \in BOOLEAN /\ quiet' \in BOOLEAN
  BY <1>0 DEF DisableTerminalOutput, Replied, Failed, CliTypeOK
<1>3. errs' = {} => quiet' = silently'
  BY DEF DisableTerminalOutput, Replied, Failed
<1>4. CliTypeOK'
  BY <1>0, <1>1, <1>2 DEF CliTypeOK, Errors
<1>5. CallInv'
  BY <1>0, <1>1, <1>3 DEF CallInv
<1>6. BufferInv' /\ OutputInv' /\ AnswersInv'
  BY <1>0, <1>1 DEF BufferInv, OutputInv, AnswersInv
<1>7. OkMeansRanAsAsked' /\ OutputIsOwn'
  BY <1>0, <1>1 DEF OkMeansRanAsAsked, OutputIsOwn
<1>8. QED
  BY <1>4, <1>5, <1>6, <1>7 DEF CliInv

---------------------------------------------------------------------------------
(* The call that runs the command. *)

LEMMA CoreKeepsCliInv ==
  ASSUME CliInv, CallCoreCommand
  PROVE  CliInv'
<1>0. /\ CliTypeOK /\ CallInv /\ BufferInv /\ AnswersInv /\ OkMeansRanAsAsked /\ OutputIsOwn
      /\ step = "core" /\ step' = "output"
      /\ call \in Calls /\ call \in Nat /\ DOMAIN answers = 1..call - 1
      /\ UNCHANGED <<call, silently, answers, got, cmdOutput>>
  <2>1. /\ CliTypeOK /\ CallInv /\ BufferInv /\ AnswersInv /\ OkMeansRanAsAsked /\ OutputIsOwn
        /\ step = "core" /\ step' = "output"
        /\ UNCHANGED <<call, silently, answers, got, cmdOutput>>
    BY DEF CliInv, CallCoreCommand, Replied, Failed
  <2>2. QED
    BY <2>1, AnswersSoFar DEF CallInv
<1>1. /\ errs' \in {errs, errs \cup {"core"}} /\ alive' \in BOOLEAN /\ success' \in BOOLEAN
  BY <1>0 DEF CallCoreCommand, Replied, Failed, CliTypeOK
<1>2. AnswersInv' /\ OutputIsOwn' /\ OutputInv'
  BY <1>0 DEF AnswersInv, OutputIsOwn, OutputInv
<1>3. call \notin DOMAIN answers /\ \A n \in DOMAIN answers : n # call /\ n \in Nat
  BY <1>0
<1>4. CASE UNCHANGED serverVars /\ errs' # {}
  <2>1. UNCHANGED <<quiet, buffer, ran, shown>>
    BY <1>4 DEF serverVars
  <2>2. CliTypeOK'
    BY <1>0, <1>1, <2>1 DEF CliTypeOK, Errors
  <2>3. CallInv' /\ BufferInv'
    BY <1>0, <1>4, <2>1 DEF CallInv, BufferInv
  <2>4. OkMeansRanAsAsked'
    BY <1>0, <2>1 DEF OkMeansRanAsAsked
  <2>5. QED
    BY <1>2, <2>2, <2>3, <2>4 DEF CliInv
<1>5. ASSUME NEW how \in {"ok", "failed"}, RunCommand(how),
             errs' = {} => errs = {} /\ (success' <=> how = "ok")
      PROVE  CliInv'
  <2>1. /\ ran' = [ran EXCEPT ![call] = how] /\ buffer' = Append(buffer, call)
        /\ shown' = IF quiet THEN shown ELSE shown \cup {call}
        /\ UNCHANGED quiet
    BY <1>5 DEF RunCommand
  <2>2. /\ buffer' \in Seq(Calls) /\ buffer' # <<>> /\ Last(buffer') = call
        /\ ToSet(buffer') = ToSet(buffer) \cup {call}
    BY <1>0, <2>1, AppendElements DEF CliTypeOK
  <2>3. /\ ran' \in [Calls -> {"no", "ok", "failed"}] /\ ran'[call] = how
        /\ \A n \in DOMAIN answers : ran'[n] = ran[n] /\ (n \in shown' <=> n \in shown)
    BY <1>0, <1>3, <2>1 DEF CliTypeOK
  <2>4. shown' \subseteq Calls /\ shown' \subseteq 1..call
    BY <1>0, <2>1 DEF CliTypeOK, CallInv
  <2>5. CliTypeOK'
    BY <1>0, <1>1, <2>1, <2>2, <2>3, <2>4 DEF CliTypeOK, Errors
  <2>6. CallInv'
    <3>1. errs' = {} /\ success' => ran'[call] = "ok" /\ (call \in shown' <=> ~silently)
      BY <1>0, <1>5, <2>1, <2>3 DEF CallInv, CliTypeOK
    <3>2. QED
      BY <1>0, <2>4, <3>1 DEF CallInv
  <2>7. BufferInv'
    <3>1. \A n \in DOMAIN answers : call \notin ToSet(answers[n].output)
      <4> SUFFICES ASSUME NEW n \in DOMAIN answers
                   PROVE  call \notin ToSet(answers[n].output)
        OBVIOUS
      <4>1. ToSet(answers[n].output) \subseteq 1..n
        BY <1>0 DEF AnswersInv
      <4>2. n \in 1..call - 1
        BY <1>0
      <4>3. call \notin 1..n
        BY <1>0, <4>2
      <4>4. QED
        BY <4>1, <4>3
    <3>2. ToSet(buffer') \subseteq 1..call
      <4>1. call \in 1..call
        BY <1>0 DEF Calls
      <4>2. ToSet(buffer) \subseteq 1..call
        BY <1>0 DEF BufferInv
      <4>3. QED
        BY <2>2, <4>1, <4>2
    <3>3. \A m \in ToSet(buffer') \cap DOMAIN answers : "output" \in answers[m].errs
      BY <1>0, <1>3, <2>2 DEF BufferInv
    <3>4. \A n \in DOMAIN answers : ToSet(buffer') \cap ToSet(answers[n].output) = {}
      BY <1>0, <2>2, <3>1 DEF BufferInv
    <3>5. QED
      BY <1>0, <2>2, <3>2, <3>3, <3>4 DEF BufferInv
  <2>8. OkMeansRanAsAsked'
    BY <1>0, <2>3 DEF OkMeansRanAsAsked
  <2>9. QED
    BY <1>2, <2>5, <2>6, <2>7, <2>8 DEF CliInv
<1>6. \/ UNCHANGED serverVars /\ errs' # {}
      \/ \E how \in {"ok", "failed"} :
           /\ RunCommand(how)
           /\ errs' = {} => errs = {} /\ (success' <=> how = "ok")
  BY <1>0 DEF CallCoreCommand, Replied, Failed
<1>7. QED
  BY <1>4, <1>5, <1>6

---------------------------------------------------------------------------------
(* The call that takes the output. *)

LEMMA OutputKeepsCliInv ==
  ASSUME CliInv, GetOutputAndReset
  PROVE  CliInv'
<1>0. /\ CliTypeOK /\ CallInv /\ BufferInv /\ AnswersInv /\ OkMeansRanAsAsked /\ OutputIsOwn
      /\ step = "output" /\ step' = "decide"
      /\ call \in Calls /\ call \in Nat /\ DOMAIN answers = 1..call - 1
      /\ UNCHANGED <<call, silently, answers, got, quiet, ran, shown, success>>
  <2>1. /\ CliTypeOK /\ CallInv /\ BufferInv /\ AnswersInv /\ OkMeansRanAsAsked /\ OutputIsOwn
        /\ step = "output" /\ step' = "decide"
        /\ UNCHANGED <<call, silently, answers, got, quiet, ran, shown, success>>
    BY DEF CliInv, GetOutputAndReset, Replied, Failed
  <2>2. QED
    BY <2>1, AnswersSoFar DEF CallInv
<1>1. /\ \/ errs' = errs /\ cmdOutput' = buffer /\ buffer' = <<>>
         \/ errs' = errs \cup {"output"} /\ cmdOutput' = cmdOutput /\ buffer' \in {buffer, <<>>}
      /\ alive' \in BOOLEAN
  BY <1>0 DEF GetOutputAndReset, Replied, Failed, CliTypeOK
<1>2. AnswersInv' /\ OkMeansRanAsAsked' /\ OutputIsOwn'
  BY <1>0 DEF AnswersInv, OkMeansRanAsAsked, OutputIsOwn
<1>3. <<>> \in Seq(Calls) /\ ToSet(<<>>) = {}
  BY EmptySeq, EmptyElements
<1>4. CliTypeOK'
  <2>1. cmdOutput' \in Seq(Calls) /\ buffer' \in Seq(Calls) /\ errs' \subseteq Errors
    BY <1>0, <1>1, <1>3 DEF CliTypeOK, Errors
  <2>2. QED
    BY <1>0, <1>1, <2>1 DEF CliTypeOK
<1>5. CallInv'
  BY <1>0, <1>1 DEF CallInv
<1>6. BufferInv'
  BY <1>0, <1>1, <1>3 DEF BufferInv
<1>7. OutputInv'
  <2>1. SUFFICES ASSUME errs' = {}
                 PROVE  /\ buffer' = <<>>
                        /\ cmdOutput' # <<>> /\ Last(cmdOutput') = call'
                        /\ \A m \in ToSet(cmdOutput') \ {call'} :
                             m < call' /\ "output" \in answers'[m].errs
                        /\ \A n \in DOMAIN answers' :
                             ToSet(cmdOutput') \cap ToSet(answers'[n].output) = {}
    BY DEF OutputInv
  <2>2. errs = {} /\ cmdOutput' = buffer /\ buffer' = <<>>
    BY <1>1, <2>1
  <2>3. buffer # <<>> /\ Last(buffer) = call
    BY <1>0, <2>2 DEF BufferInv
  <2>4. \A m \in ToSet(buffer) \ {call} : m < call /\ m \in DOMAIN answers
    BY <1>0 DEF BufferInv
  <2>5. QED
    BY <1>0, <2>2, <2>3, <2>4 DEF BufferInv
<1>8. QED
  BY <1>2, <1>4, <1>5, <1>6, <1>7 DEF CliInv

---------------------------------------------------------------------------------
(* The answer. *)

LEMMA DecideKeepsCliInv ==
  ASSUME CliInv, Decide
  PROVE  CliInv'
<1> DEFINE answer == answers'[call]
<1>0. /\ CliTypeOK /\ CallInv /\ BufferInv /\ OutputInv /\ AnswersInv
      /\ OkMeansRanAsAsked /\ OutputIsOwn
      /\ step = "decide" /\ step' = "idle"
      /\ UNCHANGED <<call, silently, alive, success, cmdOutput, errs, got, quiet, buffer,
                     ran, shown>>
  BY DEF CliInv, Decide, Return, serverVars
<1>1. /\ call \in Calls /\ call \in Nat /\ DOMAIN answers = 1..call - 1
      /\ Len(answers) = call - 1
  BY <1>0, AnswersSoFar DEF CallInv, CliTypeOK
<1>2. PICK ok \in BOOLEAN :
        /\ ok <=> success /\ errs = {}
        /\ answers' = Append(answers, [ok |-> ok, output |-> IF ok THEN cmdOutput ELSE <<>>,
                                       silently |-> silently, errs |-> errs])
  BY DEF Decide, Return
<1>3. [ok |-> ok, output |-> IF ok THEN cmdOutput ELSE <<>>, silently |-> silently,
       errs |-> errs] \in Answers
  <2>1. (IF ok THEN cmdOutput ELSE <<>>) \in Seq(Calls)
    BY <1>0, EmptySeq DEF CliTypeOK
  <2>2. QED
    BY <1>0, <2>1 DEF CliTypeOK, Answers
<1>4. /\ answers' \in Seq(Answers) /\ Len(answers') = call
      /\ \A n \in 1..call - 1 : answers'[n] = answers[n]
      /\ answer = [ok |-> ok, output |-> IF ok THEN cmdOutput ELSE <<>>,
                   silently |-> silently, errs |-> errs]
  <2>1. answers \in Seq(Answers) /\ call - 1 + 1 = call
    BY <1>0, <1>1 DEF CliTypeOK
  <2>2. QED
    BY <1>1, <1>2, <1>3, <2>1, AppendProperties
<1>5. DOMAIN answers' = (1..call - 1) \cup {call} /\ call \notin 1..call - 1
  BY <1>1, <1>4, LenProperties
<1>6. CliTypeOK'
  BY <1>0, <1>1, <1>4 DEF CliTypeOK
<1>7. /\ answer.ok <=> success /\ errs = {}
      /\ answer.silently = silently /\ answer.errs = errs
      /\ answer.output = IF ok THEN cmdOutput ELSE <<>>
  BY <1>2, <1>4
<1>8. ~answer.ok => answer.output = <<>>
  BY <1>2, <1>7
<1>9. answer.ok =>
        /\ answer.output = cmdOutput /\ buffer = <<>>
        /\ cmdOutput # <<>> /\ Last(cmdOutput) = call
        /\ \A m \in ToSet(cmdOutput) \ {call} : m < call /\ "output" \in answers[m].errs
        /\ \A n \in 1..call - 1 : ToSet(cmdOutput) \cap ToSet(answers[n].output) = {}
        /\ ran[call] = "ok" /\ (call \in shown <=> ~silently)
  <2> SUFFICES ASSUME answer.ok
               PROVE  /\ answer.output = cmdOutput /\ buffer = <<>>
                      /\ cmdOutput # <<>> /\ Last(cmdOutput) = call
                      /\ \A m \in ToSet(cmdOutput) \ {call} :
                           m < call /\ "output" \in answers[m].errs
                      /\ \A n \in 1..call - 1 :
                           ToSet(cmdOutput) \cap ToSet(answers[n].output) = {}
                      /\ ran[call] = "ok" /\ (call \in shown <=> ~silently)
    OBVIOUS
  <2>1. success /\ errs = {}
    BY <1>7
  <2>2. answer.output = cmdOutput
    BY <1>2, <1>7, <2>1
  <2>3. ran[call] = "ok" /\ (call \in shown <=> ~silently)
    BY <1>0, <2>1 DEF CallInv
  <2>4. /\ buffer = <<>> /\ cmdOutput # <<>> /\ Last(cmdOutput) = call
        /\ \A m \in ToSet(cmdOutput) \ {call} : m < call /\ "output" \in answers[m].errs
        /\ \A n \in 1..call - 1 : ToSet(cmdOutput) \cap ToSet(answers[n].output) = {}
    <3>1. \A n \in DOMAIN answers : ToSet(cmdOutput) \cap ToSet(answers[n].output) = {}
      BY <1>0, <2>1 DEF OutputInv
    <3>2. QED
      BY <1>0, <1>1, <2>1, <3>1 DEF OutputInv
  <2>5. QED
    BY <2>2, <2>3, <2>4
<1>10. \A m \in ToSet(cmdOutput) : m \in Calls /\ m \in Nat
  <2>1. cmdOutput \in Seq(Calls)
    BY <1>0 DEF CliTypeOK
  <2>2. \A i \in DOMAIN cmdOutput : cmdOutput[i] \in Calls
    BY <2>1, LenProperties, ElementOfSeq
  <2>3. ToSet(cmdOutput) \subseteq Calls
    BY <2>2 DEF ToSet
  <2>4. Calls \subseteq Nat
    BY DEF Calls
  <2>5. QED
    BY <2>3, <2>4
<1>11. CallInv' /\ OutputInv'
  BY <1>0 DEF CallInv, OutputInv
<1>12. AnswersInv'
  <2>1. ToSet(answer.output) \subseteq 1..call
    BY <1>1, <1>8, <1>9, <1>10, EmptyElements DEF Calls
  <2>2. QED
    BY <1>0, <1>1, <1>4, <1>5, <1>8, <2>1 DEF AnswersInv
<1>13. BufferInv'
  <2>1. call \in ToSet(buffer) => "output" \in answer.errs
    BY <1>0, <1>7 DEF BufferInv
  <2>2. ToSet(buffer) \cap ToSet(answer.output) = {}
    BY <1>8, <1>9, EmptyElements
  <2>3. QED
    BY <1>0, <1>1, <1>4, <1>5, <2>1, <2>2 DEF BufferInv
<1>14. OkMeansRanAsAsked'
  BY <1>0, <1>1, <1>4, <1>5, <1>7, <1>9 DEF OkMeansRanAsAsked
<1>15. OutputIsOwn'
  <2> SUFFICES ASSUME NEW n \in DOMAIN answers', answers'[n].ok
               PROVE  /\ answers'[n].output # <<>> /\ Last(answers'[n].output) = n
                      /\ \A m \in ToSet(answers'[n].output) \ {n} :
                           m < n /\ "output" \in answers'[m].errs
                      /\ \A m \in DOMAIN answers' \ {n} :
                           ToSet(answers'[m].output) \cap ToSet(answers'[n].output) = {}
    BY DEF OutputIsOwn
  <2>1. CASE n = call
    <3>1. \A m \in ToSet(cmdOutput) \ {call} : m \in 1..call - 1
      BY <1>1, <1>9, <1>10, <2>1 DEF Calls
    <3>2. QED
      BY <1>4, <1>5, <1>9, <2>1, <3>1
  <2>2. CASE n \in 1..call - 1
    <3>1. /\ answers[n].ok /\ answers'[n] = answers[n] /\ n \in Nat /\ n < call
          /\ n \in DOMAIN answers
      BY <1>1, <1>4, <2>2
    <3>2. \A m \in ToSet(answers[n].output) : m \in 1..n /\ m \in 1..call - 1
      BY <1>0, <1>1, <3>1 DEF AnswersInv
    <3>3. \A m \in ToSet(answers[n].output) \ {n} : m < n /\ "output" \in answers'[m].errs
      BY <1>0, <1>4, <3>1, <3>2 DEF OutputIsOwn
    <3>4. \A m \in 1..call - 1 : m # n =>
            ToSet(answers'[m].output) \cap ToSet(answers[n].output) = {}
      BY <1>0, <1>1, <1>4, <3>1 DEF OutputIsOwn
    <3>5. ToSet(answer.output) \cap ToSet(answers[n].output) = {}
      BY <1>8, <1>9, <2>2, EmptyElements
    <3>6. QED
      BY <1>0, <1>5, <3>1, <3>3, <3>4, <3>5 DEF OutputIsOwn
  <2>3. QED
    BY <1>5, <2>1, <2>2
<1>16. QED
  BY <1>6, <1>11, <1>12, <1>13, <1>14, <1>15 DEF CliInv

---------------------------------------------------------------------------------
(* The getters. *)

LEMMA GetterKeepsCliInv ==
  ASSUME CliInv, DialGetter \/ CallGetter
  PROVE  CliInv'
<1>1. /\ step \in {"idle", "get"} /\ step' \in {"idle", "get"}
      /\ alive' \in BOOLEAN /\ got' \in {"none", "value", "error"}
      /\ UNCHANGED <<call, silently, success, cmdOutput, errs, answers, quiet, buffer, ran,
                     shown>>
  BY DEF DialGetter, CallGetter, CliInv, CliTypeOK, serverVars
<1>2. CliTypeOK'
  BY <1>1 DEF CliInv, CliTypeOK
<1>3. CallInv' /\ BufferInv' /\ OutputInv' /\ AnswersInv'
  BY <1>1 DEF CliInv, CallInv, BufferInv, OutputInv, AnswersInv
<1>4. OkMeansRanAsAsked' /\ OutputIsOwn'
  BY <1>1 DEF CliInv, OkMeansRanAsAsked, OutputIsOwn
<1>5. QED
  BY <1>2, <1>3, <1>4 DEF CliInv

---------------------------------------------------------------------------------
(* The invariant and the properties. *)

LEMMA CliInvariant == CliSpec => []CliInv
<1>1. CliInv /\ [CliNext]_cliVars => CliInv'
  <2>1. CliInv /\ UNCHANGED cliVars => CliInv'
    <3> SUFFICES ASSUME CliInv, UNCHANGED cliVars PROVE CliInv'
      OBVIOUS
    <3>1. UNCHANGED <<step, call, silently, alive, success, cmdOutput, errs, answers, got,
                      quiet, buffer, ran, shown>>
      BY DEF cliVars, serverVars
    <3>2. CliTypeOK'
      BY <3>1 DEF CliInv, CliTypeOK
    <3>3. CallInv' /\ BufferInv'
      BY <3>1 DEF CliInv, CallInv, BufferInv
    <3>4. OutputInv' /\ AnswersInv'
      BY <3>1 DEF CliInv, OutputInv, AnswersInv
    <3>5. OkMeansRanAsAsked' /\ OutputIsOwn'
      BY <3>1 DEF CliInv, OkMeansRanAsAsked, OutputIsOwn
    <3>6. QED
      BY <3>2, <3>3, <3>4, <3>5 DEF CliInv
  <2>2. QED
    BY <2>1, BeginKeepsCliInv, TerminalKeepsCliInv, CoreKeepsCliInv, OutputKeepsCliInv,
       DecideKeepsCliInv, GetterKeepsCliInv DEF CliNext
<1>2. QED
  BY <1>1, CliInitInv, PTL DEF CliSpec

\* Type correctness: callCliCommand answers every command once (cli_connection.go:76-110).
THEOREM CliTypesHold == CliSpec => []CliTypeOK
BY CliInvariant, PTL DEF CliInv

\* No error from callCliCommand means that the command ran and succeeded, and was shown by
\* the terminal unless it was to be silent (cli_connection.go:76-110).
THEOREM SuccessIsReal == CliSpec => []OkMeansRanAsAsked
BY CliInvariant, PTL DEF CliInv

\* What callCliCommand returns is the command's output, after that of commands whose own
\* output could not be taken, and no output is returned twice (cli_connection.go:85-110).
THEOREM OutputsAreOwn == CliSpec => []OutputIsOwn
BY CliInvariant, PTL DEF CliInv
==================================================================================
