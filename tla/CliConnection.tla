------------------------------ MODULE CliConnection -----------------------------
(***************************************************************************)
(* Commands that the plugin asks the cf CLI to run                         *)
(* (cfplugin/cli_connection.go): `restart` for a push, `ssh-code` for a    *)
(* tunnel, `help local` for a wrong usage.                                 *)
(*                                                                         *)
(* callCliCommand dials the CLI's server and makes three calls on the      *)
(* connection, whatever becomes of each: set whether the terminal shows    *)
(* output, run the command, take what it has put out.  Afterwards the      *)
(* errors are looked at.  Any call may fail, with or without its effect,   *)
(* and may break the connection, on which every later call fails.  The     *)
(* server keeps the terminal's setting and the output not yet taken from   *)
(* one connection to the next.                                             *)
(*                                                                         *)
(* A getter (IsLoggedIn, AccessToken, GetApp, ...) dials for itself, makes *)
(* one call and returns its result with the error of either.               *)
(***************************************************************************)
EXTENDS Naturals, Sequences, SequencesExt

CONSTANT MaxCalls  \* bound on the commands asked for
ASSUME MaxCallsAssumption == MaxCalls \in Nat

VARIABLES
  step,       \* "idle", "terminal", "core", "output", "decide"
  call,       \* number of the current command
  silently,   \* the parameter of callCliCommand
  alive,      \* the connection works
  success,    \* the local variable success
  cmdOutput,  \* the local variable cmdOutput
  errs,       \* calls that returned an error
  answers,    \* what callCliCommand returned, command by command
  got,        \* what the last getter since a command returned: "none", "value", "error"
  quiet,      \* server: the terminal does not show output
  buffer,     \* server: the commands whose output was not taken
  ran,        \* server: what became of each command
  shown       \* commands whose output the terminal showed

serverVars == <<quiet, buffer, ran, shown>>
cliVars == <<step, call, silently, alive, success, cmdOutput, errs, answers, got, serverVars>>

Calls == 1..MaxCalls
Errors == {"terminal", "core", "output"}
Answers == [ok : BOOLEAN, output : Seq(Calls), silently : BOOLEAN, errs : SUBSET Errors]

CliTypeOK ==
  /\ step \in {"idle", "decide", "get"} \cup Errors
  /\ call \in 0..MaxCalls
  /\ silently \in BOOLEAN /\ alive \in BOOLEAN /\ success \in BOOLEAN
  /\ cmdOutput \in Seq(Calls) /\ buffer \in Seq(Calls)
  /\ errs \subseteq Errors
  /\ answers \in Seq(Answers)
  /\ Len(answers) = IF step \in {"idle", "get"} THEN call ELSE call - 1
  /\ got \in {"none", "value", "error"}
  /\ quiet \in BOOLEAN
  /\ ran \in [Calls -> {"no", "ok", "failed"}]
  /\ shown \subseteq Calls

CliInit ==
  /\ step = "idle" /\ call = 0
  /\ silently = FALSE /\ alive = FALSE /\ success = FALSE
  /\ cmdOutput = <<>> /\ errs = {} /\ answers = <<>>
  /\ got = "none"
  /\ quiet \in BOOLEAN /\ buffer = <<>>
  /\ ran = [c \in Calls |-> "no"] /\ shown = {}

\* Mutant of Begin: nothing is returned when the server cannot be dialled.
BeginUnanswered(s) ==
  /\ step = "idle" /\ call < MaxCalls
  /\ call' = call + 1 /\ silently' = s
  /\ success' = FALSE /\ cmdOutput' = <<>> /\ errs' = {} /\ got' = "none"
  /\ \/ alive' = TRUE /\ step' = "terminal"
     \/ alive' = FALSE /\ step' = "idle"
  /\ UNCHANGED <<answers, serverVars>>

\* The error of Dial is dropped: success stays FALSE and says the same.
Begin(s) ==
  /\ step = "idle" /\ call < MaxCalls
  /\ call' = call + 1 /\ silently' = s
  /\ success' = FALSE /\ cmdOutput' = <<>> /\ errs' = {} /\ got' = "none"
  /\ \/ alive' = TRUE /\ step' = "terminal"
     \/ alive' = FALSE /\ step' = "decide"
  /\ UNCHANGED <<answers, serverVars>>

\* A call on the connection returns: with a reply, or with an error.
Replied(next) == alive /\ step' = next /\ UNCHANGED <<errs, alive>>
Failed(next) ==
  /\ step' = next
  /\ errs' = errs \cup {step}
  /\ alive' \in {FALSE, alive}
  /\ UNCHANGED <<success, cmdOutput>>

DisableTerminalOutput ==
  /\ step = "terminal"
  /\ \/ Replied("core") /\ quiet' = silently /\ success' = TRUE /\ UNCHANGED cmdOutput
     \/ Failed("core") /\ (UNCHANGED quiet \/ (alive /\ quiet' = silently))
  /\ UNCHANGED <<call, silently, answers, got, buffer, ran, shown>>

\* The server runs the command, which succeeds or fails.
RunCommand(outcome) ==
  /\ ran' = [ran EXCEPT ![call] = outcome]
  /\ buffer' = Append(buffer, call)
  /\ shown' = IF quiet THEN shown ELSE shown \cup {call}
  /\ UNCHANGED quiet

CallCoreCommand ==
  /\ step = "core"
  /\ \/ \E outcome \in {"ok", "failed"} :
          /\ Replied("output") /\ RunCommand(outcome)
          /\ success' = (outcome = "ok") /\ UNCHANGED cmdOutput
     \/ Failed("output") /\ \/ UNCHANGED serverVars
                            \/ alive /\ \E outcome \in {"ok", "failed"} : RunCommand(outcome)
  /\ UNCHANGED <<call, silently, answers, got>>

\* Mutant of GetOutputAndReset: the output of a command that failed is not taken.
GetOutputOfSuccess ==
  /\ step = "output"
  /\ \/ Replied("decide") /\ success /\ cmdOutput' = buffer /\ buffer' = <<>> /\ UNCHANGED success
     \/ Replied("decide") /\ ~success /\ UNCHANGED <<cmdOutput, buffer, success>>
     \/ Failed("decide") /\ (UNCHANGED buffer \/ (alive /\ buffer' = <<>>))
  /\ UNCHANGED <<call, silently, answers, got, quiet, ran, shown>>

GetOutputAndReset ==
  /\ step = "output"
  /\ \/ Replied("decide") /\ cmdOutput' = buffer /\ buffer' = <<>> /\ UNCHANGED success
     \/ Failed("decide") /\ (UNCHANGED buffer \/ (alive /\ buffer' = <<>>))
  /\ UNCHANGED <<call, silently, answers, got, quiet, ran, shown>>

Return(ok) ==
  /\ step = "decide" /\ step' = "idle"
  /\ answers' = Append(answers, [ok |-> ok, output |-> IF ok THEN cmdOutput ELSE <<>>,
                                 silently |-> silently, errs |-> errs])
  /\ UNCHANGED <<call, silently, alive, success, cmdOutput, errs, got, serverVars>>

\* Mutant of Decide: an error of the call that sets the terminal is not looked at.
DecideWithoutTerminal == Return(success /\ errs \cap {"core", "output"} = {})

Decide == Return(success /\ errs = {})

\* A getter dials for itself; unlike callCliCommand it returns the error of Dial.
DialGetter ==
  /\ step = "idle"
  /\ \/ alive' = TRUE /\ step' = "get" /\ UNCHANGED got
     \/ alive' = FALSE /\ step' = "idle" /\ got' = "error"
  /\ UNCHANGED <<call, silently, success, cmdOutput, errs, answers, serverVars>>

CallGetter ==
  /\ step = "get" /\ step' = "idle"
  /\ got' \in {"value", "error"}
  /\ UNCHANGED <<call, silently, alive, success, cmdOutput, errs, answers, serverVars>>

CliNext ==
  \/ DialGetter \/ CallGetter
  \/ \E s \in BOOLEAN : Begin(s)
  \/ DisableTerminalOutput \/ CallCoreCommand \/ GetOutputAndReset
  \/ Decide

CliSpec == CliInit /\ [][CliNext]_cliVars

---------------------------------------------------------------------------------
(* Properties *)

\* callCliCommand returns no error only for a command that ran and succeeded, although
\* success is set by two of the calls and outlives an error of the second, and that was
\* shown by the terminal unless it was asked for silently: the setting of an earlier
\* command is never taken for its own, and a code that ssh-code returned has not been
\* shown.  Getters in between make no difference.
OkMeansRanAsAsked ==
  \A n \in DOMAIN answers : answers[n].ok =>
    ran[n] = "ok" /\ (n \in shown <=> ~answers[n].silently)

\* What is returned is the command's own output; output of an earlier command comes
\* before it only if taking that output had failed.  Nothing is returned twice.
OutputIsOwn ==
  \A n \in DOMAIN answers : answers[n].ok =>
    /\ answers[n].output # <<>> /\ Last(answers[n].output) = n
    /\ \A m \in ToSet(answers[n].output) \ {n} : m < n /\ "output" \in answers[m].errs
    /\ \A m \in DOMAIN answers \ {n} :
         ToSet(answers[m].output) \cap ToSet(answers[n].output) = {}
=================================================================================
