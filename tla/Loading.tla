--------------------------------- MODULE Loading ---------------------------------
(***************************************************************************)
(* UI.Loading (ui/ui.go): a command waits for the pull of an image.        *)
(*                                                                         *)
(* One select over a timer that starts a spinner, a ticker that draws it   *)
(* and the progress channel, on which a goroutine of the image reports     *)
(* statuses and errors and which it closes.  A nil channel is never ready. *)
(* The goroutine is external.                                              *)
(***************************************************************************)
EXTENDS Naturals

CONSTANT MaxReports  \* bound on the reports of a pull

VARIABLES
  loading,       \* Loading: "idle", "select", "returned"
  startSpinner,  \* its timer: "nil", "armed", "fired"
  updateSpinner, \* there is a ticker
  err,           \* it will return an error
  screen,        \* what stands on the line: "spinner", "status", both or nothing
  offer,         \* the image's goroutine: "nothing", a report it sends, or "closed"
  reports,       \* reports sent
  badPull        \* an error was among them

loadingVars == <<loading, startSpinner, updateSpinner, err, screen, offer, reports, badPull>>

Reports == {"error", "N/A", "status"}

TypeOK ==
  /\ loading \in {"idle", "select", "returned"}
  /\ startSpinner \in {"nil", "armed", "fired"}
  /\ updateSpinner \in BOOLEAN /\ err \in BOOLEAN /\ badPull \in BOOLEAN
  /\ screen \subseteq {"spinner", "status"}
  /\ offer \in Reports \cup {"nothing", "closed"}
  /\ reports \in 0..MaxReports

Idle ==
  /\ loading = "idle" /\ startSpinner = "nil" /\ updateSpinner = FALSE
  /\ err = FALSE /\ screen = {}
  /\ offer = "nothing" /\ reports = 0 /\ badPull = FALSE

\* Loading(message, Image.Pull(stack)) is called.
Call ==
  /\ loading' = "select" /\ startSpinner' = "armed" /\ updateSpinner' = FALSE
  /\ err' = FALSE /\ screen' = {}
  /\ offer' = "nothing" /\ reports' = 0 /\ badPull' = FALSE

\* The process ends.
Quit ==
  /\ loading' = "idle" /\ startSpinner' = "nil" /\ updateSpinner' = FALSE
  /\ err' = FALSE /\ screen' = {}
  /\ offer' = "nothing" /\ reports' = 0 /\ badPull' = FALSE

---------------------------------------------------------------------------------
(* The cases of the select. *)

TimerFires ==
  /\ loading = "select"
  /\ startSpinner = "armed" /\ startSpinner' = "fired"
  /\ UNCHANGED <<loading, updateSpinner, err, screen, offer, reports, badPull>>

StartSpinner ==
  /\ loading = "select" /\ startSpinner = "fired"
  /\ startSpinner' = "nil" /\ updateSpinner' = TRUE
  /\ UNCHANGED <<loading, err, screen, offer, reports, badPull>>

DrawSpinner ==
  /\ loading = "select" /\ updateSpinner
  /\ screen' = screen \cup {"spinner"}
  /\ UNCHANGED <<loading, startSpinner, updateSpinner, err, offer, reports, badPull>>

Taken(report) == loading = "select" /\ offer = report /\ offer' = "nothing"

\* Mutant of TakeError: the first error ends the wait.
TakeErrorAndReturn ==
  /\ Taken("error")
  /\ err' = TRUE /\ screen' = {} /\ loading' = "returned"
  /\ UNCHANGED <<startSpinner, updateSpinner, reports, badPull>>

TakeError ==
  /\ Taken("error")
  /\ err' = TRUE
  /\ UNCHANGED <<loading, startSpinner, updateSpinner, screen, reports, badPull>>

\* No status: the spinner comes back, unless it is there or its timer runs.
TakeNoStatus ==
  /\ Taken("N/A")
  /\ IF ~updateSpinner /\ startSpinner = "nil"
     THEN screen' = {} /\ updateSpinner' = TRUE
     ELSE UNCHANGED <<screen, updateSpinner>>
  /\ UNCHANGED <<loading, startSpinner, err, reports, badPull>>

\* Mutant of SpinnerOff: the timer that would start the spinner runs on.
SpinnerOffTimerOn == updateSpinner' = FALSE /\ UNCHANGED startSpinner

SpinnerOff == updateSpinner' = FALSE /\ startSpinner' = "nil"

\* The line is cleared as far as the spinner reaches, and the status drawn.
TakeStatus ==
  /\ Taken("status")
  /\ SpinnerOff
  /\ screen' = (IF updateSpinner THEN screen \ {"spinner"} ELSE screen) \cup {"status"}
  /\ UNCHANGED <<loading, err, reports, badPull>>

Return ==
  /\ loading = "select" /\ offer = "closed"
  /\ loading' = "returned" /\ screen' = {}
  /\ UNCHANGED <<startSpinner, updateSpinner, err, offer, reports, badPull>>

---------------------------------------------------------------------------------
(* External: the goroutine that pulls the image. *)

Report(report) ==
  /\ loading # "idle" /\ offer = "nothing" /\ reports < MaxReports
  /\ offer' = report /\ reports' = reports + 1
  /\ badPull' = (badPull \/ report = "error")
  /\ UNCHANGED <<loading, startSpinner, updateSpinner, err, screen>>

CloseProgress ==
  /\ loading # "idle" /\ offer = "nothing"
  /\ offer' = "closed"
  /\ UNCHANGED <<loading, startSpinner, updateSpinner, err, screen, reports, badPull>>

Progress == TakeError \/ TakeNoStatus \/ TakeStatus \/ Return

Next ==
  \/ TimerFires \/ StartSpinner \/ DrawSpinner \/ Progress
  \/ CloseProgress \/ \E report \in Reports : Report(report)

\* The select does not pass over a report for ever, however the spinner ticks.
Fairness == WF_loadingVars(Progress)
==================================================================================
