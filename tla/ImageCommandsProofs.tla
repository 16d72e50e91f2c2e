--------------------------- MODULE ImageCommandsProofs ---------------------------
(***************************************************************************)
(* Proofs about ImageCommands and the display under it, for any buildpacks *)
(* and any number of commands, reports and pieces of a cache.  The         *)
(* invariant says what a command has opened at each step, what Loading has *)
(* made of the reports and how far the new cache has been written.         *)
(***************************************************************************)
EXTENDS ImageCommands, SequenceTheorems, TLAPS

\* The zips are those that can be read among the buildpacks looked at.
ZipInv ==
  /\ pc \in {"options", "load", "app"} => looked = 0
  /\ zips = {named[i] : i \in 1..looked} \cap readable
  /\ pc \in {"services", "cache", "staged", "rewrite"} => looked = Len(named)
  /\ pc \in {"pull", "pulling", "build"} /\ cmd = "stage" => looked = Len(named)
  /\ pc \in {"app", "zips", "services", "cache", "staged", "rewrite"} => cmd = "stage"
  /\ pc = "droplet" => cmd = "export"

\* What is open is what is deferred, and what has been opened up to each step.
OpenInv ==
  /\ open = deferred
  /\ pc \in {"options", "load", "app", "droplet", "done"} => open = {}
  /\ pc \in {"zips", "services", "cache"} => open = {"app"} \cup zips
  /\ pc \in {"pull", "pulling", "build", "staged", "rewrite"} =>
       open = IF cmd = "export" THEN {"droplet"} ELSE {"app", "cache"} \cup zips

\* An error that was reported is known to Loading or on its way, and nothing is reported
\* after the end.
PullInv ==
  /\ badPull => err \/ offer = "error"
  /\ loading = "returned" => offer = "closed"
  /\ pc \in {"build", "staged", "rewrite"} => loading = "returned" /\ ~err

\* A status on the line means that neither the ticker nor the timer before it runs.
LineInv ==
  /\ "status" \in screen => ~updateSpinner /\ startSpinner = "nil"
  /\ "spinner" \in screen => updateSpinner
  /\ loading = "returned" => screen = {}

\* The new cache is written from the beginning of the file, a prefix of it at a time.
CacheInv ==
  /\ pc = "rewrite" =>
       /\ pos = written /\ written <= Len(latest)
       /\ cache = [i \in 1..written |-> number]
       /\ latest = [i \in 1..Len(latest) |-> number]
  /\ pc # "rewrite" /\ ~cut => cache = latest
  /\ pc \in {"pull", "pulling", "build", "staged"} /\ cmd = "stage" =>
       (cacheEmpty <=> cache = <<>>)

IInv == TypeOK /\ ZipInv /\ OpenInv /\ PullInv /\ LineInv /\ CacheInv

---------------------------------------------------------------------------------
(* Constants and sequences. *)

LEMMA Bounds ==
  /\ MaxNamed \in Nat /\ MaxCommands \in Nat /\ MaxPieces \in Nat /\ MaxReports \in Nat
  /\ 1 <= MaxNamed /\ 1 <= MaxCommands /\ 1 <= MaxPieces
BY BoundsAssumption

\* What is named is a function on an interval from 1.
LEMMA NamedIsSequence ==
  ASSUME NEW s \in Named
  PROVE  /\ Len(s) \in Nat
         /\ DOMAIN s = 1..Len(s)
         /\ \A i \in 1..Len(s) : s[i] \in Buildpacks
<1>1. PICK n \in 1..MaxNamed : s \in [1..n -> Buildpacks]
  BY DEF Named
<1>2. n \in Nat
  BY Bounds
<1>3. s \in Seq(Buildpacks)
  BY <1>1, <1>2, SeqDef
<1>4. QED
  BY <1>3, LenProperties

\* The pieces that one command has written.
LEMMA CacheOfOne ==
  ASSUME NEW n \in Nat, NEW S, NEW c \in S
  PROVE  /\ [i \in 1..n |-> c] \in Seq(S)
         /\ Len([i \in 1..n |-> c]) = n
<1> DEFINE s == [i \in 1..n |-> c]
<1>1. s \in [1..n -> S]
  OBVIOUS
<1>2. s \in Seq(S)
  BY <1>1, SeqDef
<1>3. Len(s) \in Nat /\ DOMAIN s = 1..Len(s)
  BY <1>2, LenProperties
<1>4. Len(s) = n
  BY <1>1, <1>3
<1>5. QED
  BY <1>2, <1>4

---------------------------------------------------------------------------------
(* The steps of Loading. *)

\* Whatever it does, its own part of the invariant holds on; it neither returns twice nor
\* changes an outcome that it has returned.
LEMMA LoadingStep ==
  ASSUME UI!TypeOK, LineInv, badPull => err \/ offer = "error",
         loading = "returned" => offer = "closed",
         UI!Next
  PROVE  /\ UI!TypeOK'
         /\ LineInv'
         /\ badPull' => err' \/ offer' = "error"
         /\ loading' = "returned" => offer' = "closed"
         /\ loading = "returned" => loading' = "returned" /\ (err' <=> err)
<1> USE DEF UI!TypeOK, UI!Reports, LineInv
<1>1. CASE UI!TimerFires
  BY <1>1 DEF UI!TimerFires
<1>2. CASE UI!StartSpinner
  BY <1>2 DEF UI!StartSpinner
<1>3. CASE UI!DrawSpinner
  BY <1>3 DEF UI!DrawSpinner
<1>4. CASE UI!TakeError
  BY <1>4 DEF UI!TakeError, UI!Taken
<1>5. CASE UI!TakeNoStatus
  BY <1>5 DEF UI!TakeNoStatus, UI!Taken
<1>6. CASE UI!TakeStatus
  BY <1>6 DEF UI!TakeStatus, UI!Taken, UI!SpinnerOff
<1>7. CASE UI!Return
  BY <1>7 DEF UI!Return
<1>8. CASE UI!CloseProgress
  BY <1>8 DEF UI!CloseProgress
<1>9. ASSUME NEW report \in UI!Reports, UI!Report(report)
      PROVE  /\ UI!TypeOK'
             /\ LineInv'
             /\ badPull' => err' \/ offer' = "error"
             /\ loading' = "returned" => offer' = "closed"
             /\ loading = "returned" => loading' = "returned" /\ (err' <=> err)
  BY <1>9, Bounds DEF UI!Report
<1>10. QED
  BY <1>1, <1>2, <1>3, <1>4, <1>5, <1>6, <1>7, <1>8, <1>9 DEF UI!Next, UI!Progress

---------------------------------------------------------------------------------
(* The steps of the commands. *)

LEMMA InitIInv == Init => IInv
<1> SUFFICES ASSUME Init PROVE IInv
  OBVIOUS
<1>1. UI!TypeOK
  <2>1. /\ screen \subseteq {"spinner", "status"}
        /\ reports \in 0..MaxReports
    BY Bounds DEF Init, UI!Idle
  <2>2. QED
    BY <2>1 DEF Init, UI!TypeOK, UI!Idle, UI!Reports
<1>2. /\ Len(named) \in Nat
      /\ <<>> \in Seq(0..MaxCommands) /\ <<>> \in Seq(1..MaxCommands)
      /\ Len(<<>>) = 0
  BY NamedIsSequence, EmptySeq DEF Init
<1>3. TypeOK
  <2>1. /\ looked \in 0..Len(named) /\ number \in 1..MaxCommands
        /\ pos \in 0..MaxPieces /\ written \in 0..MaxPieces
        /\ Len(cache) <= MaxPieces /\ Len(latest) <= MaxPieces
    BY <1>2, Bounds DEF Init
  <2>2. cache \in Seq(0..MaxCommands) /\ latest \in Seq(1..MaxCommands)
    BY <1>2 DEF Init
  <2>3. QED
    BY <1>1, <2>1, <2>2 DEF Init, TypeOK
<1>4. ZipInv /\ OpenInv /\ PullInv /\ LineInv /\ CacheInv
  BY DEF Init, ZipInv, OpenInv, PullInv, LineInv, CacheInv, UI!Idle
<1>5. QED
  BY <1>3, <1>4 DEF IInv

\* Steps of a command at which it neither calls Loading nor ends.
Quiet ==
  \/ Proceed \/ StepFails \/ PullReturns \/ OpenDroplet
  \/ TarApp \/ SkipBuildpack \/ OpenBuildpack \/ BuildpacksDone
  \/ OpenCache \/ StageApp \/ Reset \/ WriteCache \/ Staged \/ NextCommand

LEMMA CommandSteps ==
  ASSUME Command \/ Die \/ NextCommand
  PROVE  StartPull \/ Return \/ Die \/ Quiet
BY DEF Command, Quiet

\* Such a step leaves Loading alone, and gets to the build only from a pull.
LEMMA QuietSteps ==
  ASSUME Quiet
  PROVE  /\ UNCHANGED loadingVars
         /\ \/ PullReturns
            \/ pc' \in {"build", "staged", "rewrite"} => pc \in {"build", "staged", "rewrite"}
<1> USE DEF loadingVars, GoTo, Fail
<1>1. CASE Proceed
  BY <1>1 DEF Proceed
<1>2. CASE StepFails
  BY <1>2 DEF StepFails
<1>3. CASE PullReturns
  BY <1>3 DEF PullReturns
<1>4. CASE OpenDroplet \/ TarApp
  BY <1>4 DEF OpenDroplet, TarApp
<1>5. CASE SkipBuildpack \/ OpenBuildpack \/ BuildpacksDone
  BY <1>5 DEF SkipBuildpack, OpenBuildpack, BuildpacksDone
<1>6. CASE OpenCache \/ StageApp
  BY <1>6 DEF OpenCache, StageApp
<1>7. CASE Reset \/ WriteCache \/ Staged
  BY <1>7 DEF Reset, WriteCache, Staged
<1>8. CASE NextCommand
  BY <1>8 DEF NextCommand
<1>9. QED
  BY <1>1, <1>2, <1>3, <1>4, <1>5, <1>6, <1>7, <1>8 DEF Quiet

\* A command calls Loading anew and the end of the process is the end of it; otherwise
\* what Loading knows stays.
LEMMA CommandKeepsLine ==
  ASSUME IInv, Command \/ Die \/ NextCommand
  PROVE  UI!TypeOK' /\ LineInv'
<1>1. CASE StartPull \/ Return \/ Die
  <2>1. /\ loading' \in {"select", "idle"} /\ startSpinner' \in {"armed", "nil"}
        /\ updateSpinner' = FALSE /\ err' = FALSE /\ badPull' = FALSE
        /\ screen' = {} /\ offer' = "nothing" /\ reports' = 0
    BY <1>1 DEF StartPull, Return, Die, UI!Call, UI!Quit
  <2>2. screen' \subseteq {"spinner", "status"} /\ reports' \in 0..MaxReports
    BY <2>1, Bounds
  <2>3. QED
    BY <2>1, <2>2 DEF LineInv, UI!TypeOK, UI!Reports
<1>2. CASE Quiet
  <2>1. UI!TypeOK /\ LineInv /\ UNCHANGED loadingVars
    BY <1>2, QuietSteps DEF IInv, TypeOK
  <2>2. QED
    BY <2>1 DEF loadingVars, LineInv, UI!TypeOK
<1>3. QED
  BY <1>1, <1>2, CommandSteps

LEMMA CommandKeepsPull ==
  ASSUME IInv, Command \/ Die \/ NextCommand
  PROVE  PullInv'
<1> USE DEF IInv, TypeOK, PullInv, UI!TypeOK
<1>1. CASE StartPull
  BY <1>1 DEF StartPull, UI!Call, GoTo
<1>2. CASE Return \/ Die
  BY <1>2 DEF Return, Die, UI!Quit, GoTo
<1>3. CASE PullReturns
  BY <1>3 DEF PullReturns, Fail, GoTo, loadingVars
<1>4. CASE Quiet /\ ~PullReturns
  BY <1>4, QuietSteps DEF loadingVars
<1>5. QED
  BY <1>1, <1>2, <1>3, <1>4, CommandSteps

\* One more buildpack has been looked at.
LEMMA OneMoreLooked ==
  ASSUME looked \in Nat
  PROVE  {named[i] : i \in 1..looked + 1} = {named[i] : i \in 1..looked} \cup {Buildpack}
<1>1. 1..looked + 1 = (1..looked) \cup {looked + 1}
  OBVIOUS
<1>2. QED
  BY <1>1 DEF Buildpack

LEMMA CommandKeepsZips ==
  ASSUME IInv, Command \/ Die \/ NextCommand
  PROVE  ZipInv'
<1>0. looked \in Nat /\ looked <= Len(named) /\ Len(named) \in Nat
      /\ cmd \in {"stage", "export"} /\ ZipInv
  BY NamedIsSequence DEF IInv, TypeOK, Commands
<1> USE DEF ZipInv, GoTo
<1>1. CASE SkipBuildpack
  BY <1>0, <1>1, OneMoreLooked DEF SkipBuildpack, AfterSkipped, optionVars
<1>2. CASE OpenBuildpack
  BY <1>0, <1>2, OneMoreLooked DEF OpenBuildpack, optionVars
<1>3. CASE BuildpacksDone \/ TarApp
  BY <1>0, <1>3 DEF BuildpacksDone, TarApp, optionVars, zipVars
<1>4. CASE Proceed
  BY <1>0, <1>4 DEF Proceed, optionVars, zipVars
<1>5. CASE StepFails \/ Return \/ Die
  BY <1>0, <1>5 DEF StepFails, Return, Die, Fail, optionVars, zipVars
<1>6. CASE StartPull \/ PullReturns \/ OpenDroplet
  BY <1>0, <1>6 DEF StartPull, PullReturns, OpenDroplet, Fail, optionVars, zipVars
<1>7. CASE OpenCache \/ StageApp \/ Reset \/ WriteCache \/ Staged
  BY <1>0, <1>7 DEF OpenCache, StageApp, Reset, WriteCache, Staged, optionVars, zipVars
<1>8. CASE NextCommand
  BY <1>8 DEF NextCommand
<1>9. QED
  BY <1>1, <1>2, <1>3, <1>4, <1>5, <1>6, <1>7, <1>8 DEF Command

LEMMA CommandKeepsOpen ==
  ASSUME IInv, Command \/ Die \/ NextCommand
  PROVE  OpenInv'
<1>0. cmd \in {"stage", "export"} /\ ZipInv /\ OpenInv
  BY DEF IInv, TypeOK, Commands
<1> USE DEF OpenInv, ZipInv, GoTo, Hold
<1>1. CASE SkipBuildpack
  BY <1>0, <1>1 DEF SkipBuildpack, heldVars
<1>2. CASE OpenBuildpack
  BY <1>0, <1>2 DEF OpenBuildpack
<1>3. CASE TarApp
  <2>1. zips = {} /\ open = {} /\ pc = "app"
    BY <1>0, <1>3 DEF TarApp
  <2>2. QED
    BY <1>0, <1>3, <2>1 DEF TarApp, zipVars
<1>4. CASE BuildpacksDone
  BY <1>0, <1>4 DEF BuildpacksDone, heldVars, zipVars
<1>5. CASE Proceed
  BY <1>0, <1>5 DEF Proceed, optionVars, heldVars, zipVars
<1>6. CASE StepFails \/ Return \/ Die
  BY <1>0, <1>6 DEF StepFails, Return, Die, Fail, heldVars
<1>7. CASE StartPull \/ PullReturns
  BY <1>0, <1>7 DEF StartPull, PullReturns, Fail, optionVars, zipVars, heldVars
<1>8. CASE OpenDroplet \/ OpenCache
  BY <1>0, <1>8 DEF OpenDroplet, OpenCache, optionVars, zipVars
<1>9. CASE StageApp \/ Reset \/ WriteCache \/ Staged
  BY <1>0, <1>9 DEF StageApp, Reset, WriteCache, Staged, optionVars, zipVars, heldVars
<1>10. CASE NextCommand
  BY <1>0, <1>10 DEF NextCommand, heldVars
<1>11. QED
  BY <1>1, <1>2, <1>3, <1>4, <1>5, <1>6, <1>7, <1>8, <1>9, <1>10 DEF Command

\* One more piece of the new cache.
LEMMA PieceWritten ==
  ASSUME IInv, WriteCache
  PROVE  /\ cache' = [i \in 1..written + 1 |-> number]
         /\ written' = written + 1 /\ pos' = written + 1
         /\ written + 1 <= Len(latest) /\ Len(latest) \in Nat /\ Len(latest) <= MaxPieces
<1>1. /\ pos = written /\ written \in Nat /\ written < Len(latest)
      /\ cache = [i \in 1..written |-> number]
  BY DEF IInv, CacheInv, TypeOK, WriteCache
<1>2. Len(latest) \in Nat /\ Len(latest) <= MaxPieces
  BY LenProperties DEF IInv, TypeOK
<1>3. DOMAIN cache = 1..written
  BY <1>1
<1>4. \A i \in 1..written + 1 :
        (IF i \in DOMAIN cache THEN cache[i] ELSE IF i = written + 1 THEN number ELSE 0) = number
  BY <1>1, <1>3
<1>5. QED
  BY <1>1, <1>2, <1>4 DEF WriteCache

LEMMA CommandKeepsCache ==
  ASSUME IInv, Command \/ Die \/ NextCommand
  PROVE  CacheInv'
<1>0. CacheInv /\ cut \in BOOLEAN /\ cmd \in {"stage", "export"} /\ ZipInv
  BY DEF IInv, TypeOK, Commands
<1> USE DEF CacheInv, GoTo
<1>1. CASE OpenCache
  BY <1>0, <1>1 DEF OpenCache, Opened, optionVars, ZipInv
<1>2. CASE Reset
  <2>1. PICK n \in 1..MaxPieces : latest' = [i \in 1..n |-> number]
    BY <1>2 DEF Reset
  <2>2. n \in Nat /\ number \in 1..MaxCommands /\ number' = number
    BY <1>2, Bounds DEF Reset, IInv, TypeOK, optionVars
  <2>3. Len(latest') = n
    BY <2>1, <2>2, CacheOfOne
  <2>4. <<>> = [i \in 1..0 |-> number]
    OBVIOUS
  <2>5. QED
    BY <1>2, <2>1, <2>2, <2>3, <2>4 DEF Reset, Rewound
<1>3. CASE WriteCache
  BY <1>0, <1>3, PieceWritten DEF WriteCache, optionVars
<1>4. CASE Staged
  <2>1. cache = latest
    BY <1>0, <1>4 DEF Staged
  <2>2. QED
    BY <1>0, <1>4, <2>1 DEF Staged, optionVars, cacheVars
<1>5. CASE StageApp
  BY <1>0, <1>5 DEF StageApp, optionVars
<1>6. CASE Proceed \/ OpenDroplet
  BY <1>0, <1>6 DEF Proceed, OpenDroplet, optionVars, cacheVars, ZipInv
<1>7. CASE StepFails \/ Return \/ Die
  BY <1>0, <1>7 DEF StepFails, Return, Die, Fail, optionVars, cacheVars
<1>8. CASE StartPull \/ PullReturns
  BY <1>0, <1>8 DEF StartPull, PullReturns, Fail, optionVars, cacheVars
<1>9. CASE TarApp \/ SkipBuildpack \/ OpenBuildpack \/ BuildpacksDone
  BY <1>0, <1>9 DEF TarApp, SkipBuildpack, OpenBuildpack, BuildpacksDone, optionVars, cacheVars
<1>10. CASE NextCommand
  BY <1>0, <1>10 DEF NextCommand, cacheVars
<1>11. QED
  BY <1>1, <1>2, <1>3, <1>4, <1>5, <1>6, <1>7, <1>8, <1>9, <1>10 DEF Command

---------------------------------------------------------------------------------
(* Types. *)

\* The part of TypeOK about the cache file.
CacheType ==
  /\ cacheEmpty \in BOOLEAN /\ cut \in BOOLEAN
  /\ cache \in Seq(0..MaxCommands) /\ Len(cache) <= MaxPieces
  /\ latest \in Seq(1..MaxCommands) /\ Len(latest) <= MaxPieces
  /\ pos \in 0..MaxPieces /\ written \in 0..MaxPieces

LEMMA CommandKeepsCacheType ==
  ASSUME IInv, Command \/ Die \/ NextCommand
  PROVE  CacheType'
<1>0. CacheType /\ number \in 1..MaxCommands
  BY DEF IInv, TypeOK, CacheType
<1>1. CASE OpenCache
  BY <1>0, <1>1, Bounds DEF OpenCache, Opened, CacheType
<1>2. CASE StageApp
  <2>1. Len(cache) \in 0..MaxPieces
    BY <1>0, LenProperties, Bounds DEF CacheType
  <2>2. QED
    BY <1>0, <1>2, <2>1 DEF StageApp, CacheType
<1>3. CASE Reset
  <2>1. PICK n \in 1..MaxPieces : latest' = [i \in 1..n |-> number]
    BY <1>3 DEF Reset
  <2>2. latest' \in Seq(1..MaxCommands) /\ Len(latest') <= MaxPieces
    BY <1>0, <2>1, CacheOfOne, Bounds
  <2>3. <<>> \in Seq(0..MaxCommands) /\ Len(<<>>) <= MaxPieces
    BY EmptySeq, Bounds
  <2>4. 0 \in 0..MaxPieces
    BY Bounds
  <2>5. QED
    BY <1>0, <1>3, <2>2, <2>3, <2>4 DEF Reset, Rewound, CacheType
<1>4. CASE WriteCache
  <2>0. /\ written \in Nat /\ Len(latest) \in Nat
        /\ written + 1 <= Len(latest) /\ Len(latest) <= MaxPieces
    BY <1>0, <1>4, PieceWritten DEF CacheType
  <2>1. written \in Nat /\ written + 1 \in 0..MaxPieces /\ number \in 0..MaxCommands
    BY <1>0, <2>0, Bounds
  <2>2. cache' \in Seq(0..MaxCommands) /\ Len(cache') = written + 1
    <3>1. cache' = [i \in 1..written + 1 |-> number]
      BY <1>4, PieceWritten
    <3>2. written + 1 \in Nat
      BY <2>1
    <3>3. QED
      BY <2>1, <3>1, <3>2, CacheOfOne
  <2>3. UNCHANGED <<cacheEmpty, cut, latest>> /\ pos' = written + 1 /\ written' = written + 1
    BY <1>4, PieceWritten DEF WriteCache
  <2>4. written + 1 <= MaxPieces
    BY <2>1, Bounds
  <2>5. QED
    BY <1>0, <2>1, <2>2, <2>3, <2>4 DEF CacheType
<1>5. CASE StepFails \/ Die
  BY <1>0, <1>5 DEF StepFails, Die, CacheType
<1>6. CASE UNCHANGED cacheVars
  BY <1>0, <1>6 DEF CacheType, cacheVars
<1>7. Command \/ NextCommand =>
        OpenCache \/ StageApp \/ Reset \/ WriteCache \/ StepFails \/ UNCHANGED cacheVars
  BY DEF Command, Proceed, StartPull, PullReturns, Return, OpenDroplet, TarApp,
         SkipBuildpack, OpenBuildpack, BuildpacksDone, Staged, NextCommand
<1>8. QED
  BY <1>1, <1>2, <1>3, <1>4, <1>5, <1>6, <1>7

\* The part of TypeOK about the commands and what they open.
CommandType ==
  /\ cmd \in Commands /\ number \in 1..MaxCommands
  /\ pc \in {"options", "load", "app", "zips", "services", "cache", "droplet", "pull",
             "pulling", "build", "staged", "rewrite", "stream", "return", "done"}
  /\ failed \in BOOLEAN
  /\ named \in Named /\ readable \subseteq Buildpacks
  /\ looked \in 0..Len(named) /\ zips \subseteq Buildpacks
  /\ open \subseteq Held /\ deferred \subseteq Held

LEMMA CommandKeepsCommandType ==
  ASSUME IInv, Command \/ Die \/ NextCommand
  PROVE  CommandType'
<1>0. CommandType
  BY DEF IInv, TypeOK, CommandType
<1> USE DEF CommandType, GoTo, Hold, Held
<1>1. CASE SkipBuildpack \/ OpenBuildpack
  <2>1. looked + 1 \in 0..Len(named) /\ Buildpack \in Buildpacks
    BY <1>0, <1>1, NamedIsSequence DEF SkipBuildpack, OpenBuildpack, Buildpack
  <2>2. QED
    BY <1>0, <1>1, <2>1 DEF SkipBuildpack, OpenBuildpack, AfterSkipped, optionVars, heldVars
<1>2. CASE Proceed \/ BuildpacksDone
  BY <1>0, <1>2 DEF Proceed, BuildpacksDone, optionVars, heldVars, zipVars
<1>3. CASE TarApp \/ OpenDroplet
  BY <1>0, <1>3 DEF TarApp, OpenDroplet, optionVars, zipVars
<1>4. CASE StepFails
  BY <1>0, <1>4 DEF StepFails, Fail, optionVars, heldVars, zipVars
<1>5. CASE Return \/ Die
  BY <1>0, <1>5 DEF Return, Die, optionVars, zipVars
<1>6. CASE StartPull
  BY <1>0, <1>6 DEF StartPull, optionVars, heldVars, zipVars
<1>7. CASE PullReturns
  BY <1>0, <1>7 DEF PullReturns, Fail, optionVars, heldVars, zipVars
<1>8. CASE OpenCache \/ Staged
  BY <1>0, <1>8 DEF OpenCache, Staged, optionVars, zipVars
<1>9. CASE StageApp \/ Reset \/ WriteCache
  BY <1>0, <1>9 DEF StageApp, Reset, WriteCache, optionVars, heldVars, zipVars
<1>10. CASE NextCommand
  <2>1. Len(named') \in Nat /\ number' \in 1..MaxCommands
    BY <1>0, <1>10, NamedIsSequence, Bounds DEF NextCommand
  <2>2. 0 \in 0..Len(named')
    BY <2>1
  <2>3. QED
    BY <1>0, <1>10, <2>1, <2>2 DEF NextCommand, heldVars
<1>11. QED
  BY <1>1, <1>2, <1>3, <1>4, <1>5, <1>6, <1>7, <1>8, <1>9, <1>10 DEF Command

---------------------------------------------------------------------------------
(* The invariant and the properties. *)

LEMMA NextIInv == IInv /\ [Next]_vars => IInv'
<1> SUFFICES ASSUME IInv, [Next]_vars PROVE IInv'
  OBVIOUS
<1>1. CASE Command \/ Die \/ NextCommand
  <2>1. TypeOK'
    BY <1>1, CommandKeepsLine, CommandKeepsCacheType, CommandKeepsCommandType
    DEF TypeOK, CacheType, CommandType
  <2>2. QED
    BY <1>1, <2>1, CommandKeepsZips, CommandKeepsOpen, CommandKeepsPull, CommandKeepsLine,
       CommandKeepsCache DEF IInv
<1>2. CASE Display
  <2>1. UI!TypeOK' /\ LineInv' /\ PullInv'
    BY <1>2, LoadingStep DEF Display, IInv, TypeOK, PullInv
  <2>2. UNCHANGED <<optionVars, pc, failed, zipVars, heldVars, cacheVars>>
    BY <1>2 DEF Display
  <2>3. TypeOK'
    BY <2>1, <2>2 DEF IInv, TypeOK, optionVars, zipVars, heldVars, cacheVars
  <2>4. ZipInv' /\ OpenInv'
    BY <2>2 DEF IInv, ZipInv, OpenInv, optionVars, zipVars, heldVars
  <2>5. CacheInv'
    BY <2>2 DEF IInv, CacheInv, optionVars, cacheVars
  <2>6. QED
    BY <2>1, <2>3, <2>4, <2>5 DEF IInv
<1>3. CASE UNCHANGED vars
  BY <1>3 DEF vars, IInv, TypeOK, ZipInv, OpenInv, PullInv, LineInv, CacheInv, UI!TypeOK,
     optionVars, zipVars, heldVars, cacheVars, loadingVars
<1>4. QED
  BY <1>1, <1>2, <1>3 DEF Next

THEOREM InvariantHolds == Spec => []IInv
BY InitIInv, NextIInv, PTL DEF Spec

\* Every variable of the commands, the cache file and the display has its type at every
\* step, whatever fails and whenever a process is killed (cf/cmd/stage.go, ui/ui.go).
THEOREM TypesHold == Spec => []TypeOK
BY InvariantHolds, PTL DEF IInv

\* Stage.Run and Export.Run build with an image whose pull reported no error and with all
\* that was named, still open, and hold nothing when they have returned (cf/cmd/stage.go,
\* cf/cmd/export.go, UI.Loading).
THEOREM BuildsAreWhole == Spec => []BuildsWithAll
<1>1. IInv => BuildsWithAll
  <2> SUFFICES ASSUME IInv PROVE BuildsWithAll
    OBVIOUS
  <2>1. named \in Named
    BY DEF IInv, TypeOK
  <2>2. {named[i] : i \in 1..Len(named)} = ToSet(named)
    BY <2>1, NamedIsSequence DEF ToSet
  <2>3. ASSUME pc \in {"build", "staged", "rewrite"}
        PROVE  /\ loading = "returned" /\ ~badPull
               /\ IF cmd = "export" THEN open = {"droplet"}
                  ELSE open = {"app", "cache"} \cup (ToSet(named) \cap readable)
    <3>1. loading = "returned" /\ ~badPull
      BY <2>3 DEF IInv, PullInv
    <3>2. cmd # "export" => looked = Len(named)
      BY <2>3 DEF IInv, TypeOK, Commands, ZipInv
    <3>3. cmd # "export" => zips = ToSet(named) \cap readable
      BY <2>2, <3>2 DEF IInv, ZipInv
    <3>4. QED
      BY <2>3, <3>1, <3>3 DEF IInv, OpenInv
  <2>4. pc = "done" => open = {}
    BY DEF IInv, OpenInv
  <2>5. QED
    BY <2>3, <2>4 DEF BuildsWithAll
<1>2. QED
  BY <1>1, InvariantHolds, PTL

\* The cache file is that of the last stage to write one, unless it was cut off, and its
\* size is 0 only when there is none (stage.go:92, FS.OpenFile and resetFile.Reset).
THEOREM CacheIsLastStages == Spec => []CacheIsLatest
<1>1. IInv => CacheIsLatest
  BY DEF IInv, CacheInv, CacheIsLatest
<1>2. QED
  BY <1>1, InvariantHolds, PTL

\* A status and the spinner never stand on the line together (UI.Loading).
THEOREM LineShowsOneThing == Spec => []NeverMixed
<1>1. IInv => NeverMixed
  BY DEF IInv, LineInv, NeverMixed
<1>2. QED
  BY <1>1, InvariantHolds, PTL
==================================================================================
