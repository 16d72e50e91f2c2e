------------------------------ MODULE ImageCommands ------------------------------
(***************************************************************************)
(* The commands that build with an image: Stage.Run (cf/cmd/stage.go) and  *)
(* Export.Run (cf/cmd/export.go), one after another in a directory.        *)
(*                                                                         *)
(* A command pulls its image under UI.Loading (module Loading) and gives   *)
(* what it has opened to the Stager or the Exporter.  The file             *)
(* .<name>.cache outlives a stage: FS.OpenFile opens it for reading and    *)
(* writing, the stager reads it and, once the app is staged, calls Reset   *)
(* and writes the new cache in its place.  A process may be killed at any  *)
(* step.  The stager and the exporter (forge) are external.  What becomes  *)
(* of <name>.droplet is in LocalDroplet.                                   *)
(***************************************************************************)
EXTENDS Naturals, Sequences, SequencesExt

CONSTANTS
  Buildpacks,   \* names of buildpacks that a user may give
  MaxNamed,     \* bound on those given for one stage
  MaxCommands,  \* bound on the commands
  MaxPieces,    \* bound on the size of a cache
  MaxReports    \* bound on the reports of a pull

ASSUME BoundsAssumption ==
  /\ MaxNamed \in Nat \ {0} /\ MaxCommands \in Nat \ {0} /\ MaxPieces \in Nat \ {0}
  /\ MaxReports \in Nat

VARIABLES
  cmd,         \* "stage" or "export"
  number,      \* number of the command
  pc,          \* its next step
  failed,      \* it returns an error
  named,       \* Buildpack and Buildpacks of its configuration or of -b
  readable,    \* the buildpacks that are files
  looked,      \* how many of those named it has looked at
  zips,        \* buildpackZips: those it has opened
  open,        \* what it holds: "app", "cache", "droplet" and zips
  deferred,    \* what its deferred calls close
  cacheEmpty,  \* the size of the cache was 0 when it was opened
  cache,       \* the cache file: which command wrote each piece of it
  pos,         \* the offset of the open cache
  written,     \* pieces of the new cache that the stager has written
  latest,      \* the cache that the last stage to call Reset has written, or writes
  cut,         \* that stage ended before it had written all of it
  loading, startSpinner, updateSpinner, err, screen, offer, reports, badPull

optionVars == <<cmd, number, named, readable>>
zipVars == <<looked, zips>>
heldVars == <<open, deferred>>
cacheVars == <<cacheEmpty, cache, pos, written, latest, cut>>
loadingVars == <<loading, startSpinner, updateSpinner, err, screen, offer, reports, badPull>>
vars == <<optionVars, pc, failed, zipVars, heldVars, cacheVars, loadingVars>>

UI == INSTANCE Loading

Commands == {"stage", "export"}

\* The first is appConfig.Buildpack, which is looked at like the others.
Named == UNION {[1..n -> Buildpacks] : n \in 1..MaxNamed}

Held == {"app", "cache", "droplet"} \cup Buildpacks

TypeOK ==
  /\ UI!TypeOK
  /\ cmd \in Commands /\ number \in 1..MaxCommands
  /\ pc \in {"options", "load", "app", "zips", "services", "cache", "droplet", "pull",
             "pulling", "build", "staged", "rewrite", "stream", "return", "done"}
  /\ failed \in BOOLEAN /\ cacheEmpty \in BOOLEAN /\ cut \in BOOLEAN
  /\ named \in Named /\ readable \subseteq Buildpacks
  /\ looked \in 0..Len(named) /\ zips \subseteq Buildpacks
  /\ open \subseteq Held /\ deferred \subseteq Held
  /\ cache \in Seq(0..MaxCommands) /\ Len(cache) <= MaxPieces
  /\ latest \in Seq(1..MaxCommands) /\ Len(latest) <= MaxPieces
  /\ pos \in 0..MaxPieces /\ written \in 0..MaxPieces

Init ==
  /\ cmd \in Commands /\ named \in Named /\ readable \in SUBSET Buildpacks
  /\ number = 1
  /\ pc = "options" /\ failed = FALSE /\ looked = 0 /\ zips = {}
  /\ open = {} /\ deferred = {}
  /\ cacheEmpty = FALSE /\ cache = <<>> /\ pos = 0 /\ written = 0
  /\ latest = <<>> /\ cut = FALSE
  /\ UI!Idle

---------------------------------------------------------------------------------
(* Both commands. *)

GoTo(step) == pc' = step

\* `return err`.
Fail == GoTo("return") /\ failed' = TRUE

\* Something is opened and its close deferred.
Hold(r) == open' = open \cup {r} /\ deferred' = deferred \cup {r}

\* Calls that change nothing here: the options, Config.Load, Services and Forward, the
\* copy of the droplet and the exporter.
Proceed ==
  /\ \/ pc = "options" /\ GoTo("load")
     \/ pc = "load" /\ GoTo(IF cmd = "stage" THEN "app" ELSE "droplet")
     \/ pc = "services" /\ GoTo("cache")
     \/ pc = "stream" /\ GoTo("return")
     \/ pc = "build" /\ cmd = "export" /\ GoTo("return")
  /\ UNCHANGED <<optionVars, failed, zipVars, heldVars, cacheVars, loadingVars>>

\* Any of them fails, or TarApp, OpenFile, ReadFile, WriteFile or the stager, before it
\* has staged the app or as it writes the cache.
StepFails ==
  /\ pc \in {"options", "load", "app", "services", "cache", "droplet", "build", "staged",
             "rewrite", "stream"}
  /\ Fail
  /\ cut' = (cut \/ pc = "rewrite")
  /\ UNCHANGED <<optionVars, zipVars, heldVars, cacheEmpty, cache, pos, written, latest,
                 loadingVars>>

StartPull ==
  /\ pc = "pull" /\ GoTo("pulling")
  /\ UI!Call
  /\ UNCHANGED <<optionVars, failed, zipVars, heldVars, cacheVars>>

PullReturns ==
  /\ pc = "pulling" /\ loading = "returned"
  /\ IF err THEN Fail ELSE GoTo("build") /\ UNCHANGED failed
  /\ UNCHANGED <<optionVars, zipVars, heldVars, cacheVars, loadingVars>>

\* The deferred calls; then the process ends.
Return ==
  /\ pc = "return" /\ GoTo("done")
  /\ open' = open \ deferred /\ deferred' = {}
  /\ UI!Quit
  /\ UNCHANGED <<optionVars, failed, zipVars, cacheVars>>

\* External: the process is killed.
Die ==
  /\ pc # "done" /\ GoTo("done")
  /\ failed' = TRUE
  /\ open' = {} /\ deferred' = {}
  /\ cut' = (cut \/ pc = "rewrite")
  /\ UI!Quit
  /\ UNCHANGED <<optionVars, zipVars, cacheEmpty, cache, pos, written, latest>>

\* External: the user gives another command.
NextCommand ==
  /\ pc = "done" /\ number < MaxCommands
  /\ number' = number + 1
  /\ cmd' \in Commands /\ named' \in Named /\ readable' \in SUBSET Buildpacks
  /\ GoTo("options")
  /\ failed' = FALSE /\ looked' = 0 /\ zips' = {}
  /\ UNCHANGED <<heldVars, cacheVars, loadingVars>>

\* export
OpenDroplet ==
  /\ pc = "droplet" /\ GoTo("pull")
  /\ Hold("droplet")
  /\ UNCHANGED <<optionVars, failed, zipVars, cacheVars, loadingVars>>

---------------------------------------------------------------------------------
(* stage *)

TarApp ==
  /\ pc = "app" /\ GoTo("zips")
  /\ Hold("app")
  /\ UNCHANGED <<optionVars, failed, zipVars, cacheVars, loadingVars>>

Buildpack == named[looked + 1]

\* Mutant of AfterSkipped: a buildpack that is no file ends the loop.
AfterSkippedBreak == looked' = Len(named)

\* `continue`
AfterSkipped == looked' = looked + 1

\* A buildpack met before, or one that ReadFile cannot open.
SkipBuildpack ==
  /\ pc = "zips" /\ looked < Len(named)
  /\ Buildpack \in zips \/ Buildpack \notin readable
  /\ AfterSkipped
  /\ UNCHANGED <<optionVars, pc, failed, zips, heldVars, cacheVars, loadingVars>>

OpenBuildpack ==
  /\ pc = "zips" /\ looked < Len(named)
  /\ Buildpack \in readable \ zips
  /\ looked' = looked + 1
  /\ zips' = zips \cup {Buildpack} /\ Hold(Buildpack)
  /\ UNCHANGED <<optionVars, pc, failed, cacheVars, loadingVars>>

BuildpacksDone ==
  /\ pc = "zips" /\ looked = Len(named) /\ GoTo("services")
  /\ UNCHANGED <<optionVars, failed, zipVars, heldVars, cacheVars, loadingVars>>

\* Mutant of Opened: the file is truncated when it is opened, as WriteFile does.
OpenedTruncated == <<>>

\* O_CREATE|O_RDWR: what is in the file stays.
Opened == cache

OpenCache ==
  /\ pc = "cache" /\ GoTo("pull")
  /\ cache' = Opened /\ cacheEmpty' = (cache' = <<>>) /\ pos' = 0
  /\ Hold("cache")
  /\ UNCHANGED <<optionVars, failed, zipVars, written, latest, cut, loadingVars>>

\* The stager reads the cache, if it was told that there is one, and stages the app.
StageApp ==
  /\ pc = "build" /\ cmd = "stage" /\ GoTo("staged")
  /\ pos' = IF cacheEmpty THEN pos ELSE Len(cache)
  /\ UNCHANGED <<optionVars, failed, zipVars, heldVars, cacheEmpty, cache, written, latest,
                 cut, loadingVars>>

\* Mutant of Rewound: Reset does not seek.
RewoundNot == pos

\* Seek(0, 0), for Truncate leaves the offset alone.
Rewound == 0

\* resetFile.Reset; the stager then writes a cache of some size.
Reset ==
  /\ pc = "staged" /\ GoTo("rewrite")
  /\ cache' = <<>> /\ pos' = Rewound /\ written' = 0
  /\ latest' \in {[i \in 1..n |-> number] : n \in 1..MaxPieces}
  /\ cut' = FALSE
  /\ UNCHANGED <<optionVars, failed, zipVars, heldVars, cacheEmpty, loadingVars>>

\* A write at the offset; beyond the end of the file it leaves a hole before it.
WriteCache ==
  /\ pc = "rewrite" /\ written < Len(latest)
  /\ cache' = [i \in 1..pos + 1 |-> IF i \in DOMAIN cache THEN cache[i]
                                    ELSE IF i = pos + 1 THEN number ELSE 0]
  /\ pos' = pos + 1 /\ written' = written + 1
  /\ UNCHANGED <<optionVars, pc, failed, zipVars, heldVars, cacheEmpty, latest, cut,
                 loadingVars>>

\* The stager returns the droplet as a stream.
Staged ==
  /\ pc = "rewrite" /\ written = Len(latest) /\ GoTo("stream")
  /\ Hold("droplet")
  /\ UNCHANGED <<optionVars, failed, zipVars, cacheVars, loadingVars>>

---------------------------------------------------------------------------------

Command ==
  \/ Proceed \/ StepFails \/ StartPull \/ PullReturns \/ Return \/ OpenDroplet
  \/ TarApp \/ SkipBuildpack \/ OpenBuildpack \/ BuildpacksDone
  \/ OpenCache \/ StageApp \/ Reset \/ WriteCache \/ Staged

Display ==
  /\ UI!Next
  /\ UNCHANGED <<optionVars, pc, failed, zipVars, heldVars, cacheVars>>

Next == Command \/ Display \/ Die \/ NextCommand

\* Of the command itself nothing is assumed: it may be killed at any time.
Spec == Init /\ [][Next]_vars /\ UI!Fairness

---------------------------------------------------------------------------------
(* Properties *)

\* The stager and the exporter get an image whose pull reported no error, in whatever
\* order errors and successes came, and everything that was named, still open: each
\* buildpack that is a file, whether others are or not.  A command that has returned
\* holds nothing.
BuildsWithAll ==
  /\ pc \in {"build", "staged", "rewrite"} =>
       /\ loading = "returned" /\ ~badPull
       /\ IF cmd = "export" THEN open = {"droplet"}
          ELSE open = {"app", "cache"} \cup (ToSet(named) \cap readable)
  /\ pc = "done" => open = {}

\* The cache file is the one that the last stage to write one wrote, and a stage is told
\* that there is none only when there is none: commands that fail before they have
\* staged leave it alone, and nothing of an older one shows through.  Only a stage cut
\* off while it writes leaves part of one, which the next stage takes for a cache.
CacheIsLatest ==
  ~cut =>
    /\ pc # "rewrite" => cache = latest
    /\ pc \in {"pull", "pulling", "build", "staged"} /\ cmd = "stage"
         => (cacheEmpty <=> latest = <<>>)

\* The spinner and a status never stand on the line together: a status cancels the
\* spinner or the timer that would start it, and nothing is left when Loading returns.
NeverMixed ==
  /\ screen # {"spinner", "status"}
  /\ loading = "returned" => screen = {}

\* A report of the image's goroutine is received, after errors too: it is never left
\* with a send that nobody takes.
PullIsHeard == offer \in UI!Reports ~> offer \notin UI!Reports
==================================================================================
