# A verification of CF Local

CF Local is a cf CLI plugin that stages, runs, pulls, pushes and exports Cloud Foundry
apps with Docker.  This directory holds TLA+ modules of its concurrent and failure-prone
parts, the TLC configurations that check them on small instances, and TLAPS proofs of
the properties that matter most for every value of the constants.

Paths below are relative to the repository.

## 1. The system

One process runs one command: the cf CLI starts the plugin, `main.go` starts a signal
goroutine and `cfplugin.Start`, `plugin.Plugin.Run` builds the parts and `cf.CF.Run`
dispatches on the first argument.

| component | source | state it keeps | operations |
|---|---|---|---|
| droplet upload | `remote/droplet.go`, `remote/app.go`, `cf/cmd/push.go` | an `io.Pipe`, `errChan`, the local file, a job in Cloud Foundry | `pushDroplet`, `SetDroplet` and its writer goroutine, `putJob`, `waitForJob`, `doAppRequest` |
| directory watcher | `fs/watch.go` | an fsnotify watcher, a debounce timer, an offer of a restart | `Watch`, the goroutine's select |
| run command | `cf/cmd/run.go`, `cf/cmd/wait.go` | deferred calls, the watcher, the droplet file, the tunnel, the waiter's goroutine | `Run`, `waitForHealthy`, `newWaiter` |
| pull, push | `cf/cmd/pull.go`, `push.go`, `fs/fs.go` | the files `<name>.droplet` and `local.yml`, the remote app | `Run` of each |
| stage, export | `cf/cmd/stage.go`, `export.go`, `fs/fs.go` | the file `.<name>.cache`, what is open, buildpack zips | `Run` of each, `OpenFile`, `Reset` |
| service forwarding | `remote/service.go` | none (an algorithm over bindings) | `Services`, `Forward` |
| progress display | `ui/ui.go` | a timer, a ticker, the last error, the line of the terminal | `Loading` |
| process and signals | `main.go`, `cfplugin/plugin_shim.go` | `signalChan`, `exitChan`, `RunErr` | `main`, the signal goroutine, `Start` |
| cf CLI connection | `cfplugin/` | one RPC connection per call | `callCliCommand`, getters, `pingCLI` |
| plugin lifecycle, dispatch | `plugin/plugin.go`, `cf/cf.go` | the CLI's list of plugins | `Install`, `Run`, `CF.Run` |
| directory watcher on macOS | `fs/watch_darwin.go` | an FSEvents stream, a restart to send | `Watch`, the goroutine's loop |

How they interact: `push` hands an open file to the uploader and closes it when the
uploader returns.  `run` starts the watcher, whose channel of restarts goes to the
container runner, and stops it with a deferred close.  `stage` and `export` hand what they
have opened to the stager and the exporter after `Loading` has received, from a goroutine of
the image, all there is to say of the image's pull.  `run -f` starts the waiter and the
tunnel, which receives from the waiter.  The signal goroutine closes `exitChan`, to which
only the container engine listens.  Commands in different processes share the files of
the working directory and the remote app, without locks.

The hard behaviours, one by one at their lines, are the `hazards` of `PROJECT.json`: two
goroutines and a transport that fail in any order, a debounce timer that is re-armed while
it fires, releases in the right order on every error path, partial files, lost updates.

What makes each component correct:

* upload: success only for a droplet that is deployed whole; an error of any party is an
  error of the command; the command and its goroutine end; the file outlives its reader;
* watcher: a change restarts the app, once, whatever it overlaps with; stopping ends it;
* watcher on macOS: the same, although its goroutine waits in a send that no stop ends;
* stage, export and display: nothing is built with an image whose pull failed or without
  something that was named; the cache is the last stage's; the image's goroutine is heard;
* run: everything acquired is released, tunnel before waiter; the app runs with what was
  asked for; no failure or interrupt leaves the command waiting;
* local files: a droplet or a `local.yml` that a command reports as written is whole, and
  any damage or loss goes back to a failure or an overlap of commands;
* push and pull: a push that succeeds leaves running what it pushed; what a pull wrote is
  what the app had at one instant, unless somebody changed the app in between;
* forwarding: a binding is rewritten wholly or not at all, to a tunnel of its own that
  leads where the binding pointed, and alike for a stage and a run;
* cf CLI connection: a command returned without an error ran, and its output is its own;
* process: the exit code says what happened, and an interrupt is never missed.

## 2. Modules and plan

| module | models | abstracts from or checked against | proofs |
|---|---|---|---|
| `DropletUpload` | the upload of a droplet by push | implements `PushContract` | `DropletUploadProofs` |
| `PushContract` | what an upload promises its caller | | |
| `Watch` | the directory watcher and its goroutine | implements `WatchContract` | `WatchProofs` |
| `WatchContract` | what a watcher promises its caller | | |
| `WatchClient` | how a watcher is used | | |
| `RunCommand` | the run command and the waiter | implements `WatchClient` | `RunCommandProofs` |
| `WatchDarwin` | the directory watcher on macOS | implements `WatchContract`, in `RunOnDarwin` | `RunCommandProofs` |
| `RunOnDarwin` | `RunCommand` and `WatchDarwin` in one state space | implements `RunCommand` | `RunCommandProofs` |
| `LocalDroplet`, `MCLocalDroplet` | the file `<name>.droplet` among commands | uses an upload as `PushContract` has it | `LocalDropletProofs` |
| `LocalConfig`, `MCLocalConfig` | `local.yml`, push and pull, the remote app | likewise | `LocalConfigProofs` |
| `Loading` | the progress display | | `ImageCommandsProofs` |
| `ImageCommands` | stage and export, one after another, with `Loading` under them | | `ImageCommandsProofs` |
| `ServiceForward`, `MCServiceForward` | the rewriting of service bindings | | `ServiceForwardProofs` |
| `CliConnection` | commands and getters asked of the cf CLI | | `PluginProofs` |
| `PluginProcess` | the process: start, dispatch, signals, exit code, installation | | `PluginProofs` |

The order was: the upload and the watcher first, where goroutines race; then the command
that uses most resources; then what commands do to each other through files; then the
algorithm and the process around it all; last the commands that build with an image, the
display and the watcher of macOS.

What the plan has left:

1. `RunCommand` and `Watch` in one state space, as `RunOnDarwin` has it for macOS;
   `WatchClient` stands between them now;
2. `PushContract` as an INSTANCE in `LocalConfig`, in place of the step `SetDroplet`.

## 3. How the modules correspond to the code

In every module a comment `Mutant of X` marks a wrong variant of the definition X; the
specification does not use it.  `PROJECT.json` names it with the property that it breaks,
so that each property is known to depend on the code.

**DropletUpload.**  `main` is the program counter of `SetDroplet` and what it calls,
`writer` that of the goroutine at droplet.go:29; `errChan`, `body` and `sent` are the channel
of capacity one and the pipe.  A write to an `io.Pipe` blocks until the transport reads,
so `WriteHeader`, `CopyChunk` and `WriteTrailer` are joint steps of both.  `CLIAnswers` and
`CLIFails` are the four calls to the cf CLI before each request; `DoFails`,
`UnexpectedStatus` and `DecodeFails` are the error returns, all of which end in
`PutJobFails` and `DrainErrChan` (the receive at droplet.go:45).  The transport may drop the
body at any time (`AbandonBody`), and Cloud Foundry accepts an upload only when the whole
declared length arrived (`EnqueueJob`).  A failed `Do` may follow an accepted upload.

**Watch.**  Each case of the select at watch.go:38-50 is an action: `HandleEvent` and
`IgnoreEvent`, `TakeTime`, `SendRestart` and `StopLoop`.  `after` is the timer channel: `armed`
until the second has passed, `fired` while a value waits in it; an event in between replaces
it.  `send` says that the nil-able channel is `out`.  The queue is the kernel's, with its
overflow.  `Walked` is the `filepath.Walk` that adds directories, whose errors are
ignored.  `heard`, `handled` and `restarts` are history for the properties.  `WatchContract`
sees of it the events noted, the restarts, and whether one is owed: timer or offer.

**RunCommand.**  `pc` names the step of `Run`; `defers` is Go's list of deferred calls, run
last first by `RunDeferred` on every return.  `StepFails` is every `return err`.  The waiter
of wait.go is `LetAsk`, `WakeUp` and `WaiterStops`; the tunnel container receives from it
(`TunnelAsks`).  `TunnelHealthy` and `TunnelTimeout` are the two ends of `waitForHealthy`.

**WatchDarwin, RunOnDarwin.**  `loop` is the place of the goroutine at watch_darwin.go:31-46:
in its select (`Receive`, `Stop`) or at the send outside it (`Send`).  A batch of events is
whether one of them is a change (`hasFlags`), since the loop over a batch stops at the first.
`RunOnDarwin` gives the watcher its caller: it is opened when `RunCommand` has opened it,
stopped when the deferred close has run, and its restarts are received while the app runs.

**LocalDroplet.**  A droplet is a sequence of pieces, the file a sequence of pieces of any
droplets.  `Create` truncates (fs.go:16), `WritePiece` writes at the process's own offset,
`ReadPiece` reads there, so that overlapping commands mix as the file system mixes them.
`WriteFails` is every error of a copy that stage or pull returns.  An `io.EOF`, which
pull takes for success (pull.go:48), has no branch in the model: `net/http` reports
`io.ErrUnexpectedEOF` for a body that ends before its Content-Length.  `run` stands for
`export` as the reader that ends locally.  `Die` stops a process anywhere.

**LocalConfig.**  A pull is `SaveDroplet`, `Load`, `GetEnv`, `GetCommand`, `Save`; a push is
`SetDroplet`, with `-e` `Load` and `SetEnv`, without `-k` `Restart`.  `Answered` lets a request
that had its effect return an error.  An entry's other settings, and the app's staging and
running environments, which are pulled with its own but never pushed, are not told apart
further.

**Loading.**  Each case of the select at ui.go:76-110 is an action, and the case of the
progress channel one for each kind of report.  `startSpinner` is the timer's channel, `nil`
when the code has cleared it; `screen` is what a reader of the terminal's line sees.  The
goroutine of the image sends its reports and closes the channel.

**ImageCommands.**  `pc` is the next step of `Stage.Run` or `Export.Run`; `open` and `deferred`
are what the command holds and what its deferred calls close.  The buildpacks of the
configuration or of `-b` are `named`, any of them a file or not; the loop at stage.go:66-79 is
`SkipBuildpack`, `OpenBuildpack` and `BuildpacksDone`.  The cache file is a sequence of the
commands that wrote its pieces, with a piece 0 for a hole; `Reset` is `resetFile.Reset`, after
which the stager writes at the file's offset.  `latest` and `cut` are history.

**ServiceForward.**  `StartType` and the two actions on a binding are the nested loops of
`Forward`; `Address`, `Forwardable` and `Rewrite` are `forward`, in the order in which it
looks at the credentials.  Types are numbers in the order of their names, from 1, and 0 stands
for a loop that has not begun.  Two callers run the same code, as `stage -f` and `run -f` do.

**CliConnection.**  Each of the three RPC calls of `callCliCommand` is an action with a
reply, an error without an effect or an error with it.  The server's side (the terminal's
setting, the buffer of output) is external and outlives a connection.  The getters are all
alike, `DialGetter` and `CallGetter`: what they return is the value or an error.

**PluginProcess.**  `pc` is main's next step through `Start`, `Run` and `Install`; `handler` is
the signal goroutine, whose receive and close are separate steps from `go`.  `CommandInterrupted`
is what the engine does for a container command when `exitChan` is closed.  `kind` is what
`CF.Run` finds in the arguments: a command, `ShowInfo` for help and version, `RefuseCommand` for
the rest.

## 4. Runs

| run | states | what it shows |
|---|---|---|
| `droplet_upload` | every failure of a body of four pieces | success is never reported for a droplet that is not deployed; the file outlives its reader; an upload that reached the HTTP client ends; `PushContract` is implemented |
| `droplet_upload_errors` | violation | an error before the request is handed to the client is never returned |
| `watch` | one subdirectory, queue of two, four changes | a queued change is never forgotten, is answered by a restart, and never by two; `WatchContract` is implemented; stopping ends the goroutine |
| `watch_new_dirs` | violation | a change in a directory made later restarts nothing |
| `run_command` | `RunOnDarwin`: all options, a failure at every step, three batches of changes | all is released, in an order that keeps the command and the waiter from waiting for each other; a watcher's goroutine that is stuck in its send when the app ends stays there, which keeps nobody else waiting; a change restarts the app once; an interrupt ends the command |
| `local_droplet` | two processes, two droplets, four commands | damage to the droplet goes back to a failure or an overlap; success means written |
| `local_droplet_no_length` | violation | a pull without a length succeeds with an empty file |
| `local_config` | two processes, two apps, two commands, one change by a user | losses in `local.yml` go back to overlaps; a pushed app runs what was pushed |
| `image_commands` | three stages or exports, two buildpacks, pulls of up to three reports, a failure or a kill at every step | builds get a whole image and all that was named; the cache is the last stage's; errors of a pull are kept and its goroutine is heard; the line shows one thing |
| `service_forward` | one binding with every combination of credentials; three types of up to two bindings | left alone or wholly rewritten, with a tunnel to a host and a port that it names, also where its credentials disagree; no shared ports, the same for a stage and a run |
| `cli_connection` | three commands with getters between them, every failure of every call | no error means that the command ran, as asked, with its own output |
| `plugin_process` | every mode and kind of command, a signal at any time | exit codes are true, an interrupt is not missed |

Bounds, and why they are enough. `Size = 2`: the copy can fail before, between and after
pieces; the theorems hold for every size. `QueueLimit = 2` and `MaxChanges = 4` fill the
queue, overflow it and still leave a change for a removed and recreated directory; in
`watch_new_dirs` `QueueLimit = MaxChanges`, so that no overflow is to blame. `MaxCommands =
4` with two processes gives a command, one that overlaps it, one that reads what they leave
and one that pulls what was pushed; `Pieces` of 1 and 2 let a file shrink and grow under its
users. In `LocalConfig` two commands and one change are the smallest disturbance and its
victim. Two hosts and two ports let every pair of credentials agree or differ; bindings do
not depend on each other but for the port, so that one binding gets all credentials and
several get few. Three batches of changes are one that restarts the app, one that arrives
while it restarts, and one behind it that may find the command gone. Three image commands
are a stage that writes a cache, one that is cut off or writes a shorter one (`MaxPieces =
2`), and one that meets it; two names let a buildpack repeat, and one that is no file stand
before one that is. Three reports are an error, a status that could hide it, and one between
them or after. Three CLI commands are a failure, one that meets what it left, and one after
that. `Pings = 5` is the code's own.

`CHECK_DEADLOCK FALSE` is set where the system stops by itself: a command returns, a process
exits, or a bound is reached.

Symmetry is used in `local_config` only, where no liveness is checked.

## 5. Fairness

Fairness is weak, and only for what runs unless blocked:

* goroutines of the program (`Main`, `Writer`, the loop of `Watch`, `Command`, the waiter, the
  signal `Handler`): the Go scheduler runs each that can run; a case of a select that stays
  ready while others are not is taken in the end;
* the select of `Loading` takes a report in the end, though its ticker is ready again and again:
  Go chooses among ready cases at random;
* timers: a timer that has been set fires;
* `Response` and `Server` of the upload: the transport and Cloud Foundry answer and end their
  jobs.  The code sets no timeout, and without this the upload may wait for ever, which the
  hazards list;
* `Handler` and `MainSteps` of the plugin, and the command of `run`: what they ask of Cloud
  Foundry (the services and the SSH code of `-s` and `-f`) is answered.  There is no timeout on
  these requests either, and an interrupt does not end them: `SignalEndsCommand` and
  `InterruptEnds` hold as far as they return;
* on macOS the goroutine of the watcher and the restart of the app, as above; nothing of the
  stream of events;
* the runner of containers takes a restart it waits for, and returns when it was
  interrupted.  It is not assumed that an app or a command ends by itself.

Nothing fair is assumed of the commands in `image_commands`, which may be killed at any step,
of users, of failures, of the tunnel's health or of signals.

## 6. Findings

* `droplet_upload_errors`: `SetDroplet` waits at droplet.go:45 for a writer that waits for
  somebody to read the pipe, when `putJob` fails before `HTTP.Do` (not logged in, app not
  found).  `HungForever`, proved, says that nothing ends it.
* `watch_new_dirs`: the help of `-w` promises a restart on a change in the directory; directories
  created after the start are not watched.  Where directories do not come and go, every
  change is queued unless the queue is full, and run `watch` shows what follows.
* `local_droplet_no_length`: `io.CopyN` with a length of -1 copies nothing and returns no
  error, so that `pull` reports a download and leaves an empty droplet.

Lost updates of `local.yml`, a droplet mixed of two, an app left with a droplet it does not
run, and a plugin that is gone after a failed installation are possible too; no text of the
repository promises otherwise, and the properties say exactly when they do not happen.

## 7. Proofs

All theorems are for every value of the constants, from the assumptions named in the
modules and nothing else, except that two theorems of `LocalDroplet` assume
`NoLength = FALSE`, without which they are false (see the findings).

* `DropletUploadProofs`: `TypeOK`, `SuccessMeansDeployed`, `WriteErrorIsFatal`,
  `FileOutlivesWriter`, `HungForever`, and that every step of the upload is a step of
  `PushContract` or a stutter.  The invariant `IInv` ties the counts of the pipe to the place of
  the writer (`PipeInv`), `errChan` to the writer's outcome (`ChanInv`), the job to a whole
  body (`JobInv`) and main's place to all of them (`MainInv`): none of the properties follows
  from the step that reports, without knowing what the other goroutine did.
* `WatchProofs`: `TypeOK`, `NoLostChange`, `RestartsAreEarned`, each inductive with `TypeOK`,
  and `KeepsWatchContract`: a restart is owed while the timer runs or an offer stands, and what
  an offer leaves behind when it is taken has, by `RestartsAreEarned`, a change of its own.
* `RunCommandProofs`: `TypeOK`, `AllReleased`, `WaiterOutlivesTunnel`, `RunsAsAsked` and the
  refinement of `WatchClient`; that `RunOnDarwin` implements `RunCommand`, so that they hold
  there, that the watcher of macOS pairs batches of changes with restarts, and that it
  implements `WatchContract` as well, so that `run` may rely on the same on either system.  `DefersInv`
  says that what is held is what is deferred, once each and the waiter before the tunnel;
  `HeldInv` what each step has acquired.
* `LocalDropletProofs`: `TypeOK`, `DamageHasCause`, `SuccessMeansWritten`.  The invariant says
  of every undisturbed writer that the file is the prefix it has written, of every
  undisturbed reader that it holds a prefix of a whole file, and that nobody else writes
  there (`SoleInv`).
* `LocalConfigProofs`: `TypeOK`, `PulledIsRemote`, `OthersAreKept`, `PushedIsRunning`.  The
  invariant says of a process that nobody disturbed that what it loaded is in the file
  (`LoadedInv`), that what it read is still so in Cloud Foundry (`ReadInv`), and how far an
  undisturbed push has come (`PushInv`).
* `ImageCommandsProofs`: `TypeOK`, `BuildsWithAll`, `CacheIsLatest`, `NeverMixed`.  `ZipInv` says
  which buildpacks have been opened, `OpenInv` that what is open is what is deferred, and what
  it is at each step; `PullInv` that an error reported is known or on its way and that nothing
  is reported after the end, without which a build could start before an error arrives;
  `LineInv` that a status has switched off ticker and timer; `CacheInv` that the new cache is
  written from the start of the file.
* `ServiceForwardProofs`: `TypeOK`, `RewrittenOrUntouched`, `TunnelsLeadWhereNamed`,
  `StageMatchesRun`.  Lemmas say of one binding what `Address`, `Forwardable` and `Rewrite` do
  to any credentials: they find exactly what is named, and leave nothing of it.  Of a command,
  `Progress` says how far it has come, `TunnelIsOwn` that a tunnel belongs to one binding behind
  it and to no other, at a port below the next, and `BindingIsDone` that behind it nothing was
  overlooked and ahead of it nothing was touched.  That two commands give the same ports is not
  an invariant of either: the port of a binding is a sum over the bindings of all types before,
  which would take induction over the types to compute.  Instead `PortInv` says that there are
  first ports, one for each type and following from the order of the types, to which both
  have kept; the command that is ahead adds to them the port that it has reached, and the other
  arrives at the same (`StartsInOrder`).
* `PluginProofs`, of the process: `TypeOK`, `ExitCodeIsTrue`, with what main has learnt at each step
  (`ModeInv`, `OutcomeInv`), the number of pings (`PingInv`) and the signal behind a closed
  `exitChan` (`SignalInv`).
* `PluginProofs`, of the connection: `CliTypeOK`, `OkMeansRanAsAsked`, `OutputIsOwn`.  `CallInv` says what the
  server has done as long as no call of a command has failed, `BufferInv` that what waits at the
  server was left by commands that could not take their output and has not been returned,
  `OutputInv` what is about to be returned, `AnswersInv` that no output is that of a later
  command.

Each invariant was checked by TLC on the instances above before it was proved.

`WriteErrorIsFatal` and `HungForever` are proved and are in no run: the one strengthens
`SuccessMeansDeployed`, the other says that the hang of `droplet_upload_errors` is final.
`RestartsAreEarned` and the refinement by macOS (`DarwinKeepsWatchContract`) were checked by
TLC too; the runs have `KeepsWatchContract` and `ChangeRestartsOnce` in their place.

Only model-checked: liveness (`StartedUploadReturns`, `QueuedChangeRestarts`, `StopEndsLoop`,
`WaiterServesAndEnds`, `ChangeRestartsOnce`, `PullIsHeard`, `InterruptEnds`,
`SignalEndsCommand`), which the prover does not reach.  Every other property of a passing run is a theorem.

## 8. Abstractions and what is not modelled

* An fsnotify event carries one operation, as inotify delivers them; renames count as
  removals.
* `Config.Load` and `Config.Save` (a vendored package) are one step each; a save cut off in
  the middle is not modelled.  Names in `local.yml` are unique.
* Cloud Foundry takes the environment of a push as the app's whole environment.
* Hosts of services hold no colon, so that the joining of host and port loses nothing.
* The container engine, the stager, runner, forwarder and exporter (forge) are external.
* What `Loading` clears is wide enough for what stands on the line, up to the text of a longer
  status under a shorter one; of several errors it returns the last, and the model keeps
  only that there was one.
* Two stages of one app at the same time share the cache without any coordination, and the
  model of it has one process; overlaps of the droplet are in `LocalDroplet`.
* Which buildpacks a stage takes, those of the configuration or of `-b`, is any short list.
* A batch of FSEvents is whether it holds a change: the flags of the events are not told
  apart, and the latency of the stream is the environment's.
* The choice of a proxy from the environment, the metadata of the plugin, help and usage texts
  and `cfplugin/models` are data that no later step looks at: no property would say more
  than their text.
