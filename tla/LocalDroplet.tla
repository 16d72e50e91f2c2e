------------------------------ MODULE LocalDroplet ------------------------------
(***************************************************************************)
(* The file <name>.droplet in the working directory, which `cf local       *)
(* stage` and `pull` write, and `push`, `run` and `export` read            *)
(* (cf/cmd/stage.go, pull.go, push.go, run.go, export.go, fs/fs.go).       *)
(*                                                                         *)
(* Commands run in processes of their own, share the file without locks,   *)
(* and may be killed.  A droplet is a sequence of pieces; what is in the   *)
(* file is a sequence of pieces of any droplets, with holes where a        *)
(* process wrote beyond the end.  The upload is taken as PushContract has  *)
(* it: the remote droplet is replaced at once or not at all.               *)
(*                                                                         *)
(* The history variables fileSound, remoteSound and sound follow which     *)
(* contents were written, read and uploaded with nobody in between.        *)
(***************************************************************************)
EXTENDS Naturals, Sequences

CONSTANTS
  Procs,        \* processes in which commands run
  Versions,     \* droplets that can be built
  Pieces,       \* their lengths
  NoLength,     \* a download may come without its length
  MaxCommands   \* bound on the commands started

ASSUME PiecesAssumption == Pieces \in [Versions -> Nat \ {0}]
ASSUME LengthAssumption == NoLength \in BOOLEAN
ASSUME BoundAssumption == MaxCommands \in Nat

VARIABLES
  file,         \* content of <name>.droplet
  present,      \* the file exists
  remote,       \* droplet of the app in Cloud Foundry
  cmd,          \* the command each process runs, "none" before the first
  at,           \* how far it is: "idle", "open", "copy", "close"
  data,         \* pieces to write; pieces read so far
  size,         \* pieces to copy
  pos,          \* pieces copied
  result,       \* how its last command ended: "none", "ok", "error"
  commands,     \* commands started
  fileSound,    \* the file was last opened for writing by a process with a whole
                \* droplet, no other wrote it since, and none that did has failed
  remoteSound,  \* the remote droplet was read from a sound file, undisturbed
  sound         \* for a process: its data is of a sound origin, and nobody has
                \* written to the file since the process opened it

fileVars == <<file, present, fileSound>>
remoteVars == <<remote, remoteSound>>
procVars == <<cmd, at, data, size, pos, result, sound>>
vars == <<fileVars, remoteVars, procVars, commands>>

Hole == "hole"
Content == Seq(Versions \cup {Hole})

\* The droplet v, whole.
Droplet(v) == [i \in 1..Pieces[v] |-> v]
Whole(s) == \E v \in Versions : s = Droplet(v)

Writers == {"stage", "pull"}
Readers == {"push", "run"}

TypeOK ==
  /\ file \in Content /\ remote \in Content
  /\ present \in BOOLEAN
  /\ cmd \in [Procs -> Writers \cup Readers \cup {"none"}]
  /\ at \in [Procs -> {"idle", "open", "copy", "close"}]
  /\ data \in [Procs -> Content]
  /\ size \in [Procs -> Nat] /\ pos \in [Procs -> Nat]
  /\ \A p \in Procs : pos[p] <= size[p]
  /\ result \in [Procs -> {"none", "ok", "error"}]
  /\ commands \in 0..MaxCommands
  /\ fileSound \in BOOLEAN /\ remoteSound \in BOOLEAN
  /\ sound \in [Procs -> BOOLEAN]

Init ==
  /\ file = <<>> /\ present = FALSE /\ fileSound = TRUE
  /\ \E v \in Versions : remote = Droplet(v)
  /\ remoteSound = TRUE
  /\ cmd = [p \in Procs |-> "none"] /\ at = [p \in Procs |-> "idle"]
  /\ data = [p \in Procs |-> <<>>]
  /\ size = [p \in Procs |-> 0] /\ pos = [p \in Procs |-> 0]
  /\ result = [p \in Procs |-> "none"]
  /\ commands = 0
  /\ sound = [p \in Procs |-> FALSE]

---------------------------------------------------------------------------------

Writing(p) == cmd[p] \in Writers /\ at[p] = "copy"
Reading(p) == cmd[p] \in Readers /\ at[p] = "copy"
SomeoneWrites == \E p \in Procs : Writing(p)
UsesFile(p) == at[p] = "copy" \/ (at[p] = "close" /\ cmd[p] \in Writers)

Begin(p, c, step, content, n, isSound) ==
  /\ at[p] = "idle"
  /\ commands < MaxCommands
  /\ commands' = commands + 1
  /\ cmd' = [cmd EXCEPT ![p] = c]
  /\ at' = [at EXCEPT ![p] = step]
  /\ data' = [data EXCEPT ![p] = content]
  /\ size' = [size EXCEPT ![p] = n]
  /\ pos' = [pos EXCEPT ![p] = 0]
  /\ result' = [result EXCEPT ![p] = "none"]
  /\ sound' = [sound EXCEPT ![p] = isSound]

\* The command is over; a process that is killed leaves no result.
End(p, r) ==
  /\ at' = [at EXCEPT ![p] = "idle"]
  /\ result' = [result EXCEPT ![p] = r]
  /\ UNCHANGED <<cmd, data, size, pos, sound, commands>>

---------------------------------------------------------------------------------
(* Stage.Run and Pull.Run.  A command that fails before it opens the file has *)
(* changed nothing that the others see, and is not shown.                     *)

\* Stager.Stage has built a droplet.
Build(p) ==
  /\ \E v \in Versions : Begin(p, "stage", "open", Droplet(v), Pieces[v], TRUE)
  /\ UNCHANGED <<fileVars, remoteVars>>

\* RemoteApp.Droplet returns a body and its Content-Length, which is -1 when the
\* server gives none; CopyN then copies nothing and returns no error.
Download(p) ==
  /\ \E n \in {Len(remote)} \cup (IF NoLength THEN {0} ELSE {}) :
       Begin(p, "pull", "open", remote, n, remoteSound)
  /\ UNCHANGED <<fileVars, remoteVars>>

\* What opening the file for writing does to the processes that use it: a reader that
\* has all it read is past harm, a writer only when it has ended.
Disturb(p) ==
  /\ sound' = [q \in Procs |-> IF q = p THEN sound[p] /\ ~SomeoneWrites
                               ELSE sound[q] /\ ~UsesFile(q)]
  /\ fileSound' = (sound[p] /\ ~SomeoneWrites)

\* Mutant of Create: FS.WriteFile opens the file without truncating it.
CreateNoTruncate(p) ==
  /\ at[p] = "open"
  /\ present' = TRUE
  /\ at' = [at EXCEPT ![p] = "copy"]
  /\ Disturb(p)
  /\ UNCHANGED <<file, remoteVars, cmd, data, size, pos, result, commands>>

\* FS.WriteFile: os.Create truncates the file there is.
Create(p) ==
  /\ at[p] = "open"
  /\ file' = <<>>
  /\ present' = TRUE
  /\ at' = [at EXCEPT ![p] = "copy"]
  /\ Disturb(p)
  /\ UNCHANGED <<remoteVars, cmd, data, size, pos, result, commands>>

CreateFails(p) ==
  /\ at[p] = "open"
  /\ End(p, "error")
  /\ UNCHANGED <<fileVars, remoteVars>>

\* A write goes to the process's own offset, wherever the file now ends.
WriteAt(s, i, piece) ==
  [j \in 1..(IF Len(s) < i THEN i ELSE Len(s)) |->
     IF j = i THEN piece ELSE IF j <= Len(s) THEN s[j] ELSE Hole]

WritePiece(p) ==
  /\ Writing(p)
  /\ pos[p] < size[p]
  /\ file' = WriteAt(file, pos[p] + 1, data[p][pos[p] + 1])
  /\ pos' = [pos EXCEPT ![p] = pos[p] + 1]
  /\ UNCHANGED <<present, fileSound, remoteVars, cmd, at, data, size, result, sound, commands>>

\* Mutant of WriteFails: errors of the copy are taken for the end of the download.
WriteErrorIgnored(p) ==
  /\ Writing(p)
  /\ pos[p] < size[p]
  /\ at' = [at EXCEPT ![p] = "close"]
  /\ UNCHANGED <<fileVars, remoteVars, cmd, data, size, pos, result, sound, commands>>

\* The disk is full, or the connection or the container is lost.  An io.EOF, which pull
\* takes for success, does not come from a body that is shorter than its Content-Length:
\* net/http makes that io.ErrUnexpectedEOF.
WriteFails(p) ==
  /\ Writing(p)
  /\ pos[p] < size[p]
  /\ End(p, "error")
  /\ fileSound' = FALSE
  /\ UNCHANGED <<file, present, remoteVars>>

---------------------------------------------------------------------------------
(* Push.Run, Run.Run and Export.Run. *)

\* FS.ReadFile: the size is the file's as it is opened.
Open(p) ==
  /\ present
  /\ \E c \in Readers : Begin(p, c, "copy", <<>>, Len(file), fileSound /\ ~SomeoneWrites)
  /\ UNCHANGED <<fileVars, remoteVars>>

\* Mutant of ReadPiece: all there is in the file is copied, not the size it had.
ReadPastSize(p) ==
  /\ Reading(p)
  /\ pos[p] < Len(file)
  /\ data' = [data EXCEPT ![p] = Append(data[p], file[pos[p] + 1])]
  /\ pos' = [pos EXCEPT ![p] = pos[p] + 1]
  /\ UNCHANGED <<fileVars, remoteVars, cmd, at, size, result, sound, commands>>

ReadPiece(p) ==
  /\ Reading(p)
  /\ pos[p] < size[p] /\ pos[p] < Len(file)
  /\ data' = [data EXCEPT ![p] = Append(data[p], file[pos[p] + 1])]
  /\ pos' = [pos EXCEPT ![p] = pos[p] + 1]
  /\ UNCHANGED <<fileVars, remoteVars, cmd, at, size, result, sound, commands>>

\* The file has become shorter than its size, or another error of the copy.
ReadFails(p) ==
  /\ Reading(p)
  /\ pos[p] < size[p]
  /\ End(p, "error")
  /\ UNCHANGED <<fileVars, remoteVars>>

---------------------------------------------------------------------------------

\* The copy is complete: the droplet is in the file, or with the receiver.
Copied(p) ==
  /\ at[p] = "copy"
  /\ pos[p] = size[p]
  /\ at' = [at EXCEPT ![p] = "close"]
  /\ UNCHANGED <<fileVars, remoteVars, cmd, data, size, pos, result, sound, commands>>

\* Cloud Foundry takes the upload; the push may not hear of it, and may fail later.
Deploy(p) ==
  /\ at[p] = "close" /\ cmd[p] = "push"
  /\ remote' = data[p]
  /\ remoteSound' = sound[p]
  /\ \E r \in {"ok", "error"} : End(p, r)
  /\ UNCHANGED fileVars

\* The upload is refused; a container could not run; local.yml of a pull could not
\* be updated.
CommandFails(p) ==
  /\ at[p] = "close" /\ cmd[p] # "stage"
  /\ End(p, "error")
  /\ UNCHANGED <<fileVars, remoteVars>>

Succeed(p) ==
  /\ at[p] = "close" /\ cmd[p] # "push"
  /\ End(p, "ok")
  /\ UNCHANGED <<fileVars, remoteVars>>

\* The process is killed, or the machine goes down.
Die(p) ==
  /\ at[p] # "idle"
  /\ End(p, "none")
  /\ fileSound' = (fileSound /\ ~Writing(p))
  /\ UNCHANGED <<file, present, remoteVars>>

Next ==
  \E p \in Procs :
    \/ Build(p) \/ Download(p) \/ Create(p) \/ CreateFails(p)
    \/ WritePiece(p) \/ WriteFails(p)
    \/ Open(p) \/ ReadPiece(p) \/ ReadFails(p)
    \/ Copied(p) \/ Deploy(p) \/ CommandFails(p) \/ Succeed(p) \/ Die(p)

Spec == Init /\ [][Next]_vars

---------------------------------------------------------------------------------
(* Properties *)

\* A droplet is partial or mixed only when a writer failed, died or overlapped with
\* another command: what is written, read and pushed without that is a whole
\* droplet, and the next undisturbed stage or pull makes up for any damage.
DamageHasCause ==
  /\ remoteSound => Whole(remote)
  /\ present /\ fileSound /\ ~SomeoneWrites => Whole(file)
  /\ \A p \in Procs : at[p] = "close" /\ sound[p] /\ cmd[p] \in Readers => Whole(data[p])

\* A stage or a pull that reports success has left in the file exactly the droplet
\* that was built or downloaded, unless another command wrote to it meanwhile.
SuccessMeansWritten ==
  [][\A p \in Procs :
       Succeed(p) /\ cmd[p] \in Writers /\ sound[p] => file = data[p]]_vars
=================================================================================
