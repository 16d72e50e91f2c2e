--------------------------- MODULE LocalDropletProofs ---------------------------
(***************************************************************************)
(* Proofs about LocalDroplet, for any number of processes and commands and *)
(* droplets of any length.  The invariant says what a process with a sound *)
(* view of the file knows of it at each step, and that such a process has  *)
(* the file to itself as far as writing goes.                              *)
(***************************************************************************)
EXTENDS LocalDroplet, SequenceTheorems, TLAPS

\* The first n pieces of s and t are the same.
SamePrefix(s, t, n) == \A i \in 1..n : s[i] = t[i]

\* A writer is never told to copy more than there is.
SizeInv == \A p \in Procs : cmd[p] \in Writers => size[p] <= Len(data[p])

\* A process about to write has its droplet; CopyN is told its length.
OpenInv ==
  \A p \in Procs : at[p] = "open" =>
    /\ cmd[p] \in Writers
    /\ pos[p] = 0
    /\ sound[p] => Whole(data[p]) /\ size[p] = Len(data[p])

\* An undisturbed writer has written a prefix of its droplet and nothing else is in
\* the file; a disturbed one has left its mark.
WriteInv ==
  \A p \in Procs : Writing(p) =>
    /\ sound[p] => /\ Whole(data[p]) /\ size[p] = Len(data[p])
                   /\ Len(file) = pos[p] /\ SamePrefix(file, data[p], pos[p])
    /\ ~sound[p] => ~fileSound

\* An undisturbed reader has read a prefix of the file, which is whole.
ReadInv ==
  \A p \in Procs : Reading(p) /\ sound[p] =>
    /\ Whole(file) /\ size[p] = Len(file)
    /\ Len(data[p]) = pos[p] /\ SamePrefix(data[p], file, pos[p])

\* Nobody else writes to the file that an undisturbed process uses.
SoleInv ==
  \A p, q \in Procs : UsesFile(p) /\ sound[p] /\ Writing(q) => p = q

CloseInv ==
  \A p \in Procs : at[p] = "close" /\ sound[p] =>
    /\ cmd[p] \in Writers => file = data[p]
    /\ cmd[p] \in Readers => Whole(data[p])

FileInv == present /\ fileSound /\ ~SomeoneWrites => Whole(file)

RemoteInv == remoteSound => Whole(remote)

CmdInv == \A p \in Procs : at[p] # "idle" => cmd[p] \in Writers \cup Readers

Parts == OpenInv /\ WriteInv /\ ReadInv /\ SoleInv /\ CloseInv /\ FileInv /\ RemoteInv /\ CmdInv

IInv == TypeOK /\ SizeInv /\ Parts

---------------------------------------------------------------------------------
(* Contents. *)

\* Contents with the same pieces are the same.
LEMMA SamePieces ==
  ASSUME NEW s \in Content, NEW t \in Content, Len(s) = Len(t), SamePrefix(s, t, Len(s))
  PROVE  s = t
<1>1. \A i \in 1..Len(s) : s[i] = t[i]
  BY DEF SamePrefix
<1>2. QED
  BY <1>1, SeqEqual DEF Content

LEMMA DropletIsContent ==
  ASSUME NEW v \in Versions
  PROVE  /\ Droplet(v) \in Content
         /\ Len(Droplet(v)) = Pieces[v]
         /\ Pieces[v] \in Nat
<1>1. Pieces[v] \in Nat
  BY PiecesAssumption
<1>2. Droplet(v) \in [1..Pieces[v] -> Versions \cup {Hole}]
  BY DEF Droplet
<1>3. Droplet(v) \in Content
  BY <1>1, <1>2, SeqDef DEF Content
<1>4. DOMAIN Droplet(v) = 1..Len(Droplet(v)) /\ Len(Droplet(v)) \in Nat
  BY <1>3, LenProperties DEF Content
<1>5. QED
  BY <1>1, <1>2, <1>3, <1>4

\* Writing a piece yields a content; at the end of the file it appends the piece.
LEMMA WriteAtProperties ==
  ASSUME NEW s \in Content, NEW i \in Nat \ {0}, NEW piece \in Versions \cup {Hole}
  PROVE  /\ WriteAt(s, i, piece) \in Content
         /\ i = Len(s) + 1 => /\ Len(WriteAt(s, i, piece)) = i
                              /\ SamePrefix(WriteAt(s, i, piece), s, Len(s))
                              /\ WriteAt(s, i, piece)[i] = piece
<1> DEFINE n == IF Len(s) < i THEN i ELSE Len(s)
           w == WriteAt(s, i, piece)
<1>1. Len(s) \in Nat /\ \A j \in 1..Len(s) : s[j] \in Versions \cup {Hole}
  BY LenProperties DEF Content
<1>2. n \in Nat
  BY <1>1
<1>3. w \in [1..n -> Versions \cup {Hole}]
  <2>1. \A j \in 1..n :
          (IF j = i THEN piece ELSE IF j <= Len(s) THEN s[j] ELSE Hole) \in Versions \cup {Hole}
    BY <1>1
  <2>2. w = [j \in 1..n |-> IF j = i THEN piece ELSE IF j <= Len(s) THEN s[j] ELSE Hole]
    BY DEF WriteAt
  <2>3. QED
    BY <2>1, <2>2
<1>4. w \in Content
  BY <1>2, <1>3, SeqDef DEF Content
<1>5. Len(w) = n
  BY <1>2, <1>3, <1>4, LenProperties DEF Content
<1>6. \A j \in 1..n : w[j] = (IF j = i THEN piece ELSE IF j <= Len(s) THEN s[j] ELSE Hole)
  BY DEF WriteAt
<1>7. ASSUME i = Len(s) + 1
      PROVE  Len(w) = i /\ SamePrefix(w, s, Len(s)) /\ w[i] = piece
  BY <1>1, <1>5, <1>6, <1>7 DEF SamePrefix
<1>8. QED
  BY <1>4, <1>7

---------------------------------------------------------------------------------
(* Type correctness. *)

LEMMA InitType == Init => TypeOK /\ SizeInv
<1> SUFFICES ASSUME Init
             PROVE  TypeOK /\ SizeInv
  OBVIOUS
<1>1. <<>> \in Content
  BY EmptySeq DEF Content
<1>2. remote \in Content
  BY DropletIsContent DEF Init
<1>3. commands \in 0..MaxCommands
  BY BoundAssumption DEF Init
<1>4. /\ present \in BOOLEAN /\ fileSound \in BOOLEAN /\ remoteSound \in BOOLEAN
      /\ sound \in [Procs -> BOOLEAN]
  BY DEF Init
<1>5. /\ file \in Content /\ data \in [Procs -> Content]
      /\ size \in [Procs -> Nat] /\ pos \in [Procs -> Nat]
      /\ \A p \in Procs : pos[p] <= size[p] /\ cmd[p] = "none"
  BY <1>1 DEF Init
<1>6. /\ cmd \in [Procs -> Writers \cup Readers \cup {"none"}]
      /\ at \in [Procs -> {"idle", "open", "copy", "close"}]
      /\ result \in [Procs -> {"none", "ok", "error"}]
  BY DEF Init
<1>7. QED
  BY <1>2, <1>3, <1>4, <1>5, <1>6 DEF TypeOK, SizeInv, Writers

LEMMA TypeStep == TypeOK /\ SizeInv /\ [Next]_vars => TypeOK' /\ SizeInv'
<1> SUFFICES ASSUME TypeOK, SizeInv, [Next]_vars
             PROVE  TypeOK' /\ SizeInv'
  OBVIOUS
<1> USE DEF fileVars, remoteVars
<1>0. CASE UNCHANGED vars
  BY <1>0 DEF vars, procVars, TypeOK, SizeInv
<1> SUFFICES ASSUME NEW p \in Procs,
                    \/ Build(p) \/ Download(p) \/ Create(p) \/ CreateFails(p)
                    \/ WritePiece(p) \/ WriteFails(p)
                    \/ Open(p) \/ ReadPiece(p) \/ ReadFails(p)
                    \/ Copied(p) \/ Deploy(p) \/ CommandFails(p) \/ Succeed(p) \/ Die(p)
             PROVE  TypeOK' /\ SizeInv'
  BY <1>0 DEF Next
<1>1. <<>> \in Content /\ Len(file) \in Nat /\ Len(remote) \in Nat /\ commands \in Nat
  BY EmptySeq, LenProperties, BoundAssumption DEF TypeOK, Content
<1>2. ASSUME NEW c \in Writers \cup Readers, NEW step \in {"open", "copy"},
             NEW content \in Content, NEW n \in Nat, NEW s \in BOOLEAN,
             c \in Writers => n <= Len(content),
             Begin(p, c, step, content, n, s), UNCHANGED <<fileVars, remoteVars>>
      PROVE  TypeOK' /\ SizeInv'
  <2>1. commands' \in 0..MaxCommands
    BY <1>1, <1>2, BoundAssumption DEF Begin, TypeOK
  <2>2. \A q \in Procs : pos'[q] <= size'[q]
    BY <1>2 DEF Begin, TypeOK
  <2>3. SizeInv'
    BY <1>2 DEF Begin, TypeOK, SizeInv
  <2>4. QED
    BY <1>2, <2>1, <2>2, <2>3 DEF Begin, TypeOK
<1>3. CASE Build(p)
  <2>1. PICK v \in Versions : Begin(p, "stage", "open", Droplet(v), Pieces[v], TRUE)
    BY <1>3 DEF Build
  <2>2. Droplet(v) \in Content /\ Pieces[v] \in Nat /\ Len(Droplet(v)) = Pieces[v]
    BY DropletIsContent
  <2>3. "stage" \in Writers \cup Readers /\ UNCHANGED <<fileVars, remoteVars>>
    BY <1>3 DEF Build, Writers
  <2>4. Pieces[v] <= Len(Droplet(v))
    BY <2>2
  <2>5. QED
    BY <1>2, <2>1, <2>2, <2>3, <2>4
<1>4. CASE Download(p)
  <2>1. PICK n \in {Len(remote)} \cup (IF NoLength THEN {0} ELSE {}) :
          Begin(p, "pull", "open", remote, n, remoteSound)
    BY <1>4 DEF Download
  <2>2. n \in Nat /\ n <= Len(remote)
    BY <1>1
  <2>3. QED
    BY <1>2, <1>4, <2>1, <2>2 DEF Download, Writers, TypeOK
<1>5. CASE Open(p)
  <2>1. PICK c \in Readers :
          Begin(p, c, "copy", <<>>, Len(file), fileSound /\ ~SomeoneWrites)
    BY <1>5 DEF Open
  <2>2. c \notin Writers
    BY DEF Readers, Writers
  <2>3. QED
    BY <1>1, <1>2, <1>5, <2>1, <2>2 DEF Open
<1>6. CASE Create(p)
  BY <1>1, <1>6 DEF Create, Disturb, TypeOK, SizeInv
<1>7. CASE WritePiece(p)
  <2>1. pos[p] \in Nat /\ pos[p] + 1 \in Nat \ {0} /\ pos[p] + 1 <= size[p]
    BY <1>7 DEF WritePiece, TypeOK
  <2>2. data[p][pos[p] + 1] \in Versions \cup {Hole}
    <3>1. data[p] \in Content /\ size[p] \in Nat /\ size[p] <= Len(data[p])
      BY <1>7 DEF WritePiece, Writing, TypeOK, SizeInv
    <3>2. pos[p] + 1 \in 1..Len(data[p])
      BY <2>1, <3>1, LenProperties DEF Content
    <3>3. QED
      BY <3>1, <3>2, ElementOfSeq DEF Content
  <2>3. WriteAt(file, pos[p] + 1, data[p][pos[p] + 1]) \in Content
    BY <2>1, <2>2, WriteAtProperties DEF TypeOK
  <2>4. QED
    BY <1>7, <2>1, <2>3 DEF WritePiece, TypeOK, SizeInv
<1>8. CASE ReadPiece(p)
  <2>1. pos[p] + 1 \in 1..Len(file) /\ pos[p] + 1 <= size[p]
    BY <1>1, <1>8 DEF ReadPiece, TypeOK
  <2>2. Append(data[p], file[pos[p] + 1]) \in Content
    BY <2>1 DEF TypeOK, Content
  <2>3. SizeInv'
    BY <1>8 DEF ReadPiece, Reading, Readers, Writers, TypeOK, SizeInv
  <2>4. QED
    BY <1>8, <2>1, <2>2, <2>3 DEF ReadPiece, TypeOK
<1>9. CASE CreateFails(p) \/ WriteFails(p) \/ ReadFails(p) \/ CommandFails(p)
             \/ Succeed(p) \/ Die(p)
  BY <1>9 DEF CreateFails, WriteFails, ReadFails, CommandFails, Succeed, Die, End, TypeOK, SizeInv
<1>10. CASE Copied(p)
  BY <1>10 DEF Copied, TypeOK, SizeInv
<1>11. CASE Deploy(p)
  BY <1>11 DEF Deploy, End, TypeOK, SizeInv
<1>12. QED
  BY <1>3, <1>4, <1>5, <1>6, <1>7, <1>8, <1>9, <1>10, <1>11

\* Every droplet, command and download stays of its type in every execution.
THEOREM TypeCorrect == Spec => []TypeOK
<1>1. Init => TypeOK /\ SizeInv
  BY InitType
<1>2. TypeOK /\ SizeInv /\ [Next]_vars => TypeOK' /\ SizeInv'
  BY TypeStep
<1>3. QED
  BY <1>1, <1>2, PTL DEF Spec

---------------------------------------------------------------------------------
(* The parts of the invariant, where every download comes with its length. *)

LEMMA InitParts == Init => Parts
<1> SUFFICES ASSUME Init
             PROVE  Parts
  OBVIOUS
<1>1. \A p \in Procs : at[p] = "idle"
  BY DEF Init
<1>2. RemoteInv
  BY DEF Init, RemoteInv, Whole
<1>3. QED
  BY <1>1, <1>2 DEF Init, Parts, OpenInv, WriteInv, ReadInv, SoleInv, CloseInv, FileInv,
     CmdInv, Writing, Reading, UsesFile

\* A command that ends, in whatever way, changes nothing but its own step, and a
\* writer that ends in the middle leaves its mark.
LEMMA EndStep ==
  ASSUME IInv, NEW p \in Procs, NEW r \in {"none", "ok", "error"}, End(p, r),
         UNCHANGED <<file, present>>,
         fileSound' \in BOOLEAN,
         fileSound' => fileSound /\ ~Writing(p),
         remoteSound' => Whole(remote')
  PROVE  Parts'
<1> USE DEF IInv, Parts, TypeOK, End
<1>1. \A q \in Procs : q # p => at'[q] = at[q]
  OBVIOUS
<1>2. at'[p] = "idle"
  OBVIOUS
<1>3. \A q \in Procs : Writing(q)' <=> q # p /\ Writing(q)
  BY <1>1, <1>2 DEF Writing
<1>4. \A q \in Procs : Reading(q)' <=> q # p /\ Reading(q)
  BY <1>1, <1>2 DEF Reading
<1>5. \A q \in Procs : UsesFile(q)' => q # p /\ UsesFile(q)
  BY <1>1, <1>2 DEF UsesFile
<1>6. OpenInv' /\ CmdInv'
  BY <1>1, <1>2 DEF OpenInv, CmdInv, Whole, Droplet
<1>7. WriteInv'
  BY <1>3 DEF WriteInv, Whole, Droplet, SamePrefix
<1>8. ReadInv'
  BY <1>4 DEF ReadInv, Whole, Droplet, SamePrefix
<1>9. SoleInv'
  BY <1>3, <1>5 DEF SoleInv
<1>10. CloseInv'
  BY <1>1, <1>2 DEF CloseInv, Whole, Droplet
<1>11. FileInv'
  BY <1>3 DEF FileInv, SomeoneWrites, Whole, Droplet
<1>12. RemoteInv'
  BY DEF RemoteInv
<1>13. QED
  BY <1>6, <1>7, <1>8, <1>9, <1>10, <1>11, <1>12

LEMMA CreateStep ==
  ASSUME IInv, NEW p \in Procs, Create(p)
  PROVE  Parts'
<1> USE DEF IInv, Parts, TypeOK, Create, Disturb, remoteVars
<1>1. /\ at'[p] = "copy" /\ cmd[p] \in Writers /\ Writing(p)' /\ ~Writing(p)
      /\ \A q \in Procs : q # p => at'[q] = at[q]
  BY DEF OpenInv, Writing
<1>2. \A q \in Procs : Writing(q)' <=> q = p \/ Writing(q)
  BY <1>1 DEF Writing
<1>3. sound'[p] = fileSound' /\ (sound'[p] => sound[p] /\ ~SomeoneWrites)
  OBVIOUS
<1>4. \A q \in Procs : q # p /\ UsesFile(q)' => ~sound'[q]
  BY <1>1 DEF UsesFile
<1>5. \A q \in Procs : q # p /\ sound'[q] => sound[q]
  OBVIOUS
<1>6. OpenInv' /\ CmdInv'
  BY <1>1, <1>5 DEF OpenInv, CmdInv, Whole, Droplet
<1>7. WriteInv'
  <2>1. fileSound' => \A q \in Procs : ~Writing(q)
    BY DEF SomeoneWrites
  <2>2. Len(file') = 0 /\ pos'[p] = 0
    BY DEF OpenInv
  <2>3. SamePrefix(file', data'[p], pos'[p])
    BY <2>2 DEF SamePrefix
  <2>4. sound'[p] => Whole(data[p]) /\ size[p] = Len(data[p])
    BY DEF OpenInv
  <2>5. \A q \in Procs : q # p /\ Writing(q)' => ~sound'[q] /\ ~fileSound'
    BY <1>2, <1>4, <2>1 DEF UsesFile, Writing
  <2>6. QED
    BY <1>3, <2>2, <2>3, <2>4, <2>5 DEF WriteInv, Whole, Droplet, SamePrefix
<1>8. ReadInv'
  BY <1>1, <1>4 DEF ReadInv, Reading, UsesFile, Readers, Writers
<1>9. SoleInv'
  BY <1>2, <1>3, <1>4 DEF SoleInv, SomeoneWrites
<1>10. CloseInv'
  BY <1>1, <1>4, <1>5 DEF CloseInv, UsesFile, Whole, Droplet
<1>11. FileInv'
  BY <1>1 DEF FileInv, SomeoneWrites
<1>12. RemoteInv'
  BY DEF RemoteInv, Whole, Droplet
<1>13. QED
  BY <1>6, <1>7, <1>8, <1>9, <1>10, <1>11, <1>12

\* The writer extends what it has written; all that read or write beside it know
\* that they were disturbed.
LEMMA WriteStep ==
  ASSUME IInv, NEW p \in Procs, WritePiece(p)
  PROVE  Parts'
<1> USE DEF IInv, Parts, TypeOK, WritePiece, remoteVars
<1>1. \A q \in Procs : /\ Writing(q)' <=> Writing(q)
                       /\ Reading(q)' <=> Reading(q)
                       /\ UsesFile(q)' <=> UsesFile(q)
  BY DEF Writing, Reading, UsesFile
<1>2. \A q \in Procs : UsesFile(q) /\ sound[q] => q = p
  BY DEF SoleInv
<1>3. OpenInv' /\ CmdInv'
  BY DEF OpenInv, CmdInv, Writing, Whole, Droplet
<1>4. WriteInv'
  <2> DEFINE i == pos[p] + 1
  <2>1. ASSUME sound[p]
        PROVE  Len(file') = i /\ SamePrefix(file', data[p], i)
    <3>1. Whole(data[p]) /\ size[p] = Len(data[p]) /\ Len(file) = pos[p]
          /\ SamePrefix(file, data[p], pos[p])
      BY <2>1 DEF WriteInv
    <3>2. i \in Nat \ {0} /\ i \in 1..Len(data[p]) /\ pos[p] \in Nat
      BY <3>1, LenProperties DEF Content
    <3>3. data[p][i] \in Versions \cup {Hole}
      BY <3>2, ElementOfSeq DEF Content
    <3>4. /\ Len(file') = i
          /\ SamePrefix(file', file, pos[p])
          /\ file'[i] = data[p][i]
      BY <3>1, <3>2, <3>3, WriteAtProperties
    <3>5. \A j \in 1..i : j \in 1..pos[p] \/ j = i
      BY <3>2
    <3>6. QED
      BY <3>1, <3>4, <3>5 DEF SamePrefix
  <2>2. sound[p] => Whole(data[p]) /\ size[p] = Len(data[p])
    BY DEF WriteInv
  <2>3. \A q \in Procs : Writing(q) /\ ~sound[q] => ~fileSound
    BY DEF WriteInv
  <2>4. \A q \in Procs : Writing(q)' /\ sound'[q] => q = p
    BY <1>1, <1>2 DEF UsesFile, Writing
  <2>5. pos'[p] = i /\ data' = data /\ size' = size /\ sound' = sound /\ fileSound' = fileSound
    OBVIOUS
  <2>6. QED
    BY <1>1, <2>1, <2>2, <2>3, <2>4, <2>5 DEF WriteInv, Whole, Droplet
<1>5. ReadInv'
  <2>1. \A q \in Procs : Reading(q) /\ sound[q] => q = p
    BY <1>2 DEF UsesFile, Reading
  <2>2. ~Reading(p)
    BY DEF Reading, Writing, Readers, Writers
  <2>3. QED
    BY <1>1, <2>1, <2>2 DEF ReadInv
<1>6. SoleInv'
  BY <1>1 DEF SoleInv
<1>7. CloseInv'
  <2>1. at[p] # "close"
    BY DEF Writing
  <2>2. \A q \in Procs : at[q] = "close" /\ sound[q] => cmd[q] \notin Writers
    BY <1>2, <2>1 DEF UsesFile
  <2>3. QED
    BY <2>2 DEF CloseInv, Whole, Droplet
<1>8. FileInv'
  BY <1>1 DEF FileInv, SomeoneWrites
<1>9. RemoteInv'
  BY DEF RemoteInv, Whole, Droplet
<1>10. QED
  BY <1>3, <1>4, <1>5, <1>6, <1>7, <1>8, <1>9

LEMMA ReadStep ==
  ASSUME IInv, NEW p \in Procs, ReadPiece(p)
  PROVE  Parts'
<1> USE DEF IInv, Parts, TypeOK, ReadPiece, fileVars, remoteVars
<1>1. \A q \in Procs : /\ Writing(q)' <=> Writing(q)
                       /\ Reading(q)' <=> Reading(q)
                       /\ UsesFile(q)' <=> UsesFile(q)
                       /\ q # p => data'[q] = data[q] /\ pos'[q] = pos[q]
  BY DEF Writing, Reading, UsesFile
<1>2. cmd[p] \in Readers /\ cmd[p] \notin Writers /\ at[p] = "copy"
  BY DEF Reading, Readers, Writers
<1>3. OpenInv' /\ CmdInv'
  BY <1>1, <1>2 DEF OpenInv, CmdInv, Whole, Droplet
<1>4. WriteInv'
  <2>1. \A q \in Procs : Writing(q)' => Writing(q) /\ q # p
    BY <1>1, <1>2 DEF Writing
  <2>2. QED
    BY <1>1, <2>1 DEF WriteInv, Whole, Droplet, SamePrefix
<1>5. ReadInv'
  <2> DEFINE i == pos[p] + 1
  <2>1. ASSUME sound[p]
        PROVE  Len(data'[p]) = i /\ SamePrefix(data'[p], file, i)
    <3>1. Len(data[p]) = pos[p] /\ SamePrefix(data[p], file, pos[p])
      BY <2>1 DEF ReadInv
    <3>2. i \in 1..Len(file) /\ pos[p] \in Nat
      BY LenProperties DEF Content
    <3>3. data[p] \in Content /\ file[i] \in Versions \cup {Hole}
      BY <3>2, ElementOfSeq DEF Content
    <3>4. /\ Len(data'[p]) = i
          /\ data'[p][i] = file[i]
          /\ \A j \in 1..pos[p] : data'[p][j] = data[p][j]
      BY <3>1, <3>2, <3>3, AppendProperties DEF Content
    <3>5. \A j \in 1..i : j \in 1..pos[p] \/ j = i
      BY <3>2
    <3>6. QED
      BY <3>1, <3>4, <3>5 DEF SamePrefix
  <2>2. pos'[p] = i
    OBVIOUS
  <2>3. QED
    BY <1>1, <2>1, <2>2 DEF ReadInv, Whole, Droplet, SamePrefix
<1>6. SoleInv'
  BY <1>1 DEF SoleInv
<1>7. CloseInv'
  BY <1>1, <1>2 DEF CloseInv, Whole, Droplet
<1>8. FileInv' /\ RemoteInv'
  BY <1>1 DEF FileInv, SomeoneWrites, RemoteInv, Whole, Droplet
<1>9. QED
  BY <1>3, <1>4, <1>5, <1>6, <1>7, <1>8

\* A complete copy by an undisturbed process is the same as what it copied.
LEMMA CopiedStep ==
  ASSUME IInv, NEW p \in Procs, Copied(p)
  PROVE  Parts'
<1> USE DEF IInv, Parts, TypeOK, Copied, fileVars, remoteVars
<1>1. /\ at'[p] = "close"
      /\ \A q \in Procs : q # p => at'[q] = at[q]
  OBVIOUS
<1>2. \A q \in Procs : /\ Writing(q)' <=> q # p /\ Writing(q)
                       /\ Reading(q)' <=> q # p /\ Reading(q)
                       /\ UsesFile(q)' => UsesFile(q)
  BY <1>1 DEF Writing, Reading, UsesFile
<1>3. ASSUME sound[p], cmd[p] \in Writers
      PROVE  file = data[p] /\ Whole(data[p])
  <2>1. Len(file) = Len(data[p]) /\ SamePrefix(file, data[p], Len(file)) /\ Whole(data[p])
    BY <1>3 DEF WriteInv, Writing
  <2>2. QED
    BY <2>1, SamePieces
<1>4. ASSUME sound[p], cmd[p] \in Readers
      PROVE  Whole(data[p])
  <2>1. Whole(file) /\ Len(data[p]) = Len(file) /\ SamePrefix(data[p], file, Len(data[p]))
    BY <1>4 DEF ReadInv, Reading
  <2>2. data[p] = file
    BY <2>1, SamePieces
  <2>3. QED
    BY <2>1, <2>2
<1>5. OpenInv' /\ CmdInv'
  BY <1>1 DEF OpenInv, CmdInv, Whole, Droplet
<1>6. WriteInv'
  BY <1>2 DEF WriteInv, Whole, Droplet, SamePrefix
<1>7. ReadInv'
  BY <1>2 DEF ReadInv, Whole, Droplet, SamePrefix
<1>8. SoleInv'
  BY <1>2 DEF SoleInv
<1>9. CloseInv'
  BY <1>1, <1>3, <1>4 DEF CloseInv, Whole, Droplet
<1>10. FileInv'
  <2>1. ASSUME present', fileSound', ~SomeoneWrites'
        PROVE  Whole(file')
    <3>1. \A q \in Procs : Writing(q) => q = p
      BY <1>2, <2>1 DEF SomeoneWrites
    <3>2. CASE Writing(p)
      BY <1>3, <2>1, <3>2 DEF WriteInv, Writing, Whole, Droplet
    <3>3. CASE ~Writing(p)
      BY <2>1, <3>1, <3>3 DEF FileInv, SomeoneWrites, Whole, Droplet
    <3>4. QED
      BY <3>2, <3>3
  <2>2. QED
    BY <2>1 DEF FileInv
<1>11. RemoteInv'
  BY DEF RemoteInv, Whole, Droplet
<1>12. QED
  BY <1>5, <1>6, <1>7, <1>8, <1>9, <1>10, <1>11

\* A command starts with a droplet that is whole if its origin is sound, and, to
\* read, with the file to itself if it is sound.
LEMMA BeginStep ==
  ASSUME IInv, NEW p \in Procs, NEW c \in Writers \cup Readers,
         NEW step, NEW content, NEW n, NEW s \in BOOLEAN,
         Begin(p, c, step, content, n, s),
         UNCHANGED <<fileVars, remoteVars>>,
         \/ /\ c \in Writers /\ step = "open"
            /\ s => Whole(content) /\ n = Len(content)
         \/ /\ c \in Readers /\ step = "copy" /\ content = <<>> /\ n = Len(file)
            /\ s => ~SomeoneWrites /\ Whole(file)
  PROVE  Parts'
<1> USE DEF IInv, Parts, TypeOK, Begin, fileVars, remoteVars
<1>1. /\ at[p] = "idle" /\ at'[p] = step /\ cmd'[p] = c /\ data'[p] = content
      /\ size'[p] = n /\ pos'[p] = 0 /\ sound'[p] = s
      /\ \A q \in Procs : q # p => /\ at'[q] = at[q] /\ cmd'[q] = cmd[q]
                                   /\ data'[q] = data[q] /\ size'[q] = size[q]
                                   /\ pos'[q] = pos[q] /\ sound'[q] = sound[q]
      /\ UNCHANGED <<file, present, fileSound, remote, remoteSound>>
  OBVIOUS
<1> Readers \cap Writers = {}
  BY DEF Readers, Writers
<1>2. \A q \in Procs : /\ Writing(q)' <=> Writing(q)
                       /\ q # p => (Reading(q)' <=> Reading(q))
                       /\ q # p => (UsesFile(q)' <=> UsesFile(q))
                       /\ Writing(q) => q # p
  BY <1>1 DEF Writing, Reading, UsesFile
<1>3. OpenInv' /\ CmdInv'
  <2>1. CmdInv'
    BY <1>1 DEF CmdInv
  <2>2. step = "open" => /\ c \in Writers
                         /\ s => Whole(content) /\ n = Len(content)
    OBVIOUS
  <2>3. \A q \in Procs : q # p /\ at'[q] = "open" =>
          /\ cmd'[q] \in Writers /\ pos'[q] = 0
          /\ sound'[q] => Whole(data'[q]) /\ size'[q] = Len(data'[q])
    BY <1>1 DEF OpenInv
  <2>4. QED
    BY <1>1, <2>1, <2>2, <2>3 DEF OpenInv, Whole, Droplet
<1>4. WriteInv'
  <2>1. \A q \in Procs : Writing(q)' =>
          /\ sound'[q] => /\ Whole(data'[q]) /\ size'[q] = Len(data'[q])
                          /\ Len(file') = pos'[q] /\ SamePrefix(file', data'[q], pos'[q])
          /\ ~sound'[q] => ~fileSound'
    BY <1>1, <1>2 DEF WriteInv
  <2>2. QED
    BY <2>1 DEF WriteInv, Whole, Droplet, SamePrefix
<1>5. ReadInv'
  <2>1. Reading(p)' /\ s => content = <<>> /\ Whole(file) /\ n = Len(file)
    BY <1>1 DEF Reading
  <2>2. content = <<>> => Len(content) = 0 /\ SamePrefix(content, file, 0)
    BY DEF SamePrefix
  <2>3. \A q \in Procs : q # p => (Reading(q)' /\ sound'[q] =>
          /\ Whole(file)' /\ size'[q] = Len(file')
          /\ Len(data'[q]) = pos'[q] /\ SamePrefix(data[q], file, pos[q])')
    BY <1>1, <1>2 DEF ReadInv, Whole, Droplet, SamePrefix
  <2>4. QED
    BY <1>1, <2>1, <2>2, <2>3 DEF ReadInv, Whole, Droplet, SamePrefix
<1>6. SoleInv'
  BY <1>1, <1>2 DEF SoleInv, SomeoneWrites, UsesFile
<1>7. CloseInv'
  <2>1. \A q \in Procs : at'[q] = "close" /\ sound'[q] =>
          /\ cmd'[q] \in Writers => file' = data'[q]
          /\ cmd'[q] \in Readers => Whole(data'[q])
    BY <1>1 DEF CloseInv
  <2>2. QED
    BY <2>1 DEF CloseInv, Whole, Droplet
<1>8. FileInv' /\ RemoteInv'
  BY <1>1, <1>2 DEF FileInv, SomeoneWrites, RemoteInv, Whole, Droplet
<1>9. QED
  BY <1>3, <1>4, <1>5, <1>6, <1>7, <1>8

LEMMA PartsStep ==
  ASSUME IInv, NoLength = FALSE, [Next]_vars
  PROVE  Parts'
<1>0. CASE UNCHANGED vars
  BY <1>0 DEF IInv, Parts, vars, fileVars, remoteVars, procVars, OpenInv, WriteInv, ReadInv,
     SoleInv, CloseInv, FileInv, RemoteInv, CmdInv, SomeoneWrites, Writing, Reading, UsesFile,
     Whole, Droplet, SamePrefix
<1> SUFFICES ASSUME NEW p \in Procs,
                    \/ Build(p) \/ Download(p) \/ Create(p) \/ CreateFails(p)
                    \/ WritePiece(p) \/ WriteFails(p)
                    \/ Open(p) \/ ReadPiece(p) \/ ReadFails(p)
                    \/ Copied(p) \/ Deploy(p) \/ CommandFails(p) \/ Succeed(p) \/ Die(p)
             PROVE  Parts'
  BY <1>0 DEF Next
<1>1. CASE Build(p)
  <2>1. PICK v \in Versions : Begin(p, "stage", "open", Droplet(v), Pieces[v], TRUE)
    BY <1>1 DEF Build
  <2>2. Whole(Droplet(v)) /\ Pieces[v] = Len(Droplet(v))
    BY DropletIsContent DEF Whole
  <2>3. "stage" \in Writers /\ "stage" \in Writers \cup Readers
        /\ UNCHANGED <<fileVars, remoteVars>>
    BY <1>1 DEF Build, Writers
  <2>4. QED
    BY <2>1, <2>2, <2>3, BeginStep
<1>2. CASE Download(p)
  <2>1. Begin(p, "pull", "open", remote, Len(remote), remoteSound)
    BY <1>2 DEF Download
  <2>2. remoteSound \in BOOLEAN /\ (remoteSound => Whole(remote))
    BY DEF IInv, TypeOK, Parts, RemoteInv
  <2>3. "pull" \in Writers /\ "pull" \in Writers \cup Readers
        /\ UNCHANGED <<fileVars, remoteVars>>
    BY <1>2 DEF Download, Writers
  <2>4. QED
    BY <2>1, <2>2, <2>3, BeginStep
<1>3. CASE Open(p)
  <2>1. PICK c \in Readers :
          Begin(p, c, "copy", <<>>, Len(file), fileSound /\ ~SomeoneWrites)
    BY <1>3 DEF Open
  <2>2. fileSound /\ ~SomeoneWrites => Whole(file)
    BY <1>3 DEF Open, IInv, Parts, FileInv
  <2>3. (fileSound /\ ~SomeoneWrites) \in BOOLEAN
    BY DEF SomeoneWrites, IInv, TypeOK
  <2>4. UNCHANGED <<fileVars, remoteVars>>
    BY <1>3 DEF Open
  <2>5. QED
    BY <2>1, <2>2, <2>3, <2>4, BeginStep
<1>4. CASE CreateFails(p) \/ CommandFails(p) \/ Succeed(p) \/ ReadFails(p)
  <2>1. PICK r \in {"ok", "error"} : End(p, r) /\ UNCHANGED <<fileVars, remoteVars>> /\ ~Writing(p)
    BY <1>4 DEF CreateFails, CommandFails, Succeed, ReadFails, Writing, Reading, Readers, Writers
  <2>2. /\ UNCHANGED <<file, present>> /\ fileSound' = fileSound /\ fileSound' \in BOOLEAN
        /\ remoteSound' => Whole(remote')
    BY <2>1 DEF fileVars, remoteVars, IInv, TypeOK, Parts, RemoteInv, Whole, Droplet
  <2>3. QED
    BY <2>1, <2>2, EndStep
<1>5. CASE WriteFails(p) \/ Die(p)
  <2>1. PICK r \in {"none", "error"} : End(p, r)
    BY <1>5 DEF WriteFails, Die
  <2>2. /\ UNCHANGED <<file, present>> /\ fileSound' \in BOOLEAN
        /\ fileSound' => fileSound /\ ~Writing(p)
        /\ remoteSound' => Whole(remote')
    <3>1. UNCHANGED <<file, present>> /\ fileSound' \in BOOLEAN
      BY <1>5 DEF WriteFails, Die, Writing, IInv, TypeOK
    <3>2. fileSound' => fileSound /\ ~Writing(p)
      BY <1>5 DEF WriteFails, Die
    <3>3. UNCHANGED remoteVars
      BY <1>5 DEF WriteFails, Die
    <3>4. QED
      BY <3>1, <3>2, <3>3 DEF remoteVars, IInv, Parts, RemoteInv, Whole, Droplet
  <2>3. QED
    BY <2>1, <2>2, EndStep
<1>6. CASE Deploy(p)
  <2>1. PICK r \in {"ok", "error"} : End(p, r)
    BY <1>6 DEF Deploy
  <2>2. ~Writing(p) /\ UNCHANGED <<file, present>> /\ fileSound' = fileSound /\ fileSound' \in BOOLEAN
    BY <1>6 DEF Deploy, Writing, fileVars, IInv, TypeOK
  <2>3. remoteSound' => Whole(remote')
    BY <1>6 DEF Deploy, IInv, Parts, CloseInv, Readers, Whole, Droplet
  <2>4. QED
    BY <2>1, <2>2, <2>3, EndStep
<1>7. QED
  BY <1>1, <1>2, <1>3, <1>4, <1>5, <1>6, CreateStep, WriteStep, ReadStep, CopiedStep

LEMMA Inductive == NoLength = FALSE /\ Spec => []IInv
<1>1. Init => IInv
  BY InitType, InitParts DEF IInv
<1>2. NoLength = FALSE /\ IInv /\ [Next]_vars => IInv'
  BY TypeStep, PartsStep DEF IInv
<1>3. CASE NoLength = FALSE
  <2>1. IInv /\ [Next]_vars => IInv'
    BY <1>2, <1>3
  <2>2. QED
    BY <1>1, <2>1, PTL DEF Spec
<1>4. CASE NoLength # FALSE
  BY <1>4
<1>5. QED
  BY <1>3, <1>4

---------------------------------------------------------------------------------

\* Where downloads come with their length, a droplet in the file, in Cloud Foundry or
\* on its way there is damaged only when a writer failed, died or overlapped with
\* another command.
THEOREM DamageIsCaused == NoLength = FALSE /\ Spec => []DamageHasCause
<1>1. IInv => DamageHasCause
  BY DEF IInv, Parts, FileInv, RemoteInv, CloseInv, DamageHasCause
<1>2. QED
  BY <1>1, Inductive, PTL

\* Where downloads come with their length, a stage or a pull that reports success has
\* left its droplet in the file.
THEOREM SuccessIsWritten == NoLength = FALSE /\ Spec => SuccessMeansWritten
<1>1. IInv /\ [Next]_vars =>
        [\A p \in Procs : Succeed(p) /\ cmd[p] \in Writers /\ sound[p] => file = data[p]]_vars
  BY DEF IInv, Parts, CloseInv, Succeed
<1>2. QED
  BY <1>1, Inductive, PTL DEF Spec, SuccessMeansWritten

=================================================================================
