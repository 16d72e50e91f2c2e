------------------------------ MODULE WatchContract ------------------------------
(***************************************************************************)
(* What FS.Watch promises cf/cmd/run.go, which restarts the app whenever   *)
(* it receives from the channel, on every system: once the goroutine has   *)
(* noted a change it owes a restart until there is one, or until it is     *)
(* stopped; several changes may share a restart, but every restart has a   *)
(* change of its own.                                                      *)
(***************************************************************************)
EXTENDS Naturals

VARIABLES
  noted,     \* changes that the goroutine has noted
  restarts,  \* restarts that its caller has received
  owing,     \* a change was noted and no restart has been received for it
  ended      \* the goroutine has returned

vars == <<noted, restarts, owing, ended>>

Count(b) == IF b THEN 1 ELSE 0

Init == noted = 0 /\ restarts = 0 /\ owing = FALSE /\ ended = FALSE

Note ==
  /\ ~ended
  /\ noted' = noted + 1
  /\ owing' = TRUE
  /\ UNCHANGED <<restarts, ended>>

\* Another restart may be owed already, for a change that has had none.
Restart ==
  /\ ~ended /\ owing
  /\ restarts' = restarts + 1
  /\ owing' \in BOOLEAN
  /\ restarts' + Count(owing') <= noted
  /\ UNCHANGED <<noted, ended>>

End ==
  /\ ~ended
  /\ ended' = TRUE
  /\ UNCHANGED <<noted, restarts, owing>>

Next == Note \/ Restart \/ End

Spec == Init /\ [][Next]_vars
==================================================================================
