------------------------------ MODULE PushContract ------------------------------
(***************************************************************************)
(* What uploading a droplet promises its caller, cf/cmd/push.go, whatever  *)
(* goroutines and requests it takes: the remote app gets the whole new     *)
(* droplet at one instant or not at all, success is reported only after    *)
(* that instant, and the outcome, once reported, is not revised.           *)
(* An error promises nothing about the remote app: Cloud Foundry may       *)
(* accept a droplet whose acknowledgement was lost.                        *)
(***************************************************************************)

VARIABLES droplet,  \* the droplet of the remote app: "old" or "new"
          result    \* what the caller was told: "pending", "ok" or "error"

vars == <<droplet, result>>

Init ==
  /\ droplet = "old"
  /\ result = "pending"

Deploy ==
  /\ droplet = "old"
  /\ droplet' = "new"
  /\ UNCHANGED result

ReturnOk ==
  /\ result = "pending"
  /\ droplet = "new"
  /\ result' = "ok"
  /\ UNCHANGED droplet

ReturnError ==
  /\ result = "pending"
  /\ result' = "error"
  /\ UNCHANGED droplet

Next == Deploy \/ ReturnOk \/ ReturnError

Spec == Init /\ [][Next]_vars
=================================================================================
