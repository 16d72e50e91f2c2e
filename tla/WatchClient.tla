------------------------------- MODULE WatchClient -------------------------------
(***************************************************************************)
(* How the caller of FS.Watch uses it: the restarts are received only by a *)
(* running app, the stop channel is closed once no one receives any more,  *)
(* and the app does not come back.                                         *)
(***************************************************************************)

VARIABLES runner,  \* the receiver of restarts: "starting", "running", "gone"
          stop     \* the stop channel is closed

vars == <<runner, stop>>

Init == runner = "starting" /\ stop = FALSE

Start == runner = "starting" /\ runner' = "running" /\ UNCHANGED stop

End == runner # "gone" /\ runner' = "gone" /\ UNCHANGED stop

Stop == runner = "gone" /\ ~stop /\ stop' = TRUE /\ UNCHANGED runner

Next == Start \/ End \/ Stop

Spec == Init /\ [][Next]_vars
==================================================================================
