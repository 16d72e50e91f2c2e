----------------------------- MODULE MCLocalDroplet -----------------------------
(***************************************************************************)
(* LocalDroplet with a droplet of one piece and one of two.                *)
(***************************************************************************)
EXTENDS LocalDroplet

CONSTANTS short, long

MCVersions == {short, long}
MCPieces == [v \in MCVersions |-> IF v = short THEN 1 ELSE 2]
=================================================================================
