----------------------------- MODULE MCLocalConfig -----------------------------
(***************************************************************************)
(* LocalConfig with interchangeable processes, apps and values: only       *)
(* safety properties are checked under this symmetry.                      *)
(***************************************************************************)
EXTENDS LocalConfig, TLC

Symmetry == Permutations(Procs) \cup Permutations(Apps) \cup Permutations(Values)
================================================================================
