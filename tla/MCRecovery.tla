----------------------------- MODULE MCRecovery -----------------------------
(* Recovery on small instances. *)
EXTENDS Recovery, TLC

Interchangeable == Permutations(Folder) \cup Permutations(Pass)
=============================================================================
