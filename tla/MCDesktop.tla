---------------------------- MODULE MCDesktop ----------------------------
(* Desktop on small instances. *)
EXTENDS Desktop, TLC

\* Processes and texts carry no structure the module looks at.
Interchangeable == Permutations(Proc) \cup Permutations(Invite)
=============================================================================
