------------------------------- MODULE MCLedger -------------------------------
(* Ledger on small instances. *)
EXTENDS Ledger, TLC

\* Nodes and threads carry no structure the module looks at.
Interchangeable == Permutations(Node) \cup Permutations(Asking)
===============================================================================
