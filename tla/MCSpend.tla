------------------------------ MODULE MCSpend ------------------------------
(* Spend on small instances. *)
EXTENDS Spend, TLC

\* Nodes and slots carry no structure the module looks at.
Interchangeable == Permutations(Node) \cup Permutations(Slot)
=============================================================================
