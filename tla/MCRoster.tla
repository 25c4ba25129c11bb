------------------------------ MODULE MCRoster ------------------------------
(* Roster on small instances. *)
EXTENDS Roster, TLC
=============================================================================
