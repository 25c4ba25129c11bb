------------------------------ MODULE MCTopUp ------------------------------
(* TopUp on small instances: one process, one or two handles. *)
EXTENDS TopUp
=============================================================================
