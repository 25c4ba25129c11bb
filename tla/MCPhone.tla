-------------------------------- MODULE MCPhone --------------------------------
(* Phone on small instances: one picked name and one "keep both" name. *)
EXTENDS Phone, TLC
CONSTANTS b1, b2
BothNames == 1 .. 2
================================================================================
