------------------------------- MODULE MCWalk -------------------------------
(* Small instances of Walk: the constants are all given in the configurations. *)
EXTENDS Walk
=============================================================================
