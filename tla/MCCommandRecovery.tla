------------------------- MODULE MCCommandRecovery -------------------------
(* One command, one run; the constants are given in the cfg. *)
EXTENDS CommandRecovery

CONSTANT r1
=============================================================================
