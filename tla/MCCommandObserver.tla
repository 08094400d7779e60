------------------------- MODULE MCCommandObserver -------------------------
(* One command, one run; the constants are given in the cfg. *)
EXTENDS CommandObserver

CONSTANT r1
=============================================================================
