------------------------- MODULE MCCommandProtocol -------------------------
(* CommandProtocol with two runner processes, so that a second delivery can  *)
(* meet every state the first one leaves behind.                             *)
EXTENDS CommandProtocol, TLC

MCSymmetry == Permutations(Runs)
=============================================================================
