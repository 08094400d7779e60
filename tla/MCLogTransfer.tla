--------------------------- MODULE MCLogTransfer ---------------------------
(* Two destinations, streams of two bytes, a buffer of two. *)
EXTENDS LogTransfer

CONSTANTS a, b
=============================================================================
