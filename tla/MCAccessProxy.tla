--------------------------- MODULE MCAccessProxy ---------------------------
(* Instances of AccessProxy for TLC. *)
EXTENDS AccessProxy
=============================================================================
