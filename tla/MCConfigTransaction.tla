------------------------ MODULE MCConfigTransaction ------------------------
(* Two of the files setup writes. *)
EXTENDS ConfigTransaction

CONSTANTS config, aws
=============================================================================
