-------------------------- MODULE MCCleanupHandler --------------------------
(* One instance with one volume. *)
EXTENDS CleanupHandler

CONSTANT a

OneVolume == [v \in {1} |-> a]
DeleteOrKeep == [Volumes -> {"delete", "keep"}]
=============================================================================
