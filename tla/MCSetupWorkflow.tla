-------------------------- MODULE MCSetupWorkflow --------------------------
(* An instance of SetupWorkflow for TLC. *)
EXTENDS SetupWorkflow, TLC

CONSTANTS r1, r2

RunSymmetry == Permutations(Runs)
=============================================================================
