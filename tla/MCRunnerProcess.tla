-------------------------- MODULE MCRunnerProcess --------------------------
(* An instance of RunnerProcess for TLC: two streams, each of which can be
   one unit too long for its file. *)
EXTENDS RunnerProcess
=============================================================================
