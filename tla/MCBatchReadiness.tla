-------------------------- MODULE MCBatchReadiness --------------------------
(* Two workers and one goroutine.  At first both are known and so is what is *)
(* missing, or worker 1 is in doubt and worker 2 is not waiting for a first  *)
(* inspection; an error that stays comes of an instance that is another's.   *)
EXTENDS BatchReadiness

CONSTANT g1

FewBegin ==
    /\ opErr = "none" => bounded
    /\ opErr # "none" => out[1].status = "not_observed" /\ out[2].status # "not_observed"
    /\ opErr = "other" => \E w \in Batch : vm[w] = "foreign"

\* FairReadySpec from such a beginning.
MCReadyInit == ReadyInit /\ FewBegin
MCReadySpec == MCReadyInit /\ [][ReadyNext]_readyVars /\ ReadyFairness
=============================================================================
