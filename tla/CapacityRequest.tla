--------------------------- MODULE CapacityRequest ---------------------------
(***************************************************************************)
(* What the launch protocol promises of one request, without clients,      *)
(* caches, ledgers or lost messages: capacity is asked for one attempt at  *)
(* a time, an attempt is sent at most once and filled at most once, the    *)
(* next one is granted only after the last is closed by complete evidence, *)
(* and the request never owns more than its target, terminated workers     *)
(* included.                                                               *)
(***************************************************************************)
EXTENDS Naturals, FiniteSets

CONSTANTS Target, Workers

VARIABLES
  attempts,  \* how many attempts were ever granted
  phase,     \* the latest attempt: closed, granted, sent, filled
  owned      \* the workers EC2 ever allocated to the request

vars == <<attempts, phase, owned>>

Init == attempts = 0 /\ phase = "closed" /\ owned = {}

Grant ==
  /\ phase = "closed" /\ Cardinality(owned) < Target
  /\ phase' = "granted" /\ attempts' = attempts + 1
  /\ UNCHANGED owned

Send == phase = "granted" /\ phase' = "sent" /\ UNCHANGED <<attempts, owned>>

Fill ==
  /\ phase = "sent" /\ phase' = "filled"
  /\ owned' \in SUBSET Workers
  /\ owned \subseteq owned' /\ Cardinality(owned') <= Target
  /\ UNCHANGED attempts

Close == phase = "filled" /\ phase' = "closed" /\ UNCHANGED <<attempts, owned>>

Next == Grant \/ Send \/ Fill \/ Close

Spec == Init /\ [][Next]_vars
=============================================================================
