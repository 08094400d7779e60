---------------------------- MODULE CommandLife ----------------------------
(***************************************************************************)
(* What the command protocol promises of one public command ID, without    *)
(* clients, storage calls or deliveries: it is requested at most once, one *)
(* run at most claims it, only the claimant runs the workload, and once an *)
(* outcome is recorded neither it nor the claim ever changes.              *)
(***************************************************************************)
CONSTANTS Runs, Workloads, Absent

VARIABLES
  phase,   \* none, requested, claimed, running, recorded, final
  holder,  \* the run whose claim is durable
  known    \* the recorded workload status

vars == <<phase, holder, known>>

Init == phase = "none" /\ holder = Absent /\ known = "none"

Request == phase = "none" /\ phase' = "requested" /\ UNCHANGED <<holder, known>>

Claim(r) ==
  /\ phase = "requested"
  /\ phase' = "claimed" /\ holder' = r
  /\ UNCHANGED known

Run == phase = "claimed" /\ phase' = "running" /\ UNCHANGED <<holder, known>>

Record(w) ==
  /\ phase = "running"
  /\ phase' = "recorded" /\ known' = w
  /\ UNCHANGED holder

Finalize == phase = "recorded" /\ phase' = "final" /\ UNCHANGED <<holder, known>>

Next ==
  \/ Request \/ Run \/ Finalize
  \/ \E r \in Runs : Claim(r)
  \/ \E w \in Workloads : Record(w)

Spec == Init /\ [][Next]_vars
=============================================================================
