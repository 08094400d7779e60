-------------------------- MODULE CommandEvidence --------------------------
(***************************************************************************)
(* What a process that did not submit or run a command can see of it: the  *)
(* records of CommandLife as they appear in S3, the SSM invocation, and    *)
(* the ways a single read can go wrong.  internal/execution reads all of   *)
(* it by separate calls while the command moves on.                        *)
(***************************************************************************)
EXTENDS Naturals

CONSTANTS
  Runs, Absent,   \* as in CommandLife
  Workloads,      \* workload statuses an outcome may record
  Clocks,         \* subset of {"steady", "beforeStart"}
  Terminals,      \* terminal SSM invocation states
  StorageFaults,  \* subset of {"transient", "denied", "schema", "corrupt"}
  InvocationFaults, \* subset of {"transient", "denied", "corrupt", "lagging", "unrecognised"}
  Endless,        \* any number of reads may go wrong; if not,
  MaxFaults       \* at most so many

ASSUME EvidenceAssumption ==
  /\ Clocks \subseteq {"steady", "beforeStart"}
  /\ StorageFaults \subseteq {"transient", "denied", "schema", "corrupt"}
  /\ InvocationFaults \subseteq {"transient", "denied", "corrupt", "lagging", "unrecognised"}
  /\ Endless \in BOOLEAN /\ MaxFaults \in Nat

VARIABLES
  phase, holder, known,  \* the life of the command
  capture,      \* whether the recorded capture is complete
  clock,        \* "beforeStart": the recorded FinishedAt precedes StartedAt
  publication,  \* what the result says of its publication
  invocation,   \* SSM: none (not visible yet), live, or a terminal state
  expired,      \* the retention deadline has passed
  faults,       \* reads that went wrong so far
  lied          \* some read returned an altered or foreign record

lifeVars == <<phase, holder, known>>
recordVars == <<lifeVars, capture, clock, publication>>
evidenceVars == <<recordVars, invocation, expired>>
readVars == <<faults, lied>>

Life == INSTANCE CommandLife

Kinds == {"request", "started", "outcome", "result"}

\* The records stored by now.
Published ==
  {k \in Kinds :
     \/ k = "request" /\ phase # "none"
     \/ k = "started" /\ phase \in {"claimed", "running", "recorded", "final"}
     \/ k = "outcome" /\ phase \in {"recorded", "final"}
     \/ k = "result" /\ phase = "final"}

\* The fields observe.go compares, of a stored outcome and of a stored result.
Outcome == [workload |-> known, capture |-> capture, clock |-> clock, upload |-> "pending"]
FinalRecord == [Outcome EXCEPT !.upload = publication]

EvidenceOK ==
  /\ phase \in {"none", "requested", "claimed", "running", "recorded", "final"}
  /\ holder \in Runs \cup {Absent} /\ known \in Workloads \cup {"none"}
  /\ capture \in {"none", "complete", "incomplete"} /\ clock \in Clocks \cup {"none"}
  /\ publication \in {"none", "complete", "incomplete"}
  /\ invocation \in {"none", "live"} \cup Terminals
  /\ expired \in BOOLEAN /\ lied \in BOOLEAN /\ faults \in 0 .. MaxFaults

EvidenceInit ==
  /\ Life!Init
  /\ capture = "none" /\ clock = "none" /\ publication = "none"
  /\ invocation = "none" /\ expired = FALSE
  /\ faults = 0 /\ lied = FALSE

----------------------------------------------------------------------------
(* The command moves on: a record may appear at any time, also after SSM has *)
(* given the invocation up (a PUT may land late), but not after retention.   *)

Begin ==
  /\ ~expired
  /\ Life!Request \/ Life!Run \/ \E r \in Runs : Life!Claim(r)
  /\ UNCHANGED <<capture, clock, publication, invocation, expired>>

RecordOutcome ==
  /\ ~expired
  /\ \E w \in Workloads : Life!Record(w)
  /\ capture' \in {"complete", "incomplete"} /\ clock' \in Clocks
  /\ UNCHANGED <<publication, invocation, expired>>

RecordResult ==
  /\ ~expired
  /\ Life!Finalize
  /\ publication' \in IF known # "unknown" /\ capture = "complete"
                      THEN {"complete", "incomplete"} ELSE {"incomplete"}
  /\ UNCHANGED <<capture, clock, invocation, expired>>

\* The runner's exit status is 0 only after a complete publication.
InvocationMoves ==
  /\ invocation \in {"none", "live"} /\ phase # "none"
  /\ invocation' \in ({"live"} \cup Terminals) \ {invocation}
  /\ invocation' = "succeeded" => publication = "complete"
  /\ UNCHANGED <<recordVars, expired>>

RetentionEnds ==
  /\ ~expired /\ phase # "none"
  /\ expired' = TRUE
  /\ UNCHANGED <<recordVars, invocation>>

EvidenceStep == Begin \/ RecordOutcome \/ RecordResult \/ InvocationMoves \/ RetentionEnds

----------------------------------------------------------------------------
(* One read *)

Wrong(a, some) ==
  /\ a \in some
  /\ \/ Endless /\ UNCHANGED faults
     \/ ~Endless /\ faults < MaxFaults /\ faults' = faults + 1

\* A GET of kind k, of the kinds stored by now, returns a.
Get(k, stored, a) ==
  /\ \/ a = "found" /\ k \in stored /\ UNCHANGED faults
     \/ a = "absent" /\ k \notin stored /\ UNCHANGED faults
     \/ Wrong(a, StorageFaults)
  /\ lied' = (lied \/ a = "corrupt")

\* GetCommandInvocation, classified: an invocation SSM does not show (yet) is
\* no failure, and a status it does not know counts as terminal.
GetInvocation(a) ==
  /\ \/ a = invocation /\ UNCHANGED faults
     \/ Wrong(a, InvocationFaults \ {"lagging"})
     \/ a = "none" /\ Wrong("lagging", InvocationFaults)
  /\ lied' = (lied \/ a = "corrupt")

GetAnswers == {"found", "absent"} \cup StorageFaults
InvocationAnswers == {"none", "live"} \cup Terminals \cup InvocationFaults

\* Mutant of SameOutcome: it also compares the uploads, which only the result
\* knows the end of.
SameUploads(a, b) == a = b

\* sameOutcome: workload, capture and times.
SameOutcome(a, b) == [a EXCEPT !.upload = b.upload] = b

\* A record whose FinishedAt precedes its StartedAt.
TimelineBroken == clock = "beforeStart"
=============================================================================
