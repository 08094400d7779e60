-------------------------- MODULE CommandRecovery --------------------------
(***************************************************************************)
(* `devbox logs`: Recover and accept of internal/execution/recover.go take *)
(* one bounded snapshot of a command from S3 and SSM, by separate calls,   *)
(* knowing only the public ID, while the command may still move.           *)
(***************************************************************************)
EXTENDS CommandEvidence

VARIABLES
  stage,     \* idle, first, outcome, started, acknowledgement, request, ask, last, done
  again,     \* this read is the second attempt
  seen,      \* the kinds of the records accepted
  optional,  \* what kept it from an intermediate record
  invalid,   \* what makes the records unusable
  answer,    \* SSM's answer, or "unasked"
  acked,     \* the client's acknowledgement is stored
  atStart, atAnswer,  \* the records stored when it began, and before the last read
  ctx, verdict

recoveryVars == <<stage, again, seen, optional, invalid, answer, atStart, atAnswer, ctx, verdict>>
vars == <<evidenceVars, readVars, acked, recoveryVars>>

Stored == Published \cup (IF acked THEN {"acknowledgement"} ELSE {})
Records == Kinds \cup {"acknowledgement"}

\* Verdicts that say a record is not there.
Absences == {"incomplete", "pending", "execution_unknown", "missing_or_expired", "ssm_failed"}
Errors == {"corrupt", "unsupported_schema", "unavailable", "access_denied"}

TypeOK ==
  /\ EvidenceOK
  /\ stage \in {"idle", "first", "outcome", "started", "acknowledgement", "request", "ask", "last", "done"}
  /\ again \in BOOLEAN /\ acked \in BOOLEAN /\ seen \subseteq Records
  /\ optional \in {"none", "transient", "denied"} /\ invalid \in {"none", "schema", "corrupt"}
  /\ answer \in InvocationAnswers \cup {"unasked"}
  /\ atStart \subseteq Records /\ atAnswer \subseteq Records
  /\ ctx \in {"live", "canceled", "deadline"}
  /\ verdict \in Absences \cup Errors \cup {"none", "interrupted", "timeout", "expired", "final_incomplete", "complete"}
  /\ (stage = "done") = (verdict # "none")

Init ==
  /\ EvidenceInit
  /\ stage = "idle" /\ again = FALSE /\ seen = {} /\ optional = "none" /\ invalid = "none"
  /\ answer = "unasked" /\ acked = FALSE /\ atStart = {} /\ atAnswer = {}
  /\ ctx = "live" /\ verdict = "none"

----------------------------------------------------------------------------
(* accept: what is known from the records, and when one contradicts them *)

Ended == {"outcome", "result"}

Contradicts(k) ==
  \/ TimelineBroken /\ k = "started" /\ seen \cap Ended # {}
  \/ TimelineBroken /\ k \in Ended /\ "started" \in seen
  \/ k \in Ended /\ seen \cap Ended # {} /\ ~SameOutcome(Outcome, FinalRecord)

\* The runner's records name the SSM command and carry the submission time; the
\* acknowledgement only the former, the request (by its S3 creation time) only
\* the latter.
KnowsInvocation == seen \ {"request"} # {}
KnowsExpiry == seen \ {"acknowledgement"} # {}
SeemsExpired == KnowsExpiry /\ expired

Finish(v) == stage' = "done" /\ verdict' = v

IssueVerdict == [schema |-> "unsupported_schema", corrupt |-> "corrupt",
                 transient |-> "unavailable", denied |-> "access_denied"]

\* final(): the verdict on an accepted result.
FinalVerdict ==
  IF expired THEN "expired" ELSE IF publication = "complete" THEN "complete" ELSE "final_incomplete"

----------------------------------------------------------------------------
(* read: a transient failure is tried once more, by a new GET *)

\* Mutant of Retry: the count of attempts starts over.
RetryForever(k) ==
  /\ ctx = "live"
  /\ Get(k, Stored, "transient")
  /\ again' = ~again
  /\ UNCHANGED <<stage, seen, optional, invalid, answer, acked, atStart, atAnswer, ctx, verdict>>

Retry(k) ==
  /\ ctx = "live" /\ ~again
  /\ Get(k, Stored, "transient")
  /\ again' = TRUE
  /\ UNCHANGED <<stage, seen, optional, invalid, answer, acked, atStart, atAnswer, ctx, verdict>>

Read(k, a) ==
  /\ Get(k, Stored, a)
  /\ a = "transient" => again
  /\ again' = FALSE

\* The first and the last GET of the result: accepted, it decides, also when
\* the context ended while it was read.
ResultAccepted ==
  /\ stage \in {"first", "last"}
  /\ Read("result", "found") /\ ~Contradicts("result")
  /\ seen' = seen \cup {"result"}
  /\ Finish(FinalVerdict)
  /\ UNCHANGED <<optional, invalid, answer, acked, atStart, atAnswer, ctx>>

FirstResultUnread ==
  /\ stage = "first" /\ ctx = "live"
  /\ \E a \in GetAnswers \ {"found"} :
       /\ Read("result", a)
       /\ invalid' = IF a \in {"corrupt", "schema"} THEN a ELSE invalid
  /\ stage' = "outcome"
  /\ UNCHANGED <<seen, optional, answer, acked, atStart, atAnswer, ctx, verdict>>

\* Mutant of Order: the request is not looked for.
OrderWithoutRequest == [outcome |-> "started", started |-> "acknowledgement",
                        acknowledgement |-> "ask", request |-> "ask"]

Order == [outcome |-> "started", started |-> "acknowledgement", acknowledgement |-> "request",
          request |-> "ask"]

\* An unreadable record that is not known to be bad only prevents a verdict.
Unreadable(a) == IF a \in {"transient", "denied"} THEN a ELSE optional

ReadRecord ==
  /\ stage \in DOMAIN Order /\ ctx = "live"
  /\ \E a \in GetAnswers :
       /\ Read(stage, a)
       /\ seen' = IF a = "found" /\ ~Contradicts(stage) THEN seen \cup {stage} ELSE seen
       /\ invalid' = IF a = "found" /\ Contradicts(stage) THEN "corrupt"
                     ELSE IF a \in {"corrupt", "schema"} THEN a ELSE invalid
       /\ optional' = Unreadable(a)
  /\ stage' = Order[stage]
  /\ UNCHANGED <<answer, acked, atStart, atAnswer, ctx, verdict>>

----------------------------------------------------------------------------
(* Recover *)

Start ==
  /\ stage = "idle"
  /\ stage' = "first" /\ atStart' = Stored
  /\ UNCHANGED <<readVars, again, seen, optional, invalid, answer, acked, atAnswer, ctx, verdict>>

RecordsInvalid ==
  /\ stage = "ask" /\ ctx = "live" /\ invalid # "none"
  /\ Finish(IssueVerdict[invalid])
  /\ UNCHANGED <<readVars, again, seen, optional, invalid, answer, acked, atStart, atAnswer, ctx>>

CanAsk == KnowsInvocation /\ ~SeemsExpired

\* One optional SSM snapshot, when a record names the invocation.
AskSSM ==
  /\ stage = "ask" /\ ctx = "live" /\ invalid = "none" /\ CanAsk
  /\ \E a \in InvocationAnswers :
       /\ GetInvocation(a)
       /\ answer' = a
       /\ IF a = "corrupt" THEN Finish("corrupt") ELSE stage' = "last" /\ UNCHANGED verdict
  /\ atAnswer' = Stored
  /\ UNCHANGED <<again, seen, optional, invalid, acked, atStart, ctx>>

SkipSSM ==
  /\ stage = "ask" /\ ctx = "live" /\ invalid = "none" /\ ~CanAsk
  /\ stage' = "last" /\ atAnswer' = Stored
  /\ UNCHANGED <<readVars, again, seen, optional, invalid, answer, acked, atStart, ctx, verdict>>

\* The verdict without a result, from what was read before and from SSM.
Snapshot ==
  IF optional # "none" THEN IssueVerdict[optional]
  ELSE IF SeemsExpired THEN "expired"
  ELSE IF "outcome" \in seen THEN "incomplete"
  ELSE IF answer \in {"transient", "denied"} THEN "ssm_failed"
  ELSE IF answer = "live" THEN "pending"
  ELSE IF "started" \in seen /\ answer \in {"unasked", "none"} THEN "pending"
  ELSE IF seen # {} THEN "execution_unknown"
  ELSE "missing_or_expired"

\* Mutant of LastRead: the first GET of the result is not repeated.
TrustsFirstRead ==
  /\ stage = "last" /\ ctx = "live"
  /\ Finish(Snapshot)
  /\ UNCHANGED <<readVars, again, seen, optional, invalid, answer, acked, atStart, atAnswer, ctx>>

LastRead ==
  /\ stage = "last" /\ ctx = "live"
  /\ \E a \in GetAnswers :
       /\ Read("result", a)
       /\ a = "found" => Contradicts("result")
       /\ Finish(IF a = "absent" THEN Snapshot
                 ELSE IF a = "found" THEN "corrupt" ELSE IssueVerdict[a])
  /\ UNCHANGED <<seen, optional, invalid, answer, acked, atStart, atAnswer, ctx>>

Stopped ==
  /\ stage \notin {"idle", "done"} /\ ctx # "live"
  /\ Finish(IF ctx = "canceled" THEN "interrupted" ELSE "timeout")
  /\ UNCHANGED <<readVars, again, seen, optional, invalid, answer, acked, atStart, atAnswer, ctx>>

ContextEnds ==
  /\ stage \notin {"idle", "done"} /\ ctx = "live"
  /\ ctx' \in {"canceled", "deadline"}
  /\ UNCHANGED <<readVars, stage, again, seen, optional, invalid, answer, acked, atStart, atAnswer, verdict>>

\* The client stores its acknowledgement (CommandProtocol).
Acknowledge ==
  /\ stage # "done" /\ phase # "none" /\ ~acked /\ ~expired
  /\ acked' = TRUE
  /\ UNCHANGED <<readVars, recoveryVars>>

RecoveryStep ==
  /\ UNCHANGED evidenceVars
  /\ \/ Start \/ ResultAccepted \/ FirstResultUnread \/ ReadRecord \/ RecordsInvalid
     \/ AskSSM \/ SkipSSM \/ LastRead \/ Stopped
     \/ stage \in {"first", "last"} /\ Retry("result")
     \/ stage \in DOMAIN Order /\ Retry(stage)

\* The command moves while it is watched; what it does after the verdict
\* concerns nobody here.
Next ==
  \/ RecoveryStep
  \/ (ContextEnds \/ Acknowledge) /\ UNCHANGED evidenceVars
  \/ stage # "done" /\ EvidenceStep /\ UNCHANGED <<readVars, acked, recoveryVars>>

\* Every call of the snapshot has a deadline; nothing is asked of the rest.
Spec == Init /\ [][Next]_vars /\ WF_vars(RecoveryStep)
----------------------------------------------------------------------------
(* Properties *)

\* A verdict of absence accounts for everything that was stored when the
\* command was looked up: no record of that time is overlooked by a retried,
\* failed or reordered read; and a result published during the other reads or
\* the SSM call is not hidden by what they said (Recover and its last read).
NothingStoredIsOverlooked ==
  /\ TypeOK
  /\ verdict \in Absences => atStart \subseteq seen /\ "result" \notin atAnswer

\* Genuine records, read in the order result, outcome, started and result
\* again while they are being written, never look contradictory unless the
\* worker's clock stepped back (accept, recover.go).
NoFalseCorruption == verdict = "corrupt" => lied \/ TimelineBroken

\* A retrieval ends by itself, without its deadline, even if every read fails
\* (read's two attempts and Recover's single pass).
RetrievalEnds == stage # "idle" ~> stage = "done"

=============================================================================
