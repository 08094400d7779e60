----------------------- MODULE CommandRecoveryProofs -----------------------
(***************************************************************************)
(* Proofs about CommandRecovery, for any workloads, terminal states, kinds *)
(* and numbers of faulty reads: a verdict of absence overlooks nothing,    *)
(* and genuine records are not called corrupt.                             *)
(*                                                                         *)
(* A kind that was looked for, while nothing stood in the way, is either   *)
(* accepted or was not stored at the start (LookedFor).                    *)
(*                                                                         *)
(* And about LogTransfer, which devbox logs goes on with: what it verifies *)
(* and leaves behind is what was recorded, for streams of any length.      *)
(* TransferInv says where the program stands in the sequence of streams    *)
(* and that all it has written belongs to the stream it is fetching.       *)
(***************************************************************************)
EXTENDS CommandRecovery, LogTransfer, Integers, TLAPS

Written == {"recorded", "final"}   \* phases in which the outcome is stored

\* The kinds, other than the result, that have been looked for.
LookedFor ==
  CASE stage = "started"              -> {"outcome"}
    [] stage = "acknowledgement"      -> {"outcome", "started"}
    [] stage = "request"              -> {"outcome", "started", "acknowledgement"}
    [] stage \in {"ask", "last"}      -> Records \ {"result"}
    [] OTHER                          -> {}

\* What the snapshot has found out so far.
SnapshotOK ==
  /\ clock # "none" => phase \in Written
  /\ invalid = "corrupt" => lied \/ TimelineBroken
  /\ atStart \subseteq Stored /\ atAnswer \subseteq Stored
  /\ stage = "last" => invalid = "none"
  /\ optional = "none" /\ invalid = "none" => atStart \cap LookedFor \subseteq seen

RecoveryInv == SnapshotOK /\ NoFalseCorruption /\ NothingStoredIsOverlooked

----------------------------------------------------------------------------
(* The command and single reads *)

\* Two readings of one outcome agree: the end of the upload is not compared.
LEMMA RecordsAgree == ASSUME NEW k, Contradicts(k) PROVE TimelineBroken
<1>1. SameOutcome(Outcome, FinalRecord)
  <2>1. FinalRecord.upload = publication
    BY DEF FinalRecord, Outcome
  <2>2. QED BY <2>1 DEF SameOutcome, FinalRecord
<1>2. QED BY <1>1 DEF Contradicts

\* The command moves on: records only appear, and the outcome is written once.
LEMMA LifeMoves ==
  ASSUME EvidenceOK, clock # "none" => phase \in Written, EvidenceStep, UNCHANGED readVars
  PROVE  /\ EvidenceOK' /\ Published \subseteq Published'
         /\ clock' # "none" => phase' \in Written
         /\ TimelineBroken => TimelineBroken'
<1> USE DEF readVars
<1>1. CASE Begin
  <2>1. PICK h \in Runs \cup {Absent} : holder' = h
    BY <1>1 DEF Begin, EvidenceOK, Life!Request, Life!Run, Life!Claim
  <2>2. UNCHANGED <<known, capture, clock, publication, invocation, expired>>
    BY <1>1 DEF Begin, Life!Request, Life!Run, Life!Claim
  <2>3. <<phase, phase'>> \in {<<"none", "requested">>, <<"requested", "claimed">>, <<"claimed", "running">>}
    BY <1>1 DEF Begin, Life!Request, Life!Run, Life!Claim
  <2>4. EvidenceOK'
    BY <2>1, <2>2, <2>3 DEF EvidenceOK
  <2>5. Published \subseteq Published'
    BY <2>3 DEF Published
  <2>6. QED BY <2>2, <2>3, <2>4, <2>5 DEF Written, TimelineBroken
<1>2. CASE RecordOutcome
  <2>1. /\ phase = "running" /\ phase' = "recorded" /\ known' \in Workloads
        /\ capture' \in {"complete", "incomplete"} /\ clock' \in Clocks
        /\ UNCHANGED <<holder, publication, invocation, expired>>
    BY <1>2 DEF RecordOutcome, Life!Record
  <2>2. EvidenceOK'
    BY <2>1 DEF EvidenceOK
  <2>3. Published \subseteq Published'
    BY <2>1 DEF Published
  <2>4. QED BY <2>1, <2>2, <2>3 DEF Written, TimelineBroken
<1>3. CASE RecordResult
  <2>1. /\ phase = "recorded" /\ phase' = "final" /\ publication' \in {"complete", "incomplete"}
        /\ UNCHANGED <<holder, known, capture, clock, invocation, expired>>
    BY <1>3 DEF RecordResult, Life!Finalize
  <2>2. EvidenceOK'
    BY <2>1 DEF EvidenceOK
  <2>3. Published \subseteq Published'
    BY <2>1 DEF Published
  <2>4. QED BY <2>1, <2>2, <2>3 DEF Written, TimelineBroken
<1>4. CASE InvocationMoves \/ RetentionEnds
  <2>1. UNCHANGED recordVars /\ invocation' \in {"none", "live"} \cup Terminals /\ expired' \in BOOLEAN
    BY <1>4 DEF InvocationMoves, RetentionEnds, EvidenceOK
  <2>2. EvidenceOK'
    BY <2>1 DEF EvidenceOK, recordVars, lifeVars
  <2>3. QED BY <2>1, <2>2 DEF TimelineBroken, Published, recordVars, lifeVars
<1>5. QED BY <1>1, <1>2, <1>3, <1>4 DEF EvidenceStep

LEMMA EvidenceStands ==
  ASSUME UNCHANGED evidenceVars
  PROVE  /\ Published' = Published /\ (TimelineBroken => TimelineBroken')
         /\ UNCHANGED <<phase, holder, known, capture, clock, publication, invocation, expired>>
         /\ UNCHANGED acked => Stored' = Stored
BY DEF evidenceVars, recordVars, lifeVars, Published, Stored, TimelineBroken

LEMMA FaultsAreCounted ==
  ASSUME EvidenceOK, UNCHANGED evidenceVars, faults' = faults \/ (faults < MaxFaults /\ faults' = faults + 1),
         lied' \in BOOLEAN
  PROVE  EvidenceOK'
<1>1. MaxFaults \in Nat
  BY EvidenceAssumption
<1>2. faults \in 0 .. MaxFaults
  BY DEF EvidenceOK
<1>3. faults' \in 0 .. MaxFaults
  BY <1>1, <1>2
<1>4. QED BY <1>3, EvidenceStands DEF EvidenceOK

\* A GET tells what was stored when it was answered, if it tells anything.
LEMMA OneRead ==
  ASSUME EvidenceOK, UNCHANGED evidenceVars, NEW k, NEW a \in GetAnswers, Get(k, Stored, a)
  PROVE  /\ EvidenceOK' /\ (lied => lied')
         /\ a = "found" => k \in Stored
         /\ a = "absent" => k \notin Stored
         /\ a = "corrupt" => lied'
         /\ a \in {"found", "absent", "transient", "denied", "schema", "corrupt"}
<1>1. StorageFaults \subseteq {"transient", "denied", "schema", "corrupt"}
  BY EvidenceAssumption
<1>2. faults' = faults \/ (faults < MaxFaults /\ faults' = faults + 1)
  BY DEF Get, Wrong
<1>3. lied' \in BOOLEAN /\ (lied => lied') /\ (a = "corrupt" => lied')
  BY DEF Get
<1>4. /\ a = "found" => k \in Stored
      /\ a = "absent" => k \notin Stored
  BY <1>1 DEF Get, Wrong
<1>5. QED BY <1>1, <1>2, <1>3, <1>4, FaultsAreCounted DEF GetAnswers

LEMMA OneAnswer ==
  ASSUME EvidenceOK, UNCHANGED evidenceVars, NEW a, GetInvocation(a)
  PROVE  EvidenceOK' /\ (lied => lied') /\ (a = "corrupt" => lied')
<1>1. faults' = faults \/ (faults < MaxFaults /\ faults' = faults + 1)
  BY DEF GetInvocation, Wrong
<1>2. lied' \in BOOLEAN /\ (lied => lied') /\ (a = "corrupt" => lied')
  BY DEF GetInvocation
<1>3. QED BY <1>1, <1>2, FaultsAreCounted

----------------------------------------------------------------------------
(* The snapshot *)

LEMMA WhileItRuns == ASSUME RecoveryInv, stage # "done" PROVE verdict = "none"
BY DEF RecoveryInv, NothingStoredIsOverlooked, TypeOK

\* As long as there is no verdict there is nothing to answer for.
LEMMA GoesOn ==
  ASSUME verdict' = "none", TypeOK', SnapshotOK' PROVE RecoveryInv'
BY DEF RecoveryInv, NoFalseCorruption, NothingStoredIsOverlooked, Absences

\* Nor with a verdict that calls nothing absent and nothing corrupt.
LEMMA EndsHarmlessly ==
  ASSUME verdict' \notin Absences, verdict' = "corrupt" => lied' \/ TimelineBroken', TypeOK', SnapshotOK'
  PROVE  RecoveryInv'
BY DEF RecoveryInv, NoFalseCorruption, NothingStoredIsOverlooked

LEMMA StartKeeps == ASSUME RecoveryInv, Start, UNCHANGED evidenceVars PROVE RecoveryInv'
<1>1. /\ stage = "idle" /\ stage' = "first" /\ atStart' = Stored
      /\ UNCHANGED <<readVars, again, seen, optional, invalid, answer, acked, atAnswer, ctx, verdict>>
  BY DEF Start
<1>2. TypeOK /\ SnapshotOK /\ verdict = "none"
  BY <1>1, WhileItRuns DEF RecoveryInv, NothingStoredIsOverlooked
<1>3. /\ Stored' = Stored /\ (TimelineBroken => TimelineBroken')
      /\ UNCHANGED <<phase, holder, known, capture, clock, publication, invocation, expired>>
  BY <1>1, EvidenceStands
<1>4. Stored \subseteq Records
  BY DEF Stored, Published, Records, Kinds
<1>5. TypeOK'
  BY <1>1, <1>2, <1>3, <1>4 DEF TypeOK, EvidenceOK, readVars
<1>6. LookedFor' = {}
  BY <1>1 DEF LookedFor
<1>7. SnapshotOK'
  BY <1>1, <1>2, <1>3, <1>6 DEF SnapshotOK, readVars
<1>8. QED BY <1>1, <1>2, <1>5, <1>7, GoesOn

LEMMA ResultAcceptedKeeps == ASSUME RecoveryInv, ResultAccepted, UNCHANGED evidenceVars PROVE RecoveryInv'
<1>1. /\ stage' = "done" /\ verdict' \in {"expired", "complete", "final_incomplete"} /\ again' = FALSE
      /\ seen' = seen \cup {"result"}
      /\ UNCHANGED <<optional, invalid, answer, acked, atStart, atAnswer, ctx>>
  BY DEF ResultAccepted, Read, Finish, FinalVerdict
<1>2. TypeOK /\ SnapshotOK
  BY DEF RecoveryInv, NothingStoredIsOverlooked
<1>3. /\ Stored' = Stored /\ (TimelineBroken => TimelineBroken')
      /\ UNCHANGED <<phase, holder, known, capture, clock, publication, invocation, expired>>
  BY <1>1, EvidenceStands
<1>4. EvidenceOK' /\ (lied => lied')
  BY <1>2, OneRead DEF ResultAccepted, Read, TypeOK, GetAnswers
<1>5. TypeOK'
  BY <1>1, <1>2, <1>4 DEF TypeOK, Records, Kinds
<1>6. LookedFor' = {}
  BY <1>1 DEF LookedFor
<1>7. SnapshotOK'
  BY <1>1, <1>2, <1>3, <1>4, <1>6 DEF SnapshotOK
<1>8. QED BY <1>1, <1>5, <1>7, EndsHarmlessly DEF Absences

\* A result that is not found at first is looked for again at the end.
LEMMA FirstResultUnreadKeeps == ASSUME RecoveryInv, FirstResultUnread, UNCHANGED evidenceVars PROVE RecoveryInv'
<1>1. /\ stage = "first" /\ stage' = "outcome" /\ again' = FALSE
      /\ UNCHANGED <<seen, optional, answer, acked, atStart, atAnswer, ctx, verdict>>
  BY DEF FirstResultUnread, Read
<1>2. TypeOK /\ SnapshotOK /\ verdict = "none"
  BY <1>1, WhileItRuns DEF RecoveryInv, NothingStoredIsOverlooked
<1>3. /\ Stored' = Stored /\ (TimelineBroken => TimelineBroken')
      /\ UNCHANGED <<phase, holder, known, capture, clock, publication, invocation, expired>>
  BY <1>1, EvidenceStands
<1>4. PICK a \in GetAnswers \ {"found"} :
        Get("result", Stored, a) /\ invalid' = IF a \in {"corrupt", "schema"} THEN a ELSE invalid
  BY DEF FirstResultUnread, Read
<1>5. EvidenceOK' /\ (lied => lied') /\ (a = "corrupt" => lied')
  BY <1>2, <1>4, OneRead DEF TypeOK
<1>6. invalid' \in {"none", "schema", "corrupt"} /\ (invalid' = "corrupt" => a = "corrupt" \/ invalid = "corrupt")
  BY <1>2, <1>4 DEF TypeOK
<1>7. TypeOK'
  BY <1>1, <1>2, <1>5, <1>6 DEF TypeOK
<1>8. LookedFor' = {}
  BY <1>1 DEF LookedFor
<1>9. SnapshotOK'
  BY <1>1, <1>2, <1>3, <1>5, <1>6, <1>8 DEF SnapshotOK
<1>10. QED BY <1>1, <1>2, <1>7, <1>9, GoesOn

\* A record that is neither accepted nor in the way was not stored at the start.
LEMMA ReadRecordKeeps == ASSUME RecoveryInv, ReadRecord, UNCHANGED evidenceVars PROVE RecoveryInv'
<1>1. /\ stage \in {"outcome", "started", "acknowledgement", "request"} /\ stage' = Order[stage] /\ again' = FALSE
      /\ UNCHANGED <<answer, acked, atStart, atAnswer, ctx, verdict>>
  BY DEF ReadRecord, Read, Order
<1>2. TypeOK /\ SnapshotOK /\ verdict = "none"
  BY <1>1, WhileItRuns DEF RecoveryInv, NothingStoredIsOverlooked
<1>3. /\ Stored' = Stored /\ (TimelineBroken => TimelineBroken')
      /\ UNCHANGED <<phase, holder, known, capture, clock, publication, invocation, expired>>
  BY <1>1, EvidenceStands
<1>4. PICK a \in GetAnswers :
        /\ Get(stage, Stored, a)
        /\ seen' = IF a = "found" /\ ~Contradicts(stage) THEN seen \cup {stage} ELSE seen
        /\ invalid' = IF a = "found" /\ Contradicts(stage) THEN "corrupt"
                      ELSE IF a \in {"corrupt", "schema"} THEN a ELSE invalid
        /\ optional' = Unreadable(a)
  BY DEF ReadRecord, Read
<1>5. /\ EvidenceOK' /\ (lied => lied') /\ (a = "corrupt" => lied')
      /\ a = "absent" => stage \notin Stored
      /\ a \in {"found", "absent", "transient", "denied", "schema", "corrupt"}
  BY <1>2, <1>4, OneRead DEF TypeOK
<1>6. /\ seen \subseteq seen' /\ seen' \subseteq seen \cup {stage}
      /\ optional' \in {optional, "transient", "denied"} /\ invalid' \in {invalid, "schema", "corrupt"}
      /\ invalid' = "corrupt" => invalid = "corrupt" \/ TimelineBroken \/ a = "corrupt"
      /\ optional' = "none" /\ invalid' = "none" =>
           /\ optional = "none" /\ invalid = "none"
           /\ stage \in seen' \/ a = "absent"
  BY <1>4, <1>5, RecordsAgree DEF Unreadable
<1>7. /\ stage' \in {"started", "acknowledgement", "request", "ask"}
      /\ LookedFor' = LookedFor \cup {stage}
  BY <1>1 DEF LookedFor, Order, Records, Kinds
<1>8. TypeOK'
  <2>1. stage \in Records /\ stage' # "done" /\ stage' \in {"started", "acknowledgement", "request", "ask"}
    BY <1>1, <1>7 DEF Records, Kinds
  <2>2. seen \subseteq Records
    BY <1>2 DEF TypeOK
  <2>3. seen' \subseteq Records
    BY <1>6, <2>1, <2>2
  <2>4. optional' \in {"none", "transient", "denied"} /\ invalid' \in {"none", "schema", "corrupt"}
    BY <1>2, <1>6 DEF TypeOK
  <2>5. (stage' = "done") = (verdict' # "none")
    BY <1>1, <1>2, <2>1
  <2>6. QED BY <1>1, <1>2, <1>5, <2>1, <2>3, <2>4, <2>5 DEF TypeOK
<1>9. atStart \subseteq Stored /\ (optional' = "none" /\ invalid' = "none" => atStart' \cap LookedFor' \subseteq seen')
  BY <1>1, <1>2, <1>5, <1>6, <1>7 DEF SnapshotOK
<1>10. SnapshotOK'
  BY <1>1, <1>2, <1>3, <1>5, <1>6, <1>7, <1>9 DEF SnapshotOK
<1>11. QED BY <1>1, <1>2, <1>8, <1>10, GoesOn

LEMMA RetryKeeps ==
  ASSUME RecoveryInv, NEW k, Retry(k), stage \notin {"idle", "done"}, UNCHANGED evidenceVars
  PROVE  RecoveryInv'
<1>1. again' = TRUE /\ UNCHANGED <<stage, seen, optional, invalid, answer, acked, atStart, atAnswer, ctx, verdict>>
  BY DEF Retry
<1>2. TypeOK /\ SnapshotOK /\ verdict = "none"
  BY WhileItRuns DEF RecoveryInv, NothingStoredIsOverlooked
<1>3. /\ Stored' = Stored /\ (TimelineBroken => TimelineBroken')
      /\ UNCHANGED <<phase, holder, known, capture, clock, publication, invocation, expired>>
  BY <1>1, EvidenceStands
<1>4. "transient" \in GetAnswers
  BY DEF Retry, Get, Wrong, GetAnswers
<1>5. EvidenceOK' /\ (lied => lied')
  BY <1>2, <1>4, OneRead DEF Retry, TypeOK
<1>6. TypeOK'
  BY <1>1, <1>2, <1>5 DEF TypeOK
<1>7. LookedFor' = LookedFor
  BY <1>1 DEF LookedFor
<1>8. SnapshotOK'
  BY <1>1, <1>2, <1>3, <1>5, <1>7 DEF SnapshotOK
<1>9. QED BY <1>1, <1>2, <1>6, <1>8, GoesOn

LEMMA RecordsInvalidKeeps == ASSUME RecoveryInv, RecordsInvalid, UNCHANGED evidenceVars PROVE RecoveryInv'
<1>1. /\ stage' = "done" /\ invalid # "none" /\ verdict' = IssueVerdict[invalid]
      /\ UNCHANGED <<readVars, again, seen, optional, invalid, answer, acked, atStart, atAnswer, ctx>>
  BY DEF RecordsInvalid, Finish
<1>2. TypeOK /\ SnapshotOK
  BY DEF RecoveryInv, NothingStoredIsOverlooked
<1>3. /\ Stored' = Stored /\ (TimelineBroken => TimelineBroken')
      /\ UNCHANGED <<phase, holder, known, capture, clock, publication, invocation, expired>>
  BY <1>1, EvidenceStands
<1>4. verdict' \in {"unsupported_schema", "corrupt"} /\ (verdict' = "corrupt" => invalid = "corrupt")
  BY <1>1, <1>2 DEF TypeOK, IssueVerdict
<1>5. TypeOK'
  BY <1>1, <1>2, <1>3, <1>4 DEF TypeOK, EvidenceOK, readVars, Errors
<1>6. LookedFor' = {}
  BY <1>1 DEF LookedFor
<1>7. SnapshotOK'
  BY <1>1, <1>2, <1>3, <1>6 DEF SnapshotOK, readVars
<1>8. verdict' = "corrupt" => lied' \/ TimelineBroken'
  BY <1>1, <1>2, <1>3, <1>4 DEF SnapshotOK, readVars
<1>9. QED BY <1>4, <1>5, <1>7, <1>8, EndsHarmlessly DEF Absences

\* The answer of SSM, if it is asked, is remembered with what was stored then.
LEMMA AskKeeps == ASSUME RecoveryInv, AskSSM \/ SkipSSM, UNCHANGED evidenceVars PROVE RecoveryInv'
<1>1. /\ stage = "ask" /\ invalid = "none" /\ atAnswer' = Stored
      /\ UNCHANGED <<again, seen, optional, invalid, acked, atStart, ctx>>
  BY DEF AskSSM, SkipSSM
<1>2. TypeOK /\ SnapshotOK /\ verdict = "none"
  BY <1>1, WhileItRuns DEF RecoveryInv, NothingStoredIsOverlooked
<1>3. /\ Stored' = Stored /\ (TimelineBroken => TimelineBroken')
      /\ UNCHANGED <<phase, holder, known, capture, clock, publication, invocation, expired>>
  BY <1>1, EvidenceStands
<1>4. Stored \subseteq Records
  BY DEF Stored, Published, Records, Kinds
<1>5. /\ EvidenceOK' /\ (lied => lied') /\ answer' \in InvocationAnswers \cup {"unasked"}
      /\ \/ stage' = "last" /\ verdict' = "none"
         \/ stage' = "done" /\ verdict' = "corrupt" /\ lied'
  <2>1. CASE SkipSSM
    BY <1>2, <1>3, <2>1 DEF SkipSSM, TypeOK, EvidenceOK, readVars
  <2>2. CASE AskSSM
    <3>1. PICK a \in InvocationAnswers :
            /\ GetInvocation(a) /\ answer' = a
            /\ IF a = "corrupt" THEN Finish("corrupt") ELSE stage' = "last" /\ UNCHANGED verdict
      BY <2>2 DEF AskSSM
    <3>2. EvidenceOK' /\ (lied => lied') /\ (a = "corrupt" => lied')
      BY <1>2, <3>1, OneAnswer DEF TypeOK
    <3>3. QED BY <1>2, <3>1, <3>2 DEF Finish
  <2>3. QED BY <2>1, <2>2
<1>6. TypeOK'
  BY <1>1, <1>2, <1>4, <1>5 DEF TypeOK, Errors
<1>7. LookedFor' \subseteq LookedFor
  BY <1>1, <1>5 DEF LookedFor
<1>8. SnapshotOK'
  BY <1>1, <1>2, <1>3, <1>5, <1>7 DEF SnapshotOK
<1>9. CASE verdict' = "none"
  BY <1>6, <1>8, <1>9, GoesOn
<1>10. CASE verdict' = "corrupt" /\ lied'
  BY <1>6, <1>8, <1>10, EndsHarmlessly DEF Absences
<1>11. QED BY <1>5, <1>9, <1>10

\* The last look for the result: only its absence lets the snapshot speak.
LEMMA LastReadKeeps == ASSUME RecoveryInv, LastRead, UNCHANGED evidenceVars PROVE RecoveryInv'
<1>1. /\ stage = "last" /\ stage' = "done" /\ again' = FALSE
      /\ UNCHANGED <<seen, optional, invalid, answer, acked, atStart, atAnswer, ctx>>
  BY DEF LastRead, Read, Finish
<1>2. TypeOK /\ SnapshotOK
  BY DEF RecoveryInv, NothingStoredIsOverlooked
<1>3. /\ Stored' = Stored /\ (TimelineBroken => TimelineBroken')
      /\ UNCHANGED <<phase, holder, known, capture, clock, publication, invocation, expired>>
  BY <1>1, EvidenceStands
<1>4. PICK a \in GetAnswers :
        /\ Get("result", Stored, a) /\ (a = "found" => Contradicts("result"))
        /\ verdict' = IF a = "absent" THEN Snapshot ELSE IF a = "found" THEN "corrupt" ELSE IssueVerdict[a]
  BY DEF LastRead, Read, Finish
<1>5. /\ EvidenceOK' /\ (lied => lied') /\ (a = "corrupt" => lied')
      /\ a = "absent" => "result" \notin Stored
      /\ a \in {"found", "absent", "transient", "denied", "schema", "corrupt"}
  BY <1>2, <1>4, OneRead DEF TypeOK
<1>6. LookedFor' = {}
  BY <1>1 DEF LookedFor
<1>7. SnapshotOK'
  BY <1>1, <1>2, <1>3, <1>5, <1>6 DEF SnapshotOK
<1>8. CASE a # "absent"
  <2>1. /\ verdict' \in Errors
        /\ verdict' = "corrupt" => a = "corrupt" \/ Contradicts("result")
    BY <1>4, <1>5, <1>8 DEF IssueVerdict, Errors
  <2>2. TypeOK'
    BY <1>1, <1>2, <1>5, <2>1 DEF TypeOK, Errors
  <2>3. verdict' = "corrupt" => lied' \/ TimelineBroken'
    BY <1>3, <1>5, <2>1, RecordsAgree
  <2>4. QED BY <1>7, <2>1, <2>2, <2>3, EndsHarmlessly DEF Absences, Errors
<1>9. CASE a = "absent"
  <2>1. /\ verdict' \in Absences \cup {"unavailable", "access_denied", "expired"}
        /\ verdict' \in Absences => optional = "none"
    BY <1>2, <1>4, <1>9 DEF Snapshot, IssueVerdict, Absences, TypeOK
  <2>2. invalid = "none" /\ LookedFor = Records \ {"result"}
    BY <1>1, <1>2 DEF SnapshotOK, LookedFor
  <2>3. "result" \notin atStart /\ "result" \notin atAnswer
    BY <1>2, <1>5, <1>9 DEF SnapshotOK
  <2>4. verdict' \in Absences => atStart \subseteq seen
    BY <1>2, <2>1, <2>2, <2>3 DEF SnapshotOK, TypeOK
  <2>5. TypeOK'
    BY <1>1, <1>2, <1>5, <2>1 DEF TypeOK, Errors, Absences
  <2>6. NoFalseCorruption' /\ NothingStoredIsOverlooked'
    BY <1>1, <2>1, <2>3, <2>4, <2>5 DEF NoFalseCorruption, NothingStoredIsOverlooked, Absences
  <2>7. QED BY <1>7, <2>6 DEF RecoveryInv
<1>10. QED BY <1>8, <1>9

LEMMA StoppedKeeps == ASSUME RecoveryInv, Stopped, UNCHANGED evidenceVars PROVE RecoveryInv'
<1>1. /\ stage' = "done" /\ verdict' \in {"interrupted", "timeout"}
      /\ UNCHANGED <<readVars, again, seen, optional, invalid, answer, acked, atStart, atAnswer, ctx>>
  BY DEF Stopped, Finish
<1>2. TypeOK /\ SnapshotOK
  BY DEF RecoveryInv, NothingStoredIsOverlooked
<1>3. /\ Stored' = Stored /\ (TimelineBroken => TimelineBroken')
      /\ UNCHANGED <<phase, holder, known, capture, clock, publication, invocation, expired>>
  BY <1>1, EvidenceStands
<1>4. TypeOK'
  BY <1>1, <1>2, <1>3 DEF TypeOK, EvidenceOK, readVars
<1>5. LookedFor' = {}
  BY <1>1 DEF LookedFor
<1>6. SnapshotOK'
  BY <1>1, <1>2, <1>3, <1>5 DEF SnapshotOK, readVars
<1>7. QED BY <1>1, <1>4, <1>6, EndsHarmlessly DEF Absences

----------------------------------------------------------------------------
(* What happens around it *)

LEMMA AroundKeeps == ASSUME RecoveryInv, ContextEnds \/ Acknowledge, UNCHANGED evidenceVars PROVE RecoveryInv'
<1>1. /\ stage # "done" /\ ctx' \in {ctx, "canceled", "deadline"} /\ (acked' = acked \/ acked' = TRUE)
      /\ UNCHANGED <<readVars, stage, again, seen, optional, invalid, answer, atStart, atAnswer, verdict>>
  BY DEF ContextEnds, Acknowledge, recoveryVars
<1>2. TypeOK /\ SnapshotOK /\ verdict = "none"
  BY <1>1, WhileItRuns DEF RecoveryInv, NothingStoredIsOverlooked
<1>3. /\ Published' = Published /\ (TimelineBroken => TimelineBroken')
      /\ UNCHANGED <<phase, holder, known, capture, clock, publication, invocation, expired>>
  BY EvidenceStands
<1>4. Stored \subseteq Stored' /\ acked' \in BOOLEAN
  BY <1>1, <1>2, <1>3 DEF Stored, TypeOK
<1>5. TypeOK'
  BY <1>1, <1>2, <1>3, <1>4 DEF TypeOK, EvidenceOK, readVars
<1>6. LookedFor' = LookedFor
  BY <1>1 DEF LookedFor
<1>7. SnapshotOK'
  BY <1>1, <1>2, <1>3, <1>4, <1>6 DEF SnapshotOK, readVars
<1>8. QED BY <1>1, <1>2, <1>5, <1>7, GoesOn

LEMMA CommandMovesKeeps ==
  ASSUME RecoveryInv, stage # "done", EvidenceStep, UNCHANGED <<readVars, acked, recoveryVars>>
  PROVE  RecoveryInv'
<1>1. TypeOK /\ SnapshotOK /\ verdict = "none"
  BY WhileItRuns DEF RecoveryInv, NothingStoredIsOverlooked
<1>2. /\ EvidenceOK' /\ Published \subseteq Published'
      /\ clock' # "none" => phase' \in Written
      /\ TimelineBroken => TimelineBroken'
  BY <1>1, LifeMoves DEF TypeOK, SnapshotOK
<1>3. Stored \subseteq Stored' /\ LookedFor' = LookedFor
  BY <1>2 DEF Stored, LookedFor, recoveryVars
<1>4. TypeOK'
  BY <1>1, <1>2 DEF TypeOK, recoveryVars
<1>5. SnapshotOK'
  BY <1>1, <1>2, <1>3 DEF SnapshotOK, recoveryVars, readVars
<1>6. QED BY <1>1, <1>4, <1>5, GoesOn DEF recoveryVars

----------------------------------------------------------------------------
(* The theorems *)

LEMMA InitIsSafe == Init => RecoveryInv
<1> SUFFICES ASSUME Init PROVE RecoveryInv
  OBVIOUS
<1>1. EvidenceOK /\ clock = "none"
  <2>1. MaxFaults \in Nat
    BY EvidenceAssumption
  <2>2. faults \in 0 .. MaxFaults
    BY <2>1 DEF Init, EvidenceInit
  <2>3. QED BY <2>2 DEF Init, EvidenceInit, Life!Init, EvidenceOK
<1>2. TypeOK
  BY <1>1 DEF Init, TypeOK
<1>3. SnapshotOK
  BY <1>1 DEF Init, SnapshotOK
<1>4. QED BY <1>2, <1>3 DEF Init, RecoveryInv, NoFalseCorruption, NothingStoredIsOverlooked, Absences

LEMMA StepKeeps == RecoveryInv /\ [Next]_vars => RecoveryInv'
<1> SUFFICES ASSUME RecoveryInv, [Next]_vars PROVE RecoveryInv'
  OBVIOUS
<1>1. CASE RecoveryStep
  <2>1. CASE stage \in {"first", "last"} /\ Retry("result")
    BY <1>1, <2>1, RetryKeeps DEF RecoveryStep
  <2>2. CASE stage \in DOMAIN Order /\ Retry(stage)
    BY <1>1, <2>2, RetryKeeps DEF RecoveryStep, Order
  <2>3. QED
    BY <1>1, <2>1, <2>2, StartKeeps, ResultAcceptedKeeps, FirstResultUnreadKeeps, ReadRecordKeeps,
       RecordsInvalidKeeps, AskKeeps, LastReadKeeps, StoppedKeeps DEF RecoveryStep
<1>2. CASE (ContextEnds \/ Acknowledge) /\ UNCHANGED evidenceVars
  BY <1>2, AroundKeeps
<1>3. CASE stage # "done" /\ EvidenceStep /\ UNCHANGED <<readVars, acked, recoveryVars>>
  BY <1>3, CommandMovesKeeps
<1>4. CASE UNCHANGED vars
  <2>1. UNCHANGED evidenceVars /\ UNCHANGED readVars /\ UNCHANGED acked /\ UNCHANGED recoveryVars
    BY <1>4 DEF vars
  <2>2. /\ Stored' = Stored /\ LookedFor' = LookedFor /\ (TimelineBroken => TimelineBroken')
        /\ UNCHANGED <<phase, holder, known, capture, clock, publication, invocation, expired>>
    BY <2>1, EvidenceStands DEF LookedFor, recoveryVars
  <2>3. TypeOK'
    BY <2>1, <2>2 DEF RecoveryInv, NothingStoredIsOverlooked, TypeOK, EvidenceOK, readVars, recoveryVars
  <2>4. SnapshotOK'
    BY <2>1, <2>2 DEF RecoveryInv, SnapshotOK, readVars, recoveryVars
  <2>5. QED
    BY <2>1, <2>2, <2>3, <2>4 DEF RecoveryInv, NoFalseCorruption, NothingStoredIsOverlooked, readVars, recoveryVars
<1>5. QED BY <1>1, <1>2, <1>3, <1>4 DEF Next

\* What the snapshot accepted and what it looked for in vain agree with what was
\* stored when it began (Recover and accept, recover.go).
THEOREM RecoveryIsConsistent == Spec => []RecoveryInv
BY InitIsSafe, StepKeeps, PTL DEF Spec

\* A verdict of absence overlooks nothing that was stored when the command was
\* looked up, nor a result published before the last read (Recover).
THEOREM NothingIsOverlooked == Spec => []NothingStoredIsOverlooked
<1>1. RecoveryInv => NothingStoredIsOverlooked
  BY DEF RecoveryInv
<1>2. QED BY <1>1, RecoveryIsConsistent, PTL

\* Genuine records are called corrupt only when the worker's clock stepped back,
\* in whatever moment between two writes they are read (accept).
THEOREM GenuineRecordsAreAccepted == Spec => []NoFalseCorruption
<1>1. RecoveryInv => NoFalseCorruption
  BY DEF RecoveryInv
<1>2. QED BY <1>1, RecoveryIsConsistent, PTL

----------------------------------------------------------------------------
(* The transfer of the logs: streams, contents and lengths *)

LEMMA OrderOfStreams ==
  /\ \A i \in 1..2 : InOrder[i] \in Streams
  /\ \A i, j \in 1..2 : InOrder[i] = InOrder[j] => i = j
  /\ \A s \in Streams : \E i \in 1..2 : s = InOrder[i]
<1>1. InOrder[1] = "stdout" /\ InOrder[2] = "stderr"
  BY DEF InOrder
<1>2. Streams = {InOrder[1], InOrder[2]}
  BY DEF Streams
<1>3. \A i \in 1..2 : i = 1 \/ i = 2
  OBVIOUS
<1>4. "stdout" # "stderr"
  OBVIOUS
<1>5. \A i \in 1..2 : InOrder[i] \in Streams
  BY <1>2, <1>3
<1>6. \A i, j \in 1..2 : InOrder[i] = InOrder[j] => i = j
  BY <1>1, <1>3, <1>4
<1> QED BY <1>2, <1>5, <1>6

LEMMA FirstOfTwo == ~(0 > 0) /\ \A i \in 1..2 : i > 0 /\ ~(i < 0)
OBVIOUS

LEMMA RecordedIsContents == Recorded \in Seq(BOOLEAN) /\ Len(Recorded) = Bytes
BY TransferAssumption DEF Recorded

LEMMA ContentsAreSequences == Contents \subseteq Seq(BOOLEAN)
<1> SUFFICES ASSUME NEW b \in Contents PROVE b \in Seq(BOOLEAN)
  OBVIOUS
<1>1. PICK n \in 0..Bytes + 1 : b \in [1..n -> BOOLEAN]
  BY DEF Contents
<1>2. n \in Nat
  BY TransferAssumption
<1> QED BY <1>1, <1>2

LEMMA ObjectsAreTyped == Objects \subseteq [size : Nat, bytes : Seq(BOOLEAN)]
<1>1. Bytes \in Nat /\ Bytes + 1 \in Nat
  BY TransferAssumption
<1>2. [size : {Bytes}, bytes : Contents] \subseteq [size : Nat, bytes : Seq(BOOLEAN)]
  BY <1>1, ContentsAreSequences
<1>3. [Genuine EXCEPT !.size = Bytes + 1] \in [size : Nat, bytes : Seq(BOOLEAN)]
  BY <1>1, RecordedIsContents DEF Genuine
<1> QED BY <1>2, <1>3 DEF Objects

\* The stream that is being fetched.
LEMMA StreamIsSelected == ASSUME TransferInv, cur > 0
  PROVE  cur \in 1..2 /\ stream \in Streams /\ stream \in Selected
BY OrderOfStreams DEF TransferInv, OutputIsGenuine, TransferTypeOK, SequenceOK, stream

LEMMA TransferStarts == TransferInit => TransferInv
<1> SUFFICES ASSUME TransferInit PROVE TransferInv
  OBVIOUS
<1>0. Bytes \in Nat /\ Chunk \in Nat \ {0} /\ MaxEmpty \in Nat \ {0} /\ ~Fetching
  BY TransferAssumption DEF TransferInit, Fetching
<1>1. Nobody \in [by : {"nobody", "other", "logs"}, bytes : Seq(BOOLEAN)] /\ Nobody.by = "nobody"
  BY DEF Nobody
<1>2. /\ dest = [p \in Paths |-> Nobody] /\ tmp = {} /\ out = [s \in Streams |-> <<>>] /\ pc = "check"
      /\ cur = 0 /\ body = <<>> /\ got = Nothing /\ written = 0 /\ empties = 0
      /\ code = "" /\ verified = {} /\ count = [s \in Streams |-> 0]
  BY DEF TransferInit
<1>3. \A s \in Streams : out[s] = <<>> /\ Len(out[s]) = 0 /\ count[s] = 0
  BY <1>2
<1>4. Nothing.n = 0 /\ Nothing \in [n : 0..Chunk, end : {"no", "eof", "error"}]
  BY <1>0 DEF Nothing
<1>5. object \in [Streams -> [size : Nat, bytes : Seq(BOOLEAN)]]
  BY ObjectsAreTyped DEF TransferInit
<1>a. 0 \in 0..Bytes /\ 0 \in 0..Chunk /\ 0 \in 0..MaxEmpty /\ 0 \in 0..2 /\ ~(0 > 0)
  BY <1>0
<1>b. \A i \in 1..2 : i > 0 /\ ~(i < 0)
  OBVIOUS
<1>c. <<>> \in Seq(BOOLEAN) /\ Len(<<>>) = 0
  OBVIOUS
<1>d. count \in [Streams -> 0..Bytes]
  BY <1>2, <1>a
<1>6. out \in [Streams -> Seq(BOOLEAN)]
  BY <1>2, <1>c
<1>7. dest \in [Paths -> [by : {"nobody", "other", "logs"}, bytes : Seq(BOOLEAN)]]
  BY <1>1, <1>2
<1>8. ValuesOK
  BY <1>2, <1>4, <1>5, <1>6, <1>7, <1>a, <1>c, <1>d DEF ValuesOK, TransferInit
<1>9. TransferTypeOK
  <2>1. \A s \in Streams : Len(out[s]) <= Bytes /\ count[s] \in 0..Bytes
    BY <1>0, <1>3
  <2>2. got.n \in 0..Chunk /\ empties <= MaxEmpty
    <3>1. got.n = 0 /\ empties = 0
      BY <1>2, <1>4
    <3> QED BY <1>0, <3>1
  <2> QED BY <1>2, <1>a, <2>1, <2>2 DEF TransferTypeOK
<1>10. NeverAPartialFile
  BY <1>1, <1>2 DEF NeverAPartialFile
<1>11. VerifiedIsExact /\ CountIsTrue /\ CompleteIsEverything
  BY <1>2 DEF VerifiedIsExact, CountIsTrue, CompleteIsEverything
<1>12. Selected # {}
  BY DEF TransferInit, Selected
<1>13. SequenceOK
  BY <1>0, <1>2, <1>12, <1>a, <1>b DEF SequenceOK
<1>14. OneAtATime
  BY <1>0, <1>2, <1>3 DEF OneAtATime
<1>15. CopyOK
  BY <1>0, <1>2 DEF CopyOK
<1> QED BY <1>8, <1>9, <1>10, <1>11, <1>13, <1>14, <1>15 DEF TransferInv, OutputIsGenuine

----------------------------------------------------------------------------
(* Before and between the streams *)

Paused == UNCHANGED <<input, bucket, files, loop, ended, verified, count, wasAbsent>>

\* Nothing but the step of the program changes.
LEMMA PauseKeeps == ASSUME TransferInv, Paused
  PROVE  /\ ValuesOK' /\ VerifiedIsExact' /\ NeverAPartialFile'
         /\ UNCHANGED <<Selected, ToFiles, stream>>
<1> USE DEF Paused, input, files, loop, bucket
<1>1. ValuesOK'
  BY DEF TransferInv, ValuesOK
<1>2. VerifiedIsExact' /\ NeverAPartialFile'
  BY DEF TransferInv, OutputIsGenuine, VerifiedIsExact, NeverAPartialFile
<1> QED BY <1>1, <1>2 DEF Selected, ToFiles, stream

LEMMA WaitingKeeps ==
  ASSUME TransferInv, Paused, pc \in {"check", "recover"}, pc' \in {"recover", "next", "done"},
         pc' # "done" => code' = "", code' # "complete"
  PROVE  TransferInv'
<1>0. ~Fetching /\ ~Fetching' /\ cur = 0 /\ tmp = {} /\ cur' = 0 /\ tmp' = {}
  BY DEF TransferInv, SequenceOK, OneAtATime, Fetching, Paused, loop, files
<1>1. UNCHANGED <<out, count, verified, tmp, cur, got, empties>>
  BY DEF Paused, loop, files
<1>2. TransferTypeOK'
  BY <1>1, PauseKeeps DEF TransferInv, OutputIsGenuine, TransferTypeOK
<1>3. \A s \in Streams : s \notin verified /\ count[s] = 0 /\ out[s] = <<>>
  <2> SUFFICES ASSUME NEW s \in Streams PROVE s \notin verified /\ count[s] = 0 /\ out[s] = <<>>
    OBVIOUS
  <2>1. PICK i \in 1..2 : s = InOrder[i]
    BY OrderOfStreams
  <2>a. i > cur
    BY <1>0, <2>1, FirstOfTwo
  <2>2. s \notin verified
    BY <2>1, <2>a DEF TransferInv, SequenceOK
  <2> QED BY <1>0, <2>2 DEF TransferInv, OneAtATime
<1>4. verified \subseteq Streams /\ verified = {}
  BY <1>3 DEF TransferInv, OutputIsGenuine, TransferTypeOK, Selected
<1>5. CountIsTrue'
  <2>1. Len(<<>>) = 0 /\ Selected \subseteq Streams
    BY DEF Selected
  <2> QED BY <1>1, <1>3, <2>1, PauseKeeps DEF CountIsTrue
<1>a. CompleteIsEverything'
  BY <1>0 DEF CompleteIsEverything
<1>b. Selected' = Selected /\ verified' = verified
  BY <1>1, PauseKeeps
<1>6. SequenceOK'
  BY <1>0, <1>b, FirstOfTwo DEF TransferInv, SequenceOK
<1>7. OneAtATime'
  BY <1>0, <1>1, <1>3, <1>4 DEF OneAtATime
<1>8. CopyOK'
  BY <1>0 DEF CopyOK, Fetching
<1> QED BY <1>2, <1>5, <1>6, <1>7, <1>8, <1>a, PauseKeeps DEF TransferInv, OutputIsGenuine

LEMMA ValidateKeeps == ASSUME TransferInv, Validate PROVE TransferInv'
<1>1. Paused /\ pc = "check" /\ code = ""
  BY DEF Validate, Paused, TransferInv, CopyOK
<1>2. pc' \in {"recover", "done"} /\ code' \in {code, "usage"} /\ (pc' # "done" => code' = code)
  BY DEF Validate
<1> QED BY <1>1, <1>2, WaitingKeeps

LEMMA RecoverKeeps == ASSUME TransferInv, Recover PROVE TransferInv'
<1>1. Paused /\ pc = "recover" /\ code = ""
  BY DEF Recover, Paused, TransferInv, CopyOK
<1>2. pc' \in {"next", "done"} /\ code' \in {code, "stopped", "incomplete"} /\ (pc' # "done" => code' = code)
  BY DEF Recover, Leave
<1> QED BY <1>1, <1>2, WaitingKeeps

\* The least of what is to come is not finished, and nothing is skipped.
LEMMA FirstIsFirst == ASSUME cur \in 0..2, More # {}
  PROVE  /\ First \in 1..2 /\ First > cur /\ InOrder[First] \in Selected
         /\ \A i \in 1..2 : i > cur /\ InOrder[i] \in Selected => First <= i
<1>1. \A i : i \in More <=> i \in 1..2 /\ i > cur /\ select[InOrder[i]] # "no"
  BY DEF More
<1>2. \A i \in 1..2 : i = 1 \/ i = 2
  OBVIOUS
<1>3. \E n \in More : \A m \in More : n <= m
  <2>1. CASE 1 \in More
    <3>1. \A m \in More : 1 <= m
      BY <1>1
    <3> QED BY <2>1, <3>1
  <2>2. CASE 1 \notin More
    <3>1. More = {2}
      BY <1>1, <1>2, <2>2
    <3> QED BY <3>1
  <2> QED BY <2>1, <2>2
<1>4. First \in More /\ \A m \in More : First <= m
  BY <1>3 DEF First
<1>5. \A i \in 1..2 : InOrder[i] \in Selected <=> select[InOrder[i]] # "no"
  BY OrderOfStreams DEF Selected
<1> QED BY <1>1, <1>4, <1>5

\* Between two streams, all that was selected so far is verified, and no other.
LEMMA BetweenStreams == ASSUME TransferInv, pc = "next"
  PROVE  /\ cur \in 0..2 /\ tmp = {} /\ ~Fetching /\ code = "" /\ Selected \subseteq Streams
         /\ \A i \in 1..2 : i <= cur /\ InOrder[i] \in Selected => InOrder[i] \in verified
         /\ \A i \in 1..2 : i > cur => InOrder[i] \notin verified
         /\ \A s \in Streams \ verified : count[s] = 0 /\ out[s] = <<>>
         /\ \A s \in verified : count[s] = Len(out[s])
<1>1. ~Fetching /\ cur \in 0..2 /\ Selected \subseteq Streams
  BY DEF Fetching, TransferInv, OutputIsGenuine, TransferTypeOK, Selected
<1>2. tmp = {} /\ code = ""
  BY DEF TransferInv, OneAtATime, CopyOK
<1>3. ASSUME NEW i \in 1..2, i <= cur, InOrder[i] \in Selected PROVE InOrder[i] \in verified
  <2>1. CASE i < cur
    BY <1>3, <2>1 DEF TransferInv, SequenceOK
  <2>2. CASE i = cur
    <3>1. cur > 0
      BY <1>1, <2>2
    <3> QED BY <2>2, <3>1 DEF TransferInv, SequenceOK, stream
  <2> QED BY <1>1, <1>3, <2>1, <2>2
<1>4. \A i \in 1..2 : i > cur => InOrder[i] \notin verified
  BY DEF TransferInv, SequenceOK
<1>5. \A s \in Streams \ verified : count[s] = 0 /\ out[s] = <<>>
  BY <1>1 DEF TransferInv, OneAtATime
<1>6. \A s \in verified : count[s] = Len(out[s])
  BY DEF TransferInv, OneAtATime
<1> QED BY <1>1, <1>2, <1>3, <1>4, <1>5, <1>6

\* With nothing left to fetch, every selected stream is verified.
LEMMA EndOfStreams == ASSUME TransferInv, NextStream, More = {} PROVE TransferInv'
<1>1. /\ pc = "next" /\ pc' = "done" /\ code' = "complete"
      /\ UNCHANGED <<input, bucket, dest, out, ended, verified, count, loop, tmp, wasAbsent>>
  BY DEF NextStream
<1>2. ~Fetching' /\ UNCHANGED <<select, path, object, dest, out, count, verified, tmp, cur, body, got, written, empties>>
  BY <1>1 DEF Fetching, input, bucket, loop
<1>3. Selected' = Selected /\ ToFiles' = ToFiles /\ stream' = stream
  BY <1>2 DEF Selected, ToFiles, stream
<1>4. cur > 0 /\ verified = Selected
  <2>1. ASSUME NEW s \in Selected
        PROVE  \E i \in 1..2 : s = InOrder[i] /\ i <= cur
    <3>1. PICK i \in 1..2 : s = InOrder[i]
      BY <1>1, BetweenStreams, OrderOfStreams
    <3>2. select[InOrder[i]] # "no"
      BY <3>1 DEF Selected
    <3>4. cur \in 0..2
      BY <1>1, BetweenStreams
    <3>3. ~(i > cur)
      <4> SUFFICES ASSUME i > cur PROVE FALSE
        OBVIOUS
      <4>1. i \in cur + 1 .. 2
        BY <3>1, <3>4
      <4>2. i \in More
        BY <3>1, <3>2, <4>1 DEF More
      <4> QED BY <4>2
    <3>5. i <= cur
      <4>1. i \in 1..2
        BY <3>1
      <4> QED BY <3>3, <3>4, <4>1
    <3> QED BY <3>1, <3>5
  <2>2. Selected \subseteq verified
    <3>1. \A i \in 1..2 : i <= cur /\ InOrder[i] \in Selected => InOrder[i] \in verified
      BY <1>1, BetweenStreams
    <3> QED BY <2>1, <3>1
  <2>3. PICK s \in Selected : TRUE
    BY DEF TransferInv, SequenceOK
  <2>4. PICK i \in 1..2 : i <= cur
    <3>1. \E i \in 1..2 : s = InOrder[i] /\ i <= cur
      BY <2>1
    <3> QED BY <3>1
  <2>5. cur > 0
    <3>1. cur \in 0..2
      BY <1>1, BetweenStreams
    <3> QED BY <2>4, <3>1
  <2> QED BY <2>2, <2>5 DEF TransferInv, OutputIsGenuine, TransferTypeOK
<1>5. ValuesOK'
  BY <1>2 DEF TransferInv, ValuesOK
<1>6. TransferTypeOK'
  BY <1>1, <1>2, <1>3 DEF TransferInv, OutputIsGenuine, TransferTypeOK
<1>7. VerifiedIsExact' /\ NeverAPartialFile'
  BY <1>2 DEF TransferInv, OutputIsGenuine, VerifiedIsExact, NeverAPartialFile
<1>8. CountIsTrue'
  BY <1>1, <1>2, <1>3, <1>4, BetweenStreams DEF CountIsTrue
<1>9. CompleteIsEverything'
  BY <1>1, <1>2, <1>3, <1>4, BetweenStreams DEF CompleteIsEverything
<1>10. SequenceOK'
  BY <1>1, <1>2, <1>3 DEF TransferInv, SequenceOK
<1>11. OneAtATime'
  BY <1>1, <1>2, <1>3, BetweenStreams DEF OneAtATime
<1>12. CopyOK'
  BY <1>1 DEF CopyOK
<1> QED BY <1>5, <1>6, <1>7, <1>8, <1>9, <1>10, <1>11, <1>12 DEF TransferInv, OutputIsGenuine

\* A stream is begun, or cannot be: its file exists, or the time is up.
LEMMA BeginStream == ASSUME TransferInv, NextStream, More # {} PROVE TransferInv'
<1> DEFINE s == InOrder[First]
<1>1. /\ pc = "next" /\ UNCHANGED <<input, bucket, dest, out, ended, verified, count>>
      /\ cur' = First /\ body' = <<>> /\ got' = Nothing /\ written' = 0 /\ empties' = 0
      /\ wasAbsent' = (s \notin present)
  BY DEF NextStream
<1>2. \/ pc' = "done" /\ code' \in {"stopped", "write_failed"} /\ tmp' = tmp
      \/ pc' = "get" /\ code' = code /\ select[s] = "output" /\ tmp' = tmp
      \/ pc' = "get" /\ code' = code /\ select[s] # "output" /\ tmp' = tmp \cup {s}
  BY DEF NextStream, Leave
<1>3. UNCHANGED <<select, path, present, object, dest, out, count, verified>> /\ stream' = s
  BY <1>1 DEF input, bucket, stream
<1>4. Selected' = Selected /\ ToFiles' = ToFiles
  BY <1>3 DEF Selected, ToFiles
<1>5. /\ First \in 1..2 /\ First > cur /\ s \in Selected
      /\ \A i \in 1..2 : i > cur /\ InOrder[i] \in Selected => First <= i
  BY <1>1, BetweenStreams, FirstIsFirst
<1>6. s \notin verified /\ s \in Streams /\ count[s] = 0 /\ out[s] = <<>>
  BY <1>1, <1>5, BetweenStreams
<1>7. select[s] \in {"file", "output"} /\ (select[s] = "file" <=> s \in ToFiles)
  BY <1>5, <1>6 DEF TransferInv, ValuesOK, Selected, ToFiles
<1>8. (Exports)' = (select[s] = "file")
  BY <1>3 DEF Exports
<1>9. pc' \in {"get", "done"} /\ (pc' = "get" => Fetching') /\ (pc' = "done" => ~Fetching')
  BY <1>2 DEF Fetching
<1>10. pc' = "get" => tmp' = IF select[s] = "file" THEN {s} ELSE {}
  BY <1>1, <1>2, <1>7, BetweenStreams
<1>11. ValuesOK'
  <2>1. 0 \in 0..Bytes /\ 0 \in 0..MaxEmpty /\ Nothing \in [n : 0..Chunk, end : {"no", "eof", "error"}]
    BY TransferAssumption DEF Nothing
  <2>2. <<>> \in Seq(BOOLEAN)
    OBVIOUS
  <2> QED BY <1>1, <1>3, <2>1, <2>2 DEF TransferInv, ValuesOK
<1>12. TransferTypeOK'
  <2>1. \A t \in Streams : Len(out[t]) <= Bytes /\ count[t] \in 0..Bytes
    BY DEF TransferInv, OutputIsGenuine, TransferTypeOK
  <2>2. got'.n \in 0..Chunk /\ empties' <= MaxEmpty
    <3>1. got'.n = 0 /\ 0 \in 0..Chunk /\ 0 <= MaxEmpty
      BY <1>1, TransferAssumption DEF Nothing
    <3> QED BY <1>1, <3>1
  <2>3. tmp' \subseteq ToFiles /\ verified \subseteq Selected
    BY <1>1, <1>2, <1>7, BetweenStreams DEF TransferInv, OutputIsGenuine, TransferTypeOK
  <2>4. First \in 0..2
    BY <1>5
  <2>5. cur' \in 0..2 /\ verified' \subseteq Selected' /\ tmp' \subseteq ToFiles'
    BY <1>1, <1>3, <1>4, <2>3, <2>4
  <2>6. \A t \in Streams : Len(out'[t]) <= Bytes /\ count'[t] \in 0..Bytes
    BY <1>3, <2>1
  <2> QED BY <1>9, <2>2, <2>5, <2>6 DEF TransferTypeOK
<1>13. VerifiedIsExact' /\ NeverAPartialFile'
  BY <1>3 DEF TransferInv, OutputIsGenuine, VerifiedIsExact, NeverAPartialFile
<1>14. CountIsTrue'
  <2>1. Len(<<>>) = 0
    OBVIOUS
  <2> QED BY <1>1, <1>3, <1>4, <2>1, BetweenStreams DEF CountIsTrue
<1>15. CompleteIsEverything'
  BY <1>1, <1>2, <1>3, <1>4, <1>5, <1>6, BetweenStreams DEF CompleteIsEverything
<1>16. SequenceOK'
  <2>1. cur \in 0..2 /\ First > 0
    BY <1>1, <1>5, FirstOfTwo, BetweenStreams
  <2>2. ASSUME NEW i \in 1..2, i < First, InOrder[i] \in Selected PROVE InOrder[i] \in verified
    <3>1. i <= cur
      BY <1>5, <2>1, <2>2
    <3> QED BY <1>1, <2>2, <3>1, BetweenStreams
  <2>3. ASSUME NEW i \in 1..2, i > First PROVE InOrder[i] \notin verified
    <3>1. i > cur
      BY <1>5, <2>1, <2>3
    <3> QED BY <1>1, <3>1, BetweenStreams
  <2> QED BY <1>1, <1>3, <1>4, <1>5, <1>6, <1>9, <2>1, <2>2, <2>3 DEF TransferInv, SequenceOK
<1>17. OneAtATime'
  <2>1. Len(<<>>) = 0
    OBVIOUS
  <2>2. \A t \in Streams \ verified : count[t] = 0 /\ out[t] = <<>>
    BY <1>1, BetweenStreams
  <2>3. \A t \in verified : count[t] = Len(out[t])
    BY <1>1, BetweenStreams
  <2>4. (Fetching => tmp = (IF Exports THEN {stream} ELSE {}))'
    BY <1>3, <1>8, <1>9, <1>10
  <2>5. (Fetching => written = Len(out[stream]))'
    BY <1>1, <1>3, <1>6, <2>1
  <2> QED BY <1>3, <1>9, <2>2, <2>3, <2>4, <2>5 DEF OneAtATime
<1>18. CopyOK'
  <2>1. 0 < MaxEmpty
    BY TransferAssumption
  <2> QED BY <1>1, <1>2, <1>3, <2>1, BetweenStreams DEF CopyOK
<1> QED BY <1>11, <1>12, <1>13, <1>14, <1>15, <1>16, <1>17, <1>18 DEF TransferInv, OutputIsGenuine

LEMMA NextStreamKeeps == ASSUME TransferInv, NextStream PROVE TransferInv'
BY EndOfStreams, BeginStream

----------------------------------------------------------------------------
(* One stream: its failure, its progress and its end *)

LoopOK ==
  /\ out \in [Streams -> Seq(BOOLEAN)] /\ body \in Seq(BOOLEAN)
  /\ got \in [n : 0..Chunk, end : {"no", "eof", "error"}]
  /\ written \in 0..Bytes /\ empties \in 0..MaxEmpty
  /\ written = Len(out[stream])

\* What a step of one stream leaves alone.
OthersKept ==
  /\ UNCHANGED <<select, path, object, cur>>
  /\ \A s \in Streams \ {stream} : out'[s] = out[s]

Codes == {"stopped", "unavailable", "missing", "denied", "corrupt", "write_failed"}

\* What holds while a stream is being fetched.
LEMMA WhileFetching == ASSUME TransferInv, Fetching
  PROVE  /\ cur \in 1..2 /\ cur > 0 /\ cur \in 0..2 /\ stream \in Streams /\ stream \in Selected /\ stream \notin verified
         /\ tmp = (IF Exports THEN {stream} ELSE {}) /\ code = "" /\ count[stream] = 0
         /\ pc \notin {"done", "dead", "next", "check", "recover"} /\ LoopOK
         /\ select[stream] \in {"file", "output"} /\ (Exports <=> stream \in ToFiles)
<1>1. cur > 0 /\ stream \notin verified
  BY DEF TransferInv, SequenceOK
<1>2. cur \in 1..2 /\ stream \in Streams /\ stream \in Selected
  BY <1>1, StreamIsSelected
<1>a. cur \in 0..2
  BY <1>2
<1>3. pc \notin {"done", "dead", "next", "check", "recover"}
  BY DEF Fetching
<1>4. tmp = (IF Exports THEN {stream} ELSE {}) /\ code = "" /\ count[stream] = 0
  BY <1>1, <1>2, <1>3 DEF TransferInv, OneAtATime, CopyOK
<1>5. select[stream] \in {"file", "output"} /\ (Exports <=> stream \in ToFiles)
  BY <1>2 DEF TransferInv, ValuesOK, Exports, Selected, ToFiles
<1>6. LoopOK
  BY DEF TransferInv, ValuesOK, OneAtATime, LoopOK
<1> QED BY <1>1, <1>2, <1>3, <1>4, <1>5, <1>6, <1>a

LEMMA OthersAreTyped == ASSUME TransferInv, LoopOK', OthersKept, stream \in Streams
  PROVE  /\ UNCHANGED <<stream, Selected, ToFiles>>
         /\ \A s \in Streams : Len(out'[s]) <= Bytes
         /\ got'.n \in 0..Chunk /\ empties' <= MaxEmpty
<1>1. UNCHANGED <<stream, Selected, ToFiles>>
  BY DEF OthersKept, stream, Selected, ToFiles
<1>2. Len(out'[stream]) <= Bytes
  <2>1. written' \in 0..Bytes /\ written' = Len(out'[stream'])
    BY DEF LoopOK
  <2>2. Bytes \in Nat
    BY TransferAssumption
  <2> QED BY <1>1, <2>1, <2>2
<1>3. \A s \in Streams \ {stream} : Len(out'[s]) <= Bytes
  BY DEF OthersKept, TransferInv, OutputIsGenuine, TransferTypeOK
<1>4. got'.n \in 0..Chunk
  BY DEF LoopOK
<1>5. empties' <= MaxEmpty
  <2>1. empties' \in 0..MaxEmpty /\ MaxEmpty \in Nat
    BY TransferAssumption DEF LoopOK
  <2> QED BY <2>1
<1> QED BY <1>1, <1>2, <1>3, <1>4, <1>5

\* A failure ends the command: of a file nothing is left, of the output what
\* was written is counted.
LEMMA FailKeeps ==
  ASSUME TransferInv, Fetching, NEW what \in Codes, Fails(what), LoopOK', OthersKept
  PROVE  TransferInv'
<1>1. /\ pc' = "done" /\ code' \in Codes /\ UNCHANGED <<dest, verified>> /\ tmp' = tmp \ {stream}
      /\ count' = [count EXCEPT ![stream] = IF Exports THEN 0 ELSE written']
  BY DEF Fails, Leave, Codes
<1>a. /\ cur > 0 /\ cur \in 0..2
      /\ stream \in Streams /\ stream \in Selected /\ stream \notin verified
  BY WhileFetching
<1>b. UNCHANGED <<select, path, object, cur, stream, Selected, ToFiles>>
  BY <1>a, OthersAreTyped DEF OthersKept
<1>2. /\ UNCHANGED <<select, path, object, cur, stream, Selected, ToFiles>> /\ ~Fetching' /\ cur > 0
      /\ stream \in Streams /\ stream \in Selected /\ stream \notin verified /\ cur \in 0..2
  BY <1>1, <1>a, <1>b DEF Fetching
<1>3. /\ \A s \in Streams : Len(out'[s]) <= Bytes
      /\ got'.n \in 0..Chunk /\ empties' <= MaxEmpty
  BY <1>2, OthersAreTyped
<1>4. code' # "complete" /\ tmp' = {}
  BY <1>1, WhileFetching DEF Codes
<1>5. written' \in 0..Bytes /\ 0 \in 0..Bytes /\ written' = Len(out'[stream])
  BY <1>2, TransferAssumption DEF LoopOK
<1>6. count \in [Streams -> 0..Bytes] /\ count' \in [Streams -> 0..Bytes]
  BY <1>1, <1>5 DEF TransferInv, ValuesOK
<1>7. \A s \in Streams \ {stream} : count'[s] = count[s] /\ out'[s] = out[s]
  BY <1>1, <1>6 DEF OthersKept
<1>8. count'[stream] = IF Exports THEN 0 ELSE written'
  BY <1>1, <1>2, <1>6
<1>9. verified \subseteq Streams /\ verified \subseteq Selected /\ Selected \subseteq Streams
  BY DEF TransferInv, OutputIsGenuine, TransferTypeOK, Selected
<1>10. \A s \in verified : count'[s] = Len(out'[s])
  BY <1>2, <1>7, <1>9 DEF TransferInv, OneAtATime
<1>11. ValuesOK'
  BY <1>1, <1>2, <1>6 DEF TransferInv, ValuesOK, LoopOK
<1>12. TransferTypeOK'
  <2>1. \A s \in Streams : count'[s] \in 0..Bytes
    BY <1>6
  <2> QED BY <1>1, <1>2, <1>3, <1>4, <1>9, <2>1 DEF TransferTypeOK
<1>13. VerifiedIsExact'
  BY <1>1, <1>2, <1>7, <1>9 DEF TransferInv, OutputIsGenuine, VerifiedIsExact
<1>14. NeverAPartialFile'
  BY <1>1 DEF TransferInv, OutputIsGenuine, NeverAPartialFile
<1>15. CountIsTrue'
  <2>1. ASSUME NEW s \in Selected
        PROVE  count'[s] = IF select[s] = "output" \/ s \in verified THEN Len(out'[s]) ELSE 0
    <3>1. CASE s = stream
      BY <1>2, <1>5, <1>8, <3>1, WhileFetching DEF Exports
    <3>2. CASE s \in verified
      BY <1>10, <3>2
    <3>3. CASE s # stream /\ s \notin verified
      <4>1. count[s] = 0 /\ out[s] = <<>>
        BY <1>9, <3>3, WhileFetching DEF TransferInv, OneAtATime
      <4>2. Len(<<>>) = 0
        OBVIOUS
      <4>3. count'[s] = 0 /\ Len(out'[s]) = 0
        BY <1>7, <1>9, <3>3, <4>1, <4>2
      <4> QED BY <3>3, <4>3
    <3> QED BY <3>1, <3>2, <3>3
  <2> QED BY <1>1, <1>2, <2>1 DEF CountIsTrue
<1>16. CompleteIsEverything'
  BY <1>1, <1>2, <1>4 DEF CompleteIsEverything
<1>17. SequenceOK'
  BY <1>1, <1>2 DEF TransferInv, SequenceOK
<1>18. OneAtATime'
  BY <1>1, <1>2, <1>10 DEF OneAtATime
<1>19. CopyOK'
  BY <1>1 DEF CopyOK
<1> QED BY <1>11, <1>12, <1>13, <1>14, <1>15, <1>16, <1>17, <1>18, <1>19 DEF TransferInv, OutputIsGenuine

\* A step within a stream writes at most what it read.
LEMMA ProgressKeeps ==
  ASSUME TransferInv, Fetching, Fetching', LoopOK', OthersKept, CopyOK',
         UNCHANGED <<dest, tmp, verified, count>>
  PROVE  TransferInv'
<1>1. /\ UNCHANGED <<select, path, object, cur, stream, Selected, ToFiles, Exports>> /\ cur > 0
      /\ stream \in Streams /\ stream \in Selected /\ stream \notin verified /\ cur \in 0..2
  <2>1. /\ cur > 0 /\ cur \in 0..2
        /\ stream \in Streams /\ stream \in Selected /\ stream \notin verified
    BY WhileFetching
  <2>2. UNCHANGED <<select, path, object, cur, stream, Selected, ToFiles>>
    BY <2>1, OthersAreTyped DEF OthersKept
  <2>3. Exports' = Exports
    BY <2>2 DEF Exports
  <2> QED BY <2>1, <2>2, <2>3
<1>2. /\ \A s \in Streams : Len(out'[s]) <= Bytes
      /\ got'.n \in 0..Chunk /\ empties' <= MaxEmpty
  BY <1>1, OthersAreTyped
<1>3. verified \subseteq Streams /\ verified \subseteq Selected
  BY DEF TransferInv, OutputIsGenuine, TransferTypeOK, Selected
<1>4. /\ pc \notin {"done", "dead", "next", "check", "recover"}
      /\ pc' \in {"get", "list", "again", "read", "write", "copied", "link"}
  BY WhileFetching DEF Fetching
<1>5. \A s \in Streams \ {stream} : out'[s] = out[s]
  BY DEF OthersKept
<1>6. ValuesOK'
  BY <1>1 DEF TransferInv, ValuesOK, LoopOK
<1>7. TransferTypeOK'
  <2>1. \A s \in Streams : count'[s] \in 0..Bytes
    BY DEF TransferInv, OutputIsGenuine, TransferTypeOK
  <2>2. cur' \in 0..2 /\ verified' \subseteq Selected' /\ tmp' \subseteq ToFiles'
    BY <1>1, <1>3 DEF TransferInv, OutputIsGenuine, TransferTypeOK
  <2> QED BY <1>2, <1>4, <2>1, <2>2 DEF TransferTypeOK
<1>8. VerifiedIsExact'
  BY <1>1, <1>3, <1>5 DEF TransferInv, OutputIsGenuine, VerifiedIsExact
<1>9. NeverAPartialFile' /\ CountIsTrue' /\ CompleteIsEverything'
  BY <1>4 DEF TransferInv, OutputIsGenuine, NeverAPartialFile, CountIsTrue, CompleteIsEverything
<1>10. SequenceOK'
  BY <1>1, <1>4 DEF TransferInv, SequenceOK
<1>11. OneAtATime'
  <2>1. \A s \in verified : count[s] = Len(out'[s])
    BY <1>1, <1>3, <1>5 DEF TransferInv, OneAtATime
  <2>2. \A s \in Streams \ verified : count[s] = 0
    BY <1>4 DEF TransferInv, OneAtATime
  <2>3. ASSUME NEW s \in Streams \ verified, out'[s] # <<>> PROVE s = stream
    BY <1>4, <1>5, <2>3 DEF TransferInv, OneAtATime
  <2>4. written' = Len(out'[stream'])
    BY DEF LoopOK
  <2> QED BY <1>1, <1>4, <2>1, <2>2, <2>3, <2>4, WhileFetching DEF OneAtATime
<1> QED BY <1>6, <1>7, <1>8, <1>9, <1>10, <1>11 DEF TransferInv, OutputIsGenuine

\* A stream is done with when all of it was written: to the output, or to a
\* file that nobody had made.
LEMMA FinishKeeps ==
  ASSUME TransferInv, Fetching, pc \in {"copied", "link"}, OthersKept,
         UNCHANGED <<body, got, written, empties, out, code>>,
         pc' = "next", verified' = verified \cup {stream}, count' = [count EXCEPT ![stream] = written],
         tmp' = {},
         \/ ~Exports /\ dest' = dest
         \/ /\ dest[path[stream]] = Nobody
            /\ dest' = [dest EXCEPT ![path[stream]] = [by |-> "logs", bytes |-> out[stream]]]
  PROVE  TransferInv'
<1>1. /\ UNCHANGED <<select, path, object, cur, stream, Selected, ToFiles>> /\ cur > 0 /\ cur \in 0..2
      /\ stream \in Streams /\ stream \in Selected /\ stream \notin verified /\ LoopOK /\ code = ""
      /\ (select[stream] = "file" <=> Exports)
  <2>1. /\ cur > 0 /\ cur \in 0..2 /\ LoopOK /\ code = ""
        /\ stream \in Streams /\ stream \in Selected /\ stream \notin verified
    BY WhileFetching
  <2>2. UNCHANGED <<select, path, object, cur>>
    BY DEF OthersKept
  <2>3. UNCHANGED <<stream, Selected, ToFiles>>
    BY <2>2 DEF stream, Selected, ToFiles
  <2>4. (select[stream] = "file") <=> Exports
    BY DEF Exports
  <2> QED BY <2>1, <2>2, <2>3, <2>4
<1>2. ~Fetching' /\ pc \notin {"done", "dead"}
  BY DEF Fetching
<1>3. out[stream] = Recorded /\ Recorded \in Seq(BOOLEAN)
  BY RecordedIsContents DEF TransferInv, CopyOK
<1>4. verified \subseteq Streams /\ verified \subseteq Selected
  BY DEF TransferInv, OutputIsGenuine, TransferTypeOK, Selected
<1>5. count \in [Streams -> 0..Bytes] /\ written \in 0..Bytes /\ written = Len(out[stream])
  BY <1>1 DEF TransferInv, ValuesOK, LoopOK
<1>6. /\ count' \in [Streams -> 0..Bytes] /\ count'[stream] = Len(out[stream])
      /\ \A s \in Streams \ {stream} : count'[s] = count[s]
  BY <1>1, <1>5
<1>7. dest \in [Paths -> [by : {"nobody", "other", "logs"}, bytes : Seq(BOOLEAN)]]
      /\ path \in [Streams -> Paths]
  BY DEF TransferInv, ValuesOK
<1>8. [by |-> "logs", bytes |-> out[stream]] \in [by : {"nobody", "other", "logs"}, bytes : Seq(BOOLEAN)]
  BY <1>3
<1>9. dest' \in [Paths -> [by : {"nobody", "other", "logs"}, bytes : Seq(BOOLEAN)]]
  BY <1>7, <1>8
<1>10. \A p \in Paths : dest[p] # Nobody => dest'[p] = dest[p]
  BY <1>7
<1>11. Exports => dest'[path[stream]] = [by |-> "logs", bytes |-> Recorded]
  BY <1>1, <1>3, <1>7
<1>12. \A p \in Paths : dest'[p] = dest[p] \/ dest'[p] = [by |-> "logs", bytes |-> Recorded]
  BY <1>3, <1>7
<1>13. ValuesOK'
  BY <1>1, <1>6, <1>9 DEF TransferInv, ValuesOK
<1>14. TransferTypeOK'
  <2>1. \A s \in Streams : Len(out[s]) <= Bytes /\ count'[s] \in 0..Bytes
    BY <1>6 DEF TransferInv, OutputIsGenuine, TransferTypeOK
  <2>2. got.n \in 0..Chunk /\ empties <= MaxEmpty
    BY DEF TransferInv, OutputIsGenuine, TransferTypeOK
  <2>3. cur' \in 0..2 /\ verified' \subseteq Selected' /\ tmp' \subseteq ToFiles'
    BY <1>1, <1>4
  <2> QED BY <2>1, <2>2, <2>3 DEF TransferTypeOK
<1>15. VerifiedIsExact'
  <2>1. ASSUME NEW s \in verified
        PROVE  out[s] = Recorded /\ (select[s] = "file" => dest'[path[s]] = [by |-> "logs", bytes |-> Recorded])
    <3>1. out[s] = Recorded /\ (select[s] = "file" => dest[path[s]] = [by |-> "logs", bytes |-> Recorded])
      BY DEF TransferInv, OutputIsGenuine, VerifiedIsExact
    <3>2. path[s] \in Paths /\ [by |-> "logs", bytes |-> Recorded] # Nobody
      BY <1>4, <1>7 DEF Nobody
    <3> QED BY <1>10, <3>1, <3>2
  <2> QED BY <1>1, <1>3, <1>11, <2>1 DEF VerifiedIsExact
<1>16. NeverAPartialFile'
  <2>1. \A p \in Paths : dest[p].by = "logs" => dest[p].bytes = Recorded
    BY DEF TransferInv, OutputIsGenuine, NeverAPartialFile
  <2> QED BY <1>12, <2>1 DEF NeverAPartialFile
<1>17. CountIsTrue' /\ CompleteIsEverything'
  BY DEF CountIsTrue, CompleteIsEverything
<1>18. SequenceOK'
  <2>1. ASSUME NEW i \in 1..2, i > cur PROVE InOrder[i] \notin verified'
    <3>1. InOrder[i] \notin verified
      BY <2>1 DEF TransferInv, SequenceOK
    <3>2. i # cur /\ cur \in 1..2
      <4>1. cur \in 1..2
        BY WhileFetching
      <4> QED BY <2>1, <4>1
    <3>3. InOrder[i] # stream
      BY <3>2, OrderOfStreams DEF stream
    <3> QED BY <3>1, <3>3
  <2>2. \A i \in 1..2 : i < cur /\ InOrder[i] \in Selected => InOrder[i] \in verified
    BY DEF TransferInv, SequenceOK
  <2> QED BY <1>1, <1>2, <2>1, <2>2 DEF SequenceOK
<1>19. OneAtATime'
  <2>1. \A s \in verified' : count'[s] = Len(out[s])
    <3>1. \A s \in verified : count[s] = Len(out[s])
      BY DEF TransferInv, OneAtATime
    <3> QED BY <1>1, <1>4, <1>6, <3>1
  <2>2. \A s \in Streams \ verified' : count'[s] = 0 /\ out[s] = <<>>
    <3>1. \A s \in Streams \ verified : count[s] = 0
      BY <1>2 DEF TransferInv, OneAtATime
    <3>2. \A s \in Streams \ verified : out[s] # <<>> => s = stream
      BY <1>2 DEF TransferInv, OneAtATime
    <3> QED BY <1>6, <3>1, <3>2
  <2> QED BY <1>1, <1>2, <2>1, <2>2 DEF OneAtATime
<1>20. CopyOK'
  BY <1>1 DEF CopyOK
<1> QED BY <1>13, <1>14, <1>15, <1>16, <1>17, <1>18, <1>19, <1>20 DEF TransferInv, OutputIsGenuine

----------------------------------------------------------------------------
(* The calls of the store and the copy *)

Asking == pc \in {"get", "list", "again"}

LEMMA CallKeeps == ASSUME UNCHANGED calling
  PROVE  /\ OthersKept
         /\ UNCHANGED <<present, out, got, written, empties, wasAbsent, stream>>
BY DEF calling, input, bucket, OthersKept, stream

LEMMA CallFails ==
  ASSUME TransferInv, Fetching, UNCHANGED <<calling, body>>, NEW what \in Codes, Fails(what)
  PROVE  TransferInv'
<1>1. OthersKept /\ LoopOK /\ UNCHANGED <<out, body, got, written, empties, stream>>
  BY CallKeeps, WhileFetching
<1>2. LoopOK'
  BY <1>1 DEF LoopOK
<1> QED BY <1>1, <1>2, FailKeeps

LEMMA CallGoes ==
  ASSUME TransferInv, Asking, UNCHANGED calling, NEW where \in {"list", "again"}, Goes(where)
  PROVE  TransferInv'
<1>1. Fetching /\ Fetching' /\ UNCHANGED <<body, code, dest, tmp, verified, count>> /\ pc' = where
  BY DEF Asking, Fetching, Goes
<1>2. /\ OthersKept /\ LoopOK /\ code = ""
      /\ UNCHANGED <<present, out, got, written, empties, wasAbsent, stream>>
  BY <1>1, CallKeeps, WhileFetching
<1>3. LoopOK'
  BY <1>1, <1>2 DEF LoopOK
<1>4. CopyOK'
  BY <1>1, <1>2 DEF TransferInv, CopyOK, Asking
<1> QED BY <1>1, <1>2, <1>3, <1>4, ProgressKeeps

LEMMA CallOpens == ASSUME TransferInv, Asking, UNCHANGED calling, Opens PROVE TransferInv'
<1>1. /\ Fetching /\ Fetching' /\ UNCHANGED <<code, dest, tmp, verified, count>> /\ pc' = "read"
      /\ body' = object[stream].bytes
  BY DEF Asking, Fetching, Opens
<1>2. /\ OthersKept /\ LoopOK /\ code = "" /\ stream \in Streams
      /\ UNCHANGED <<present, out, got, written, empties, wasAbsent, stream>>
  BY <1>1, CallKeeps, WhileFetching
<1>3. body' \in Seq(BOOLEAN)
  BY <1>1, <1>2 DEF TransferInv, ValuesOK
<1>4. LoopOK'
  BY <1>1, <1>2, <1>3 DEF LoopOK
<1>5. CopyOK'
  BY <1>1, <1>2 DEF TransferInv, CopyOK, Asking
<1> QED BY <1>1, <1>2, <1>4, <1>5, ProgressKeeps

LEMMA CallStepKeeps ==
  ASSUME TransferInv, GetObject \/ List \/ GetAgain \/ CallInterrupted PROVE TransferInv'
<1>1. Asking /\ Fetching /\ UNCHANGED calling
  BY DEF GetObject, List, GetAgain, CallInterrupted, Asking, Fetching
<1>2. \/ \E what \in Codes : Answers(what)
      \/ \E where \in {"list", "again"} : Goes(where)
      \/ Opens
  BY DEF GetObject, List, GetAgain, CallInterrupted, Codes
<1>3. ASSUME NEW what \in Codes, Answers(what) PROVE TransferInv'
  BY <1>1, <1>3, CallFails DEF Answers
<1>4. ASSUME NEW where \in {"list", "again"}, Goes(where) PROVE TransferInv'
  BY <1>1, <1>4, CallGoes
<1> QED BY <1>1, <1>2, <1>3, <1>4, CallOpens

LEMMA LeastIsLess == ASSUME NEW a \in Int, NEW b \in Int
  PROVE  Least(a, b) \in Int /\ Least(a, b) <= a /\ Least(a, b) <= b
BY DEF Least

LEMMA ReadKeeps == ASSUME TransferInv, ReadBody PROVE TransferInv'
<1>1. /\ Fetching /\ Fetching' /\ pc = "read" /\ pc' = "write"
      /\ UNCHANGED <<input, bucket, files, cur, body, written, empties, ended, report, wasAbsent>>
  BY DEF ReadBody, Fetching
<1>2. /\ OthersKept /\ LoopOK /\ code = ""
      /\ UNCHANGED <<dest, tmp, verified, count, code, out, body, written, empties, stream>>
  BY <1>1, WhileFetching DEF OthersKept, input, bucket, files, report, stream
<1>3. PICK n \in 0 .. Least(Len(body), Least(Chunk, Bytes - written + 1)), end \in {"no", "eof", "error"} :
        got' = [n |-> n, end |-> end]
  BY DEF ReadBody
<1>4. n \in 0..Chunk /\ n <= Len(body)
  <2>1. Chunk \in Int /\ Bytes \in Int /\ written \in Int /\ Len(body) \in Int
    <3>1. body \in Seq(BOOLEAN) /\ written \in 0..Bytes
      BY <1>2 DEF LoopOK
    <3>2. Len(body) \in Nat
      BY <3>1
    <3> QED BY <3>1, <3>2, TransferAssumption
  <2>2. Least(Chunk, Bytes - written + 1) \in Int /\ Least(Chunk, Bytes - written + 1) <= Chunk
    BY <2>1, LeastIsLess
  <2> DEFINE m == Least(Chunk, Bytes - written + 1)
             k == Least(Len(body), m)
  <2>3. k \in Int /\ k <= Len(body) /\ k <= m
    BY <2>1, <2>2, LeastIsLess
  <2>4. n \in 0..k
    BY <1>3
  <2>5. m \in Int /\ m <= Chunk
    BY <2>2
  <2> HIDE DEF m, k
  <2> QED BY <2>1, <2>3, <2>4, <2>5
<1>5. got'.n = n /\ got' \in [n : 0..Chunk, end : {"no", "eof", "error"}]
  BY <1>3, <1>4
<1>6. LoopOK'
  BY <1>2, <1>5 DEF LoopOK
<1>7. CopyOK'
  BY <1>1, <1>2, <1>4, <1>5 DEF TransferInv, CopyOK
<1> QED BY <1>1, <1>2, <1>6, <1>7, ProgressKeeps

\* What a write appends fits, and keeps the account of what was written.
LEMMA WriteAppends ==
  ASSUME TransferInv, pc = "write", NEW n \in 0 .. Valid
  PROVE  /\ SubSeq(body, 1, n) \in Seq(BOOLEAN) /\ Len(SubSeq(body, 1, n)) = n
         /\ written + n \in 0..Bytes
         /\ SubSeq(body, got.n + 1, Len(body)) \in Seq(BOOLEAN)
<1>1. LoopOK /\ got.n <= Len(body)
  BY WhileFetching DEF Fetching, TransferInv, CopyOK
<1>2. Bytes \in Nat /\ Chunk \in Nat
  BY TransferAssumption
<1>3. body \in Seq(BOOLEAN) /\ written \in 0..Bytes /\ got.n \in 0..Chunk /\ Len(body) \in Nat
  BY <1>1 DEF LoopOK
<1>4. got.n \in Nat /\ written \in Nat /\ written <= Bytes /\ Bytes - written \in Int
  BY <1>2, <1>3
<1>5. Valid \in Int /\ Valid <= got.n /\ Valid <= Bytes - written
  <2>1. got.n \in Int /\ Bytes - written \in Int
    BY <1>4
  <2>2. /\ Least(got.n, Bytes - written) \in Int /\ Least(got.n, Bytes - written) <= got.n
        /\ Least(got.n, Bytes - written) <= Bytes - written
    BY <2>1, LeastIsLess
  <2> QED BY <2>2 DEF Valid
<1>6. n \in Nat /\ n <= got.n /\ n <= Bytes - written /\ n <= Len(body)
  BY <1>1, <1>3, <1>4, <1>5
<1>7. written + n \in 0..Bytes
  BY <1>2, <1>4, <1>6
<1>8. SubSeq(body, 1, n) \in Seq(BOOLEAN) /\ Len(SubSeq(body, 1, n)) = n
  <2>1. \A i \in 1..n : i \in 1..Len(body)
    BY <1>3, <1>6
  <2> QED BY <1>3, <1>6, <2>1
<1>9. SubSeq(body, got.n + 1, Len(body)) \in Seq(BOOLEAN)
  BY <1>3, <1>4
<1> QED BY <1>7, <1>8, <1>9

LEMMA Appended == ASSUME NEW a \in Seq(BOOLEAN), NEW b \in Seq(BOOLEAN)
  PROVE  a \o b \in Seq(BOOLEAN) /\ Len(a \o b) = Len(a) + Len(b)
OBVIOUS

LEMMA WriteKeeps == ASSUME TransferInv, Write PROVE TransferInv'
<1>1. /\ Fetching /\ pc = "write" /\ UNCHANGED <<input, bucket, cur, got, ended, wasAbsent>>
  BY DEF Write, Fetching
<1>2. /\ LoopOK /\ code = "" /\ stream \in Streams
      /\ UNCHANGED <<select, path, object, cur, got, stream>>
  BY <1>1, WhileFetching DEF input, bucket, stream
<1>3. PICK n \in 0 .. Valid :
        /\ out' = [out EXCEPT ![stream] = @ \o SubSeq(body, 1, n)]
        /\ written' = written + n
        /\ body' = SubSeq(body, got.n + 1, Len(body))
        /\ empties' = IF got.n > 0 THEN 0 ELSE IF got.end = "no" THEN empties + 1 ELSE empties
        /\ \/ \E what \in Codes : Fails(what)
           \/ pc' = "read" /\ ~(empties' >= MaxEmpty) /\ UNCHANGED <<dest, tmp, report>>
           \/ pc' = "copied" /\ Exact(out'[stream]) /\ UNCHANGED <<dest, tmp, report>>
  BY DEF Write, Codes
<1>4. OthersKept
  <2>1. \A s \in Streams \ {stream} : out'[s] = out[s]
    BY <1>2, <1>3 DEF LoopOK
  <2> QED BY <1>2, <2>1 DEF OthersKept
<1>5. /\ SubSeq(body, 1, n) \in Seq(BOOLEAN) /\ Len(SubSeq(body, 1, n)) = n
      /\ written + n \in 0..Bytes /\ SubSeq(body, got.n + 1, Len(body)) \in Seq(BOOLEAN)
  BY <1>1, WriteAppends
<1>6. out[stream] \in Seq(BOOLEAN) /\ Len(out[stream]) = written /\ n \in Nat
  <2>1. Len(SubSeq(body, 1, n)) \in Nat
    BY <1>5
  <2> QED BY <1>2, <1>5, <2>1 DEF LoopOK
<1>7. out[stream] \o SubSeq(body, 1, n) \in Seq(BOOLEAN)
      /\ Len(out[stream] \o SubSeq(body, 1, n)) = written + n
  <2> DEFINE a == out[stream]
             b == SubSeq(body, 1, n)
  <2>1. a \in Seq(BOOLEAN) /\ b \in Seq(BOOLEAN) /\ Len(a) = written /\ Len(b) = n
    BY <1>5, <1>6
  <2> HIDE DEF a, b
  <2>2. a \o b \in Seq(BOOLEAN) /\ Len(a \o b) = Len(a) + Len(b)
    BY <2>1, Appended
  <2>3. a \o b \in Seq(BOOLEAN) /\ Len(a \o b) = written + n
    BY <2>1, <2>2
  <2> QED BY <2>3 DEF a, b
<1>8. out' \in [Streams -> Seq(BOOLEAN)] /\ out'[stream] = out[stream] \o SubSeq(body, 1, n)
  BY <1>2, <1>3, <1>7 DEF LoopOK
<1>9. empties' \in 0..MaxEmpty
  <2>1. empties < MaxEmpty
    BY <1>1 DEF TransferInv, CopyOK
  <2>2. MaxEmpty \in Nat /\ empties \in 0..MaxEmpty
    BY <1>2, TransferAssumption DEF LoopOK
  <2>3. empties + 1 \in 0..MaxEmpty /\ 0 \in 0..MaxEmpty
    BY <2>1, <2>2
  <2> QED BY <1>3, <2>2, <2>3
<1>10. LoopOK'
  BY <1>2, <1>3, <1>5, <1>7, <1>8, <1>9 DEF LoopOK
<1>11. ASSUME NEW what \in Codes, Fails(what) PROVE TransferInv'
  BY <1>1, <1>4, <1>10, <1>11, FailKeeps
<1>12. CASE pc' = "read" /\ ~(empties' >= MaxEmpty) /\ UNCHANGED <<dest, tmp, report>>
  <2>1. UNCHANGED <<code, verified, count>> /\ Fetching'
    BY <1>12 DEF report, Fetching
  <2>2. empties' < MaxEmpty
    <3>1. MaxEmpty \in Nat /\ empties' \in Nat
      BY <1>9, TransferAssumption
    <3> QED BY <1>12, <3>1
  <2>3. CopyOK'
    BY <1>2, <1>12, <2>1, <2>2 DEF CopyOK
  <2> QED BY <1>1, <1>4, <1>10, <1>12, <2>1, <2>3, ProgressKeeps
<1>13. CASE pc' = "copied" /\ Exact(out'[stream]) /\ UNCHANGED <<dest, tmp, report>>
  <2>1. UNCHANGED <<code, verified, count>> /\ Fetching'
    BY <1>13 DEF report, Fetching
  <2>2. CopyOK'
    BY <1>2, <1>13, <2>1 DEF CopyOK, Exact
  <2> QED BY <1>1, <1>4, <1>10, <1>13, <2>1, <2>2, ProgressKeeps
<1> QED BY <1>3, <1>11, <1>12, <1>13

LEMMA InterruptKeeps == ASSUME TransferInv, ReadInterrupted \/ WriteInterrupted PROVE TransferInv'
<1>1. Fetching /\ UNCHANGED <<calling, body>> /\ Fails("stopped") /\ "stopped" \in Codes
  BY DEF ReadInterrupted, WriteInterrupted, Fetching, Codes
<1> QED BY <1>1, CallFails

LEMMA CopiedKeeps == ASSUME TransferInv, Copied PROVE TransferInv'
<1>1. Fetching /\ pc = "copied" /\ UNCHANGED <<calling, body>> /\ "write_failed" \in Codes
  BY DEF Copied, Fetching, Codes
<1>2. /\ OthersKept /\ LoopOK /\ code = "" /\ tmp = (IF Exports THEN {stream} ELSE {})
      /\ UNCHANGED <<select, present, out, body, got, written, empties, wasAbsent, stream>>
  <2>1. UNCHANGED select
    BY <1>1 DEF calling, input
  <2> QED BY <1>1, <2>1, CallKeeps, WhileFetching
<1>3. CASE Fails("write_failed")
  BY <1>1, <1>3, CallFails
<1>4. CASE /\ ~Exports /\ pc' = "next" /\ verified' = verified \cup {stream}
           /\ count' = [count EXCEPT ![stream] = written] /\ UNCHANGED <<dest, tmp, code>>
  BY <1>1, <1>2, <1>4, FinishKeeps
<1>5. CASE Exports /\ pc' = "link" /\ UNCHANGED <<dest, tmp, report>>
  <2>1. UNCHANGED <<code, verified, count, Exports>> /\ Fetching'
    BY <1>2, <1>5 DEF report, Fetching, Exports
  <2>2. LoopOK'
    BY <1>2 DEF LoopOK
  <2>3. CopyOK'
    BY <1>1, <1>2, <1>5, <2>1 DEF TransferInv, CopyOK
  <2> QED BY <1>1, <1>2, <1>5, <2>1, <2>2, <2>3, ProgressKeeps
<1> QED BY <1>3, <1>4, <1>5 DEF Copied

LEMMA LinkKeeps == ASSUME TransferInv, Link PROVE TransferInv'
<1>1. Fetching /\ pc = "link" /\ UNCHANGED <<calling, body>> /\ "write_failed" \in Codes
  BY DEF Link, Fetching, Codes
<1>2. /\ OthersKept /\ tmp \ {stream} = {}
      /\ UNCHANGED <<out, body, got, written, empties>>
  BY <1>1, CallKeeps, WhileFetching
<1>3. CASE Fails("write_failed")
  BY <1>1, <1>3, CallFails
<1>4. CASE /\ Free(path[stream]) /\ pc' = "next" /\ tmp' = tmp \ {stream} /\ UNCHANGED code
           /\ dest' = [dest EXCEPT ![path[stream]] = [by |-> "logs", bytes |-> out[stream]]]
           /\ verified' = verified \cup {stream} /\ count' = [count EXCEPT ![stream] = written]
  BY <1>1, <1>2, <1>4, FinishKeeps DEF Free
<1> QED BY <1>3, <1>4 DEF Link

----------------------------------------------------------------------------
(* The world, and the theorems *)

LEMMA BucketKeeps ==
  ASSUME TransferInv, TimeIsUp \/ Appears \/ Expires \/ Killed PROVE TransferInv'
<1>1. UNCHANGED <<input, object, files, loop, code, verified, count>> /\ pc # "done"
  BY DEF TimeIsUp, Appears, Expires, Killed, bucket, report
<1>2. UNCHANGED <<select, path, object, dest, tmp, out, cur, body, got, written, empties,
                  stream, Exports, Selected, ToFiles>>
  BY <1>1 DEF input, files, loop, stream, Exports, Selected, ToFiles
<1>3. \/ pc' = pc /\ ((Asking /\ stream \notin present => wasAbsent) => (Asking /\ stream \notin present => wasAbsent)')
      \/ pc' = "dead"
  <2>1. CASE TimeIsUp
    BY <1>2, <2>1 DEF TimeIsUp, bucket, Asking
  <2>2. CASE Appears
    BY <1>2, <2>2 DEF Appears, Asking
  <2>3. CASE Expires
    <3>1. Asking => cur > 0
      BY DEF Asking, Fetching, TransferInv, SequenceOK
    <3> QED BY <1>2, <2>3, <3>1 DEF Expires, Asking
  <2>4. CASE Killed
    BY <2>4 DEF Killed
  <2> QED BY <2>1, <2>2, <2>3, <2>4
<1>4. Fetching' => Fetching
  BY <1>3 DEF Fetching
<1>5. ValuesOK'
  BY <1>1, <1>2 DEF TransferInv, ValuesOK
<1>6. TransferTypeOK'
  BY <1>1, <1>2, <1>3 DEF TransferInv, OutputIsGenuine, TransferTypeOK
<1>7. VerifiedIsExact' /\ NeverAPartialFile'
  BY <1>1, <1>2 DEF TransferInv, OutputIsGenuine, VerifiedIsExact, NeverAPartialFile
<1>8. CountIsTrue' /\ CompleteIsEverything'
  BY <1>1, <1>3 DEF CountIsTrue, CompleteIsEverything
<1>9. SequenceOK'
  BY <1>1, <1>2, <1>3, <1>4 DEF TransferInv, SequenceOK
<1>10. OneAtATime'
  <2>1. CASE pc' = pc
    BY <1>1, <1>2, <2>1 DEF TransferInv, OneAtATime, Fetching
  <2>2. CASE pc' = "dead"
    BY <1>1, <1>2, <2>2 DEF TransferInv, OneAtATime, Fetching
  <2> QED BY <1>3, <2>1, <2>2
<1>11. CopyOK'
  <2>1. CASE pc' = pc
    BY <1>1, <1>2, <1>3, <2>1 DEF TransferInv, CopyOK, Asking
  <2>2. CASE pc' = "dead"
    BY <1>1, <2>2 DEF TransferInv, CopyOK
  <2> QED BY <1>3, <2>1, <2>2
<1> QED BY <1>5, <1>6, <1>7, <1>8, <1>9, <1>10, <1>11 DEF TransferInv, OutputIsGenuine

LEMMA AnotherKeeps == ASSUME TransferInv, AnotherWrites PROVE TransferInv'
<1>1. /\ UNCHANGED <<input, bucket, tmp, out, pc, loop, ended, report, wasAbsent>> /\ pc # "done"
      /\ \E p \in Paths : dest[p] = Nobody /\ dest' = [dest EXCEPT ![p] = Other]
  BY DEF AnotherWrites
<1>2. UNCHANGED <<select, path, object, present, tmp, out, cur, body, got, written, empties,
                  code, verified, count, wasAbsent, pc>>
  BY <1>1 DEF input, bucket, loop, report
<1>3. UNCHANGED <<stream, Exports, Selected, ToFiles, Fetching>>
  BY <1>2 DEF stream, Exports, Selected, ToFiles, Fetching
<1>4. PICK p \in Paths : dest[p] = Nobody /\ dest' = [dest EXCEPT ![p] = Other]
  BY <1>1
<1>5. Other \in [by : {"nobody", "other", "logs"}, bytes : Seq(BOOLEAN)] /\ Other.by = "other"
  BY DEF Other
<1>6. dest \in [Paths -> [by : {"nobody", "other", "logs"}, bytes : Seq(BOOLEAN)]]
  BY DEF TransferInv, ValuesOK
<1>7. dest' \in [Paths -> [by : {"nobody", "other", "logs"}, bytes : Seq(BOOLEAN)]]
  BY <1>4, <1>5, <1>6
<1>8. \A q \in Paths : dest[q] # Nobody => dest'[q] = dest[q]
  BY <1>4, <1>6
<1>9. \A q \in Paths : dest'[q] = dest[q] \/ dest'[q] = Other
  BY <1>4, <1>6
<1>10. ValuesOK'
  BY <1>2, <1>7 DEF TransferInv, ValuesOK
<1>11. TransferTypeOK'
  BY <1>2, <1>3 DEF TransferInv, OutputIsGenuine, TransferTypeOK
<1>12. VerifiedIsExact'
  <2>1. ASSUME NEW s \in verified, select[s] = "file"
        PROVE  dest'[path[s]] = [by |-> "logs", bytes |-> Recorded]
    <3>1. dest[path[s]] = [by |-> "logs", bytes |-> Recorded]
      BY <2>1 DEF TransferInv, OutputIsGenuine, VerifiedIsExact
    <3>2. path[s] \in Paths
      BY DEF TransferInv, OutputIsGenuine, TransferTypeOK, ValuesOK, Selected
    <3>3. dest[path[s]] # Nobody
      BY <3>1 DEF Nobody
    <3> QED BY <1>8, <3>1, <3>2, <3>3
  <2> QED BY <1>2, <2>1 DEF TransferInv, OutputIsGenuine, VerifiedIsExact
<1>13. NeverAPartialFile'
  BY <1>5, <1>9 DEF TransferInv, OutputIsGenuine, NeverAPartialFile
<1>14. CountIsTrue' /\ CompleteIsEverything'
  BY <1>1, <1>2 DEF CountIsTrue, CompleteIsEverything
<1>15. SequenceOK'
  BY <1>2, <1>3 DEF TransferInv, SequenceOK
<1>16. OneAtATime'
  BY <1>2, <1>3 DEF TransferInv, OneAtATime
<1>17. CopyOK'
  BY <1>2, <1>3 DEF TransferInv, CopyOK
<1> QED BY <1>10, <1>11, <1>12, <1>13, <1>14, <1>15, <1>16, <1>17 DEF TransferInv, OutputIsGenuine

LEMMA TransferStutters == ASSUME TransferInv, UNCHANGED transferVars PROVE TransferInv'
<1>1. UNCHANGED <<select, path, object, present, dest, tmp, out, cur, body, got, written, empties,
                  code, verified, count, wasAbsent, pc>>
  BY DEF transferVars, input, bucket, files, loop, report
<1>2. UNCHANGED <<stream, Exports, Selected, ToFiles, Fetching>>
  BY <1>1 DEF stream, Exports, Selected, ToFiles, Fetching
<1>3. ValuesOK'
  BY <1>1 DEF TransferInv, ValuesOK
<1>4. TransferTypeOK'
  BY <1>1, <1>2 DEF TransferInv, OutputIsGenuine, TransferTypeOK
<1>5. VerifiedIsExact' /\ NeverAPartialFile'
  BY <1>1 DEF TransferInv, OutputIsGenuine, VerifiedIsExact, NeverAPartialFile
<1>6. CountIsTrue' /\ CompleteIsEverything'
  BY <1>1, <1>2 DEF TransferInv, OutputIsGenuine, CountIsTrue, CompleteIsEverything
<1>7. SequenceOK'
  BY <1>1, <1>2 DEF TransferInv, SequenceOK
<1>8. OneAtATime'
  BY <1>1, <1>2 DEF TransferInv, OneAtATime
<1>9. CopyOK'
  BY <1>1, <1>2 DEF TransferInv, CopyOK
<1> QED BY <1>3, <1>4, <1>5, <1>6, <1>7, <1>8, <1>9 DEF TransferInv, OutputIsGenuine

LEMMA TransferStepKeeps == TransferInv /\ [TransferNext]_transferVars => TransferInv'
<1> SUFFICES ASSUME TransferInv, [TransferNext]_transferVars PROVE TransferInv'
  OBVIOUS
<1>1. Program => TransferInv'
  BY ValidateKeeps, RecoverKeeps, NextStreamKeeps, CallStepKeeps, ReadKeeps, WriteKeeps,
     InterruptKeeps, CopiedKeeps, LinkKeeps
  DEF Program, Local, Interrupts
<1>2. TimeIsUp \/ Appears \/ Expires \/ Killed => TransferInv'
  BY BucketKeeps
<1> QED BY <1>1, <1>2, AnotherKeeps, TransferStutters DEF TransferNext

\* What devbox logs verified is what was recorded, on the output or in its file;
\* no file is partial, the counts are true and success means every stream: for
\* streams of any length, any buffer and any destinations.
THEOREM LogsAreGenuine == TransferSpec => []OutputIsGenuine
<1>1. TransferInv => OutputIsGenuine
  BY DEF TransferInv
<1> QED BY TransferStarts, TransferStepKeeps, <1>1, PTL DEF TransferSpec

\* Only an object that was absent during its download is reported missing.
THEOREM MissingIsMissing == TransferSpec => PresentIsNotMissing
<1>1. TransferInv /\ [TransferNext]_transferVars 
               => [(code' = "missing" /\ code = "") => wasAbsent]_transferVars
  <2> SUFFICES ASSUME TransferInv, TransferNext, code' = "missing", code = "" PROVE wasAbsent
    OBVIOUS
  <2>1. Program
    BY DEF TransferNext, TimeIsUp, Appears, Expires, AnotherWrites, Killed, report
  <2>2. ASSUME NEW what, Fails(what) PROVE what = "missing"
    BY <2>2 DEF Fails, Leave
  <2>3. CASE GetObject \/ List \/ GetAgain \/ CallInterrupted
    <3>1. stream \notin present /\ Asking
      BY <2>2, <2>3 DEF GetObject, List, GetAgain, CallInterrupted, Answers, Goes, Opens, Unlisted, Asking
    <3> QED BY <3>1 DEF TransferInv, CopyOK, Asking
  <2>4. CASE ReadBody \/ ReadInterrupted \/ WriteInterrupted
    BY <2>2, <2>4 DEF ReadBody, ReadInterrupted, WriteInterrupted, report
  <2>5. CASE Write
    BY <2>2, <2>5 DEF Write, report
  <2>6. CASE Validate \/ Recover \/ NextStream
    BY <2>6 DEF Validate, Recover, NextStream, Leave
  <2>7. CASE Copied \/ Link
    BY <2>2, <2>7 DEF Copied, Link, report
  <2> QED BY <2>1, <2>3, <2>4, <2>5, <2>6, <2>7 DEF Program, Local, Interrupts
<1> QED BY TransferStarts, TransferStepKeeps, <1>1, PTL DEF TransferSpec, PresentIsNotMissing
=============================================================================
