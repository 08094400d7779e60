----------------------- MODULE CommandObserverProofs -----------------------
(***************************************************************************)
(* Proofs about CommandObserver, for any workloads, terminal states, kinds *)
(* and numbers of faulty reads, and any failure budget: whatever order the *)
(* command and the observer's reads fall into, a verdict is the recorded   *)
(* truth, and only altered records or a broken clock are called corrupt.   *)
(*                                                                         *)
(* The second part is about BatchReadiness, where devbox up observes its   *)
(* workers, for any number of workers and goroutines: its result is honest *)
(* and no stranger is probed.  ReadyInv is inductive: every worker waits,  *)
(* is worked on by one goroutine, is ready, or is in trouble.              *)
(***************************************************************************)
EXTENDS CommandObserver, BatchReadiness, FiniteSetTheorems, TLAPS

Written == {"recorded", "final"}   \* phases in which the outcome is stored

\* What the record of the command's end says, and when it can say it.
LifeOK ==
  /\ clock # "none" => phase \in Written
  /\ publication # "none" => phase = "final"
  /\ publication = "complete" => capture = "complete"

\* What one pass has found out.  The last clause is what the second pass is for:
\* an outcome it could have missed was not there when SSM answered.
PassOK ==
  /\ optional \in {"none", "transient", "denied"} /\ invalid \in {"none", "schema", "corrupt"}
  /\ invalid = "corrupt" => lied \/ TimelineBroken
  /\ outcome => phase \in Written
  /\ atAnswer \subseteq Published
  /\ stage # "done" => storageFailures < MaxFailures
  /\ pass = "reread" /\ stage = "result" /\ ~outcome /\ optional = "none" /\ invalid = "none"
       => "outcome" \notin atAnswer

ObserverInv == LifeOK /\ PassOK /\ NoFalseCorruption /\ VerdictIsTrue

----------------------------------------------------------------------------
(* The command and single reads *)

\* Two readings of one outcome agree: the end of the upload is not compared.
LEMMA RecordsAgree == ResultContradicts => TimelineBroken
<1>1. SameOutcome(Outcome, FinalRecord)
  <2>1. FinalRecord.upload = publication
    BY DEF FinalRecord, Outcome
  <2>2. QED BY <2>1 DEF SameOutcome, FinalRecord
<1>2. QED BY <1>1 DEF ResultContradicts

\* The command moves on: records only appear, and the outcome is written once.
LEMMA LifeMoves ==
  ASSUME EvidenceOK, LifeOK, EvidenceStep, UNCHANGED readVars
  PROVE  /\ EvidenceOK' /\ LifeOK' /\ Published \subseteq Published'
         /\ TimelineBroken => TimelineBroken'
         /\ phase \in Written => phase' \in Written
<1> USE DEF readVars
<1>1. CASE Begin
  <2>1. PICK h \in Runs \cup {Absent} : holder' = h
    BY <1>1 DEF Begin, EvidenceOK, Life!Request, Life!Run, Life!Claim
  <2>2. UNCHANGED <<known, capture, clock, publication, invocation, expired>>
    BY <1>1 DEF Begin, Life!Request, Life!Run, Life!Claim
  <2>3. <<phase, phase'>> \in {<<"none", "requested">>, <<"requested", "claimed">>, <<"claimed", "running">>}
    BY <1>1 DEF Begin, Life!Request, Life!Run, Life!Claim
  <2>4. EvidenceOK'
    BY <2>1, <2>2, <2>3 DEF EvidenceOK
  <2>5. LifeOK' /\ TimelineBroken' = TimelineBroken
    BY <2>2, <2>3 DEF LifeOK, Written, TimelineBroken
  <2>6. Published \subseteq Published'
    BY <2>3 DEF Published
  <2>7. QED BY <2>3, <2>4, <2>5, <2>6 DEF Written
<1>2. CASE RecordOutcome
  <2>1. /\ phase = "running" /\ phase' = "recorded" /\ known' \in Workloads
        /\ capture' \in {"complete", "incomplete"} /\ clock' \in Clocks
        /\ UNCHANGED <<holder, publication, invocation, expired>>
    BY <1>2 DEF RecordOutcome, Life!Record
  <2>2. EvidenceOK'
    BY <2>1 DEF EvidenceOK
  <2>3. LifeOK' /\ ~TimelineBroken
    BY <2>1 DEF LifeOK, Written, TimelineBroken
  <2>4. Published \subseteq Published'
    BY <2>1 DEF Published
  <2>5. QED BY <2>1, <2>2, <2>3, <2>4 DEF Written
<1>3. CASE RecordResult
  <2>1. /\ phase = "recorded" /\ phase' = "final" /\ publication' \in {"complete", "incomplete"}
        /\ publication' = "complete" => capture = "complete"
        /\ UNCHANGED <<holder, known, capture, clock, invocation, expired>>
    BY <1>3 DEF RecordResult, Life!Finalize
  <2>2. EvidenceOK'
    BY <2>1 DEF EvidenceOK
  <2>3. LifeOK' /\ TimelineBroken' = TimelineBroken
    BY <2>1 DEF LifeOK, Written, TimelineBroken
  <2>4. Published \subseteq Published'
    BY <2>1 DEF Published
  <2>5. QED BY <2>1, <2>2, <2>3, <2>4 DEF Written
<1>4. CASE InvocationMoves \/ RetentionEnds
  <2>1. UNCHANGED recordVars /\ invocation' \in {"none", "live"} \cup Terminals /\ expired' \in BOOLEAN
    BY <1>4 DEF InvocationMoves, RetentionEnds, EvidenceOK
  <2>2. EvidenceOK'
    BY <2>1 DEF EvidenceOK, recordVars, lifeVars
  <2>3. LifeOK' /\ TimelineBroken' = TimelineBroken /\ Published' = Published
    BY <2>1 DEF LifeOK, TimelineBroken, Published, recordVars, lifeVars
  <2>4. QED BY <2>1, <2>2, <2>3 DEF recordVars, lifeVars
<1>5. QED BY <1>1, <1>2, <1>3, <1>4 DEF EvidenceStep

LEMMA EvidenceStands ==
  ASSUME UNCHANGED evidenceVars
  PROVE  /\ LifeOK => LifeOK'
         /\ Published' = Published /\ (TimelineBroken => TimelineBroken')
         /\ UNCHANGED <<phase, holder, known, capture, clock, publication, invocation, expired>>
BY DEF evidenceVars, recordVars, lifeVars, LifeOK, Published, TimelineBroken

LEMMA FaultsAreCounted ==
  ASSUME EvidenceOK, UNCHANGED evidenceVars, faults' = faults \/ (faults < MaxFaults /\ faults' = faults + 1),
         lied' \in BOOLEAN
  PROVE  EvidenceOK'
<1>1. MaxFaults \in Nat
  BY EvidenceAssumption
<1>2. faults \in 0 .. MaxFaults
  BY DEF EvidenceOK
<1>3. faults' \in 0 .. MaxFaults
  BY <1>1, <1>2
<1>4. QED BY <1>3, EvidenceStands DEF EvidenceOK

\* A GET tells what was stored when it was answered, if it tells anything.
LEMMA OneRead ==
  ASSUME EvidenceOK, UNCHANGED evidenceVars, NEW k, NEW a \in GetAnswers, Get(k, Published, a)
  PROVE  /\ EvidenceOK' /\ (lied => lied')
         /\ a = "found" => k \in Published
         /\ a = "absent" => k \notin Published
         /\ a = "corrupt" => lied'
         /\ a \in {"found", "absent", "transient", "denied", "schema", "corrupt"}
<1>1. StorageFaults \subseteq {"transient", "denied", "schema", "corrupt"}
  BY EvidenceAssumption
<1>2. faults' = faults \/ (faults < MaxFaults /\ faults' = faults + 1)
  BY DEF Get, Wrong
<1>3. lied' \in BOOLEAN /\ (lied => lied') /\ (a = "corrupt" => lied')
  BY DEF Get
<1>4. /\ a = "found" => k \in Published
      /\ a = "absent" => k \notin Published
  BY <1>1 DEF Get, Wrong
<1>5. QED BY <1>1, <1>2, <1>3, <1>4, FaultsAreCounted DEF GetAnswers

LEMMA OneAnswer ==
  ASSUME EvidenceOK, UNCHANGED evidenceVars, NEW a, GetInvocation(a)
  PROVE  EvidenceOK' /\ (lied => lied') /\ (a = "corrupt" => lied')
<1>1. faults' = faults \/ (faults < MaxFaults /\ faults' = faults + 1)
  BY DEF GetInvocation, Wrong
<1>2. lied' \in BOOLEAN /\ (lied => lied') /\ (a = "corrupt" => lied')
  BY DEF GetInvocation
<1>3. QED BY <1>1, <1>2, FaultsAreCounted
----------------------------------------------------------------------------
(* The observer *)

LEMMA WhileItRuns == ASSUME ObserverInv, stage # "done" PROVE verdict = "none" /\ storageFailures < MaxFailures
BY DEF ObserverInv, VerdictIsTrue, TypeOK, PassOK

\* As long as there is no verdict there is nothing to answer for.
LEMMA GoesOn ==
  ASSUME ObserverInv, UNCHANGED evidenceVars, verdict' = "none", TypeOK', PassOK'
  PROVE  ObserverInv'
<1>1. LifeOK'
  BY EvidenceStands DEF ObserverInv
<1>2. NoFalseCorruption' /\ VerdictIsTrue'
  BY DEF NoFalseCorruption, VerdictIsTrue, Completed, Answered
<1>3. QED BY <1>1, <1>2 DEF ObserverInv

LEMMA ReadStartedKeeps == ASSUME ObserverInv, ReadStarted, UNCHANGED evidenceVars PROVE ObserverInv'
<1>1. /\ stage = "started" /\ stage' \in {"outcome", "stopping"}
      /\ UNCHANGED <<pass, storageFailures, ssmFailures, answer, atAnswer, ctx, verdict>>
  BY DEF ReadStarted, Then
<1>2. verdict = "none" /\ storageFailures < MaxFailures
  BY <1>1, WhileItRuns
<1>3. /\ Published' = Published /\ (TimelineBroken => TimelineBroken')
      /\ UNCHANGED <<phase, holder, known, capture, clock, publication, invocation, expired>>
  BY EvidenceStands
<1>4. TypeOK /\ PassOK
  BY DEF ObserverInv, VerdictIsTrue
<1>5. CASE UNCHANGED <<readVars, started, outcome, durable, optional, invalid>>
  <2>1. TypeOK'
    BY <1>1, <1>2, <1>3, <1>4, <1>5 DEF TypeOK, EvidenceOK, readVars
  <2>2. PassOK'
    BY <1>1, <1>3, <1>4, <1>5 DEF PassOK, readVars
  <2>3. QED BY <1>1, <1>2, <2>1, <2>2, GoesOn
<1>6. CASE \E a \in GetAnswers : Get("started", Published, a) /\ IF a = "found" THEN StartedRead ELSE Unread(a)
  <2>1. PICK a \in GetAnswers : Get("started", Published, a) /\ IF a = "found" THEN StartedRead ELSE Unread(a)
    BY <1>6
  <2>2. EvidenceOK' /\ (lied => lied') /\ (a = "corrupt" => lied')
        /\ a \in {"found", "absent", "transient", "denied", "schema", "corrupt"}
    BY <1>4, <2>1, OneRead DEF TypeOK
  <2>3. /\ started' \in BOOLEAN /\ outcome' = outcome /\ durable' \in {durable, "started"}
        /\ optional' \in {optional, "transient", "denied"} /\ invalid' \in {invalid, "schema", "corrupt"}
        /\ invalid' = "corrupt" => invalid = "corrupt" \/ TimelineBroken \/ a = "corrupt"
    BY <1>4, <2>1, <2>2 DEF StartedRead, Unread, TypeOK
  <2>4. TypeOK'
    BY <1>1, <1>2, <1>4, <2>2, <2>3 DEF TypeOK, Issues
  <2>5. PassOK'
    BY <1>1, <1>2, <1>3, <1>4, <2>2, <2>3 DEF PassOK
  <2>6. QED BY <1>1, <1>2, <2>4, <2>5, GoesOn
<1>7. QED BY <1>5, <1>6 DEF ReadStarted

\* In the second pass an outcome that is not there now was not there at the answer.
LEMMA ReadOutcomeKeeps == ASSUME ObserverInv, ReadOutcome, UNCHANGED evidenceVars PROVE ObserverInv'
<1>1. /\ stage = "outcome" /\ stage' \in {"result", "stopping"}
      /\ UNCHANGED <<pass, storageFailures, ssmFailures, answer, atAnswer, ctx, verdict>>
  BY DEF ReadOutcome, Then
<1>2. verdict = "none" /\ storageFailures < MaxFailures
  BY <1>1, WhileItRuns
<1>3. /\ Published' = Published /\ (TimelineBroken => TimelineBroken')
      /\ UNCHANGED <<phase, holder, known, capture, clock, publication, invocation, expired>>
  BY EvidenceStands
<1>4. TypeOK /\ PassOK
  BY DEF ObserverInv, VerdictIsTrue
<1>5. CASE outcome
  <2>1. UNCHANGED <<readVars, started, outcome, durable, optional, invalid>>
    BY <1>5 DEF ReadOutcome
  <2>2. TypeOK'
    BY <1>1, <1>2, <1>3, <1>4, <2>1 DEF TypeOK, EvidenceOK, readVars
  <2>3. PassOK'
    BY <1>1, <1>3, <1>4, <1>5, <2>1 DEF PassOK, readVars
  <2>4. QED BY <1>1, <1>2, <2>2, <2>3, GoesOn
<1>6. CASE ~outcome
  <2>1. PICK a \in GetAnswers : Get("outcome", Published, a) /\ IF a = "found" THEN OutcomeRead ELSE Unread(a)
    BY <1>6 DEF ReadOutcome
  <2>2. /\ EvidenceOK' /\ (lied => lied') /\ (a = "corrupt" => lied')
        /\ a = "found" => "outcome" \in Published
        /\ a = "absent" => "outcome" \notin Published
        /\ a \in {"found", "absent", "transient", "denied", "schema", "corrupt"}
    BY <1>4, <2>1, OneRead DEF TypeOK
  <2>3. /\ started' = started /\ outcome' \in BOOLEAN /\ durable' \in {durable, "outcome"}
        /\ optional' \in {optional, "transient", "denied"} /\ invalid' \in {invalid, "schema", "corrupt"}
        /\ invalid' = "corrupt" => invalid = "corrupt" \/ TimelineBroken \/ a = "corrupt"
        /\ outcome' => a = "found"
        /\ ~outcome' /\ optional' = "none" /\ invalid' = "none" => a = "absent"
    BY <1>4, <1>6, <2>1, <2>2 DEF OutcomeRead, Unread, TypeOK
  <2>4. "outcome" \in Published => phase \in Written
    BY DEF Published, Written
  <2>5. TypeOK'
    BY <1>1, <1>2, <1>4, <2>2, <2>3 DEF TypeOK, Issues
  <2>6. PassOK'
    BY <1>1, <1>2, <1>3, <1>4, <2>2, <2>3, <2>4 DEF PassOK
  <2>7. QED BY <1>1, <1>2, <2>5, <2>6, GoesOn
<1>7. QED BY <1>5, <1>6

LEMMA ResultReadKeeps == ASSUME ObserverInv, ResultRead, UNCHANGED evidenceVars PROVE ObserverInv'
<1>1. /\ stage = "result" /\ stage' = "done" /\ durable' = "final" /\ verdict' = FinalVerdict
      /\ UNCHANGED <<pass, started, outcome, optional, invalid, storageFailures, ssmFailures, answer, atAnswer, ctx>>
  BY DEF ResultRead, Finish
<1>2. /\ Published' = Published /\ (TimelineBroken => TimelineBroken')
      /\ UNCHANGED <<phase, holder, known, capture, clock, publication, invocation, expired>> /\ LifeOK'
  BY EvidenceStands DEF ObserverInv
<1>3. TypeOK /\ PassOK /\ LifeOK
  BY DEF ObserverInv, VerdictIsTrue
<1>4. EvidenceOK' /\ (lied => lied') /\ "result" \in Published
  BY <1>3, OneRead DEF ResultRead, TypeOK, GetAnswers
<1>5. phase = "final"
  BY <1>4 DEF Published
<1>6. /\ verdict' \in Completed \cup {"expired", "execution_timeout", "result_incomplete"}
      /\ verdict' \in Completed => publication = "complete"
      /\ verdict' = "remote_exit" => known = "exited"
      /\ verdict' = "remote_signal" => known = "signaled"
      /\ verdict' = "execution_timeout" => known = "execution_timeout"
  BY <1>1 DEF FinalVerdict, Completed
<1>7. TypeOK'
  BY <1>1, <1>3, <1>4, <1>6 DEF TypeOK, Verdicts, Completed
<1>8. PassOK'
  BY <1>1, <1>2, <1>3, <1>4 DEF PassOK
<1>9. NoFalseCorruption' /\ VerdictIsTrue'
  BY <1>1, <1>2, <1>3, <1>5, <1>6, <1>7 DEF NoFalseCorruption, VerdictIsTrue, Completed, Answered, LifeOK
<1>10. QED BY <1>2, <1>8, <1>9 DEF ObserverInv

\* What a pass without a final record comes to.
LEMMA IssueIs ==
  ASSUME ObserverInv, UNCHANGED evidenceVars, NEW a \in GetAnswers, ResultUnread(a)
  PROVE  /\ EvidenceOK' /\ (lied => lied')
         /\ \E i \in Issues : /\ i = Issue(a)
                              /\ i = "corrupt" => lied' \/ TimelineBroken
                              /\ i = "none" => "result" \notin Published /\ optional = "none" /\ invalid = "none"
<1>1. PassOK /\ TypeOK
  BY DEF ObserverInv, VerdictIsTrue
<1>2. /\ EvidenceOK' /\ (lied => lied') /\ (a = "corrupt" => lied')
      /\ a = "absent" => "result" \notin Published
      /\ a \in {"found", "absent", "transient", "denied", "schema", "corrupt"}
  BY <1>1, OneRead DEF ResultUnread, TypeOK
<1>3. a = "found" => invalid # "none" \/ ResultContradicts
  BY DEF ResultUnread
<1>4. Issue(a) \in Issues
  BY <1>1, <1>2, <1>3 DEF Issue, Issues, PassOK
<1>5. Issue(a) = "corrupt" => lied' \/ TimelineBroken
  BY <1>1, <1>2, RecordsAgree DEF Issue, PassOK
<1>6. Issue(a) = "none" => "result" \notin Published /\ optional = "none" /\ invalid = "none"
  BY <1>1, <1>2, <1>3 DEF Issue, PassOK
<1>7. QED BY <1>2, <1>4, <1>5, <1>6

LEMMA PollEndsKeeps == ASSUME ObserverInv, PollEnds, UNCHANGED evidenceVars PROVE ObserverInv'
<1>1. /\ stage = "result"
      /\ UNCHANGED <<pass, started, outcome, durable, optional, invalid, ssmFailures, answer, atAnswer, ctx>>
  BY DEF PollEnds, ResultUnread
<1>2. verdict = "none" /\ storageFailures < MaxFailures
  BY <1>1, WhileItRuns
<1>3. /\ Published' = Published /\ (TimelineBroken => TimelineBroken')
      /\ UNCHANGED <<phase, holder, known, capture, clock, publication, invocation, expired>> /\ LifeOK'
  BY EvidenceStands DEF ObserverInv
<1>4. TypeOK /\ PassOK
  BY DEF ObserverInv, VerdictIsTrue
<1>5. PICK a \in GetAnswers :
        /\ ResultUnread(a)
        /\ IF Issue(a) = "none"
           THEN storageFailures' = 0 /\ stage' = "ask" /\ UNCHANGED verdict
           ELSE /\ storageFailures' = storageFailures + 1
                /\ IF Issue(a) # "transient" \/ Exhausted(storageFailures')
                   THEN Finish(IssueVerdict[Issue(a)])
                   ELSE stage' = "ask" /\ UNCHANGED verdict
  BY DEF PollEnds
<1>6. /\ EvidenceOK' /\ (lied => lied')
      /\ \E i \in Issues : /\ i = Issue(a)
                           /\ i = "corrupt" => lied' \/ TimelineBroken
                           /\ i = "none" => "result" \notin Published /\ optional = "none" /\ invalid = "none"
  BY <1>5, IssueIs
<1>7. PICK i \in Issues : i = Issue(a) /\ (i = "corrupt" => lied' \/ TimelineBroken)
  BY <1>6
<1>8. MaxFailures \in Nat \ {0} /\ storageFailures \in 0 .. MaxFailures
  BY <1>4, ObserverAssumption DEF TypeOK
<1>9. storageFailures' \in 0 .. MaxFailures
  BY <1>2, <1>5, <1>8
<1>10. CASE stage' = "ask" /\ UNCHANGED verdict
  <2>1. storageFailures' < MaxFailures
    BY <1>1, <1>2, <1>5, <1>8, <1>9, <1>10 DEF Exhausted, Finish
  <2>2. TypeOK'
    BY <1>1, <1>2, <1>4, <1>6, <1>9, <1>10 DEF TypeOK
  <2>3. PassOK'
    BY <1>1, <1>3, <1>4, <1>6, <1>10, <2>1 DEF PassOK
  <2>4. QED BY <1>2, <1>10, <2>2, <2>3, GoesOn
<1>11. CASE i # "none" /\ Finish(IssueVerdict[i])
  <2>1. /\ stage' = "done" /\ verdict' \in {"api_failed", "unsupported_schema", "result_corrupt", "expired"}
        /\ verdict' = "result_corrupt" => i = "corrupt"
    BY <1>11 DEF Finish, IssueVerdict, Issues
  <2>2. TypeOK'
    BY <1>1, <1>4, <1>6, <1>9, <2>1 DEF TypeOK, Verdicts
  <2>3. PassOK'
    BY <1>1, <1>3, <1>4, <1>6, <2>1 DEF PassOK
  <2>4. NoFalseCorruption' /\ VerdictIsTrue'
    BY <1>3, <1>7, <2>1, <2>2 DEF NoFalseCorruption, VerdictIsTrue, Completed, Answered
  <2>5. QED BY <1>3, <2>3, <2>4 DEF ObserverInv
<1>12. QED BY <1>5, <1>7, <1>10, <1>11

LEMMA RereadEndsKeeps == ASSUME ObserverInv, RereadEnds, UNCHANGED evidenceVars PROVE ObserverInv'
<1>1. /\ stage = "result" /\ pass = "reread"
      /\ UNCHANGED <<pass, started, outcome, durable, optional, invalid, storageFailures, ssmFailures,
                     answer, atAnswer, ctx>>
  BY DEF RereadEnds, ResultUnread
<1>2. verdict = "none" /\ storageFailures < MaxFailures
  BY <1>1, WhileItRuns
<1>3. /\ Published' = Published /\ (TimelineBroken => TimelineBroken')
      /\ UNCHANGED <<phase, holder, known, capture, clock, publication, invocation, expired>> /\ LifeOK'
  BY EvidenceStands DEF ObserverInv
<1>4. TypeOK /\ PassOK
  BY DEF ObserverInv, VerdictIsTrue
<1>5. PICK a \in GetAnswers :
        /\ ResultUnread(a)
        /\ CASE Issue(a) = "transient" -> stage' = "sleep" /\ UNCHANGED verdict
             [] Issue(a) = "none" -> Finish(IF Terminal(answer) THEN WrapperVerdict ELSE "ssm_failed")
             [] OTHER -> Finish(IssueVerdict[Issue(a)])
  BY DEF RereadEnds
<1>6. /\ EvidenceOK' /\ (lied => lied')
      /\ \E i \in Issues : /\ i = Issue(a)
                           /\ i = "corrupt" => lied' \/ TimelineBroken
                           /\ i = "none" => "result" \notin Published /\ optional = "none" /\ invalid = "none"
  BY <1>5, IssueIs
<1>7. PICK i \in Issues : /\ i = Issue(a) /\ (i = "corrupt" => lied' \/ TimelineBroken)
                          /\ i = "none" => "result" \notin Published /\ optional = "none" /\ invalid = "none"
  BY <1>6
<1>8. CASE stage' = "sleep" /\ UNCHANGED verdict
  <2>1. TypeOK'
    BY <1>1, <1>2, <1>4, <1>6, <1>8 DEF TypeOK
  <2>2. PassOK'
    BY <1>1, <1>3, <1>4, <1>6, <1>8 DEF PassOK
  <2>3. QED BY <1>2, <1>8, <2>1, <2>2, GoesOn
<1>9. CASE i = "none" /\ Finish(IF Terminal(answer) THEN WrapperVerdict ELSE "ssm_failed")
  <2>1. /\ stage' = "done"
        /\ verdict' \in Answered \cup {"ssm_failed", "execution_timeout", "result_incomplete"}
        /\ verdict' = "execution_timeout" => known = "execution_timeout"
        /\ verdict' = "result_incomplete" => outcome
        /\ verdict' \in Answered => ~outcome
    BY <1>9 DEF Finish, WrapperVerdict, Answered
  <2>2. "result" \notin atAnswer /\ (~outcome => "outcome" \notin atAnswer) /\ (outcome => phase \in Written)
    BY <1>1, <1>4, <1>7, <1>9 DEF PassOK
  <2>3. TypeOK'
    BY <1>1, <1>4, <1>6, <2>1 DEF TypeOK, Verdicts, Answered
  <2>4. PassOK'
    BY <1>1, <1>3, <1>4, <1>6, <2>1 DEF PassOK
  <2>5. NoFalseCorruption' /\ VerdictIsTrue'
    BY <1>1, <1>3, <2>1, <2>2, <2>3 DEF NoFalseCorruption, VerdictIsTrue, Completed, Answered, Written
  <2>6. QED BY <1>3, <2>4, <2>5 DEF ObserverInv
<1>10. CASE i \notin {"none", "transient"} /\ Finish(IssueVerdict[i])
  <2>1. /\ stage' = "done" /\ verdict' \in {"api_failed", "unsupported_schema", "result_corrupt", "expired"}
        /\ verdict' = "result_corrupt" => i = "corrupt"
    BY <1>10 DEF Finish, IssueVerdict, Issues
  <2>2. TypeOK'
    BY <1>1, <1>4, <1>6, <2>1 DEF TypeOK, Verdicts
  <2>3. PassOK'
    BY <1>1, <1>3, <1>4, <1>6, <2>1 DEF PassOK
  <2>4. NoFalseCorruption' /\ VerdictIsTrue'
    BY <1>3, <1>7, <2>1, <2>2 DEF NoFalseCorruption, VerdictIsTrue, Completed, Answered
  <2>5. QED BY <1>3, <2>3, <2>4 DEF ObserverInv
<1>11. QED BY <1>5, <1>7, <1>8, <1>9, <1>10

LEMMA PassBegins == ASSUME ObserverInv, Start \/ Wake, UNCHANGED evidenceVars PROVE ObserverInv'
<1>1. /\ stage \in {"idle", "sleep"} /\ stage' = "started" /\ pass' = "poll" /\ optional' = "none" /\ invalid' = "none"
      /\ UNCHANGED <<readVars, started, outcome, durable, storageFailures, ssmFailures, answer,
                     atAnswer, ctx, verdict>>
  BY DEF Start, Wake, NewPass
<1>2. verdict = "none" /\ storageFailures < MaxFailures
  BY <1>1, WhileItRuns
<1>3. /\ Published' = Published
      /\ UNCHANGED <<phase, holder, known, capture, clock, publication, invocation, expired>>
  BY EvidenceStands
<1>4. TypeOK /\ PassOK
  BY DEF ObserverInv, VerdictIsTrue
<1>5. TypeOK'
  BY <1>1, <1>2, <1>3, <1>4 DEF TypeOK, EvidenceOK, readVars, Issues
<1>6. PassOK'
  BY <1>1, <1>2, <1>3, <1>4 DEF PassOK
<1>7. QED BY <1>1, <1>2, <1>5, <1>6, GoesOn

\* What is stored when SSM answers is remembered; a terminal answer starts the
\* second pass.
LEMMA AskKeeps == ASSUME ObserverInv, Ask, UNCHANGED evidenceVars PROVE ObserverInv'
<1>1. /\ stage = "ask" /\ atAnswer' = Published
      /\ UNCHANGED <<started, outcome, durable, storageFailures, ctx>>
  BY DEF Ask
<1>2. verdict = "none" /\ storageFailures < MaxFailures
  BY <1>1, WhileItRuns
<1>3. /\ Published' = Published /\ (TimelineBroken => TimelineBroken')
      /\ UNCHANGED <<phase, holder, known, capture, clock, publication, invocation, expired>> /\ LifeOK'
  BY EvidenceStands DEF ObserverInv
<1>4. TypeOK /\ PassOK /\ Published \subseteq Kinds
  BY DEF ObserverInv, VerdictIsTrue, Published
<1>5. PICK a \in InvocationAnswers :
        /\ GetInvocation(a) /\ answer' = a
        /\ ssmFailures' = IF a \in {"transient", "denied"} THEN Counted(ssmFailures) ELSE 0
        /\ IF a = "corrupt"
           THEN Finish("result_corrupt") /\ UNCHANGED <<pass, optional, invalid>>
           ELSE AfterAnswer(a)
  BY DEF Ask
<1>6. EvidenceOK' /\ (lied => lied') /\ (a = "corrupt" => lied')
  BY <1>4, <1>5, OneAnswer DEF TypeOK
<1>7. ssmFailures' \in 0 .. MaxFailures
  <2>1. MaxFailures \in Nat \ {0} /\ ssmFailures \in 0 .. MaxFailures
    BY <1>4, ObserverAssumption DEF TypeOK
  <2>2. QED BY <1>5, <2>1 DEF Counted
<1>8. CASE a = "corrupt"
  <2>1. stage' = "done" /\ verdict' = "result_corrupt" /\ UNCHANGED <<pass, optional, invalid>>
    BY <1>5, <1>8 DEF Finish
  <2>2. TypeOK'
    BY <1>1, <1>4, <1>5, <1>6, <1>7, <2>1 DEF TypeOK, Verdicts
  <2>3. PassOK'
    BY <1>1, <1>3, <1>4, <1>6, <2>1 DEF PassOK
  <2>4. NoFalseCorruption' /\ VerdictIsTrue'
    BY <1>6, <1>8, <2>1, <2>2 DEF NoFalseCorruption, VerdictIsTrue, Completed, Answered
  <2>5. QED BY <1>3, <2>3, <2>4 DEF ObserverInv
<1>9. CASE a # "corrupt"
  <2>1. /\ verdict' = verdict /\ stage' \in {"started", "sleep"} /\ pass' \in {pass, "reread"}
        /\ optional' \in {"none", optional} /\ invalid' \in {"none", invalid}
    BY <1>5, <1>9 DEF AfterAnswer, NewPass
  <2>2. TypeOK'
    BY <1>1, <1>2, <1>4, <1>5, <1>6, <1>7, <2>1 DEF TypeOK, Issues
  <2>3. PassOK'
    BY <1>1, <1>2, <1>3, <1>4, <1>6, <2>1 DEF PassOK
  <2>4. QED BY <1>2, <2>1, <2>2, <2>3, GoesOn
<1>10. QED BY <1>8, <1>9

LEMMA StoppedKeeps == ASSUME ObserverInv, Stopped, UNCHANGED evidenceVars PROVE ObserverInv'
<1>1. /\ stage' = "done" /\ verdict' \in {"interrupted", "observation_timeout"}
      /\ UNCHANGED <<readVars, pass, started, outcome, durable, optional, invalid, storageFailures,
                     ssmFailures, answer, atAnswer, ctx>>
  BY DEF Stopped, Finish
<1>2. /\ Published' = Published
      /\ UNCHANGED <<phase, holder, known, capture, clock, publication, invocation, expired>> /\ LifeOK'
  BY EvidenceStands DEF ObserverInv
<1>3. TypeOK /\ PassOK
  BY DEF ObserverInv, VerdictIsTrue
<1>4. TypeOK'
  BY <1>1, <1>2, <1>3 DEF TypeOK, EvidenceOK, readVars, Verdicts, Stops
<1>5. PassOK'
  BY <1>1, <1>2, <1>3 DEF PassOK, readVars, TimelineBroken
<1>6. NoFalseCorruption' /\ VerdictIsTrue'
  BY <1>1, <1>4 DEF NoFalseCorruption, VerdictIsTrue, Completed, Answered
<1>7. QED BY <1>2, <1>5, <1>6 DEF ObserverInv

LEMMA ContextEndsKeeps == ASSUME ObserverInv, ContextEnds, UNCHANGED evidenceVars PROVE ObserverInv'
<1>1. /\ stage # "done" /\ ctx' \in {"canceled", "deadline"}
      /\ UNCHANGED <<readVars, stage, pass, started, outcome, durable, optional, invalid,
                     storageFailures, ssmFailures, answer, atAnswer, verdict>>
  BY DEF ContextEnds
<1>2. /\ Published' = Published
      /\ UNCHANGED <<phase, holder, known, capture, clock, publication, invocation, expired>>
  BY EvidenceStands
<1>3. TypeOK /\ PassOK /\ verdict = "none"
  BY <1>1, WhileItRuns DEF ObserverInv, VerdictIsTrue
<1>4. TypeOK'
  BY <1>1, <1>2, <1>3 DEF TypeOK, EvidenceOK, readVars
<1>5. PassOK'
  BY <1>1, <1>2, <1>3 DEF PassOK, readVars, TimelineBroken
<1>6. QED BY <1>1, <1>3, <1>4, <1>5, GoesOn

\* The command moves under the observer: what was there is still there.
LEMMA CommandMovesKeeps ==
  ASSUME ObserverInv, stage # "done", EvidenceStep, UNCHANGED <<readVars, observerVars>>
  PROVE  ObserverInv'
<1>1. /\ EvidenceOK' /\ LifeOK' /\ Published \subseteq Published'
      /\ TimelineBroken => TimelineBroken'
      /\ phase \in Written => phase' \in Written
  BY LifeMoves DEF ObserverInv, VerdictIsTrue, TypeOK
<1>2. TypeOK /\ PassOK /\ verdict = "none"
  BY WhileItRuns DEF ObserverInv, VerdictIsTrue
<1>3. TypeOK'
  BY <1>1, <1>2 DEF TypeOK, observerVars
<1>4. PassOK'
  BY <1>1, <1>2 DEF PassOK, observerVars, readVars
<1>5. NoFalseCorruption' /\ VerdictIsTrue'
  BY <1>2, <1>3 DEF NoFalseCorruption, VerdictIsTrue, Completed, Answered, observerVars
<1>6. QED BY <1>1, <1>4, <1>5 DEF ObserverInv

----------------------------------------------------------------------------
(* The theorems *)

LEMMA InitIsSafe == Init => ObserverInv
<1> SUFFICES ASSUME Init PROVE ObserverInv
  OBVIOUS
<1>1. EvidenceOK /\ LifeOK
  <2>1. MaxFaults \in Nat
    BY EvidenceAssumption
  <2>2. faults \in 0 .. MaxFaults
    BY <2>1 DEF Init, EvidenceInit
  <2>3. EvidenceOK
    BY <2>2 DEF Init, EvidenceInit, Life!Init, EvidenceOK
  <2>4. QED BY <2>3 DEF Init, EvidenceInit, LifeOK
<1>2. 0 \in 0 .. MaxFailures /\ 0 < MaxFailures
  BY ObserverAssumption
<1>3. TypeOK
  BY <1>1, <1>2 DEF Init, TypeOK, Issues, InvocationAnswers, Verdicts
<1>4. PassOK
  BY <1>2 DEF Init, PassOK
<1>5. NoFalseCorruption /\ VerdictIsTrue
  BY <1>3 DEF Init, NoFalseCorruption, VerdictIsTrue, Completed, Answered
<1>6. QED BY <1>1, <1>4, <1>5 DEF ObserverInv

LEMMA StepKeeps == ObserverInv /\ [Next]_vars => ObserverInv'
<1> SUFFICES ASSUME ObserverInv, [Next]_vars PROVE ObserverInv'
  OBVIOUS
<1>1. CASE ObserverStep
  BY <1>1, ReadStartedKeeps, ReadOutcomeKeeps, ResultReadKeeps, PollEndsKeeps, RereadEndsKeeps, PassBegins,
     AskKeeps, StoppedKeeps DEF ObserverStep
<1>2. CASE ContextEnds /\ UNCHANGED evidenceVars
  BY <1>2, ContextEndsKeeps
<1>3. CASE stage # "done" /\ EvidenceStep /\ UNCHANGED <<readVars, observerVars>>
  BY <1>3, CommandMovesKeeps
<1>4. CASE UNCHANGED vars
  <2>1. UNCHANGED evidenceVars /\ UNCHANGED readVars /\ UNCHANGED observerVars
    BY <1>4 DEF vars
  <2>2. /\ Published' = Published /\ LifeOK' /\ (TimelineBroken => TimelineBroken')
        /\ UNCHANGED <<phase, holder, known, capture, clock, publication, invocation, expired>>
    BY <2>1, EvidenceStands DEF ObserverInv
  <2>3. TypeOK /\ PassOK /\ NoFalseCorruption /\ VerdictIsTrue
    BY DEF ObserverInv, VerdictIsTrue
  <2>4. TypeOK'
    BY <2>1, <2>2, <2>3 DEF TypeOK, EvidenceOK, readVars, observerVars
  <2>5. PassOK'
    BY <2>1, <2>2, <2>3 DEF PassOK, readVars, observerVars
  <2>6. NoFalseCorruption' /\ VerdictIsTrue'
    BY <2>1, <2>2, <2>3, <2>4 DEF NoFalseCorruption, VerdictIsTrue, readVars, observerVars
  <2>7. QED BY <2>2, <2>5, <2>6 DEF ObserverInv
<1>5. QED BY <1>1, <1>2, <1>3, <1>4 DEF Next

\* What a pass has found agrees with what is stored, and what it could not find
\* was not stored when SSM answered (Observe and durable, observe.go).
THEOREM ObserverIsConsistent == Spec => []ObserverInv
BY InitIsSafe, StepKeeps, PTL DEF Spec

\* A verdict states what is recorded, and SSM's word is taken only for what S3
\* did not answer (completedRecord, wrapperFinished and the second pass).
THEOREM VerdictsAreTrue == Spec => []VerdictIsTrue
<1>1. ObserverInv => VerdictIsTrue
  BY DEF ObserverInv
<1>2. QED BY <1>1, ObserverIsConsistent, PTL

\* Genuine records, read in any order and pass while they are written, are
\* called corrupt only when the worker's clock stepped back (sameOutcome,
\* validTimeline).
THEOREM GenuineRecordsAreBelieved == Spec => []NoFalseCorruption
<1>1. ObserverInv => NoFalseCorruption
  BY DEF ObserverInv
<1>2. QED BY <1>1, ObserverIsConsistent, PTL

(***************************************************************************)
(* Readiness: the parts of the invariant                                   *)
(***************************************************************************)
Readinesses == {"not_observed", "unknown", "pending", "ready", "failed", "not_ready"}

\* ReadyTypeOK with the type that NobodyIsForgotten gives the outcomes.
AwsTyped ==
  /\ vm \in [Batch -> {"starting", "running", "gone", "foreign"}]
  /\ boot \in [Batch -> {"offline", "pending", "complete", "failed"}]
  /\ probe \in [Batch -> {"none", "sent", "pending", "complete", "failed"}]
  /\ strange \subseteq Batch /\ troubled \subseteq Batch

RequestTyped ==
  /\ out \in [Batch -> WorkerOutcome] /\ evidence \subseteq Batch /\ bounded \in BOOLEAN
  /\ short \in 0..Short /\ opErr \in {"none", "retryable", "other"} /\ exit \in {0, 1, 3, 4, 9}
  /\ step \in {"sort", "run", "finish", "join", "refresh", "result", "done"}
  /\ spent \in BOOLEAN /\ again \in BOOLEAN

WaitTyped ==
  /\ queue \subseteq Batch /\ errs \subseteq Batch
  /\ doing \in [Goroutines -> {"idle", "take", "verify", "resolve", "ping", "recheck", "send", "poll", "pause"}]
  /\ at \in [Goroutines -> Batch]
  /\ lines \in 0..Buffer /\ writer \in {"idle", "writing", "done", "failed"}

ReadyTyped == AwsTyped /\ RequestTyped /\ WaitTyped

\* ReadyInv less what follows from the rest of it.
ReadyCore ==
  /\ ReadyTyped
  /\ WaitOK /\ TroubleOK /\ ProbeOK /\ StrangerOK /\ EndOK
  /\ ReadyIsWitnessed /\ BoundsAreProven /\ SuccessIsComplete /\ VerifiedGoFirst

LEMMA CoreIsReadyInv == ReadyCore => ReadyInv
<1> SUFFICES ASSUME ReadyCore PROVE ReadyInv OBVIOUS
<1>1. ReadyTypeOK /\ NobodyIsForgotten
  BY DEF ReadyCore, ReadyTyped, AwsTyped, RequestTyped, WaitTyped, ReadyTypeOK, NobodyIsForgotten
<1>2. FailuresAreTheirOwn
  <2> SUFFICES ASSUME step = "join", ~spent, NEW w \in Batch
               PROVE out[w].readiness = "ready" \/ w \in troubled
    BY DEF FailuresAreTheirOwn
  <2>1. queue = {} /\ \A g \in Goroutines : ~Begun(g)
    BY DEF ReadyCore, WaitOK, Begun
  <2> QED BY <2>1 DEF ReadyCore, TroubleOK
<1> QED BY <1>1, <1>2 DEF ReadyCore, ReadyTyped, RequestTyped, ReadyInv, ResultIsHonest

LEMMA ReadyInvIsCore == ReadyInv => ReadyCore
  BY DEF ReadyInv, ResultIsHonest, ReadyTypeOK, ReadyCore, ReadyTyped, AwsTyped, RequestTyped, WaitTyped

\* Outcomes stay outcomes when a field is set.
LEMMA ReadinessNoted ==
  ASSUME NEW o \in WorkerOutcome, NEW r \in Readinesses
  PROVE  /\ [o EXCEPT !.readiness = r] \in WorkerOutcome
         /\ [o EXCEPT !.readiness = r].readiness = r
         /\ [o EXCEPT !.readiness = r].status = o.status
  BY DEF WorkerOutcome, Readinesses

LEMMA StateNoted ==
  ASSUME NEW o \in WorkerOutcome, NEW s \in {"unknown", "starting", "running", "gone"}
  PROVE  /\ [o EXCEPT !.state = s] \in WorkerOutcome
         /\ [o EXCEPT !.state = s].readiness = o.readiness
         /\ [o EXCEPT !.state = s].status = o.status
  BY DEF WorkerOutcome

\* What an inspection reports is an outcome without readiness.
LEMMA InspectionTyped ==
  ASSUME NEW v \in {"starting", "running", "gone", "foreign"}
  PROVE  \A o \in Reconciled(v) : o \in WorkerOutcome /\ o.readiness = "not_observed"
<1>1. \A status \in {"allocated", "historical", "not_observed", "identity_mismatch"},
        state \in {"unknown", "starting", "running", "gone"} :
        FreshOutcome(status, state) \in WorkerOutcome /\ FreshOutcome(status, state).readiness = "not_observed"
  BY DEF FreshOutcome, WorkerOutcome
<1>2. Findings(v) \subseteq {"allocated", "not_observed", "identity_mismatch"}
  BY DEF Findings
<1> QED BY <1>1, <1>2 DEF Reconciled, Verified, NotRead

LEMMA VerifiedIsReconciled == \A v : Verified(v) \subseteq Reconciled(v)
  BY DEF Reconciled

(***************************************************************************)
(* Readiness: a goroutine at work                                          *)
(***************************************************************************)
\* What every step of a goroutine does that has a worker: it notes an outcome
\* and goes on, or is done with the worker.
WorkStep(g, o, to) ==
  /\ Begun(g) /\ o \in WorkerOutcome
  /\ out' = [out EXCEPT ![at[g]] = o] /\ doing' = [doing EXCEPT ![g] = to]
  /\ to \in {"take", "verify", "resolve", "ping", "recheck", "send", "poll", "pause"}
  /\ to = "verify" => doing[g] = "verify"
  /\ to \notin {"take", "verify"} => o.status = "allocated"
  /\ to # "take" => o.readiness # "ready"
  /\ to = "take" => o.readiness = "ready" \/ at[g] \in troubled' \/ spent
  /\ o.readiness = "ready" => o.status = "allocated" /\ probe[at[g]] = "complete" /\ probe' = probe
  /\ to = "send" => at[g] \notin strange
  /\ troubled \subseteq troubled' /\ troubled' \subseteq Batch
  /\ errs \subseteq errs' /\ errs' \subseteq Batch
  /\ probe' \in {probe, [probe EXCEPT ![at[g]] = "sent"]}
  /\ lines' \in 0..Buffer
  /\ UNCHANGED <<theRest, queue, at>>

LEMMA WorkTyped ==
  ASSUME ReadyCore, NEW g \in Goroutines, NEW o, NEW to, WorkStep(g, o, to)
  PROVE  ReadyTyped'
<1> USE DEF WorkStep, theRest, fixed
<1>0. ReadyTyped /\ at[g] \in Batch BY DEF ReadyCore, ReadyTyped, WaitTyped
<1>1. AwsTyped' BY <1>0 DEF ReadyTyped, AwsTyped
<1>2. RequestTyped' BY <1>0 DEF ReadyTyped, RequestTyped
<1>3. WaitTyped' BY <1>0 DEF ReadyTyped, WaitTyped
<1> QED BY <1>1, <1>2, <1>3 DEF ReadyTyped

LEMMA WorkKeeps ==
  ASSUME ReadyCore, NEW g \in Goroutines, NEW o, NEW to, WorkStep(g, o, to)
  PROVE  ReadyCore'
<1>1. ReadyTyped' BY WorkTyped
<1>2. /\ at \in [Goroutines -> Batch] /\ out \in [Batch -> WorkerOutcome] /\ at[g] \in Batch
      /\ doing \in [Goroutines -> {"idle", "take", "verify", "resolve", "ping", "recheck", "send", "poll", "pause"}]
      /\ probe \in [Batch -> {"none", "sent", "pending", "complete", "failed"}]
  BY DEF ReadyCore, ReadyTyped, AwsTyped, RequestTyped, WaitTyped
<1>3. /\ out'[at[g]] = o /\ \A w \in Batch : w # at[g] => out'[w] = out[w]
      /\ doing'[g] = to /\ \A h \in Goroutines : h # g => doing'[h] = doing[h]
  BY <1>2 DEF WorkStep
<1>4. /\ step = "run" /\ step' = "run" /\ doing[g] \notin {"idle", "take"} /\ at' = at /\ queue' = queue
      /\ at[g] \notin queue
  BY DEF WorkStep, theRest, ReadyCore, WaitOK, Begun
<1>5. \A h \in Goroutines : h # g /\ Begun(h) => at[h] # at[g]
  BY DEF WorkStep, ReadyCore, WaitOK
<1>6. WaitOK'
  <2>1. \A h \in Goroutines : Begun(h)' =>
         /\ at'[h] \notin queue' /\ out'[at'[h]].readiness # "ready"
         /\ doing'[h] # "verify" => out'[at'[h]].status = "allocated"
         /\ \A k \in Goroutines : Begun(k)' /\ at'[k] = at'[h] => k = h
    <3> SUFFICES ASSUME NEW h \in Goroutines, Begun(h)'
                 PROVE  /\ at[h] \notin queue /\ out'[at[h]].readiness # "ready"
                        /\ doing'[h] # "verify" => out'[at[h]].status = "allocated"
                        /\ \A k \in Goroutines : Begun(k)' /\ at[k] = at[h] => k = h
      BY <1>4
    <3>1. \A k \in Goroutines : k # g => (Begun(k)' <=> Begun(k))
      BY <1>3 DEF Begun
    <3>2. CASE h = g
      BY <3>1, <3>2, <1>3, <1>4, <1>5 DEF WorkStep, Begun
    <3>3. CASE h # g
      <4>1. Begun(h) /\ at[h] # at[g] /\ at[h] \in Batch BY <3>1, <3>3, <1>5, <1>2
      <4>2. out'[at[h]] = out[at[h]] /\ doing'[h] = doing[h] BY <4>1, <3>3, <1>3
      <4>3. \A k \in Goroutines : Begun(k)' /\ at[k] = at[h] => k = h
        BY <4>1, <3>1 DEF ReadyCore, WaitOK
      <4> QED BY <4>1, <4>2, <4>3 DEF ReadyCore, WaitOK
    <3> QED BY <3>2, <3>3
  <2>2. \A w \in queue' : out'[w].status \in {"allocated", "not_observed"} /\ ~CannotRun(w)' /\ out'[w].readiness # "ready"
    <3>1. queue \subseteq Batch BY DEF ReadyCore, ReadyTyped, WaitTyped
    <3>2. \A w \in queue : out'[w] = out[w] BY <3>1, <1>3, <1>4
    <3> QED BY <3>2, <1>4 DEF ReadyCore, WaitOK, CannotRun
  <2>3. \A h \in Goroutines : doing'[h] = "idle" => queue' = {}
    BY <1>3, <1>4 DEF WorkStep, ReadyCore, WaitOK
  <2> QED BY <2>1, <2>2, <2>3, <1>4 DEF WaitOK
<1>7. TroubleOK'
  <2> SUFFICES ASSUME ~spent, NEW w \in Batch
               PROVE  \/ w \in queue' \/ w \in troubled' \/ out'[w].readiness = "ready"
                      \/ \E h \in Goroutines : Begun(h)' /\ at'[h] = w
    BY DEF TroubleOK, WorkStep, theRest
  <2>1. CASE w = at[g]
    <3>1. CASE to = "take" BY <3>1, <2>1, <1>3 DEF WorkStep
    <3>2. CASE to # "take"
      <4>1. Begun(g)' BY <3>2, <1>3 DEF WorkStep, Begun
      <4> QED BY <4>1, <2>1, <1>4
    <3> QED BY <3>1, <3>2
  <2>2. CASE w # at[g]
    <3>1. \/ w \in queue \/ w \in troubled \/ out[w].readiness = "ready"
          \/ \E h \in Goroutines : Begun(h) /\ at[h] = w
      BY <1>4 DEF ReadyCore, TroubleOK
    <3>2. ASSUME NEW h \in Goroutines, Begun(h), at[h] = w PROVE Begun(h)' /\ at'[h] = w
      BY <3>2, <2>2, <1>3, <1>4 DEF Begun
    <3> QED BY <3>1, <3>2, <2>2, <1>3, <1>4 DEF WorkStep
  <2> QED BY <2>1, <2>2
<1>8. ProbeOK' BY <1>2 DEF ReadyCore, ProbeOK, WorkStep, theRest
<1>9. StrangerOK'
  BY <1>3, <1>4 DEF ReadyCore, StrangerOK, WorkStep, theRest
<1>10. EndOK' BY <1>4 DEF ReadyCore, EndOK, WorkStep, theRest, fixed
<1>11. ReadyIsWitnessed'
  <2>1. DOMAIN out' = Batch /\ DOMAIN out = Batch BY <1>1, <1>2 DEF ReadyTyped, RequestTyped
  <2> SUFFICES ASSUME NEW w \in Batch, out'[w].readiness = "ready"
               PROVE  out'[w].status = "allocated" /\ probe'[w] = "complete" /\ boot'[w] = "complete"
    BY <2>1 DEF ReadyIsWitnessed
  <2>2. CASE w = at[g] BY <2>2, <1>3 DEF WorkStep, theRest, ReadyCore, ProbeOK
  <2>3. CASE w # at[g]
    <3>1. probe'[w] = probe[w] /\ boot' = boot BY <2>3, <1>2 DEF WorkStep, theRest
    <3> QED BY <3>1, <2>3, <1>3, <2>1 DEF ReadyCore, ReadyIsWitnessed
  <2> QED BY <2>2, <2>3
<1>12. BoundsAreProven' BY DEF ReadyCore, BoundsAreProven, WorkStep, theRest
<1>13. SuccessIsComplete'
  <2>1. exit' = 9 BY <1>4 DEF WorkStep, theRest, ReadyCore, EndOK
  <2> QED BY <2>1 DEF SuccessIsComplete
<1>14. VerifiedGoFirst'
  <2> SUFFICES ASSUME NEW h \in Goroutines, doing'[h] = "verify", NEW w \in queue
               PROVE  out'[w].status # "allocated"
    BY <1>4 DEF VerifiedGoFirst
  <2>1. doing[h] = "verify" BY <1>3 DEF WorkStep
  <2>2. out'[w] = out[w] BY <1>3, <1>4 DEF ReadyCore, ReadyTyped, WaitTyped
  <2> QED BY <2>1, <2>2 DEF ReadyCore, VerifiedGoFirst
<1> QED BY <1>1, <1>6, <1>7, <1>8, <1>9, <1>10, <1>11, <1>12, <1>13, <1>14 DEF ReadyCore

(***************************************************************************)
(* Readiness: the steps of a goroutine                                     *)
(***************************************************************************)
\* What a worker has whose goroutine is past its verification.
LEMMA AtWork ==
  ASSUME ReadyCore, NEW g \in Goroutines, Begun(g)
  PROVE  /\ at[g] \in Batch /\ out[at[g]] \in WorkerOutcome /\ out[at[g]].readiness # "ready"
         /\ doing[g] # "verify" => out[at[g]].status = "allocated"
         /\ troubled \subseteq Batch /\ errs \subseteq Batch /\ lines \in 0..Buffer
         /\ out = [out EXCEPT ![at[g]] = out[at[g]]]
  BY DEF ReadyCore, ReadyTyped, AwsTyped, RequestTyped, WaitTyped, WaitOK

LEMMA PrintsTyped == ASSUME lines \in 0..Buffer, Prints PROVE lines' \in 0..Buffer
  BY ReadinessAssumption DEF Prints

\* A goroutine that gives its worker an outcome is done with it.
LEMMA GivesWorks ==
  ASSUME ReadyCore, NEW g \in Goroutines, Begun(g), NEW o \in WorkerOutcome, Gives(g, o), UNCHANGED theRest,
         o.readiness = "ready" => o.status = "allocated" /\ probe[at[g]] = "complete" /\ probe' = probe,
         o.readiness = "ready" \/ at[g] \in troubled' \/ spent,
         troubled \subseteq troubled', troubled' \subseteq Batch, lines' \in 0..Buffer,
         probe' \in {probe, [probe EXCEPT ![at[g]] = "sent"]}
  PROVE  ReadyCore'
<1>1. errs \subseteq errs' /\ errs' \subseteq Batch BY AtWork DEF Gives
<1>2. WorkStep(g, o, "take") BY <1>1 DEF WorkStep, Gives, Afterwards
<1> QED BY <1>2, WorkKeeps

\* It ends without an answer, or moves on.
LEMMA EndsWork ==
  ASSUME ReadyCore, NEW g \in Goroutines, Begun(g), UNCHANGED theRest, lines' \in 0..Buffer,
         probe' \in {probe, [probe EXCEPT ![at[g]] = "sent"]},
         Fails(g) \/ OutOfTime(g) \/ NotRunning(g)
  PROVE  ReadyCore'
<1>1. at[g] \in Batch /\ out[at[g]] \in WorkerOutcome /\ troubled \subseteq Batch BY AtWork
<1>2. /\ Noted(g, "unknown") \in WorkerOutcome /\ Noted(g, "unknown").readiness = "unknown"
      /\ Noted(g, "not_ready") \in WorkerOutcome /\ Noted(g, "not_ready").readiness = "not_ready"
  BY <1>1, ReadinessNoted DEF Noted, Readinesses
<1>3. /\ [Noted(g, "not_ready") EXCEPT !.state = "gone"] \in WorkerOutcome
      /\ [Noted(g, "not_ready") EXCEPT !.state = "gone"].readiness = "not_ready"
  BY <1>2, StateNoted
<1>4. CASE Fails(g) BY <1>4, <1>1, <1>2, GivesWorks DEF Fails
<1>5. CASE OutOfTime(g) BY <1>5, <1>1, <1>2, GivesWorks DEF OutOfTime
<1>6. CASE NotRunning(g) BY <1>6, <1>1, <1>3, GivesWorks DEF NotRunning
<1> QED BY <1>4, <1>5, <1>6

LEMMA MovesWork ==
  ASSUME ReadyCore, NEW g \in Goroutines, Begun(g), UNCHANGED <<theRest, troubled>>, lines' \in 0..Buffer,
         NEW to \in {"verify", "resolve", "ping", "recheck", "send", "poll", "pause"}, Moves(g, to),
         NEW o \in WorkerOutcome, out' = [out EXCEPT ![at[g]] = o], o.readiness # "ready",
         probe' \in {probe, [probe EXCEPT ![at[g]] = "sent"]},
         to = "verify" => doing[g] = "verify",
         to # "verify" => o.status = "allocated",
         to = "send" => at[g] \notin strange
  PROVE  ReadyCore'
<1>1. WorkStep(g, o, to) BY AtWork DEF WorkStep, Moves
<1> QED BY <1>1, WorkKeeps

LEMMA VerifyKeeps == ASSUME ReadyCore, NEW g \in Goroutines, Verify(g) PROVE ReadyCore'
<1>1. Begun(g) /\ doing[g] = "verify" /\ UNCHANGED theRest /\ probe' = probe /\ lines' \in 0..Buffer
  BY DEF Verify, Begun, ReadyCore, ReadyTyped, WaitTyped
<1>2. CASE Fails(g) \/ OutOfTime(g) BY <1>1, <1>2, EndsWork
<1>3. ASSUME NEW o \in Verified(vm[at[g]]) \union {[NotRead EXCEPT !.state = out[at[g]].state]},
             \/ /\ Gives(g, [o EXCEPT !.readiness = "unknown"])
                /\ troubled' = troubled \union {at[g]}
             \/ /\ o.status = "allocated" /\ UNCHANGED troubled
                /\ out' = [out EXCEPT ![at[g]] = o] /\ Moves(g, "resolve")
             \/ /\ o.status = "not_observed" /\ o.state # "gone" /\ UNCHANGED troubled
                /\ out' = [out EXCEPT ![at[g]] = o] /\ Moves(g, "verify")
      PROVE  ReadyCore'
  <2>1. at[g] \in Batch /\ out[at[g]] \in WorkerOutcome /\ troubled \subseteq Batch
    BY <1>1, AtWork
  <2>2. vm[at[g]] \in {"starting", "running", "gone", "foreign"}
    BY <2>1 DEF ReadyCore, ReadyTyped, AwsTyped
  <2>3. o \in WorkerOutcome /\ o.readiness = "not_observed"
    <3>1. NotRead \in WorkerOutcome /\ NotRead.readiness = "not_observed"
      BY <2>2, InspectionTyped DEF Reconciled
    <3>2. out[at[g]].state \in {"unknown", "starting", "running", "gone"} BY <2>1 DEF WorkerOutcome
    <3>3. /\ [NotRead EXCEPT !.state = out[at[g]].state] \in WorkerOutcome
          /\ [NotRead EXCEPT !.state = out[at[g]].state].readiness = "not_observed"
      BY <3>1, <3>2, StateNoted
    <3>4. CASE o \in Verified(vm[at[g]]) BY <3>4, <2>2, InspectionTyped, VerifiedIsReconciled
    <3> QED BY <1>3, <3>3, <3>4
  <2>4. /\ [o EXCEPT !.readiness = "unknown"] \in WorkerOutcome
        /\ [o EXCEPT !.readiness = "unknown"].readiness = "unknown"
    BY <2>3, ReadinessNoted DEF Readinesses
  <2>5. CASE Gives(g, [o EXCEPT !.readiness = "unknown"]) /\ troubled' = troubled \union {at[g]}
    BY <2>5, <1>1, <2>1, <2>4, GivesWorks
  <2>6. CASE o.status = "allocated" /\ out' = [out EXCEPT ![at[g]] = o] /\ Moves(g, "resolve") /\ UNCHANGED troubled
    BY <2>6, <1>1, <2>3, MovesWork
  <2>7. CASE out' = [out EXCEPT ![at[g]] = o] /\ Moves(g, "verify") /\ UNCHANGED troubled
    BY <2>7, <1>1, <2>3, MovesWork
  <2> QED BY <1>3, <2>5, <2>6, <2>7
<1> QED BY <1>2, <1>3 DEF Verify

LEMMA ResolveKeeps == ASSUME ReadyCore, NEW g \in Goroutines, Resolve(g) PROVE ReadyCore'
<1>1. Begun(g) /\ doing[g] = "resolve" /\ UNCHANGED theRest /\ probe' = probe /\ lines' \in 0..Buffer
  BY DEF Resolve, Begun, ReadyCore, ReadyTyped, WaitTyped
<1>2. CASE Fails(g) \/ OutOfTime(g) \/ NotRunning(g) BY <1>1, <1>2, EndsWork
<1>3. ASSUME out' = [out EXCEPT ![at[g]].state = IF vm[at[g]] = "starting" THEN "starting" ELSE "running"],
             Moves(g, "ping"), UNCHANGED troubled
      PROVE  ReadyCore'
  <2> DEFINE seen == IF vm[at[g]] = "starting" THEN "starting" ELSE "running"
             o == [out[at[g]] EXCEPT !.state = seen]
  <2>0. seen \in {"unknown", "starting", "running", "gone"} OBVIOUS
  <2>1. /\ out[at[g]] \in WorkerOutcome /\ out[at[g]].readiness # "ready" /\ out[at[g]].status = "allocated"
    BY <1>1, AtWork
  <2>2. out' = [out EXCEPT ![at[g]] = o] BY <1>3
  <2> HIDE DEF seen
  <2>3. o \in WorkerOutcome /\ o.readiness = out[at[g]].readiness /\ o.status = out[at[g]].status
    BY <2>0, <2>1, StateNoted
  <2> HIDE DEF o
  <2>4. o.readiness # "ready" /\ o.status = "allocated" BY <2>1, <2>3
  <2> QED BY <2>2, <2>3, <2>4, <1>1, <1>3, MovesWork
<1> QED BY <1>2, <1>3 DEF Resolve

LEMMA PingKeeps == ASSUME ReadyCore, NEW g \in Goroutines, Ping(g) PROVE ReadyCore'
<1>1. Begun(g) /\ doing[g] = "ping" /\ UNCHANGED theRest /\ probe' = probe
  BY DEF Ping, Begun
<1>2. /\ out[at[g]] \in WorkerOutcome /\ out[at[g]].status = "allocated" /\ lines \in 0..Buffer
  BY <1>1, AtWork
<1>3. Prints \/ UNCHANGED lines => lines' \in 0..Buffer BY <1>2, PrintsTyped
<1>4. CASE Prints /\ (OutOfTime(g) \/ Fails(g)) BY <1>1, <1>3, <1>4, EndsWork
<1>5. ASSUME NEW to \in {"recheck", "pause"}, out' = [out EXCEPT ![at[g]].readiness = "pending"],
             Moves(g, to), UNCHANGED troubled, Prints \/ UNCHANGED lines
      PROVE  ReadyCore'
  <2> DEFINE o == [out[at[g]] EXCEPT !.readiness = "pending"]
  <2>1. o \in WorkerOutcome /\ o.readiness # "ready" /\ o.status = "allocated"
    BY <1>2, ReadinessNoted DEF Readinesses
  <2>2. out' = [out EXCEPT ![at[g]] = o] BY <1>5
  <2> QED BY <2>1, <2>2, <1>1, <1>3, <1>5, MovesWork
<1> QED BY <1>4, <1>5 DEF Ping

LEMMA RecheckKeeps == ASSUME ReadyCore, NEW g \in Goroutines, Recheck(g) PROVE ReadyCore'
<1>1. Begun(g) /\ doing[g] = "recheck" /\ UNCHANGED theRest /\ probe' = probe
  BY DEF Recheck, Begun
<1>2. /\ out[at[g]] \in WorkerOutcome /\ out[at[g]].status = "allocated" /\ lines \in 0..Buffer
      /\ out[at[g]].readiness # "ready" /\ out = [out EXCEPT ![at[g]] = out[at[g]]]
  BY <1>1, AtWork
<1>3. Prints \/ UNCHANGED lines => lines' \in 0..Buffer BY <1>2, PrintsTyped
<1>4. CASE Prints /\ (OutOfTime(g) \/ Fails(g) \/ NotRunning(g)) BY <1>1, <1>3, <1>4, EndsWork
<1>5. CASE /\ SameLaunch(vm[at[g]]) /\ vm[at[g]] # "gone" /\ Moves(g, "send") /\ UNCHANGED <<out, lines, troubled>>
  <2>1. at[g] \notin strange BY <1>5 DEF SameLaunch, ReadyCore, StrangerOK
  <2> QED BY <2>1, <1>5, <1>1, <1>2, <1>3, MovesWork
<1> QED BY <1>4, <1>5 DEF Recheck

LEMMA SendKeeps == ASSUME ReadyCore, NEW g \in Goroutines, Send(g) PROVE ReadyCore'
<1>1. Begun(g) /\ doing[g] = "send" /\ UNCHANGED theRest
  BY DEF Send, Begun
<1>2. /\ out[at[g]] \in WorkerOutcome /\ out[at[g]].status = "allocated" /\ lines \in 0..Buffer
      /\ out[at[g]].readiness # "ready" /\ out = [out EXCEPT ![at[g]] = out[at[g]]]
  BY <1>1, AtWork
<1>3. Prints \/ UNCHANGED lines => lines' \in 0..Buffer BY <1>2, PrintsTyped
<1>4. CASE /\ probe' \in {probe, [probe EXCEPT ![at[g]] = "sent"]} /\ Prints /\ (OutOfTime(g) \/ Fails(g))
  BY <1>1, <1>3, <1>4, EndsWork
<1>5. CASE probe' = [probe EXCEPT ![at[g]] = "sent"] /\ Moves(g, "poll") /\ UNCHANGED <<out, lines, troubled>>
  BY <1>5, <1>1, <1>2, <1>3, MovesWork
<1> QED BY <1>4, <1>5 DEF Send

LEMMA PollKeeps == ASSUME ReadyCore, NEW g \in Goroutines, Poll(g) PROVE ReadyCore'
<1>1. Begun(g) /\ doing[g] = "poll" /\ UNCHANGED theRest /\ probe' = probe /\ Prints
  BY DEF Poll, Begun
<1>2. /\ out[at[g]] \in WorkerOutcome /\ out[at[g]].status = "allocated" /\ lines \in 0..Buffer
      /\ out[at[g]].readiness # "ready" /\ out = [out EXCEPT ![at[g]] = out[at[g]]]
      /\ at[g] \in Batch /\ troubled \subseteq Batch
  BY <1>1, AtWork
<1>3. lines' \in 0..Buffer BY <1>1, <1>2, PrintsTyped
<1>4. CASE OutOfTime(g) \/ Fails(g) BY <1>1, <1>3, <1>4, EndsWork
<1>5. CASE probe[at[g]] = "complete" /\ Gives(g, Noted(g, "ready")) /\ UNCHANGED troubled
  <2>1. /\ Noted(g, "ready") \in WorkerOutcome /\ Noted(g, "ready").readiness = "ready"
        /\ Noted(g, "ready").status = "allocated"
    BY <1>2, ReadinessNoted DEF Noted, Readinesses
  <2> QED BY <2>1, <1>1, <1>2, <1>3, <1>5, GivesWorks
<1>6. CASE Gives(g, Noted(g, "failed")) /\ troubled' = troubled \union {at[g]}
  <2>1. Noted(g, "failed") \in WorkerOutcome /\ Noted(g, "failed").readiness = "failed"
    BY <1>2, ReadinessNoted DEF Noted, Readinesses
  <2> QED BY <2>1, <1>1, <1>2, <1>3, <1>6, GivesWorks
<1>7. CASE Moves(g, "pause") /\ UNCHANGED <<out, troubled>> BY <1>7, <1>1, <1>2, <1>3, MovesWork
<1> QED BY <1>4, <1>5, <1>6, <1>7 DEF Poll

LEMMA PauseKeeps == ASSUME ReadyCore, NEW g \in Goroutines, Pause(g) PROVE ReadyCore'
<1>1. Begun(g) /\ doing[g] = "pause" /\ UNCHANGED theRest /\ probe' = probe /\ lines' = lines
  BY DEF Pause, Begun
<1>2. /\ out[at[g]] \in WorkerOutcome /\ out[at[g]].status = "allocated" /\ lines \in 0..Buffer
      /\ out[at[g]].readiness # "ready" /\ out = [out EXCEPT ![at[g]] = out[at[g]]]
  BY <1>1, AtWork
<1>3. CASE OutOfTime(g) BY <1>1, <1>2, <1>3, EndsWork
<1>4. CASE Moves(g, "resolve") /\ UNCHANGED <<out, troubled>> BY <1>4, <1>1, <1>2, MovesWork
<1> QED BY <1>3, <1>4 DEF Pause

LEMMA TakeKeeps == ASSUME ReadyCore, NEW g \in Goroutines, Take(g) PROVE ReadyCore'
<1>1. /\ at \in [Goroutines -> Batch] /\ queue \subseteq Batch /\ lines \in 0..Buffer
      /\ doing \in [Goroutines -> {"idle", "take", "verify", "resolve", "ping", "recheck", "send", "poll", "pause"}]
  BY DEF ReadyCore, ReadyTyped, WaitTyped
<1>2. /\ doing[g] = "take" /\ step = "run" /\ step' = "run" /\ exit = 9 /\ exit' = 9
      /\ UNCHANGED <<theRest, probe, out, errs, troubled>>
  BY DEF Take, ReadyCore, WaitOK, EndOK, theRest
<1>3. AwsTyped' /\ RequestTyped' /\ ProbeOK' /\ EndOK' /\ ReadyIsWitnessed' /\ BoundsAreProven' /\ SuccessIsComplete'
  <2>1. AwsTyped' BY <1>2 DEF ReadyCore, ReadyTyped, AwsTyped, theRest
  <2>2. RequestTyped' BY <1>2 DEF ReadyCore, ReadyTyped, RequestTyped, theRest, fixed
  <2>3. EndOK' BY <1>2 DEF ReadyCore, EndOK, theRest
  <2>4. ProbeOK' /\ ReadyIsWitnessed' /\ BoundsAreProven'
    BY <1>2 DEF ReadyCore, ProbeOK, ReadyIsWitnessed, BoundsAreProven, theRest
  <2>5. SuccessIsComplete' BY <1>2 DEF SuccessIsComplete
  <2> QED BY <2>1, <2>2, <2>3, <2>4, <2>5
<1>4. CASE queue = {} /\ doing' = [doing EXCEPT ![g] = "idle"] /\ UNCHANGED <<queue, at, lines>>
  <2>1. WaitTyped' BY <1>1, <1>2, <1>4 DEF ReadyCore, ReadyTyped, WaitTyped, theRest
  <2>2. /\ \A h \in Goroutines : (Begun(h)' <=> Begun(h))
        /\ \A h \in Goroutines : Begun(h) => doing'[h] = doing[h]
    BY <1>1, <1>2, <1>4 DEF Begun
  <2>3. WaitOK' BY <2>2, <1>1, <1>2, <1>4 DEF ReadyCore, WaitOK
  <2>4. TroubleOK'
    <3>1. step' = step /\ spent' = spent /\ out' = out /\ troubled' = troubled /\ queue' = queue /\ at' = at
      BY <1>2, <1>4 DEF theRest
    <3> QED BY <3>1, <2>2 DEF ReadyCore, TroubleOK
  <2>5. StrangerOK' BY <2>2, <1>1, <1>2, <1>4 DEF ReadyCore, StrangerOK, theRest
  <2>6. VerifiedGoFirst' BY <1>4 DEF VerifiedGoFirst
  <2> QED BY <1>3, <2>1, <2>3, <2>4, <2>5, <2>6 DEF ReadyCore, ReadyTyped
<1>5. ASSUME NEW w \in queue, NEW to \in {"verify", "resolve"}, \A v \in queue \ {w} : Precedes(w, v),
             queue' = queue \ {w}, at' = [at EXCEPT ![g] = w], doing' = [doing EXCEPT ![g] = to],
             to = "verify" <=> out[w].status = "not_observed", lines' \in 0..Buffer
      PROVE  ReadyCore'
  <2>1. WaitTyped' BY <1>1, <1>2, <1>5 DEF ReadyCore, ReadyTyped, WaitTyped, theRest
  <2>2. /\ at'[g] = w /\ doing'[g] = to /\ w \in Batch
        /\ \A h \in Goroutines : h # g => at'[h] = at[h] /\ doing'[h] = doing[h]
    BY <1>1, <1>5
  <2>3. Begun(g)' /\ ~Begun(g) BY <2>2, <1>2 DEF Begun
  <2>4. \A h \in Goroutines : h # g => (Begun(h)' <=> Begun(h)) BY <2>2 DEF Begun
  <2>5. out' = out /\ step' = step /\ spent' = spent /\ strange' = strange /\ vm' = vm /\ troubled' = troubled
    BY <1>2 DEF theRest
  <2>6. /\ out[w].status \in {"allocated", "not_observed"} /\ out[w].readiness # "ready"
        /\ \A h \in Goroutines : Begun(h) => at[h] \notin queue
    BY DEF ReadyCore, WaitOK
  <2>7. WaitOK'
    <3>1. \A h \in Goroutines : Begun(h)' =>
           /\ at'[h] \notin queue' /\ out'[at'[h]].readiness # "ready"
           /\ doing'[h] # "verify" => out'[at'[h]].status = "allocated"
           /\ \A k \in Goroutines : Begun(k)' /\ at'[k] = at'[h] => k = h
      <4> SUFFICES ASSUME NEW h \in Goroutines, Begun(h)'
                   PROVE  /\ at'[h] \notin queue' /\ out[at'[h]].readiness # "ready"
                          /\ doing'[h] # "verify" => out[at'[h]].status = "allocated"
                          /\ \A k \in Goroutines : Begun(k)' /\ at'[k] = at'[h] => k = h
        BY <2>5
      <4>1. CASE h = g
        <5>1. \A k \in Goroutines : Begun(k)' /\ at'[k] = at'[h] => k = h
          BY <4>1, <2>2, <2>4, <2>6
        <5> QED BY <5>1, <4>1, <2>2, <2>6, <1>5
      <4>2. CASE h # g
        <5>1. Begun(h) /\ at'[h] = at[h] /\ doing'[h] = doing[h] /\ at[h] # w BY <4>2, <2>2, <2>4, <2>6
        <5>2. \A k \in Goroutines : Begun(k)' /\ at'[k] = at'[h] => k = h
          BY <5>1, <2>2, <2>4 DEF ReadyCore, WaitOK
        <5> QED BY <5>1, <5>2, <1>5 DEF ReadyCore, WaitOK
      <4> QED BY <4>1, <4>2
    <3>2. \A v \in queue' : out'[v].status \in {"allocated", "not_observed"} /\ ~CannotRun(v)' /\ out'[v].readiness # "ready"
      BY <2>5, <1>5 DEF ReadyCore, WaitOK, CannotRun
    <3>3. \A h \in Goroutines : doing'[h] = "idle" => queue' = {}
      BY <2>2, <1>2, <1>5 DEF ReadyCore, WaitOK
    <3> QED BY <3>1, <3>2, <3>3, <1>2 DEF WaitOK
  <2>8. TroubleOK'
    <3> SUFFICES ASSUME ~spent, NEW v \in Batch
                 PROVE  \/ v \in queue' \/ v \in troubled \/ out[v].readiness = "ready"
                        \/ \E h \in Goroutines : Begun(h)' /\ at'[h] = v
      BY <2>5 DEF TroubleOK
    <3>1. CASE v = w BY <3>1, <2>2, <2>3
    <3>2. CASE v # w
      <4>1. \/ v \in queue' \/ v \in troubled \/ out[v].readiness = "ready"
            \/ \E h \in Goroutines : Begun(h) /\ at[h] = v
        BY <3>2, <1>2, <1>5 DEF ReadyCore, TroubleOK
      <4> QED BY <4>1, <2>2, <2>3, <2>4
    <3> QED BY <3>1, <3>2
  <2>9. StrangerOK' BY <2>2, <2>5, <1>5 DEF ReadyCore, StrangerOK
  <2>10. VerifiedGoFirst'
    <3> SUFFICES ASSUME NEW h \in Goroutines, doing'[h] = "verify", NEW v \in queue, v # w
                 PROVE  out[v].status # "allocated"
      BY <2>5, <1>5 DEF VerifiedGoFirst
    <3>1. CASE h = g
      <4>1. ~Ready(w) BY <3>1, <2>2, <1>5 DEF Ready
      <4>2. ~Ready(v) BY <4>1, <1>5 DEF Precedes, Ready
      <4> QED BY <4>2 DEF Ready, ReadyCore, WaitOK
    <3>2. CASE h # g BY <3>2, <2>2 DEF ReadyCore, VerifiedGoFirst
    <3> QED BY <3>1, <3>2
  <2> QED BY <1>3, <2>1, <2>7, <2>8, <2>9, <2>10 DEF ReadyCore, ReadyTyped
<1>6. Prints \/ UNCHANGED lines => lines' \in 0..Buffer BY <1>1, PrintsTyped
<1> QED BY <1>4, <1>5, <1>6 DEF Take

LEMMA GoroutineKeeps == ASSUME ReadyCore, NEW g \in Goroutines, Goroutine(g) PROVE ReadyCore'
  BY TakeKeeps, VerifyKeeps, ResolveKeeps, PingKeeps, RecheckKeeps, SendKeeps, PollKeeps, PauseKeeps DEF Goroutine

(***************************************************************************)
(* Readiness: before and after the goroutines                              *)
(***************************************************************************)
\* Nobody is at work, and nothing is decided, outside of "run" and "done".
LEMMA OnlyInRun ==
  ASSUME ReadyCore, step # "run"
  PROVE  queue = {} /\ \A g \in Goroutines : doing[g] = "idle" /\ ~Begun(g)
  BY DEF ReadyCore, WaitOK, Begun, ReadyTyped, WaitTyped

LEMMA NotYetDecided == ASSUME ReadyCore, step # "done" PROVE exit = 9
  BY DEF ReadyCore, EndOK

\* What an end of the wait leaves when it moves on alone.
LEMMA PhaseTyped ==
  ASSUME ReadyCore, UNCHANGED <<ends, request, short, exit>>,
         step' \in {"sort", "run", "finish", "join", "refresh", "result", "done"}
  PROVE  ReadyTyped'
<1> USE DEF ends, aws, request, slots, history
<1>1. AwsTyped' BY DEF ReadyCore, ReadyTyped, AwsTyped
<1>2. RequestTyped' BY DEF ReadyCore, ReadyTyped, RequestTyped
<1>3. WaitTyped' BY DEF ReadyCore, ReadyTyped, WaitTyped
<1> QED BY <1>1, <1>2, <1>3 DEF ReadyTyped

LEMMA EndsKeep ==
  ASSUME ReadyCore, Joined \/ FinishProgress \/ Join
  PROVE  ReadyCore'
<1>1. UNCHANGED <<ends, request, short, exit>> BY DEF Joined, FinishProgress, Join
<1>2. /\ step \in {"run", "finish", "join"} /\ step' \in {"finish", "join", "refresh", "result"}
      /\ step' = "finish" => step = "run"
      /\ step' \in {"refresh", "result"} => step = "join"
      /\ step' = "refresh" => again
      /\ step' = "join" => step = "finish" /\ (spent \/ writer \in {"done", "failed"})
  BY DEF Joined, FinishProgress, Join
<1>3. ReadyTyped' BY <1>1, <1>2, PhaseTyped
<1>4. queue = {} /\ \A g \in Goroutines : doing[g] = "idle"
  <2>1. CASE Joined BY <2>1, ReadinessAssumption DEF Joined, ReadyCore, WaitOK
  <2>2. CASE FinishProgress \/ Join BY <2>2, OnlyInRun DEF FinishProgress, Join
  <2> QED BY <2>1, <2>2
<1>5. /\ out' = out /\ queue' = queue /\ doing' = doing /\ at' = at /\ errs' = errs /\ probe' = probe /\ boot' = boot
      /\ vm' = vm /\ strange' = strange /\ troubled' = troubled /\ spent' = spent /\ exit' = exit
      /\ writer' = writer /\ again' = again /\ bounded' = bounded /\ opErr' = opErr
  BY <1>1 DEF ends, aws, request, slots, history
<1>6. WaitOK' BY <1>2, <1>4, <1>5 DEF WaitOK, Begun
<1>7. TroubleOK'
  <2>1. \A g \in Goroutines : Begun(g)' <=> Begun(g) BY <1>5 DEF Begun
  <2> QED BY <2>1, <1>2, <1>5 DEF ReadyCore, TroubleOK
<1>8. ProbeOK' /\ StrangerOK' BY <1>5 DEF ReadyCore, ProbeOK, StrangerOK
<1>9. EndOK' BY <1>2, <1>5 DEF ReadyCore, EndOK
<1>10. ReadyIsWitnessed' /\ BoundsAreProven' BY <1>5 DEF ReadyCore, ReadyIsWitnessed, BoundsAreProven
<1>11. SuccessIsComplete' BY <1>2, <1>5, NotYetDecided DEF SuccessIsComplete
<1>12. VerifiedGoFirst' BY <1>4, <1>5 DEF VerifiedGoFirst
<1> QED BY <1>3, <1>6, <1>7, <1>8, <1>9, <1>10, <1>11, <1>12 DEF ReadyCore

LEMMA SortKeeps == ASSUME ReadyCore, Sort PROVE ReadyCore'
<1> PICK verified \in BOOLEAN :
      LET waits == IF verified /\ ~spent THEN Waiting ELSE {}
          others == Batch \ waits
      IN  /\ out' = [w \in Batch |-> IF w \in others THEN Rejected(w) ELSE out[w]]
          /\ queue' = waits /\ errs' = others /\ troubled' = troubled \union others
          /\ doing' = [g \in Goroutines |-> IF waits = {} THEN "idle" ELSE "take"]
          /\ step' = IF waits = {} THEN "join" ELSE "run"
  BY DEF Sort
<1> DEFINE waits == IF verified /\ ~spent THEN Waiting ELSE {}
<1>1. /\ out' = [w \in Batch |-> IF w \in Batch \ waits THEN Rejected(w) ELSE out[w]]
      /\ queue' = waits /\ errs' = Batch \ waits /\ troubled' = troubled \union (Batch \ waits)
      /\ doing' = [g \in Goroutines |-> IF waits = {} THEN "idle" ELSE "take"]
      /\ step' = IF waits = {} THEN "join" ELSE "run"
  OBVIOUS
<1>2. /\ step = "sort" /\ again' = (\E w \in Batch : Eligible(w))
      /\ UNCHANGED <<aws, bounded, opErr, fixed, exit, at, spent, lines, writer, strange>>
  BY DEF Sort
<1>3. /\ waits \subseteq Batch
      /\ \A w \in waits : out[w].status \in {"allocated", "not_observed"} /\ ~CannotRun(w)
  BY DEF Waiting, Ready, PendingStartup
<1>4. out \in [Batch -> WorkerOutcome] /\ troubled \subseteq Batch /\ again' \in BOOLEAN
  BY <1>2 DEF ReadyCore, ReadyTyped, RequestTyped, AwsTyped
<1> HIDE DEF waits
<1>5. \A w \in Batch : Rejected(w) \in WorkerOutcome /\ Rejected(w).readiness \in {"not_ready", "unknown"}
  <2> SUFFICES ASSUME NEW w \in Batch
               PROVE  Rejected(w) \in WorkerOutcome /\ Rejected(w).readiness \in {"not_ready", "unknown"}
    OBVIOUS
  <2>1. out[w] \in WorkerOutcome BY <1>4
  <2>2. /\ [out[w] EXCEPT !.readiness = "not_ready"] \in WorkerOutcome
        /\ [out[w] EXCEPT !.readiness = "not_ready"].readiness = "not_ready"
        /\ [out[w] EXCEPT !.readiness = "unknown"] \in WorkerOutcome
        /\ [out[w] EXCEPT !.readiness = "unknown"].readiness = "unknown"
    BY <2>1, ReadinessNoted DEF Readinesses
  <2>3. CASE CannotRun(w) /\ Admitted(w) BY <2>2, <2>3 DEF Rejected
  <2>4. CASE ~(CannotRun(w) /\ Admitted(w)) BY <2>2, <2>4 DEF Rejected
  <2> QED BY <2>3, <2>4
<1>6. \A w \in Batch : out'[w] \in WorkerOutcome /\ out'[w].readiness # "ready"
  BY <1>1, <1>2, <1>4, <1>5 DEF ReadyCore, WaitOK
<1>7. \A w \in waits : out'[w] = out[w] BY <1>1, <1>3
<1>8. out' \in [Batch -> WorkerOutcome] BY <1>1, <1>6
<1>9. ReadyTyped'
  <2>1. AwsTyped' BY <1>1, <1>2, <1>4 DEF ReadyCore, ReadyTyped, AwsTyped, aws
  <2>2. RequestTyped' BY <1>1, <1>2, <1>4, <1>8 DEF ReadyCore, ReadyTyped, RequestTyped, fixed
  <2>3. WaitTyped' BY <1>1, <1>2, <1>3 DEF ReadyCore, ReadyTyped, WaitTyped
  <2> QED BY <2>1, <2>2, <2>3 DEF ReadyTyped
<1>10. \A g \in Goroutines : /\ doing'[g] = (IF waits = {} THEN "idle" ELSE "take")
                             /\ ~Begun(g)' /\ doing'[g] \notin {"verify", "send"}
  BY <1>1 DEF Begun
<1>11. WaitOK'
  <2>1. \A w \in queue' : out'[w].status \in {"allocated", "not_observed"} /\ ~CannotRun(w)' /\ out'[w].readiness # "ready"
    BY <1>1, <1>3, <1>6, <1>7 DEF CannotRun
  <2> QED BY <2>1, <1>1, <1>10 DEF WaitOK
<1>12. TroubleOK' BY <1>1 DEF TroubleOK
<1>13. ProbeOK' /\ StrangerOK' BY <1>2, <1>10 DEF ReadyCore, ProbeOK, StrangerOK, aws
<1>14. EndOK'
  <2>1. 1 \in Batch BY ReadinessAssumption DEF Batch
  <2>2. again' => ~bounded' BY <1>2 DEF Eligible, ReadyCore, EndOK
  <2>3. step' = "join" => errs' # {} BY <2>1, <1>1
  <2> QED BY <2>2, <2>3, <1>1, <1>2 DEF ReadyCore, EndOK
<1>15. ReadyIsWitnessed' BY <1>6, <1>8 DEF ReadyIsWitnessed
<1>16. BoundsAreProven' BY <1>2 DEF ReadyCore, BoundsAreProven
<1>17. SuccessIsComplete' BY <1>2, NotYetDecided DEF SuccessIsComplete
<1>18. VerifiedGoFirst' BY <1>10 DEF VerifiedGoFirst
<1> QED BY <1>9, <1>11, <1>12, <1>13, <1>14, <1>15, <1>16, <1>17, <1>18 DEF ReadyCore

\* A reconciliation forgets no worker, and makes none ready.
LEMMA MergedTyped ==
  ASSUME ReadyCore, NEW current, DOMAIN current \subseteq Batch,
         \A w \in DOMAIN current : current[w] \in WorkerOutcome /\ current[w].readiness = "not_observed"
  PROVE  /\ MergedOutcomes(current) \in [Batch -> WorkerOutcome]
         /\ \A w \in Batch : MergedOutcomes(current)[w].readiness = "ready" =>
              MergedOutcomes(current)[w].status = "allocated" /\ out[w].readiness = "ready"
<1> DEFINE m == MergedOutcomes(current)
<1>1. out \in [Batch -> WorkerOutcome] BY DEF ReadyCore, ReadyTyped, RequestTyped
<1>2. SUFFICES \A w \in Batch : m[w] \in WorkerOutcome /\ (m[w].readiness = "ready" => m[w].status = "allocated" /\ out[w].readiness = "ready")
  BY DEF MergedOutcomes
<1> SUFFICES ASSUME NEW w \in Batch
             PROVE  m[w] \in WorkerOutcome /\ (m[w].readiness = "ready" => m[w].status = "allocated" /\ out[w].readiness = "ready")
  BY <1>2
<1>3. CASE w \notin DOMAIN current
  <2>1. m[w] = [out[w] EXCEPT !.status = "not_observed", !.readiness = "unknown"] BY <1>3 DEF MergedOutcomes
  <2> QED BY <2>1, <1>1 DEF WorkerOutcome
<1>4. CASE w \in DOMAIN current /\ Carries(out[w], current[w])
  <2>1. m[w] = [current[w] EXCEPT !.readiness = out[w].readiness] BY <1>4 DEF MergedOutcomes
  <2>2. out[w].readiness \in Readinesses BY <1>1 DEF WorkerOutcome, Readinesses
  <2>3. m[w] \in WorkerOutcome /\ m[w].readiness = out[w].readiness /\ m[w].status = current[w].status
    BY <1>4, <2>1, <2>2, ReadinessNoted
  <2> QED BY <2>3, <1>4 DEF Carries
<1>5. CASE w \in DOMAIN current /\ ~Carries(out[w], current[w])
  <2>1. m[w] = current[w] BY <1>5 DEF MergedOutcomes
  <2> QED BY <2>1, <1>5
<1> QED BY <1>3, <1>4, <1>5

LEMMA RefreshKeeps == ASSUME ReadyCore, Refresh PROVE ReadyCore'
<1>1. step = "refresh" /\ step' = "result" /\ UNCHANGED <<ends, short, exit>> BY DEF Refresh
<1>2. /\ queue' = queue /\ doing' = doing /\ at' = at /\ errs' = errs /\ probe' = probe /\ boot' = boot
      /\ vm' = vm /\ strange' = strange /\ troubled' = troubled /\ spent' = spent /\ exit' = exit
      /\ writer' = writer /\ again' = again /\ evidence' = evidence /\ lines' = lines /\ short' = short
  BY <1>1 DEF ends, aws, slots, history
<1>3. out \in [Batch -> WorkerOutcome] /\ vm \in [Batch -> {"starting", "running", "gone", "foreign"}]
      /\ bounded \in BOOLEAN /\ opErr \in {"none", "retryable", "other"}
  BY DEF ReadyCore, ReadyTyped, RequestTyped, AwsTyped
<1>4. SUFFICES /\ out' \in [Batch -> WorkerOutcome] /\ bounded' \in BOOLEAN /\ opErr' \in {"none", "retryable", "other"}
               /\ \A w \in Batch : out'[w].readiness = "ready" => out'[w].status = "allocated" /\ out[w].readiness = "ready"
               /\ bounded' => opErr' = "none"
  <2> SUFFICES ASSUME out' \in [Batch -> WorkerOutcome], bounded' \in BOOLEAN, opErr' \in {"none", "retryable", "other"},
                      \A w \in Batch : out'[w].readiness = "ready" => out'[w].status = "allocated" /\ out[w].readiness = "ready",
                      bounded' => opErr' = "none"
               PROVE  ReadyCore'
    OBVIOUS
  <2>1. AwsTyped' BY <1>2 DEF ReadyCore, ReadyTyped, AwsTyped
  <2>2. RequestTyped' BY <1>1, <1>2 DEF ReadyCore, ReadyTyped, RequestTyped
  <2>3. WaitTyped' BY <1>2 DEF ReadyCore, ReadyTyped, WaitTyped
  <2>4. WaitOK' /\ VerifiedGoFirst'
    BY <1>1, <1>2, OnlyInRun DEF WaitOK, VerifiedGoFirst, Begun
  <2>5. TroubleOK' BY <1>1 DEF TroubleOK
  <2>6. ProbeOK' /\ StrangerOK' BY <1>2 DEF ReadyCore, ProbeOK, StrangerOK
  <2>7. EndOK' BY <1>1, <1>2 DEF ReadyCore, EndOK
  <2>8. ReadyIsWitnessed' BY <1>2, <1>3 DEF ReadyCore, ReadyIsWitnessed
  <2>9. BoundsAreProven' BY DEF BoundsAreProven
  <2>10. SuccessIsComplete' BY <1>1, <1>2, NotYetDecided DEF SuccessIsComplete
  <2> QED BY <2>1, <2>2, <2>3, <2>4, <2>5, <2>6, <2>7, <2>8, <2>9, <2>10 DEF ReadyCore, ReadyTyped
<1>5. CASE opErr' = "other" /\ UNCHANGED <<out, bounded>>
  <2>1. ~bounded BY <1>1 DEF ReadyCore, EndOK
  <2>2. ReadyIsWitnessed BY DEF ReadyCore
  <2> QED BY <2>1, <2>2, <1>3, <1>5 DEF ReadyIsWitnessed
<1>6. ASSUME NEW current, NEW says \in BOOLEAN, DOMAIN current \subseteq Batch,
             \A w \in DOMAIN current : current[w] \in WorkerOutcome /\ current[w].readiness = "not_observed",
             out' = MergedOutcomes(current), bounded' = Bounds(current, says),
             says => opErr' = Kept, opErr' \in {"other", Kept}
      PROVE  /\ out' \in [Batch -> WorkerOutcome] /\ bounded' \in BOOLEAN /\ opErr' \in {"none", "retryable", "other"}
             /\ \A w \in Batch : out'[w].readiness = "ready" => out'[w].status = "allocated" /\ out[w].readiness = "ready"
             /\ bounded' => opErr' = "none"
  <2>1. bounded' => says /\ opErr # "other" BY <1>6 DEF Bounds
  <2>2. Kept \in {"none", "other"} /\ (opErr # "other" => Kept = "none") BY <1>3 DEF Kept
  <2>3. bounded' \in BOOLEAN BY <1>6 DEF Bounds
  <2>4. /\ MergedOutcomes(current) \in [Batch -> WorkerOutcome]
        /\ \A w \in Batch : MergedOutcomes(current)[w].readiness = "ready" =>
             MergedOutcomes(current)[w].status = "allocated" /\ out[w].readiness = "ready"
    BY <1>6, MergedTyped
  <2> QED BY <2>1, <2>2, <2>3, <2>4, <1>6
<1>7. ASSUME NEW those \in SUBSET Batch, out' = MergedOutcomes([w \in those |-> NotRead]),
             bounded' = Bounds([w \in those |-> NotRead], FALSE), opErr' = "other"
      PROVE  /\ out' \in [Batch -> WorkerOutcome] /\ bounded' \in BOOLEAN /\ opErr' \in {"none", "retryable", "other"}
             /\ \A w \in Batch : out'[w].readiness = "ready" => out'[w].status = "allocated" /\ out[w].readiness = "ready"
             /\ bounded' => opErr' = "none"
  <2> DEFINE current == [w \in those |-> NotRead]
  <2>1. NotRead \in WorkerOutcome /\ NotRead.readiness = "not_observed"
    BY DEF NotRead, FreshOutcome, WorkerOutcome
  <2>2. /\ DOMAIN current \subseteq Batch
        /\ \A w \in DOMAIN current : current[w] \in WorkerOutcome /\ current[w].readiness = "not_observed"
    BY <2>1
  <2>3. out' = MergedOutcomes(current) /\ bounded' = Bounds(current, FALSE) BY <1>7
  <2> HIDE DEF current
  <2> QED BY <2>2, <2>3, <1>6, <1>7
<1>8. ASSUME NEW current \in [Batch -> UNION {Reconciled(vm[w]) : w \in Batch}], NEW complete \in BOOLEAN,
             NEW saved \in BOOLEAN, \A w \in Batch : current[w] \in Reconciled(vm[w]), out' = MergedOutcomes(current),
             LET doubt == ~saved \/ \E w \in Batch : Doubtful(current[w])
             IN  bounded' = Bounds(current, complete /\ ~doubt) /\ opErr' = IF doubt THEN "other" ELSE Kept
      PROVE  /\ out' \in [Batch -> WorkerOutcome] /\ bounded' \in BOOLEAN /\ opErr' \in {"none", "retryable", "other"}
             /\ \A w \in Batch : out'[w].readiness = "ready" => out'[w].status = "allocated" /\ out[w].readiness = "ready"
             /\ bounded' => opErr' = "none"
  <2> DEFINE doubt == ~saved \/ \E w \in Batch : Doubtful(current[w])
             says == complete /\ ~doubt
  <2>1. /\ DOMAIN current = Batch
        /\ \A w \in Batch : current[w] \in WorkerOutcome /\ current[w].readiness = "not_observed"
    BY <1>3, <1>8, InspectionTyped
  <2>2. /\ says \in BOOLEAN /\ bounded' = Bounds(current, says)
        /\ says => opErr' = Kept
        /\ opErr' \in {"other", Kept}
    BY <1>8
  <2> HIDE DEF says, doubt
  <2> QED BY <2>1, <2>2, <1>6, <1>8
<1> QED BY <1>5, <1>7, <1>8 DEF Refresh

LEMMA BatchIsFinite == IsFiniteSet(Batch) /\ Cardinality(Batch) = N
<1>1. 1 \in Int /\ N \in Int /\ 1 <= N BY ReadinessAssumption
<1>2. IsFiniteSet(1..N) /\ Cardinality(1..N) = N - 1 + 1 BY <1>1, FS_Interval
<1> QED BY <1>1, <1>2 DEF Batch

LEMMA ResultKeeps == ASSUME ReadyCore, Result PROVE ReadyCore'
<1>1. step = "result" /\ step' = "done" /\ short' \in 0..Short /\ UNCHANGED <<ends, request>> BY DEF Result
<1>2. /\ queue' = queue /\ doing' = doing /\ at' = at /\ errs' = errs /\ probe' = probe /\ boot' = boot
      /\ vm' = vm /\ strange' = strange /\ troubled' = troubled /\ spent' = spent /\ out' = out
      /\ writer' = writer /\ again' = again /\ evidence' = evidence /\ lines' = lines
      /\ bounded' = bounded /\ opErr' = opErr
  BY <1>1 DEF ends, aws, request, slots, history
<1>3. exit' \in {0, 1, 3, 4} BY DEF Result, Verdict
<1>4. ASSUME exit' = 0
      PROVE  /\ ~spent /\ bounded /\ short' = 0 /\ opErr = "none" /\ errs = {} /\ writer # "failed"
             /\ Cardinality(ReadyOnes) = N
  <2>1. ~spent BY <1>4 DEF Result
  <2> DEFINE failed == opErr # "none" \/ errs # {} \/ writer = "failed"
             ready == Cardinality(ReadyOnes)
  <2>2. Verdict(short', ready, failed) = 0 BY <1>4, <2>1 DEF Result
  <2> HIDE DEF failed, ready
  <2>3. bounded /\ ~(short' > 0) /\ ready = N /\ ~failed BY <2>2 DEF Verdict
  <2>4. short' = 0 BY <2>3, <1>1, ReadinessAssumption
  <2> QED BY <2>1, <2>3, <2>4 DEF failed, ready
<1>5. SuccessIsComplete'
  <2> SUFFICES ASSUME exit' = 0
               PROVE  short' = 0 /\ bounded /\ ReadyOnes = Batch /\ opErr = "none" /\ errs = {} /\ writer # "failed"
    BY <1>2 DEF SuccessIsComplete, ReadyOnes
  <2>1. ReadyOnes \subseteq Batch BY DEF ReadyOnes, ReadyCore, ReadyTyped, RequestTyped
  <2>2. ReadyOnes = Batch BY <2>1, <1>4, BatchIsFinite, FS_Subset
  <2> QED BY <2>2, <1>4
<1>6. AwsTyped' BY <1>2 DEF ReadyCore, ReadyTyped, AwsTyped
<1>7. RequestTyped' BY <1>1, <1>2, <1>3 DEF ReadyCore, ReadyTyped, RequestTyped
<1>8. WaitTyped' BY <1>2 DEF ReadyCore, ReadyTyped, WaitTyped
<1>9. WaitOK' /\ VerifiedGoFirst' BY <1>1, <1>2, OnlyInRun DEF WaitOK, VerifiedGoFirst, Begun
<1>10. TroubleOK' BY <1>1 DEF TroubleOK
<1>11. ProbeOK' /\ StrangerOK' BY <1>2 DEF ReadyCore, ProbeOK, StrangerOK
<1>12. EndOK'
  <2>1. exit' = 0 => writer = "done" BY <1>1, <1>4 DEF ReadyCore, EndOK
  <2> QED BY <2>1, <1>1, <1>2, <1>3 DEF EndOK
<1>13. ReadyIsWitnessed' /\ BoundsAreProven' BY <1>2 DEF ReadyCore, ReadyIsWitnessed, BoundsAreProven
<1> QED BY <1>5, <1>6, <1>7, <1>8, <1>9, <1>10, <1>11, <1>12, <1>13 DEF ReadyCore, ReadyTyped

(***************************************************************************)
(* Readiness: the writer, time and AWS                                     *)
(***************************************************************************)
\* The writer, and a step that changes nothing.
LEMMA WriterKeeps ==
  ASSUME ReadyCore, UNCHANGED notWriter, lines' \in 0..Buffer, writer' \in {"idle", "writing", "done", "failed"},
         writer' = writer \/ writer \notin {"done", "failed"}
  PROVE  ReadyCore'
<1>1. /\ queue' = queue /\ doing' = doing /\ at' = at /\ errs' = errs /\ probe' = probe /\ boot' = boot
      /\ vm' = vm /\ strange' = strange /\ troubled' = troubled /\ spent' = spent /\ out' = out
      /\ again' = again /\ evidence' = evidence /\ bounded' = bounded /\ opErr' = opErr
      /\ short' = short /\ exit' = exit /\ step' = step
  BY DEF notWriter, aws, request, fixed, slots, history
<1>2. AwsTyped' BY <1>1 DEF ReadyCore, ReadyTyped, AwsTyped
<1>3. RequestTyped' BY <1>1 DEF ReadyCore, ReadyTyped, RequestTyped
<1>4. WaitTyped' BY <1>1 DEF ReadyCore, ReadyTyped, WaitTyped
<1>5. WaitOK' BY <1>1 DEF ReadyCore, WaitOK, Begun, CannotRun
<1>6. TroubleOK'
  <2>1. \A g \in Goroutines : Begun(g)' <=> Begun(g) BY <1>1 DEF Begun
  <2> QED BY <2>1, <1>1 DEF ReadyCore, TroubleOK
<1>7. ProbeOK' /\ StrangerOK' /\ ReadyIsWitnessed' /\ BoundsAreProven' /\ VerifiedGoFirst'
  BY <1>1 DEF ReadyCore, ProbeOK, StrangerOK, ReadyIsWitnessed, BoundsAreProven, VerifiedGoFirst
<1>8. exit = 0 => writer' = "done" BY DEF ReadyCore, EndOK
<1>9. EndOK' BY <1>1, <1>8 DEF ReadyCore, EndOK
<1>10. SuccessIsComplete' BY <1>1, <1>8 DEF ReadyCore, SuccessIsComplete, ReadyOnes
<1> QED BY <1>2, <1>3, <1>4, <1>5, <1>6, <1>7, <1>9, <1>10 DEF ReadyCore, ReadyTyped

LEMMA OneLineLess == ASSUME NEW n \in 0..Buffer, n > 0 PROVE n - 1 \in 0..Buffer
  BY ReadinessAssumption

LEMMA ProgressKeeps == ASSUME ReadyCore, Takes \/ Writes \/ ProgressStops PROVE ReadyCore'
<1>1. lines \in 0..Buffer /\ writer \in {"idle", "writing"}
  BY DEF ReadyCore, ReadyTyped, WaitTyped, Takes, Writes, ProgressStops
<1>2. 0 \in 0..Buffer
  BY ReadinessAssumption
<1>3. lines' \in 0..Buffer
  BY <1>1, <1>2, OneLineLess DEF Takes, Writes, ProgressStops
<1>4. UNCHANGED notWriter /\ writer' \in {"idle", "writing", "done", "failed"}
  BY DEF Takes, Writes, ProgressStops
<1> QED BY <1>1, <1>3, <1>4, WriterKeeps

\* What the environment leaves alone.
LEMMA EnvironmentKeeps ==
  ASSUME ReadyCore, UNCHANGED besides, spent' \in BOOLEAN, spent => spent', AwsTyped',
         troubled \subseteq troubled', ProbeOK', StrangerOK', ReadyIsWitnessed', exit = 9 \/ spent' = spent
  PROVE  ReadyCore'
<1>1. /\ queue' = queue /\ doing' = doing /\ at' = at /\ errs' = errs /\ out' = out
      /\ again' = again /\ evidence' = evidence /\ bounded' = bounded /\ opErr' = opErr
      /\ short' = short /\ exit' = exit /\ step' = step /\ lines' = lines /\ writer' = writer
  BY DEF besides, request, fixed, slots
<1>2. RequestTyped' BY <1>1 DEF ReadyCore, ReadyTyped, RequestTyped
<1>3. WaitTyped' BY <1>1 DEF ReadyCore, ReadyTyped, WaitTyped
<1>4. WaitOK' BY <1>1 DEF ReadyCore, WaitOK, Begun, CannotRun
<1>5. TroubleOK'
  <2>1. \A g \in Goroutines : Begun(g)' <=> Begun(g) BY <1>1 DEF Begun
  <2> QED BY <2>1, <1>1 DEF ReadyCore, TroubleOK
<1>6. EndOK' BY <1>1 DEF ReadyCore, EndOK
<1>7. SuccessIsComplete' /\ BoundsAreProven' /\ VerifiedGoFirst'
  BY <1>1 DEF ReadyCore, SuccessIsComplete, ReadyOnes, BoundsAreProven, VerifiedGoFirst
<1> QED BY <1>2, <1>3, <1>4, <1>5, <1>6, <1>7 DEF ReadyCore, ReadyTyped

LEMMA ExpireKeeps == ASSUME ReadyCore, Expire PROVE ReadyCore'
<1>1. UNCHANGED <<besides, vm, boot, probe, strange, troubled, out, doing, at>>
  BY DEF Expire, besides, aws, history, request, slots
<1>2. AwsTyped' BY <1>1 DEF ReadyCore, ReadyTyped, AwsTyped
<1>3. ProbeOK' /\ StrangerOK' /\ ReadyIsWitnessed' BY <1>1 DEF ReadyCore, ProbeOK, StrangerOK, ReadyIsWitnessed
<1> QED BY <1>1, <1>2, <1>3, EnvironmentKeeps DEF Expire

LEMMA BootsKeeps == ASSUME ReadyCore, NEW w \in Batch, Boots(w) PROVE ReadyCore'
<1>1. UNCHANGED <<besides, probe, strange, out, doing, at, spent>>
  BY DEF Boots, besides, request, slots
<1>2. /\ vm \in [Batch -> {"starting", "running", "gone", "foreign"}]
      /\ boot \in [Batch -> {"offline", "pending", "complete", "failed"}]
      /\ out \in [Batch -> WorkerOutcome] /\ spent \in BOOLEAN /\ strange \subseteq Batch
  BY DEF ReadyCore, ReadyTyped, AwsTyped, RequestTyped
<1>3. AwsTyped' /\ troubled \subseteq troubled' BY <1>1 DEF Boots, ReadyCore, ReadyTyped, AwsTyped
<1>4. \A v \in Batch : boot[v] = "complete" => boot'[v] = "complete" BY <1>2 DEF Boots
<1>5. \A v \in Batch : vm[v] \in {"gone", "foreign"} => vm'[v] \in {"gone", "foreign"} BY <1>2 DEF Boots
<1>6. ProbeOK' BY <1>1, <1>4 DEF ReadyCore, ProbeOK
<1>7. StrangerOK' BY <1>1, <1>2, <1>5 DEF ReadyCore, StrangerOK
<1>8. ReadyIsWitnessed' BY <1>1, <1>2, <1>4 DEF ReadyCore, ReadyIsWitnessed
<1> QED BY <1>1, <1>2, <1>3, <1>6, <1>7, <1>8, EnvironmentKeeps

LEMMA LeavesKeeps == ASSUME ReadyCore, NEW w \in Batch, Leaves(w) PROVE ReadyCore'
<1>1. UNCHANGED <<besides, boot, probe, out, doing, at, spent>>
  BY DEF Leaves, besides, request, slots
<1>2. /\ vm \in [Batch -> {"starting", "running", "gone", "foreign"}]
      /\ out \in [Batch -> WorkerOutcome] /\ spent \in BOOLEAN /\ strange \subseteq Batch
  BY DEF ReadyCore, ReadyTyped, AwsTyped, RequestTyped
<1>3. AwsTyped' /\ troubled \subseteq troubled' BY <1>1 DEF Leaves, ReadyCore, ReadyTyped, AwsTyped
<1>4. \A v \in Batch : vm'[v] \in (IF v = w THEN {"gone", "foreign"} ELSE {vm[v]}) BY <1>2 DEF Leaves
<1>5. ProbeOK' /\ ReadyIsWitnessed' BY <1>1 DEF ReadyCore, ProbeOK, ReadyIsWitnessed
<1>6. strange' \subseteq strange \union {w} /\ (w \in strange' => w \in strange \/ \A g \in Goroutines : doing[g] = "send" => at[g] # w)
  BY DEF Leaves
<1>7. StrangerOK' BY <1>1, <1>2, <1>4, <1>6 DEF ReadyCore, StrangerOK
<1> QED BY <1>1, <1>2, <1>3, <1>5, <1>7, EnvironmentKeeps

LEMMA RunsKeeps == ASSUME ReadyCore, NEW w \in Batch, ProbeRuns(w) PROVE ReadyCore'
<1>1. UNCHANGED <<besides, vm, boot, strange, troubled, out, doing, at, spent>>
  BY DEF ProbeRuns, besides, history, request, slots
<1>2. /\ boot \in [Batch -> {"offline", "pending", "complete", "failed"}]
      /\ probe \in [Batch -> {"none", "sent", "pending", "complete", "failed"}]
      /\ out \in [Batch -> WorkerOutcome] /\ spent \in BOOLEAN
  BY DEF ReadyCore, ReadyTyped, AwsTyped, RequestTyped
<1>3. /\ probe[w] = "sent" /\ probe'[w] = boot[w] /\ boot[w] \in {"pending", "complete", "failed"}
      /\ \A v \in Batch : v # w => probe'[v] = probe[v]
  BY <1>2 DEF ProbeRuns
<1>4. AwsTyped' BY <1>1, <1>2, <1>3 DEF ProbeRuns, ReadyCore, ReadyTyped, AwsTyped
<1>5. ProbeOK' BY <1>1, <1>3 DEF ReadyCore, ProbeOK
<1>6. StrangerOK' BY <1>1 DEF ReadyCore, StrangerOK
<1>7. ReadyIsWitnessed' BY <1>1, <1>2, <1>3 DEF ReadyCore, ReadyIsWitnessed
<1> QED BY <1>1, <1>2, <1>4, <1>5, <1>6, <1>7, EnvironmentKeeps

(***************************************************************************)
(* Readiness: the theorems                                                 *)
(***************************************************************************)
LEMMA ReadyStarts == ReadyInit => ReadyCore
<1> SUFFICES ASSUME ReadyInit PROVE ReadyCore OBVIOUS
<1>1. /\ vm \in [Batch -> Begins] /\ boot = [w \in Batch |-> "offline"] /\ probe = [w \in Batch |-> "none"]
      /\ short = 0 /\ exit = 9 /\ step = "sort" /\ queue = {} /\ errs = {} /\ spent = FALSE /\ again = FALSE
      /\ doing = [g \in Goroutines |-> "idle"] /\ at = [g \in Goroutines |-> 1]
      /\ lines = 0 /\ writer \in {"idle", "done"}
      /\ strange = {w \in Batch : vm[w] \in {"gone", "foreign"}} /\ troubled = strange
  BY DEF ReadyInit
<1>2. 1 \in Batch /\ 0 \in 0..Short /\ 0 \in 0..Buffer BY ReadinessAssumption DEF Batch
<1>3. vm \in [Batch -> {"starting", "running", "gone", "foreign"}] BY <1>1, ReadinessAssumption
<1>4. \A w \in Batch : out[w] \in Reconciled(vm[w]) BY DEF ReadyInit
<1>5. \A w \in Batch : out[w] \in WorkerOutcome /\ out[w].readiness = "not_observed" BY <1>3, <1>4, InspectionTyped
<1>6. out \in [Batch -> WorkerOutcome]
  <2>1. out \in [Batch -> UNION {Reconciled(vm[w]) : w \in Batch}] BY DEF ReadyInit
  <2> QED BY <2>1, <1>5
<1>7. evidence \subseteq Batch /\ opErr \in {"none", "retryable", "other"} /\ bounded \in BOOLEAN BY DEF ReadyInit
<1>8. bounded => opErr = "none" BY DEF ReadyInit
<1>9. bounded => \A w \in Batch : out[w].status # "not_observed" BY DEF ReadyInit, Doubtful
<1>10. AwsTyped BY <1>1, <1>3 DEF AwsTyped
<1>11. RequestTyped BY <1>1, <1>2, <1>6, <1>7 DEF RequestTyped
<1>12. WaitTyped BY <1>1, <1>2 DEF WaitTyped
<1>13. \A g \in Goroutines : doing[g] = "idle" BY <1>1
<1>14. WaitOK /\ TroubleOK /\ VerifiedGoFirst BY <1>1, <1>5, <1>13 DEF WaitOK, TroubleOK, VerifiedGoFirst, Begun
<1>15. ProbeOK /\ StrangerOK BY <1>1, <1>13 DEF ProbeOK, StrangerOK
<1>16. EndOK BY <1>1, <1>9 DEF EndOK
<1>17. ReadyIsWitnessed /\ BoundsAreProven /\ SuccessIsComplete
  BY <1>1, <1>5, <1>6, <1>8 DEF ReadyIsWitnessed, BoundsAreProven, SuccessIsComplete
<1> QED BY <1>10, <1>11, <1>12, <1>14, <1>15, <1>16, <1>17 DEF ReadyCore, ReadyTyped

LEMMA ReadyStepKeeps == ReadyCore /\ [ReadyNext]_readyVars => ReadyCore'
<1> SUFFICES ASSUME ReadyCore, [ReadyNext]_readyVars PROVE ReadyCore' OBVIOUS
<1>1. CASE UNCHANGED readyVars
  <2>1. UNCHANGED <<notWriter, lines, writer>> BY <1>1 DEF readyVars, notWriter
  <2>2. lines \in 0..Buffer /\ writer \in {"idle", "writing", "done", "failed"}
    BY DEF ReadyCore, ReadyTyped, WaitTyped
  <2> QED BY <2>1, <2>2, WriterKeeps
<1>2. CASE Process BY <1>2, SortKeeps, EndsKeep, RefreshKeeps, ResultKeeps, GoroutineKeeps DEF Process
<1>3. CASE Takes \/ Writes \/ ProgressStops BY <1>3, ProgressKeeps
<1>4. CASE Expire BY <1>4, ExpireKeeps
<1>5. CASE \E w \in Batch : Boots(w) \/ Leaves(w) \/ ProbeRuns(w) BY <1>5, BootsKeeps, LeavesKeeps, RunsKeeps
<1> QED BY <1>1, <1>2, <1>3, <1>4, <1>5 DEF ReadyNext

LEMMA ReadyInvariant == ReadySpec => []ReadyCore
<1> QED BY ReadyStarts, ReadyStepKeeps, PTL DEF ReadySpec

\* What is known of every worker, at every step of the wait: who has it, and
\* why it is ready, unready or in trouble (waitBatchReady, batchStartup).
THEOREM ReadinessIsConsistent == ReadySpec => []ReadyInv
<1> QED BY ReadyInvariant, CoreIsReadyInv, PTL

\* The result of devbox up is true, for any number of workers and goroutines:
\* ready means probed and allocated, nobody is forgotten, success is complete,
\* missing capacity is proven, and a failure is the worker's own.
THEOREM BatchResultIsHonest == ReadySpec => []ResultIsHonest
<1>1. ReadyInv => ResultIsHonest BY DEF ReadyInv
<1> QED BY <1>1, ReadinessIsConsistent, PTL

\* A probe is sent by the step that follows a lookup, and only it.
LEMMA ProbesFollowLookups ==
  ASSUME ReadyCore, ReadyNext, NEW w \in Batch, probe'[w] = "sent", probe[w] # "sent"
  PROVE  w \notin strange
<1>1. probe' # probe /\ probe \in [Batch -> {"none", "sent", "pending", "complete", "failed"}]
  BY DEF ReadyCore, ReadyTyped, AwsTyped
<1>2. CASE \E v \in Batch : Boots(v) \/ Leaves(v) BY <1>1, <1>2 DEF Boots, Leaves
<1>3. ASSUME NEW v \in Batch, ProbeRuns(v) PROVE w \notin strange
  <2>1. boot[v] # "sent" BY DEF ReadyCore, ReadyTyped, AwsTyped
  <2> QED BY <2>1, <1>1, <1>3 DEF ProbeRuns
<1>4. CASE Takes \/ Writes \/ ProgressStops \/ Expire BY <1>1, <1>4 DEF Takes, Writes, ProgressStops, Expire, notWriter, aws
<1>5. CASE Sort \/ Joined \/ FinishProgress \/ Join \/ Refresh \/ Result
  BY <1>1, <1>5 DEF Sort, Joined, FinishProgress, Join, Refresh, Result, ends, aws
<1>6. ASSUME NEW g \in Goroutines, Goroutine(g) PROVE w \notin strange
  <2>1. CASE Send(g)
    <3>1. w = at[g]
      <4>1. probe' = probe \/ probe' = [probe EXCEPT ![at[g]] = "sent"] BY <2>1 DEF Send
      <4> QED BY <4>1, <1>1
    <3> QED BY <3>1, <2>1 DEF Send, ReadyCore, StrangerOK
  <2>2. CASE Take(g) \/ Verify(g) \/ Resolve(g) \/ Ping(g) \/ Recheck(g) \/ Poll(g) \/ Pause(g)
    BY <2>2, <1>1 DEF Take, Verify, Resolve, Ping, Recheck, Poll, Pause
  <2> QED BY <1>6, <2>1, <2>2 DEF Goroutine
<1> QED BY <1>2, <1>3, <1>4, <1>5, <1>6 DEF ReadyNext, Process

\* No probe goes to an instance that had ended or changed hands before the
\* lookup that precedes it (observeWithGuard).
THEOREM NoStrangerIsProbed == ReadySpec => StrangersAreNotProbed
<1>1. ReadyCore /\ [ReadyNext]_readyVars =>
        [\A w \in Batch : probe'[w] = "sent" /\ probe[w] # "sent" => w \notin strange]_readyVars
  BY ProbesFollowLookups
<1> QED BY <1>1, ReadyInvariant, PTL DEF ReadySpec, StrangersAreNotProbed
=============================================================================
