-------------------------- MODULE CommandObserver --------------------------
(***************************************************************************)
(* `devbox exec` waiting for the command it submitted: Observe and durable *)
(* of internal/execution/observe.go.  Each pass reads started, outcome and *)
(* result by separate calls, then asks SSM; a terminal or failed answer is *)
(* followed by a second pass over the records before it is believed.       *)
(***************************************************************************)
EXTENDS CommandEvidence

CONSTANT MaxFailures   \* maxObservationFailures

ASSUME ObserverAssumption == MaxFailures \in Nat \ {0}

VARIABLES
  stage,     \* idle, started, outcome, result, ask, sleep, stopping, done
  pass,      \* poll, or the reread that follows SSM's answer
  started, outcome,  \* these records were read
  durable,   \* Result.DurableState
  optional,  \* what kept this pass from an intermediate record
  invalid,   \* what makes this pass's records unusable
  storageFailures, ssmFailures,
  answer,    \* SSM's last answer
  atAnswer,  \* the records stored when it was given
  ctx,       \* the wait context: live, canceled, deadline
  verdict    \* Result.Outcome

observerVars == <<stage, pass, started, outcome, durable, optional, invalid,
                  storageFailures, ssmFailures, answer, atAnswer, ctx, verdict>>
vars == <<evidenceVars, readVars, observerVars>>

Issues == {"none", "transient", "denied", "schema", "corrupt", "expired"}
Stops == {"interrupted", "observation_timeout"}
Answered == {"delivery_timeout", "runner_timeout", "cancelled", "execution_unknown"}
Completed == {"remote_exit", "remote_signal", "setup_failed"}
Verdicts == Stops \cup Answered \cup Completed \cup
  {"none", "execution_timeout", "result_incomplete", "expired", "result_corrupt",
   "unsupported_schema", "api_failed", "ssm_failed"}

TypeOK ==
  /\ EvidenceOK
  /\ stage \in {"idle", "started", "outcome", "result", "ask", "sleep", "stopping", "done"}
  /\ pass \in {"poll", "reread"}
  /\ started \in BOOLEAN /\ outcome \in BOOLEAN
  /\ durable \in {"pending", "started", "outcome", "final"}
  /\ optional \in Issues /\ invalid \in Issues
  /\ storageFailures \in 0 .. MaxFailures /\ ssmFailures \in 0 .. MaxFailures
  /\ answer \in InvocationAnswers /\ atAnswer \subseteq Kinds
  /\ ctx \in {"live", "canceled", "deadline"}
  /\ verdict \in Verdicts
  /\ (stage = "done") = (verdict # "none")

Init ==
  /\ EvidenceInit
  /\ stage = "idle" /\ pass = "poll" /\ started = FALSE /\ outcome = FALSE
  /\ durable = "pending" /\ optional = "none" /\ invalid = "none"
  /\ storageFailures = 0 /\ ssmFailures = 0 /\ answer = "none" /\ atAnswer = {}
  /\ ctx = "live" /\ verdict = "none"

----------------------------------------------------------------------------
(* Verdicts *)

IssueVerdict == [denied |-> "api_failed", transient |-> "api_failed", schema |-> "unsupported_schema",
                 corrupt |-> "result_corrupt", expired |-> "expired"]

\* Mutant of FinalVerdict: a recorded exit wins over incomplete publication.
FinalIgnoresPublication ==
  IF expired THEN "expired"
  ELSE IF known = "execution_timeout" THEN "execution_timeout"
  ELSE IF known = "exited" THEN "remote_exit"
  ELSE "result_incomplete"

\* completedRecord
FinalVerdict ==
  IF expired THEN "expired"
  ELSE IF known = "execution_timeout" THEN "execution_timeout"
  ELSE IF publication # "complete" THEN "result_incomplete"
  ELSE CASE known = "exited" -> "remote_exit"
         [] known = "signaled" -> "remote_signal"
         [] known = "runner_setup_failed" -> "setup_failed"
         [] OTHER -> "result_incomplete"

\* wrapperFinished; the workload is known once an outcome was read.
WrapperVerdict ==
  IF outcome THEN IF known = "execution_timeout" THEN known ELSE "result_incomplete"
  ELSE IF answer \in Answered THEN answer ELSE "execution_unknown"

\* invocationTerminal, with a mutant that misses a state.
ForgetsCancelled(a) == a \in (Terminals \ {"cancelled"}) \cup {"unrecognised"}
Terminal(a) == a \in Terminals \cup {"unrecognised"}

Finish(v) == stage' = "done" /\ verdict' = v

----------------------------------------------------------------------------
(* durable: one pass over the records *)

\* The next call is made only under a live context.
Then(s) == stage' = IF ctx = "live" THEN s ELSE "stopping"

NewPass(p) ==
  /\ pass' = p /\ stage' = "started"
  /\ optional' = "none" /\ invalid' = "none"

\* An intermediate record that cannot be read defeats the pass only when it is
\* corrupt or of an unknown schema.
Unread(a) ==
  /\ invalid' = IF a \in {"corrupt", "schema"} THEN a ELSE invalid
  /\ optional' = IF a \in {"transient", "denied"} THEN a ELSE optional
  /\ UNCHANGED <<started, outcome, durable>>

StartedRead ==
  /\ started' = TRUE
  /\ durable' = IF outcome THEN durable ELSE "started"
  /\ invalid' = IF outcome /\ TimelineBroken THEN "corrupt" ELSE invalid
  /\ UNCHANGED <<outcome, optional>>

OutcomeRead ==
  /\ outcome' = TRUE
  /\ durable' = "outcome"
  /\ invalid' = IF started /\ TimelineBroken THEN "corrupt" ELSE invalid
  /\ UNCHANGED <<started, optional>>

ReadStarted ==
  /\ stage = "started" /\ Then("outcome")
  /\ IF started THEN UNCHANGED <<readVars, started, outcome, durable, optional, invalid>>
     ELSE \E a \in GetAnswers : Get("started", Published, a) /\ IF a = "found" THEN StartedRead ELSE Unread(a)
  /\ UNCHANGED <<pass, storageFailures, ssmFailures, answer, atAnswer, ctx, verdict>>

ReadOutcome ==
  /\ stage = "outcome" /\ Then("result")
  /\ IF outcome THEN UNCHANGED <<readVars, started, outcome, durable, optional, invalid>>
     ELSE \E a \in GetAnswers : Get("outcome", Published, a) /\ IF a = "found" THEN OutcomeRead ELSE Unread(a)
  /\ UNCHANGED <<pass, storageFailures, ssmFailures, answer, atAnswer, ctx, verdict>>

ResultContradicts == (started /\ TimelineBroken) \/ (outcome /\ ~SameOutcome(Outcome, FinalRecord))

\* A valid final record ends the observation, also when the context ended
\* while it was read.
ResultRead ==
  /\ stage = "result" /\ invalid = "none" /\ ~ResultContradicts
  /\ Get("result", Published, "found")
  /\ durable' = "final"
  /\ Finish(FinalVerdict)
  /\ UNCHANGED <<pass, started, outcome, optional, invalid, storageFailures, ssmFailures,
                 answer, atAnswer, ctx>>

\* The issue durable returns when it has no final record; a is the GET's answer.
Issue(a) ==
  IF a = "found" /\ ResultContradicts THEN "corrupt"
  ELSE IF invalid # "none" THEN invalid
  ELSE IF a # "absent" THEN a
  ELSE IF optional # "none" THEN optional
  ELSE IF durable # "pending" /\ expired THEN "expired"
  ELSE "none"

ResultUnread(a) ==
  /\ stage = "result" /\ ctx = "live"
  /\ Get("result", Published, a)
  /\ a = "found" => invalid # "none" \/ ResultContradicts

Exhausted(n) == n >= MaxFailures

\* The poll pass: transient issues are tolerated in a row, up to the budget.
PollEnds ==
  /\ pass = "poll"
  /\ \E a \in GetAnswers :
       /\ ResultUnread(a)
       /\ IF Issue(a) = "none"
          THEN storageFailures' = 0 /\ stage' = "ask" /\ UNCHANGED verdict
          ELSE /\ storageFailures' = storageFailures + 1
               /\ IF Issue(a) # "transient" \/ Exhausted(storageFailures')
                  THEN Finish(IssueVerdict[Issue(a)])
                  ELSE stage' = "ask" /\ UNCHANGED verdict
  /\ UNCHANGED <<pass, started, outcome, durable, optional, invalid, ssmFailures, answer, atAnswer, ctx>>

\* The reread: only when every record could be looked for is SSM believed.
RereadEnds ==
  /\ pass = "reread"
  /\ \E a \in GetAnswers :
       /\ ResultUnread(a)
       /\ CASE Issue(a) = "transient" -> stage' = "sleep" /\ UNCHANGED verdict
            [] Issue(a) = "none" -> Finish(IF Terminal(answer) THEN WrapperVerdict ELSE "ssm_failed")
            [] OTHER -> Finish(IssueVerdict[Issue(a)])
  /\ UNCHANGED <<pass, started, outcome, durable, optional, invalid, storageFailures, ssmFailures,
                 answer, atAnswer, ctx>>

----------------------------------------------------------------------------
(* Observe *)

\* Submit has acknowledged the command: its request is durable.
Start ==
  /\ stage = "idle" /\ phase # "none"
  /\ NewPass("poll")
  /\ UNCHANGED <<readVars, started, outcome, durable, storageFailures, ssmFailures, answer,
                 atAnswer, ctx, verdict>>

\* Mutant of AfterAnswer: SSM's answer is believed at once.
AnswerBelieved(a) ==
  IF Terminal(a)
  THEN /\ Finish(IF outcome THEN "result_incomplete" ELSE IF a \in Answered THEN a ELSE "execution_unknown")
       /\ UNCHANGED <<pass, optional, invalid>>
  ELSE stage' = "sleep" /\ UNCHANGED <<pass, optional, invalid, verdict>>

AfterAnswer(a) ==
  IF Terminal(a) \/ a = "denied" \/ (a = "transient" /\ Exhausted(ssmFailures'))
  THEN NewPass("reread") /\ UNCHANGED verdict
  ELSE stage' = "sleep" /\ UNCHANGED <<pass, optional, invalid, verdict>>

Counted(n) == IF n < MaxFailures THEN n + 1 ELSE n

Ask ==
  /\ stage = "ask" /\ ctx = "live"
  /\ \E a \in InvocationAnswers :
       /\ GetInvocation(a)
       /\ answer' = a /\ atAnswer' = Published
       /\ ssmFailures' = IF a \in {"transient", "denied"} THEN Counted(ssmFailures) ELSE 0
       /\ IF a = "corrupt"
          THEN Finish("result_corrupt") /\ UNCHANGED <<pass, optional, invalid>>
          ELSE AfterAnswer(a)
  /\ UNCHANGED <<started, outcome, durable, storageFailures, ctx>>

Wake ==
  /\ stage = "sleep" /\ ctx = "live"
  /\ NewPass("poll")
  /\ UNCHANGED <<readVars, started, outcome, durable, storageFailures, ssmFailures, answer,
                 atAnswer, ctx, verdict>>

\* A call in flight or the wait between polls ends with the context.
Stopped ==
  /\ stage \notin {"idle", "done"} /\ ctx # "live"
  /\ Finish(IF ctx = "canceled" THEN "interrupted" ELSE "observation_timeout")
  /\ UNCHANGED <<readVars, pass, started, outcome, durable, optional, invalid, storageFailures,
                 ssmFailures, answer, atAnswer, ctx>>

ContextEnds ==
  /\ stage \notin {"idle", "done"} /\ ctx = "live"
  /\ ctx' \in {"canceled", "deadline"}
  /\ UNCHANGED <<readVars, stage, pass, started, outcome, durable, optional, invalid,
                 storageFailures, ssmFailures, answer, atAnswer, verdict>>

ObserverStep ==
  /\ UNCHANGED evidenceVars
  /\ \/ Start \/ ReadStarted \/ ReadOutcome \/ ResultRead \/ PollEnds \/ RereadEnds
     \/ Ask \/ Wake \/ Stopped

\* The command moves while it is watched; what it does after the verdict
\* concerns nobody here.
Next ==
  \/ ObserverStep
  \/ ContextEnds /\ UNCHANGED evidenceVars
  \/ stage # "done" /\ EvidenceStep /\ UNCHANGED <<readVars, observerVars>>

\* Every call has a deadline of its own and the timer fires; the command, SSM
\* and the user owe nothing.
Spec == Init /\ [][Next]_vars /\ WF_vars(ObserverStep)
----------------------------------------------------------------------------
(* Properties *)

\* Records that the protocol wrote never contradict each other in the
\* observer's eyes, in whatever order and passes it reads them: a corruption
\* verdict needs an altered record, or a worker clock that stepped back
\* (sameOutcome and validTimeline, observe.go).
NoFalseCorruption == verdict = "result_corrupt" => lied \/ TimelineBroken

\* A verdict is the recorded truth.  An exit, signal or setup failure needs a
\* complete publication of that very outcome, a timeout a recorded timeout, an
\* incomplete result a recorded outcome (completedRecord, wrapperFinished); and
\* SSM's word is taken only for what S3 did not already answer: a verdict from
\* the invocation means that, when SSM answered, no result was stored, and no
\* outcome either unless the verdict is about that outcome (the second read in
\* Observe).
VerdictIsTrue ==
  /\ TypeOK
  /\ verdict \in Completed => phase = "final" /\ publication = "complete" /\ capture = "complete"
  /\ verdict = "remote_exit" => known = "exited"
  /\ verdict = "remote_signal" => known = "signaled"
  /\ verdict = "execution_timeout" => known = "execution_timeout"
  /\ verdict = "result_incomplete" => phase \in {"recorded", "final"}
  /\ verdict \in Answered \cup {"ssm_failed"} => "result" \notin atAnswer
  /\ verdict \in Answered => "outcome" \notin atAnswer
  /\ verdict = "result_incomplete" /\ durable # "final" => "result" \notin atAnswer

\* Once the result is stored, or SSM has settled the invocation, a running
\* observation ends by itself, without its deadline, whatever bounded number
\* of reads goes wrong (Observe's failure budgets and its second read).
SettledIsReported ==
  stage # "idle" /\ (phase = "final" \/ invocation \in Terminals) ~> stage = "done"
=============================================================================
