------------------------ MODULE CleanupHandlerProofs ------------------------
(***************************************************************************)
(* Proofs about the expiry cleanup and its entry points: for every         *)
(* account, every bound and every number of attempts, terminations are     *)
(* sent only where they are due, once and on the record; outcomes are true *)
(* and complete; and the runtime hears of success only when there was one. *)
(*                                                                         *)
(* All of it follows from CleanupInv.  It says, of each instance i, its    *)
(* worker x and the worker's place p: what x claims is true of the account *)
(* (Honest), what x was selected for still stands (Selected), how far the  *)
(* dispatch of i has gone (Dispatched), and that x, once it is done with   *)
(* its candidate, explains what became of it (Explains, Accounted).        *)
(***************************************************************************)
EXTENDS CleanupHandler, FiniteSetTheorems, WellFoundedInduction, TLAPS

(***************************************************************************)
(* Types                                                                   *)
(***************************************************************************)
States == Live \cup {"shutting-down", "terminated", "gone"}
Settings(D) == UNION {[S -> D] : S \in SUBSET Volumes}
Tags == Nat \cup {Missing, Invalid, Ambiguous}
Records == [state : States, tag : Tags, bad : BOOLEAN, vols : Settings(Flags)]
Reasons == Benign \cup {"resource_invalid", "scope_mismatch", "expiry_invalid"}
Statuses == {"already_terminated", "already_terminating", "termination_not_requested", "skipped",
             "would_terminate", "termination_requested", "termination_denied", "termination_unknown",
             "termination_observed"}
Deletions == {"not_observed", "unavailable", "retained", "deleted"}
Problems == Reasons \cup
    {"evidence_unavailable", "root_volume_unverified", "root_volume_retained", "resource_unverified",
     "interrupted", "termination_denied", "termination_unresolved", "volume_unresolved"}
Workers == [reason : Reasons, expires : Tags, rec : Records, picked : BOOLEAN, status : Statuses,
            root : Deletions, deletion : Settings(Deletions), errs : SUBSET Problems, active : BOOLEAN,
            terminal : BOOLEAN, next : Int, conflict : BOOLEAN]
Stages == {"begin", "scan", "select", "decide", "observe", "round", "tally", "outcomes", "finish",
           "summary", "done"}
Places == {"idle", "queued", "decided", "prepared", "rechecked", "sent", "volumes", "finished"}

AccountTyped ==
    /\ now \in 0..MaxTime /\ moves \in 0..MaxMoves /\ inflight \subseteq Instances
    /\ state \in [Instances -> States] /\ tag \in [Instances -> Tags]
    /\ flag \in [Volumes -> Flags] /\ volume \in [Volumes -> {"inuse", "deleted"}]

RunTyped ==
    /\ dry \in BOOLEAN /\ ctx \in {"live", "ended"} /\ stage \in Stages /\ sampled \in 0..now
    /\ scanned \subseteq Instances /\ complete \in BOOLEAN /\ (stage = "begin" => scanned = {})
    /\ rounds \in 0..(IF MaxPages > MaxRounds THEN MaxPages ELSE MaxRounds)
    /\ at \in [Instances -> Places] /\ w \in [Instances -> Workers] /\ exit \in {-1, 0, 1, 3, 4}
    /\ sent \in [Instances -> Nat] /\ retagged \subseteq scanned

(***************************************************************************)
(* The inductive invariant                                                 *)
(***************************************************************************)
Early == {"begin", "scan", "select"}
Late == {"outcomes", "finish", "summary", "done"}

\* What worker x claims of instance i is so.
Honest(i, x) ==
    /\ x.terminal => state[i] \in {"terminated", "gone"}
    /\ x.terminal => x.status \in {"already_terminated", "termination_observed"}
    /\ \A v \in DOMAIN x.deletion :
         /\ x.deletion[v] = "deleted" => volume[v] = "deleted"
         /\ x.deletion[v] = "retained" => v \in DOMAIN x.rec.vols /\ x.rec.vols[v] = "keep"
    /\ x.root = "deleted" => \A v \in RootOf(x.rec) : volume[v] = "deleted"
    /\ x.status = "termination_requested" => state[i] \in {"shutting-down", "terminated", "gone"}

\* A worker nothing was selected for.
Fresh(x) == ~x.picked /\ ~x.active /\ ~x.terminal /\ DOMAIN x.deletion = {} /\ x.root # "deleted"

\* What a selection stands on, and what was read of the instance.
Selected(i, x, p) ==
    /\ x.picked => complete /\ i \in scanned /\ stage \notin Early
                   /\ x.expires \in 0..sampled /\ x.expires = x.rec.tag
    /\ (i \notin scanned \/ stage \notin {"scan", "select"}) => DOMAIN x.deletion = DOMAIN x.rec.vols
    /\ stage \in Early => p = "idle" /\ Fresh(x)
    /\ i \notin scanned => p \in {"idle", "finished"} /\ ~x.picked
    /\ p = "volumes" => x.terminal
    /\ stage = "round" /\ p \in {"queued", "volumes"} => x.active
    /\ i \in scanned /\ stage \in Early \cup {"decide"} /\ p \in {"idle", "queued", "decided", "prepared"}
         => (i \in retagged <=> tag[i] # x.rec.tag)

\* How far the termination of i has come.
Dispatched(i, x, p) ==
    /\ p \in {"decided", "prepared", "rechecked", "sent"} => stage = "decide" /\ ~dry /\ i \in scanned
    /\ p \in {"decided", "rechecked", "sent"} => x.picked
    /\ x.picked /\ p \in {"decided", "prepared", "rechecked", "sent"} => <<"decision", i>> \in journal
    /\ x.picked /\ p \in {"prepared", "rechecked", "sent"} => <<"termination_prepared", i>> \in journal
    /\ p \in {"rechecked", "sent"} => i \notin retagged
    /\ stage \in Early \cup {"decide"} /\ p \notin {"sent", "finished"} => sent[i] = 0
    /\ stage \in Early \cup {"decide"} /\ p # "finished" => ~x.terminal
    /\ sent[i] > 0 => /\ sent[i] = 1 /\ ~dry /\ x.picked /\ i \notin retagged
                      /\ <<"decision", i>> \in journal /\ <<"termination_prepared", i>> \in journal

\* Nothing is left of instance i and the volumes worker x expected to go.
SettledBy(i, x) ==
    /\ state[i] \in {"terminated", "gone"}
    /\ \A v \in DOMAIN x.rec.vols : x.rec.vols[v] = "delete" => volume[v] = "deleted"

\* The final outcome of a candidate.
Accounted(i, x) ==
    \/ x.errs # {}
    \/ x.terminal /\ SettledBy(i, x)
    \/ x.status = "skipped" /\ x.reason \in Benign \ {"expired"} /\ i \in retagged

\* The outcome of a candidate that may still be observed, or was never begun.
Explains(i, x) ==
    \/ Accounted(i, x) \/ x.active
    \/ ctx = "ended" /\ x.status = "termination_not_requested"

Excuses(i, x, p) ==
    ~dry /\ x.picked =>
        /\ stage = "decide" /\ p \in {"queued", "decided", "prepared"} => x.reason = "expired"
        /\ stage = "decide" /\ p = "queued" => x.status = "termination_not_requested"
        /\ stage \in {"observe", "round", "tally"} \/ (stage = "decide" /\ p = "finished") => Explains(i, x)
        /\ stage \in Late => Accounted(i, x)

WorkerOK(i, x, p) == Honest(i, x) /\ Selected(i, x, p) /\ Dispatched(i, x, p) /\ Excuses(i, x, p)

\* What the exit code of a run stands for.
ExitOK ==
    /\ stage \in {"summary", "done"} <=> exit # -1
    /\ exit = 0 => complete /\ \A i \in scanned : w[i].errs = {}
    /\ stage = "done" /\ ~dry /\ exit = 0 => <<"summary", "run">> \in journal

CleanupInv ==
    /\ AccountTyped /\ RunTyped /\ Cardinality(Busy) <= Concurrency
    /\ \A i \in Instances : WorkerOK(i, w[i], at[i])
    /\ ExitOK

\* What the handler knows of the run and has on record.
HandlerOK ==
    /\ hat \in {"entered", "starting", "running", "leaving", "summing", "ending", "left", "operator"}
    /\ attempt \in 1..MaxAttempts /\ reply \in {"none", "ok", "error", "killed"}
    /\ \A s \in {logged, printed} :
         s \subseteq ({"invocation_start", "summary", "invocation_end"} \X (1..MaxAttempts) \X BOOLEAN)
    /\ started \in BOOLEAN /\ failed \in BOOLEAN /\ setUp \in BOOLEAN
    /\ stage # "begin" => started \/ hat = "operator"
    /\ reply # "none" <=> hat = "left"
    /\ hat # "operator" => ~dry
    /\ hat \in {"starting", "running"} => setUp
    /\ hat \in {"entered", "starting"} => stage = "begin" /\ ~started
    /\ started => setUp /\ <<"invocation_start", attempt, FALSE>> \in logged
    /\ hat = "running" => started
    /\ ~failed /\ hat \in {"leaving", "summing", "ending"} => stage = "done" /\ exit = 0 /\ started
    /\ reply = "ok" => /\ stage = "done" /\ exit = 0 /\ started
                       /\ <<"invocation_end", attempt, TRUE>> \in logged

HandlerInv == CleanupInv /\ HandlerOK
(***************************************************************************)
(* Workers                                                                 *)
(***************************************************************************)
\* What every change of a worker keeps: what it was selected for, the
\* volumes it watches, the truth of its claims and its problems.
Preserves(i, x, y) ==
    /\ y.expires = x.expires /\ y.rec = x.rec /\ y.picked = x.picked
    /\ DOMAIN y.deletion = DOMAIN x.deletion
    /\ Honest(i, x) => Honest(i, y)
    /\ x.errs # {} => y.errs # {}

\* What a worker says of the progress of its candidate.
SameProgress(x, y) ==
    y.reason = x.reason /\ y.status = x.status /\ y.active = x.active /\ y.terminal = x.terminal

LEMMA FaultIs ==
  ASSUME NEW i \in Instances, NEW x \in Workers, NEW code \in Problems
  PROVE  /\ Fault(x, code) \in Workers /\ Preserves(i, x, Fault(x, code)) /\ SameProgress(x, Fault(x, code))
         /\ Fault(x, code).errs # {} /\ Fault(x, code).root = x.root
         /\ Fault(x, code).deletion = x.deletion
<1> DEFINE y == Fault(x, code)
<1>1. y \in Workers
  BY DEF Fault, Workers
<1>2. /\ y.reason = x.reason /\ y.status = x.status /\ y.active = x.active /\ y.terminal = x.terminal
      /\ y.expires = x.expires /\ y.rec = x.rec /\ y.picked = x.picked /\ y.deletion = x.deletion
      /\ y.root = x.root /\ y.errs = x.errs \cup {code}
  BY DEF Fault, Workers
<1>3. QED BY <1>1, <1>2 DEF Preserves, SameProgress, Honest

\* A root volume that is not confirmed gone is not claimed to be.
LEMMA RootIs ==
  ASSUME NEW i \in Instances, NEW x \in Workers, NEW d \in {"unavailable", "retained"}
  PROVE  /\ [x EXCEPT !.root = d] \in Workers /\ Preserves(i, x, [x EXCEPT !.root = d])
         /\ SameProgress(x, [x EXCEPT !.root = d])
         /\ [x EXCEPT !.root = d].errs = x.errs /\ [x EXCEPT !.root = d].deletion = x.deletion
<1> DEFINE y == [x EXCEPT !.root = d]
<1>1. y \in Workers
  BY DEF Workers, Deletions
<1>2. /\ y.reason = x.reason /\ y.status = x.status /\ y.active = x.active /\ y.terminal = x.terminal
      /\ y.expires = x.expires /\ y.rec = x.rec /\ y.picked = x.picked /\ y.deletion = x.deletion
      /\ y.root = d /\ y.errs = x.errs
  BY DEF Workers
<1>3. QED BY <1>1, <1>2 DEF Preserves, SameProgress, Honest

LEMMA AfterEmitIs ==
  ASSUME NEW i \in Instances, NEW x \in Workers, NEW ok \in BOOLEAN
  PROVE  /\ AfterEmit(x, ok) \in Workers /\ Preserves(i, x, AfterEmit(x, ok))
         /\ SameProgress(x, AfterEmit(x, ok)) /\ (~ok => AfterEmit(x, ok).errs # {})
         /\ (ok => AfterEmit(x, ok) = x)
<1>1. "evidence_unavailable" \in Problems
  BY DEF Problems
<1>2. CASE ok
  BY <1>2 DEF AfterEmit, Preserves, SameProgress
<1>3. CASE ~ok
  BY <1>1, <1>3, FaultIs DEF AfterEmit, Fault
<1>4. QED BY <1>2, <1>3

LEMMA RootProblemIs ==
  ASSUME NEW r
  PROVE  /\ RootProblem(r) \in {"", "root_volume_unverified", "root_volume_retained"}
         /\ RootDiagnostic(RootProblem(r)) \in {"unavailable", "retained"}
BY DEF RootProblem, RootDiagnostic

LEMMA DiagnosedIs ==
  ASSUME NEW i \in Instances, NEW x \in Workers
  PROVE  /\ Diagnosed(x) \in Workers /\ Preserves(i, x, Diagnosed(x)) /\ SameProgress(x, Diagnosed(x))
         /\ x.reason = "expired" /\ RootProblem(x.rec) # "" => Diagnosed(x).errs # {}
<1> DEFINE code == RootProblem(x.rec)
<1>1. code \in {"", "root_volume_unverified", "root_volume_retained"}
      /\ RootDiagnostic(code) \in {"unavailable", "retained"}
  BY RootProblemIs
<1>2. CASE code = "" \/ HistoricalMappingsAbsent(x.rec, x.reason)
  BY <1>2 DEF Diagnosed, Preserves, SameProgress, HistoricalMappingsAbsent
<1>3. CASE ~(code = "" \/ HistoricalMappingsAbsent(x.rec, x.reason))
  <2>1. code \in Problems
    BY <1>1, <1>3 DEF Problems
  <2>2. PICK y \in Workers : y = Fault(x, code) /\ Preserves(i, x, y) /\ SameProgress(x, y) /\ y.errs # {}
    BY <2>1, FaultIs
  <2>3. Diagnosed(x) = [y EXCEPT !.root = RootDiagnostic(code)]
    BY <1>3, <2>2 DEF Diagnosed
  <2>4. PICK z \in Workers : /\ z = Diagnosed(x) /\ Preserves(i, y, z) /\ SameProgress(y, z) /\ z.errs = y.errs
    BY <1>1, <2>3, RootIs
  <2>5. QED BY <2>2, <2>4 DEF Preserves, SameProgress
<1>4. QED BY <1>2, <1>3
LEMMA ReadsAre ==
  ASSUME AccountTyped, NEW i \in Instances, NEW r \in Reads(i)
  PROVE  r \in Records /\ r.state = state[i] /\ r.tag = tag[i]
<1>1. PICK b \in BOOLEAN, vs \in {Attached(i), {}} : r = Read(i, b, vs)
  BY DEF Reads
<1>2. vs \subseteq Volumes
  BY <1>1 DEF Attached
<1>3. [v \in vs |-> flag[v]] \in [vs -> Flags]
  BY <1>2 DEF AccountTyped
<1>4. PICK f \in Settings(Flags) : f = [v \in vs |-> flag[v]]
  BY <1>2, <1>3 DEF Settings
<1>5. r = [state |-> state[i], tag |-> tag[i], bad |-> b, vols |-> f]
  BY <1>1, <1>4 DEF Read
<1>6. QED BY <1>5 DEF Records, AccountTyped

LEMMA EvaluateIs ==
  ASSUME NEW r \in Records, NEW t \in Nat
  PROVE  /\ Evaluate(r, t) \in Reasons \ {"resource_invalid", "expiry_changed"}
         /\ Evaluate(r, t) = "already_terminated" => r.state \in {"terminated", "gone"}
         /\ Evaluate(r, t) = "already_terminating" => r.state = "shutting-down"
         /\ Evaluate(r, t) = "expired" => r.tag \in 0..t
         /\ Evaluate(r, t) = "expiry_future" => r.tag \in Nat /\ r.tag > t
         /\ Evaluate(r, t) = "expiry_missing" => r.tag = Missing
<1>1. r.tag \in Tags /\ r.state \in States
  BY DEF Records
<1>2. CASE r.tag = Ambiguous
  BY <1>2 DEF Evaluate, Reasons, Benign, Ambiguous
<1>3. CASE r.tag = Missing
  BY <1>3 DEF Evaluate, Reasons, Benign, Ambiguous, Missing, Invalid
<1>4. CASE r.tag = Invalid
  BY <1>4 DEF Evaluate, Reasons, Benign, Ambiguous, Missing, Invalid
<1>5. CASE r.tag \in Nat
  <2>1. r.tag # Ambiguous /\ r.tag # Missing /\ r.tag # Invalid /\ r.tag >= 0
    BY <1>5 DEF Ambiguous, Missing, Invalid
  <2>2. CASE t < r.tag
    BY <1>5, <2>1, <2>2 DEF Evaluate, Reasons, Benign
  <2>3. CASE t >= r.tag /\ r.state \in Live
    BY <1>5, <2>1, <2>3 DEF Evaluate, Reasons, Benign, Live
  <2>4. CASE t >= r.tag /\ r.state = "shutting-down"
    BY <1>5, <2>1, <2>4 DEF Evaluate, Reasons, Benign, Live
  <2>5. CASE t >= r.tag /\ r.state \in {"terminated", "gone"}
    BY <1>5, <2>1, <2>5 DEF Evaluate, Reasons, Benign, Live
  <2>6. QED BY <1>1, <1>5, <2>2, <2>3, <2>4, <2>5 DEF States
<1>6. QED BY <1>1, <1>2, <1>3, <1>4, <1>5 DEF Tags

LEMMA StatusIs ==
  ASSUME NEW i \in Instances, NEW x \in Workers, ~x.terminal, NEW s \in Statuses, NEW b \in BOOLEAN,
         s = "termination_requested" => state[i] \in {"shutting-down", "terminated", "gone"}
  PROVE  \A y \in {[x EXCEPT !.status = s], [x EXCEPT !.status = s, !.active = b]} :
           /\ y \in Workers /\ Preserves(i, x, y) /\ y.reason = x.reason /\ y.status = s
           /\ y.errs = x.errs /\ ~y.terminal
<1>1. TAKE y \in {[x EXCEPT !.status = s], [x EXCEPT !.status = s, !.active = b]}
<1>2. y \in Workers
  BY DEF Workers
<1>3. /\ y.reason = x.reason /\ y.status = s /\ y.terminal = x.terminal
      /\ y.expires = x.expires /\ y.rec = x.rec /\ y.picked = x.picked /\ y.deletion = x.deletion
      /\ y.root = x.root /\ y.errs = x.errs
  BY DEF Workers
<1>4. QED BY <1>2, <1>3 DEF Preserves, Honest

LEMMA ActiveIs ==
  ASSUME NEW i \in Instances, NEW x \in Workers, NEW b \in BOOLEAN
  PROVE  /\ [x EXCEPT !.active = b] \in Workers /\ Preserves(i, x, [x EXCEPT !.active = b])
         /\ [x EXCEPT !.active = b].reason = x.reason /\ [x EXCEPT !.active = b].status = x.status
         /\ [x EXCEPT !.active = b].terminal = x.terminal /\ [x EXCEPT !.active = b].active = b
         /\ [x EXCEPT !.active = b].errs = x.errs /\ [x EXCEPT !.active = b].root = x.root
         /\ [x EXCEPT !.active = b].deletion = x.deletion
<1> DEFINE y == [x EXCEPT !.active = b]
<1>1. y \in Workers
  BY DEF Workers
<1>2. /\ y.reason = x.reason /\ y.status = x.status /\ y.terminal = x.terminal
      /\ y.expires = x.expires /\ y.rec = x.rec /\ y.picked = x.picked /\ y.deletion = x.deletion
      /\ y.root = x.root /\ y.errs = x.errs /\ y.active = b
  BY DEF Workers
<1>3. QED BY <1>1, <1>2 DEF Preserves, Honest

\* A worker whose instance was seen terminated.
LEMMA TerminalIs ==
  ASSUME NEW i \in Instances, NEW x \in Workers, state[i] \in {"terminated", "gone"},
         NEW s \in {"already_terminated", "termination_observed"}
  PROVE  /\ [x EXCEPT !.status = s, !.terminal = TRUE] \in Workers
         /\ Preserves(i, x, [x EXCEPT !.status = s, !.terminal = TRUE])
         /\ [x EXCEPT !.status = s, !.terminal = TRUE].reason = x.reason
         /\ [x EXCEPT !.status = s, !.terminal = TRUE].active = x.active
<1> DEFINE y == [x EXCEPT !.status = s, !.terminal = TRUE]
<1>1. y \in Workers
  BY DEF Workers, Statuses
<1>2. /\ y.reason = x.reason /\ y.status = s /\ y.terminal = TRUE /\ y.active = x.active
      /\ y.expires = x.expires /\ y.rec = x.rec /\ y.picked = x.picked /\ y.deletion = x.deletion
      /\ y.root = x.root /\ y.errs = x.errs
  BY DEF Workers
<1>3. QED BY <1>1, <1>2 DEF Preserves, Honest
LEMMA SkippedIs ==
  ASSUME NEW i \in Instances, NEW x \in Workers, ~x.terminal, NEW d \in Reasons, NEW e \in SUBSET Problems,
         x.errs \subseteq e
  PROVE  /\ [x EXCEPT !.status = "skipped", !.reason = d, !.errs = e] \in Workers
         /\ Preserves(i, x, [x EXCEPT !.status = "skipped", !.reason = d, !.errs = e])
         /\ [x EXCEPT !.status = "skipped", !.reason = d, !.errs = e].status = "skipped"
         /\ [x EXCEPT !.status = "skipped", !.reason = d, !.errs = e].reason = d
         /\ [x EXCEPT !.status = "skipped", !.reason = d, !.errs = e].errs = e
<1> DEFINE y == [x EXCEPT !.status = "skipped", !.reason = d, !.errs = e]
<1>1. y \in Workers
  BY DEF Workers, Statuses
<1>2. /\ y.reason = d /\ y.status = "skipped" /\ y.terminal = x.terminal /\ y.active = x.active
      /\ y.expires = x.expires /\ y.rec = x.rec /\ y.picked = x.picked /\ y.deletion = x.deletion
      /\ y.root = x.root /\ y.errs = e
  BY DEF Workers
<1>3. QED BY <1>1, <1>2 DEF Preserves, Honest

LEMMA RecheckIs ==
  ASSUME NEW x \in Workers, NEW r \in Records, NEW t \in Nat
  PROVE  /\ Recheck(x, r, t) \in Reasons
         /\ Recheck(x, r, t) = "already_terminated" => r.state \in {"terminated", "gone"}
         /\ Recheck(x, r, t) = "expired" => r.tag = x.expires
         /\ Recheck(x, r, t) \in Benign \ Actionable /\ x.expires \in 0..t => r.tag # x.expires
<1>1. r.tag \in Tags /\ Benign \subseteq Reasons
  BY DEF Records, Reasons
<1>2. CASE r.tag >= 0 /\ r.tag # x.expires
  BY <1>1, <1>2 DEF Recheck, Benign
<1>3. CASE ~(r.tag >= 0 /\ r.tag # x.expires)
  <2>1. Recheck(x, r, t) = Evaluate(r, t)
    BY <1>3 DEF Recheck
  <2>2. Evaluate(r, t) = "expired" => r.tag = x.expires
    BY <1>3, EvaluateIs
  <2>3. Evaluate(r, t) \in Benign \ Actionable => Evaluate(r, t) \in {"expiry_future", "expiry_missing"}
    BY EvaluateIs DEF Benign, Actionable
  <2>4. ASSUME x.expires \in 0..t, Evaluate(r, t) \in {"expiry_future", "expiry_missing"}
        PROVE  r.tag # x.expires
    BY <2>4, EvaluateIs DEF Missing
  <2>5. QED BY <2>1, <2>2, <2>3, <2>4, EvaluateIs
<1>4. QED BY <1>2, <1>3

\* What the exact reread makes of a candidate: it is sent on as it is, or its
\* worker is done and has a problem, is observed, or names the changed expiry.
LEMMA RecheckedIs ==
  ASSUME AccountTyped, NEW i \in Instances, NEW x \in Workers, ~x.terminal, NEW r \in Reads(i)
  PROVE  /\ Rechecked(x, r).rec \in Workers /\ Preserves(i, x, Rechecked(x, r).rec)
         /\ Rechecked(x, r).at \in {"finished", "rechecked"}
         /\ Rechecked(x, r).at = "rechecked" =>
              Rechecked(x, r).rec = x /\ x.picked /\ tag[i] = x.expires
         /\ Rechecked(x, r).at = "finished" /\ x.reason = "expired" /\ x.expires \in 0..now =>
              \/ Rechecked(x, r).rec.errs # {}
              \/ Rechecked(x, r).rec.active
              \/ /\ Rechecked(x, r).rec.status = "skipped"
                 /\ Rechecked(x, r).rec.reason \in Benign \ {"expired"}
                 /\ tag[i] # x.expires
<1> DEFINE d == Recheck(x, r, now)
           y == IF d = "already_terminated" THEN [x EXCEPT !.status = d, !.terminal = TRUE] ELSE x
<1>1. now \in Nat /\ r \in Records /\ r.state = state[i] /\ r.tag = tag[i]
  BY ReadsAre, Bounds DEF AccountTyped
<1>2. /\ d \in Reasons /\ (d = "already_terminated" => state[i] \in {"terminated", "gone"})
      /\ (d = "expired" => tag[i] = x.expires)
      /\ (d \in Benign \ Actionable /\ x.expires \in 0..now => tag[i] # x.expires)
  BY <1>1, RecheckIs
<1>3. y \in Workers /\ Preserves(i, x, y) /\ y.reason = x.reason /\ y.active = x.active
  <2>1. CASE d = "already_terminated"
    BY <1>2, <2>1, TerminalIs
  <2>2. CASE d # "already_terminated"
    BY <2>2 DEF Preserves
  <2>3. QED BY <2>1, <2>2
<1>4. {"root_volume_unverified", "resource_unverified"} \subseteq Problems /\ Reasons \subseteq Problems
      /\ "already_terminating" \in Statuses
  BY DEF Problems, Statuses
<1>5. CASE d \notin Actionable
  <2>1. PICK e \in SUBSET Problems : /\ d \in Benign => e = x.errs
                                     /\ d \notin Benign => e = x.errs \cup {d}
    <3>1. x.errs \in SUBSET Problems /\ x.errs \cup {d} \in SUBSET Problems
      BY <1>2, <1>4 DEF Workers
    <3>2. CASE d \in Benign
      BY <3>1, <3>2
    <3>3. CASE d \notin Benign
      BY <3>1, <3>3
    <3>4. QED BY <3>2, <3>3
  <2>2. PICK z \in Workers : /\ z = [x EXCEPT !.status = "skipped", !.reason = d, !.errs = e]
                             /\ Preserves(i, x, z) /\ z.status = "skipped" /\ z.reason = d /\ z.errs = e
    <3>1. x.errs \subseteq e
      BY <2>1
    <3> DEFINE u == [x EXCEPT !.status = "skipped", !.reason = d, !.errs = e]
    <3>2. u \in Workers /\ Preserves(i, x, u)
      BY <1>2, <3>1, SkippedIs
    <3>3. u.status = "skipped" /\ u.reason = d /\ u.errs = e
      BY DEF Workers
    <3>4. QED BY <3>2, <3>3
  <2>3. Rechecked(x, r) = [rec |-> z, at |-> "finished"]
    <3>1. Rechecked(x, r) =
            [rec |-> [x EXCEPT !.status = "skipped", !.reason = d,
                               !.errs = IF d \in Benign THEN x.errs ELSE x.errs \cup {d}], at |-> "finished"]
      BY <1>5 DEF Rechecked, Actionable
    <3>2. CASE d \in Benign
      BY <2>1, <2>2, <3>1, <3>2
    <3>3. CASE d \notin Benign
      BY <2>1, <2>2, <3>1, <3>3
    <3>4. QED BY <3>2, <3>3
  <2>4. Rechecked(x, r).rec = z /\ Rechecked(x, r).at = "finished"
    BY <2>3
  <2>5. d # "expired" /\ (d \notin Benign => z.errs # {})
    BY <1>5, <2>1, <2>2 DEF Actionable
  <2>6. QED BY <1>2, <1>5, <2>2, <2>4, <2>5
<1>6. CASE d \in Actionable /\ ~ConsistentMappings(x.rec, r)
  <2>1. Rechecked(x, r) = [rec |-> [Fault(y, "root_volume_unverified") EXCEPT !.root = "unavailable"],
                           at |-> "finished"]
    BY <1>6 DEF Rechecked, Actionable
  <2>2. PICK z \in Workers : z = Fault(y, "root_volume_unverified") /\ Preserves(i, y, z) /\ z.errs # {}
    BY <1>3, <1>4, FaultIs
  <2>3. PICK u \in Workers : u = [z EXCEPT !.root = "unavailable"] /\ Preserves(i, z, u) /\ u.errs # {}
    BY <2>2, RootIs
  <2>4. Preserves(i, x, u)
    BY <1>3, <2>2, <2>3 DEF Preserves
  <2>5. Rechecked(x, r).rec = u /\ Rechecked(x, r).at = "finished"
    BY <2>1, <2>2, <2>3
  <2>6. QED BY <2>3, <2>4, <2>5
<1>7. CASE d = "already_terminated" /\ ConsistentMappings(x.rec, r)
  <2> DEFINE z == IF ~HistoricalMappingsAbsent(x.rec, x.reason) THEN [y EXCEPT !.active = TRUE]
                  ELSE IF HistoricalMappingsAbsent(r, d) THEN y ELSE Fault(y, "root_volume_unverified")
  <2>1. Rechecked(x, r) = [rec |-> z, at |-> "finished"]
    BY <1>7 DEF Rechecked, Actionable
  <2>2. x.reason = "expired" => z = [y EXCEPT !.active = TRUE]
    BY DEF HistoricalMappingsAbsent
  <2>3. /\ [y EXCEPT !.active = TRUE] \in Workers /\ Preserves(i, y, [y EXCEPT !.active = TRUE])
        /\ [y EXCEPT !.active = TRUE].active = TRUE
    BY <1>3, ActiveIs
  <2>4. Fault(y, "root_volume_unverified") \in Workers /\ Preserves(i, y, Fault(y, "root_volume_unverified"))
    BY <1>3, <1>4, FaultIs
  <2>5. z \in Workers /\ (z = y \/ Preserves(i, y, z))
    BY <1>3, <2>3, <2>4
  <2>6. Preserves(i, x, z)
    BY <1>3, <2>5 DEF Preserves
  <2>7. x.reason = "expired" => z.active
    BY <2>2, <2>3
  <2>8. Rechecked(x, r).rec = z /\ Rechecked(x, r).at = "finished"
    BY <2>1
  <2> HIDE DEF z
  <2>9. QED BY <2>5, <2>6, <2>7, <2>8
<1>8. CASE d = "already_terminating" /\ ConsistentMappings(x.rec, r)
  <2>1. Rechecked(x, r) = [rec |-> [x EXCEPT !.status = d, !.active = TRUE], at |-> "finished"]
    BY <1>8 DEF Rechecked, Actionable
  <2>2. PICK z \in Workers : z = [x EXCEPT !.status = d, !.active = TRUE] /\ Preserves(i, x, z)
    <3> DEFINE z == [x EXCEPT !.status = d, !.active = TRUE]
    <3>1. d \in Statuses /\ d # "termination_requested" /\ TRUE \in BOOLEAN /\ ~x.terminal
      BY <1>4, <1>8 DEF Statuses
    <3>2. z \in Workers /\ Preserves(i, x, z)
      BY <3>1, StatusIs
    <3> HIDE DEF z
    <3>3. \E t \in Workers : t = z /\ Preserves(i, x, t)
      BY <3>2
    <3>4. QED BY <3>3 DEF z
  <2>3. z.active
    BY <2>2 DEF Workers
  <2>4. Rechecked(x, r).rec = z /\ Rechecked(x, r).at = "finished"
    BY <2>1, <2>2
  <2>5. QED BY <2>2, <2>3, <2>4
<1>9. CASE d = "expired" /\ ConsistentMappings(x.rec, r)
  <2>1. Rechecked(x, r) = IF x.picked THEN [rec |-> x, at |-> "rechecked"]
                          ELSE [rec |-> Fault(x, "resource_unverified"), at |-> "finished"]
    BY <1>9 DEF Rechecked, Actionable
  <2>2. Preserves(i, x, x)
    BY DEF Preserves
  <2>3. PICK z \in Workers : z = Fault(x, "resource_unverified") /\ Preserves(i, x, z) /\ z.errs # {}
    BY <1>4, FaultIs
  <2>4. CASE x.picked
    BY <1>2, <1>9, <2>1, <2>2, <2>4
  <2>5. CASE ~x.picked
    BY <2>1, <2>3, <2>5
  <2>6. QED BY <2>4, <2>5
<1>10. QED BY <1>5, <1>6, <1>7, <1>8, <1>9 DEF Actionable
LEMMA SettingsAre ==
  ASSUME NEW D, NEW f \in Settings(D)
  PROVE  DOMAIN f \in SUBSET Volumes /\ f = [v \in DOMAIN f |-> f[v]] /\ \A v \in DOMAIN f : f[v] \in D
BY DEF Settings

LEMMA IsSetting ==
  ASSUME NEW D, NEW S \in SUBSET Volumes, NEW f \in [S -> D]
  PROVE  f \in Settings(D)
BY DEF Settings

LEMMA NewWorkerIs ==
  ASSUME NEW i \in Instances, NEW r \in Records, NEW conflict \in BOOLEAN, NEW t \in Nat, NEW whole \in BOOLEAN
  PROVE  \E z \in Workers :
             /\ z = NewWorker(r, conflict, t, whole)
             /\ Honest(i, z) /\ z.rec = r /\ z.expires = r.tag /\ ~z.active /\ ~z.terminal
             /\ DOMAIN z.deletion = DOMAIN r.vols
             /\ z.picked => /\ whole /\ r.tag \in 0..t /\ z.reason = "expired"
                            /\ z.status = "termination_not_requested"
<1> DEFINE z == NewWorker(r, conflict, t, whole)
<1>1. PICK reason \in Reasons : /\ reason = (IF conflict THEN "resource_invalid" ELSE Evaluate(r, t))
                                /\ reason = "expired" => r.tag \in 0..t
  BY EvaluateIs DEF Reasons
<1>2. PICK picked \in BOOLEAN : picked = (whole /\ reason = "expired")
  OBVIOUS
<1>3. PICK status \in Statuses :
        /\ status = (CASE reason \in {"already_terminated", "already_terminating"} -> reason
                       [] whole /\ reason = "expired" -> "termination_not_requested"
                       [] OTHER -> "skipped")
        /\ status # "termination_requested" /\ (picked => status = "termination_not_requested")
  BY <1>2 DEF Statuses
<1>4. PICK root \in Deletions : /\ root = (IF HistoricalMappingsAbsent(r, reason) THEN "unavailable" ELSE "not_observed")
                                /\ root # "deleted"
  BY DEF Deletions
<1>5. /\ DOMAIN r.vols \in SUBSET Volumes
      /\ \A v \in DOMAIN r.vols : FirstDeletion(r.vols[v]) \in Deletions \ {"deleted"}
      /\ \A v \in DOMAIN r.vols : FirstDeletion(r.vols[v]) = "retained" => r.vols[v] = "keep"
  <2>1. r.vols \in Settings(Flags)
    BY DEF Records
  <2>2. DOMAIN r.vols \in SUBSET Volumes
    BY <2>1, SettingsAre
  <2>3. QED BY <2>2 DEF FirstDeletion, Deletions
<1>6. PICK deletion \in Settings(Deletions) : deletion = [v \in DOMAIN r.vols |-> FirstDeletion(r.vols[v])]
  BY <1>5, IsSetting
<1>7. PICK errs \in SUBSET Problems : errs = (IF reason \in Benign THEN {} ELSE {reason})
  BY DEF Problems
<1>8. z = [reason |-> reason, expires |-> r.tag, rec |-> r, picked |-> picked, status |-> status, root |-> root,
           deletion |-> deletion, errs |-> errs, active |-> FALSE, terminal |-> FALSE, next |-> 0,
           conflict |-> conflict]
  BY <1>1, <1>2, <1>3, <1>4, <1>6, <1>7 DEF NewWorker
<1>9. r.tag \in Tags
  BY DEF Records
<1> HIDE DEF z
<1>10. z \in Workers
  BY <1>8, <1>9 DEF Workers
<1>11. Honest(i, z)
  BY <1>3, <1>4, <1>5, <1>6, <1>8 DEF Honest
<1>12. /\ z.rec = r /\ z.expires = r.tag /\ ~z.active /\ ~z.terminal /\ DOMAIN z.deletion = DOMAIN r.vols
       /\ z.picked => whole /\ z.reason = "expired" /\ r.tag \in 0..t /\ z.status = "termination_not_requested"
  BY <1>1, <1>2, <1>3, <1>6, <1>8
<1>13. z = NewWorker(r, conflict, t, whole)
  BY DEF z
<1>14. QED BY <1>10, <1>11, <1>12, <1>13
\* What a worker says of the volumes changes only towards "unavailable".
LEMMA DeletionIs ==
  ASSUME NEW i \in Instances, NEW x \in Workers, NEW f \in Settings(Deletions), NEW d \in Deletions,
         DOMAIN f = DOMAIN x.deletion, \A v \in DOMAIN f : f[v] \in {"unavailable", x.deletion[v]},
         d \in {"unavailable", x.root}
  PROVE  /\ [x EXCEPT !.deletion = f, !.root = d] \in Workers
         /\ Preserves(i, x, [x EXCEPT !.deletion = f, !.root = d])
         /\ SameProgress(x, [x EXCEPT !.deletion = f, !.root = d])
<1> DEFINE y == [x EXCEPT !.deletion = f, !.root = d]
<1>1. y \in Workers
  BY DEF Workers
<1>2. /\ y.reason = x.reason /\ y.status = x.status /\ y.active = x.active /\ y.terminal = x.terminal
      /\ y.expires = x.expires /\ y.rec = x.rec /\ y.picked = x.picked /\ y.deletion = f
      /\ y.root = d /\ y.errs = x.errs
  BY DEF Workers
<1> HIDE DEF y
<1>3. Honest(i, x) => Honest(i, y)
  BY <1>2 DEF Honest
<1>4. QED BY <1>1, <1>2, <1>3 DEF y, Preserves, SameProgress

\* A worker with an open volume gets a problem; one without is left alone.
LEMMA UnresolvedIs ==
  ASSUME NEW i \in Instances, NEW x \in Workers
  PROVE  /\ Unresolved(x) \in Workers /\ Preserves(i, x, Unresolved(x)) /\ SameProgress(x, Unresolved(x))
         /\ \/ Unresolved(x).errs # {}
            \/ Unresolved(x) = x /\ \A v \in DOMAIN x.deletion : x.deletion[v] \in {"deleted", "retained"}
<1> DEFINE open == {v \in DOMAIN x.deletion : x.deletion[v] \notin {"deleted", "retained"}}
<1>1. CASE open = {}
  BY <1>1 DEF Unresolved, Preserves, SameProgress
<1>2. CASE open # {}
  <2>1. "volume_unresolved" \in Problems
    BY DEF Problems
  <2>2. PICK y \in Workers : /\ y = Fault(x, "volume_unresolved") /\ Preserves(i, x, y) /\ SameProgress(x, y)
                             /\ y.errs # {} /\ y.root = x.root /\ y.deletion = x.deletion
    BY <2>1, FaultIs
  <2>3. /\ DOMAIN y.deletion \in SUBSET Volumes /\ y.root \in Deletions
        /\ \A v \in DOMAIN y.deletion : y.deletion[v] \in Deletions
    <3>1. y.deletion \in Settings(Deletions) /\ y.root \in Deletions
      BY DEF Workers
    <3>2. QED BY <3>1, SettingsAre
  <2>4. PICK f \in Settings(Deletions) :
          f = [v \in DOMAIN y.deletion |-> IF v \in open THEN "unavailable" ELSE y.deletion[v]]
    <3>1. \A v \in DOMAIN y.deletion : (IF v \in open THEN "unavailable" ELSE y.deletion[v]) \in Deletions
      BY <2>3 DEF Deletions
    <3>2. QED BY <2>3, <3>1, IsSetting
  <2>5. PICK d \in Deletions : d = (IF open \cap Roots # {} THEN "unavailable" ELSE y.root)
    BY <2>3 DEF Deletions
  <2>6. Unresolved(x) = [y EXCEPT !.deletion = f, !.root = d]
    BY <1>2, <2>2, <2>4, <2>5 DEF Unresolved, Workers
  <2>7. DOMAIN f = DOMAIN y.deletion /\ \A v \in DOMAIN f : f[v] \in {"unavailable", y.deletion[v]}
    BY <2>4
  <2>8. d \in {"unavailable", y.root}
    BY <2>5
  <2>9. [y EXCEPT !.deletion = f, !.root = d] \in Workers
        /\ Preserves(i, y, [y EXCEPT !.deletion = f, !.root = d])
        /\ SameProgress(y, [y EXCEPT !.deletion = f, !.root = d])
    BY <2>7, <2>8, DeletionIs
  <2>10. PICK z \in Workers : z = Unresolved(x) /\ Preserves(i, y, z) /\ SameProgress(y, z)
    BY <2>6, <2>9
  <2>11. QED BY <2>2, <2>10 DEF Preserves, SameProgress
<1>3. QED BY <1>1, <1>2

\* A candidate whose instance is gone, and whose volumes are accounted for.
LEMMA ResolvedIsSettled ==
  ASSUME NEW i \in Instances, NEW x \in Workers, Honest(i, x), x.terminal, DOMAIN x.deletion = DOMAIN x.rec.vols,
         \A v \in DOMAIN x.deletion : x.deletion[v] \in {"deleted", "retained"}
  PROVE  SettledBy(i, x)
BY DEF SettledBy, Honest

LEMMA AccountedIsKept ==
  ASSUME NEW i \in Instances, NEW x \in Workers, NEW y \in Workers, Accounted(i, x), Preserves(i, x, y),
         SameProgress(x, y)
  PROVE  Accounted(i, y)
BY DEF Accounted, Preserves, SameProgress, SettledBy

LEMMA ExplainedIs ==
  ASSUME NEW i \in Instances, NEW x \in Workers
  PROVE  /\ Explained(x) \in Workers /\ Preserves(i, x, Explained(x)) /\ SameProgress(x, Explained(x))
         /\ Explains(i, x) /\ Honest(i, x) /\ DOMAIN x.deletion = DOMAIN x.rec.vols
              => Accounted(i, Explained(x))
<1>1. {"termination_unresolved", "interrupted"} \subseteq Problems
  BY DEF Problems
<1>2. PICK y \in Workers :
        /\ y = (IF ~x.active THEN x ELSE IF x.terminal THEN Unresolved(x) ELSE Fault(x, "termination_unresolved"))
        /\ Preserves(i, x, y) /\ SameProgress(x, y)
        /\ x.active /\ Honest(i, x) /\ DOMAIN x.deletion = DOMAIN x.rec.vols => Accounted(i, y)
  <2>1. CASE ~x.active
    BY <2>1 DEF Preserves, SameProgress
  <2>2. CASE x.active /\ x.terminal
    <3>1. PICK z \in Workers : /\ z = Unresolved(x) /\ Preserves(i, x, z) /\ SameProgress(x, z)
                               /\ \/ z.errs # {}
                                  \/ z = x /\ \A v \in DOMAIN x.deletion : x.deletion[v] \in {"deleted", "retained"}
      BY UnresolvedIs
    <3>2. Honest(i, x) /\ DOMAIN x.deletion = DOMAIN x.rec.vols => Accounted(i, z)
      BY <2>2, <3>1, ResolvedIsSettled DEF Accounted
    <3>3. QED BY <2>2, <3>1, <3>2
  <2>3. CASE x.active /\ ~x.terminal
    <3>1. PICK z \in Workers : /\ z = Fault(x, "termination_unresolved") /\ Preserves(i, x, z)
                               /\ SameProgress(x, z) /\ z.errs # {}
      BY <1>1, FaultIs
    <3>2. QED BY <2>3, <3>1 DEF Accounted
  <2>4. QED BY <2>1, <2>2, <2>3
<1>3. CASE ctx = "ended" /\ y.status = "termination_not_requested"
  <2>1. Explained(x) = Fault(y, "interrupted")
    BY <1>2, <1>3 DEF Explained
  <2>2. PICK z \in Workers : /\ z = Explained(x) /\ Preserves(i, y, z) /\ SameProgress(y, z) /\ z.errs # {}
    BY <1>1, <2>1, FaultIs
  <2>3. QED BY <1>2, <2>2 DEF Accounted, Preserves, SameProgress
<1>4. CASE ~(ctx = "ended" /\ y.status = "termination_not_requested")
  <2>1. Explained(x) = y
    BY <1>2, <1>4 DEF Explained
  <2>2. Accounted(i, x) => Accounted(i, y)
    BY <1>2, AccountedIsKept
  <2>3. Explains(i, x) /\ Honest(i, x) /\ DOMAIN x.deletion = DOMAIN x.rec.vols => Accounted(i, y)
    BY <1>2, <1>4, <2>2 DEF Explains, SameProgress
  <2>4. QED BY <1>2, <2>1, <2>3
<1>5. QED BY <1>3, <1>4

\* The end of a turn keeps a worker truthful, and says what became of it.
LEMMA SettleIs ==
  ASSUME NEW i \in Instances, NEW x \in Workers, DOMAIN x.deletion = DOMAIN x.rec.vols
  PROVE  /\ Settle(x) \in Workers /\ Preserves(i, x, Settle(x))
         /\ Explains(i, x) /\ Honest(i, x) /\ x.terminal => Explains(i, Settle(x))
<1> DEFINE gone == RootDeletion(x)
<1>1. PICK y \in Workers : /\ y = (IF RootProblem(x.rec) # "" THEN x ELSE [x EXCEPT !.root = gone])
                           /\ Preserves(i, x, y) /\ SameProgress(x, y) /\ y.deletion = x.deletion
  <2>1. CASE RootProblem(x.rec) # ""
    BY <2>1 DEF Preserves, SameProgress
  <2>2. CASE RootProblem(x.rec) = ""
    <3>1. Cardinality(RootOf(x.rec)) = 1
      BY <2>2 DEF RootProblem
    <3>2. x.rec.vols \in Settings(Flags) /\ x.deletion \in Settings(Deletions)
      BY DEF Workers, Records
    <3>3. DOMAIN x.rec.vols \in SUBSET Volumes /\ \A v \in DOMAIN x.deletion : x.deletion[v] \in Deletions
      BY <3>2, SettingsAre
    <3>4. RootOf(x.rec) \in SUBSET Volumes /\ RootOf(x.rec) \subseteq DOMAIN x.rec.vols
      BY <3>3 DEF RootOf
    <3>5. IsFiniteSet(RootOf(x.rec))
      BY <3>4, FS_Subset, Bounds
    <3>6. PICK v : RootOf(x.rec) = {v}
      BY <3>1, <3>5, FS_Singleton
    <3>7. v \in DOMAIN x.deletion /\ gone = x.deletion[v]
      BY <3>4, <3>6 DEF RootDeletion
    <3>8. PICK d \in Deletions : d = x.deletion[v] /\ d = gone
      BY <3>3, <3>7
    <3> DEFINE z == [x EXCEPT !.root = d]
    <3>9. z \in Workers
      BY DEF Workers
    <3>10. /\ z.reason = x.reason /\ z.status = x.status /\ z.active = x.active /\ z.terminal = x.terminal
           /\ z.expires = x.expires /\ z.rec = x.rec /\ z.picked = x.picked /\ z.deletion = x.deletion
           /\ z.root = d /\ z.errs = x.errs
      BY DEF Workers
    <3>11. z = [x EXCEPT !.root = gone]
      BY <3>8
    <3> HIDE DEF z
    <3>12. Honest(i, x) => Honest(i, z)
      BY <3>6, <3>7, <3>8, <3>10 DEF Honest
    <3>13. Preserves(i, x, z) /\ SameProgress(x, z) /\ z.deletion = x.deletion
      BY <3>10, <3>12 DEF Preserves, SameProgress
    <3>14. z = (IF RootProblem(x.rec) # "" THEN x ELSE [x EXCEPT !.root = gone])
      BY <2>2, <3>11
    <3>15. QED BY <3>9, <3>13, <3>14
  <2>3. QED BY <2>1, <2>2
<1>2. Settle(x) = IF Awaited(y) # {} THEN y ELSE Unresolved([y EXCEPT !.active = FALSE])
  <2>1. CASE RootProblem(x.rec) # ""
    BY <1>1, <2>1 DEF Settle
  <2>2. CASE RootProblem(x.rec) = ""
    <3>1. y = [x EXCEPT !.root = gone]
      BY <1>1, <2>2
    <3>2. QED BY <2>2, <3>1 DEF Settle
  <2>3. QED BY <2>1, <2>2
<1>3. CASE Awaited(y) # {}
  <2>1. Accounted(i, x) => Accounted(i, y)
    BY <1>1, AccountedIsKept
  <2>2. Explains(i, x) => Explains(i, y)
    BY <1>1, <2>1 DEF Explains, SameProgress
  <2>3. QED BY <1>1, <1>2, <1>3, <2>2
<1>4. CASE Awaited(y) = {}
  <2>1. /\ [y EXCEPT !.active = FALSE] \in Workers /\ Preserves(i, y, [y EXCEPT !.active = FALSE])
        /\ [y EXCEPT !.active = FALSE].terminal = y.terminal
        /\ [y EXCEPT !.active = FALSE].deletion = y.deletion
    BY ActiveIs
  <2>2. PICK z \in Workers : /\ z = [y EXCEPT !.active = FALSE] /\ Preserves(i, y, z)
                             /\ z.terminal = y.terminal /\ z.deletion = y.deletion
    BY <2>1
  <2>3. PICK u \in Workers : /\ u = Unresolved(z) /\ Preserves(i, z, u) /\ SameProgress(z, u)
                             /\ \/ u.errs # {}
                                \/ u = z /\ \A v \in DOMAIN z.deletion : z.deletion[v] \in {"deleted", "retained"}
    BY UnresolvedIs
  <2>4. Settle(x) = u
    BY <1>2, <1>4, <2>2, <2>3
  <2>5. Preserves(i, x, u) /\ Preserves(i, x, z)
    BY <1>1, <2>2, <2>3 DEF Preserves
  <2>6. Honest(i, x) /\ x.terminal /\ u.errs = {} => Accounted(i, u)
    <3>1. HAVE Honest(i, x) /\ x.terminal /\ u.errs = {}
    <3>2. Honest(i, z) /\ z.terminal /\ DOMAIN z.deletion = DOMAIN z.rec.vols
      BY <1>1, <2>2, <2>5, <3>1 DEF Preserves, SameProgress
    <3>3. QED BY <2>3, <3>1, <3>2, ResolvedIsSettled DEF Accounted
  <2>7. QED BY <2>3, <2>4, <2>5, <2>6 DEF Explains, Accounted
<1>5. QED BY <1>3, <1>4
(***************************************************************************)
(* The account moves                                                       *)
(***************************************************************************)
\* The account forgets no termination and no deletion, and a change of an
\* expiry is remembered for the candidates that are held.
LEMMA AccountMoves ==
  ASSUME CleanupInv, AccountTyped', now <= now', UNCHANGED <<runVars, journal, sent>>, retagged' \subseteq scanned,
         \A i \in Instances :
           /\ state[i] \in {"terminated", "gone"} => state'[i] \in {"terminated", "gone"}
           /\ state[i] = "shutting-down" => state'[i] \in {"shutting-down", "terminated", "gone"}
           /\ \/ tag'[i] = tag[i] /\ (i \in retagged' <=> i \in retagged)
              \/ i \notin Held /\ (i \in retagged' <=> i \in retagged)
              \/ i \in Held /\ (i \in retagged' <=> tag'[i] # w[i].rec.tag),
         \A v \in Volumes : volume[v] = "deleted" => volume'[v] = "deleted"
  PROVE  CleanupInv'
<1>1. /\ dry' = dry /\ ctx' = ctx /\ stage' = stage /\ sampled' = sampled /\ scanned' = scanned
      /\ complete' = complete /\ rounds' = rounds /\ at' = at /\ w' = w /\ exit' = exit
      /\ journal' = journal /\ sent' = sent
  BY DEF runVars
<1>2. RunTyped'
  BY <1>1 DEF CleanupInv, RunTyped, AccountTyped
<1>3. ASSUME NEW i \in Instances PROVE WorkerOK(i, w[i], at[i])'
  <2>1. WorkerOK(i, w[i], at[i]) /\ w[i] \in Workers
    BY DEF CleanupInv, RunTyped
  <2>2. DOMAIN w[i].deletion \subseteq Volumes /\ DOMAIN w[i].rec.vols \subseteq Volumes
    <3>1. w[i].deletion \in Settings(Deletions) /\ w[i].rec.vols \in Settings(Flags)
      BY <2>1 DEF Workers, Records
    <3>2. QED BY <3>1, SettingsAre
  <2>3. RootOf(w[i].rec) \subseteq Volumes /\ RootOf(w[i].rec)' = RootOf(w[i].rec)
    BY <1>1, <2>2 DEF RootOf
  <2>4. Honest(i, w[i])'
    BY <1>1, <2>1, <2>2, <2>3 DEF WorkerOK, Honest
  <2>5. Selected(i, w[i], at[i])'
    <3>1. Selected(i, w[i], at[i])
      BY <2>1 DEF WorkerOK
    <3>2. Fresh(w[i])' <=> Fresh(w[i])
      BY <1>1 DEF Fresh
    <3>3. i \in scanned /\ stage \in Early \cup {"decide"} /\ at[i] \in {"idle", "queued", "decided", "prepared"}
            <=> i \in Held
      BY DEF CleanupInv, RunTyped, Held, Early
    <3>4. i \in Held => (i \in retagged' <=> tag'[i] # w[i].rec.tag)
      BY <3>1, <3>3 DEF Selected
    <3>5. QED BY <1>1, <3>1, <3>2, <3>3, <3>4 DEF Selected, Early
  <2>6. Dispatched(i, w[i], at[i])'
    BY <1>1, <2>1 DEF WorkerOK, Dispatched, Held, Early
  <2>7. SettledBy(i, w[i]) => SettledBy(i, w[i])'
    BY <1>1, <2>2 DEF SettledBy
  <2>8. ASSUME i \notin Held, Accounted(i, w[i]) PROVE Accounted(i, w[i])'
    BY <1>1, <2>7, <2>8 DEF Accounted
  <2>9. ASSUME i \notin Held, Explains(i, w[i]) PROVE Explains(i, w[i])'
    BY <1>1, <2>8, <2>9 DEF Explains
  <2>10. Excuses(i, w[i], at[i])'
    BY <1>1, <2>1, <2>8, <2>9 DEF WorkerOK, Excuses, Held, Late
  <2>11. QED BY <2>4, <2>5, <2>6, <2>10 DEF WorkerOK
<1>4. ExitOK'
  BY <1>1 DEF CleanupInv, ExitOK
<1>5. Busy' = Busy
  BY <1>1 DEF Busy
<1>6. QED BY <1>2, <1>3, <1>4, <1>5 DEF CleanupInv

LEMMA AccountKeeps == ASSUME CleanupInv, Account PROVE CleanupInv'
<1> USE DEF AccountTyped
<1>1. AccountTyped /\ MaxTime \in Nat /\ MaxMoves \in Nat /\ retagged \subseteq scanned /\ scanned \subseteq Instances
  BY Bounds DEF CleanupInv, RunTyped
<1>2. CASE Tick
  <2>1. now' \in 0..MaxTime /\ now <= now'
    BY <1>1, <1>2 DEF Tick
  <2>2. QED BY <1>1, <1>2, <2>1, AccountMoves DEF Tick, history
<1>3. ASSUME NEW i \in Instances, Retag(i) PROVE CleanupInv'
  <2>1. PICK x \in (0..MaxTime) \cup {Missing} :
          /\ tag' = [tag EXCEPT ![i] = x]
          /\ retagged' = IF i \notin Held THEN retagged
                         ELSE IF x = w[i].rec.tag THEN retagged \ {i} ELSE retagged \cup {i}
    BY <1>3 DEF Retag
  <2>2. /\ moves' \in 0..MaxMoves /\ tag' \in [Instances -> Tags]
        /\ UNCHANGED <<now, state, flag, volume, inflight, runVars, journal, sent>>
    BY <1>1, <1>3, <2>1 DEF Retag, Tags
  <2>3. i \in Held => i \in scanned
    BY DEF Held
  <2>4. retagged' \subseteq scanned
    BY <1>1, <2>1, <2>3
  <2>5. ASSUME NEW j \in Instances
        PROVE  \/ tag'[j] = tag[j] /\ (j \in retagged' <=> j \in retagged)
               \/ j \notin Held /\ (j \in retagged' <=> j \in retagged)
               \/ j \in Held /\ (j \in retagged' <=> tag'[j] # w[j].rec.tag)
    BY <1>1, <2>1
  <2>6. AccountTyped'
    BY <1>1, <2>2
  <2>7. now <= now' /\ state' = state /\ volume' = volume
    BY <1>1, <2>2
  <2>8. QED BY <2>2, <2>4, <2>5, <2>6, <2>7, AccountMoves
<1>4. ASSUME NEW i \in Instances, TerminatedElsewhere(i) PROVE CleanupInv'
  <2>1. /\ moves' \in 0..MaxMoves /\ state[i] \in Live /\ state' = [state EXCEPT ![i] = "shutting-down"]
        /\ now <= now' /\ UNCHANGED <<now, tag, flag, volume, inflight, runVars, journal, sent, retagged>>
    BY <1>1, <1>4 DEF TerminatedElsewhere, history
  <2>2. state' \in [Instances -> States]
    BY <1>1, <2>1 DEF States
  <2>3. AccountTyped'
    BY <1>1, <2>1, <2>2
  <2>4. QED BY <1>1, <2>1, <2>3, AccountMoves DEF Live
<1>5. ASSUME NEW i \in Instances, ShutDown(i) PROVE CleanupInv'
  <2>1. /\ moves' \in 0..MaxMoves /\ now <= now'
        /\ \/ state[i] = "shutting-down" /\ state' = [state EXCEPT ![i] = "terminated"]
           \/ state[i] = "terminated" /\ state' = [state EXCEPT ![i] = "gone"]
        /\ UNCHANGED <<now, tag, flag, volume, inflight, runVars, journal, sent, retagged>>
    BY <1>1, <1>5 DEF ShutDown, history
  <2>2. state' \in [Instances -> States]
    BY <1>1, <2>1 DEF States
  <2>3. AccountTyped'
    BY <1>1, <2>1, <2>2
  <2>4. QED BY <1>1, <2>1, <2>3, AccountMoves
<1>6. ASSUME NEW i \in Instances, Arrives(i) PROVE CleanupInv'
  <2>1. /\ inflight' \subseteq Instances /\ now <= now'
        /\ state' = IF state[i] \in Live THEN [state EXCEPT ![i] = "shutting-down"] ELSE state
        /\ UNCHANGED <<now, tag, flag, volume, moves, runVars, journal, sent, retagged>>
    BY <1>1, <1>6 DEF Arrives, history
  <2>2. state' \in [Instances -> States]
    BY <1>1, <2>1 DEF States
  <2>3. AccountTyped'
    BY <1>1, <2>1, <2>2
  <2>4. QED BY <1>1, <2>1, <2>3, AccountMoves DEF Live
<1>7. ASSUME NEW v \in Volumes, Remap(v) PROVE CleanupInv'
  <2>1. /\ moves' \in 0..MaxMoves /\ flag' \in [Volumes -> Flags] /\ now <= now'
        /\ UNCHANGED <<now, state, tag, volume, inflight, runVars, journal, sent, retagged>>
    BY <1>1, <1>7 DEF Remap, history
  <2>2. AccountTyped'
    BY <1>1, <2>1
  <2>3. QED BY <1>1, <2>1, <2>2, AccountMoves
<1>8. ASSUME NEW v \in Volumes, DeleteVolume(v) PROVE CleanupInv'
  <2>1. /\ volume' = [volume EXCEPT ![v] = "deleted"] /\ now <= now'
        /\ UNCHANGED <<now, state, tag, flag, moves, inflight, runVars, journal, sent, retagged>>
    BY <1>1, <1>8 DEF DeleteVolume, history
  <2>2. AccountTyped'
    BY <1>1, <2>1
  <2>3. QED BY <1>1, <2>1, <2>2, AccountMoves
<1>9. QED BY <1>2, <1>3, <1>4, <1>5, <1>6, <1>7, <1>8 DEF Account
(***************************************************************************)
(* The workers                                                             *)
(***************************************************************************)
Resting == {"idle", "queued", "finished"}

\* A worker starts only on a free slot; one that is under way keeps it.
LEMMA SlotsSuffice ==
  ASSUME NEW i \in Instances, NEW p, at \in [Instances -> Places], at' = [at EXCEPT ![i] = p],
         Cardinality(Busy) <= Concurrency,
         p \in Resting \/ at[i] \notin Resting \/ Cardinality(Busy) < Concurrency
  PROVE  Cardinality(Busy') <= Concurrency
<1>1. /\ Busy \subseteq Instances /\ Busy' \subseteq Instances /\ IsFiniteSet(Busy) /\ IsFiniteSet(Busy')
      /\ Cardinality(Busy) \in Nat /\ Cardinality(Busy') \in Nat /\ Concurrency \in Nat
  <2>1. Busy \in SUBSET Instances /\ Busy' \in SUBSET Instances
    BY DEF Busy
  <2>2. IsFiniteSet(Busy) /\ IsFiniteSet(Busy')
    BY <2>1, FS_Subset, Bounds
  <2>3. QED BY <2>1, <2>2, FS_CardinalityType, Bounds
<1>2. CASE p \in Resting \/ at[i] \notin Resting
  <2>1. Busy' \subseteq Busy
    BY <1>2 DEF Busy, Resting
  <2>2. Cardinality(Busy') <= Cardinality(Busy)
    BY <1>1, <2>1, FS_Subset
  <2>3. QED BY <1>1, <2>2
<1>3. CASE Cardinality(Busy) < Concurrency
  <2>1. Busy' \in SUBSET (Busy \cup {i})
    BY DEF Busy
  <2>2. /\ IsFiniteSet(Busy \cup {i}) /\ Cardinality(Busy \cup {i}) \in Nat
        /\ Cardinality(Busy \cup {i}) <= Cardinality(Busy) + 1
    <3>1. IsFiniteSet(Busy \cup {i})
      BY <1>1, FS_AddElement
    <3>2. Cardinality(Busy \cup {i}) = Cardinality(Busy) \/ Cardinality(Busy \cup {i}) = Cardinality(Busy) + 1
      BY <1>1, FS_AddElement
    <3>3. QED BY <1>1, <3>1, <3>2, FS_CardinalityType
  <2>3. Cardinality(Busy') <= Cardinality(Busy \cup {i})
    BY <2>1, <2>2, FS_Subset
  <2>4. QED BY <1>1, <1>3, <2>2, <2>3
<1>4. QED BY <1>2, <1>3

\* The account stands still while worker i moves; the journal only grows.
WorkersStep(i, y, p) ==
    /\ Becomes(i, y, p) /\ UNCHANGED <<now, state, tag, flag, volume, moves, runFrame, retagged>>
    /\ inflight' \subseteq Instances /\ journal \subseteq journal'
    /\ sent' \in [Instances -> Nat] /\ \A j \in Instances \ {i} : sent'[j] = sent[j]
    /\ p \in Resting \/ at[i] \notin Resting \/ Cardinality(Busy) < Concurrency
    /\ stage \notin {"summary", "done"}

\* What one worker does leaves the others as they were.
LEMMA WorkerMoves ==
  ASSUME CleanupInv, NEW i \in Instances, NEW y \in Workers, NEW p \in Places, WorkersStep(i, y, p),
         WorkerOK(i, y, p)'
  PROVE  CleanupInv'
<1>1. /\ w' = [w EXCEPT ![i] = y] /\ at' = [at EXCEPT ![i] = p] /\ now' = now /\ state' = state /\ tag' = tag
      /\ flag' = flag /\ volume' = volume /\ moves' = moves /\ retagged' = retagged
      /\ inflight' \subseteq Instances /\ journal \subseteq journal'
      /\ dry' = dry /\ ctx' = ctx /\ stage' = stage /\ sampled' = sampled /\ scanned' = scanned
      /\ complete' = complete /\ rounds' = rounds /\ exit' = exit
  BY DEF WorkersStep, Becomes, runFrame
<1>2. AccountTyped'
  BY <1>1 DEF CleanupInv, AccountTyped
<1>3. RunTyped'
  BY <1>1 DEF CleanupInv, RunTyped, WorkersStep
<1>4. ASSUME NEW j \in Instances PROVE WorkerOK(j, w[j], at[j])'
  <2>1. CASE j = i
    <3>1. w'[j] = y /\ at'[j] = p
      BY <1>1, <2>1 DEF CleanupInv, RunTyped
    <3>2. QED BY <2>1, <3>1
  <2>2. CASE j # i
    <3>1. w'[j] = w[j] /\ at'[j] = at[j] /\ sent'[j] = sent[j] /\ WorkerOK(j, w[j], at[j])
      BY <1>1, <2>2 DEF CleanupInv, RunTyped, WorkersStep
    <3>2. PICK x \in Workers, q \in Places : x = w[j] /\ q = at[j] /\ WorkerOK(j, x, q)
      BY <3>1 DEF CleanupInv, RunTyped
    <3>3. Honest(j, x)' /\ Selected(j, x, q)'
      BY <1>1, <3>2 DEF WorkerOK, Honest, Selected, Fresh, Early, RootOf
    <3>4. Dispatched(j, x, q)'
      BY <1>1, <3>1, <3>2 DEF WorkerOK, Dispatched, Early
    <3>5. Excuses(j, x, q)'
      BY <1>1, <3>2 DEF WorkerOK, Excuses, Explains, Accounted, SettledBy, Late
    <3>6. QED BY <3>1, <3>2, <3>3, <3>4, <3>5 DEF WorkerOK
  <2>3. QED BY <2>1, <2>2
<1>5. ExitOK'
  BY <1>1 DEF CleanupInv, ExitOK, WorkersStep
<1>6. Cardinality(Busy') <= Concurrency
  BY <1>1, SlotsSuffice DEF CleanupInv, RunTyped, WorkersStep
<1>7. Cardinality(Busy)' <= Concurrency
  BY <1>6
<1>8. QED BY <1>2, <1>3, <1>4, <1>5, <1>7 DEF CleanupInv
\* What is so of each worker.
LEMMA WorkerIs ==
  ASSUME CleanupInv, NEW i \in Instances
  PROVE  /\ w[i] \in Workers /\ at[i] \in Places /\ WorkerOK(i, w[i], at[i])
         /\ Honest(i, w[i]) /\ Selected(i, w[i], at[i]) /\ Dispatched(i, w[i], at[i])
         /\ Excuses(i, w[i], at[i])
BY DEF CleanupInv, RunTyped, WorkerOK

\* A changed worker is as truthful, and its selection stands.
LEMMA SelectionStands ==
  ASSUME CleanupInv, NEW i \in scanned, NEW y \in Workers, NEW p \in Places, WorkersStep(i, y, p),
         Preserves(i, w[i], y), stage \notin Early, p = "volumes" => y.terminal,
         stage = "round" /\ p \in {"queued", "volumes"} => y.active,
         p \in {"idle", "queued", "decided", "prepared"} => at[i] \in {"queued", "decided", "prepared"}
  PROVE  Honest(i, y)' /\ Selected(i, y, p)'
<1>1. /\ state' = state /\ tag' = tag /\ volume' = volume /\ retagged' = retagged /\ stage' = stage
      /\ sampled' = sampled /\ scanned' = scanned /\ complete' = complete
  BY DEF WorkersStep, runFrame
<1>2. i \in Instances
  BY DEF CleanupInv, RunTyped
<1>3. PICK x \in Workers, q \in Places : x = w[i] /\ q = at[i] /\ Honest(i, x) /\ Selected(i, x, q)
  BY <1>2, WorkerIs
<1>4. Honest(i, y) /\ Preserves(i, x, y)
  BY <1>3 DEF Preserves
<1>5. Honest(i, y)'
  BY <1>1, <1>4 DEF Honest, RootOf
<1>6. Selected(i, y, p)'
  BY <1>1, <1>3, <1>4 DEF Preserves, Selected, Early
<1>7. QED BY <1>5, <1>6

\* A worker that is done for the phase explains what it leaves.
LEMMA WorkerFinishes ==
  ASSUME CleanupInv, NEW i \in scanned, NEW y \in Workers, WorkersStep(i, y, "finished"), sent' = sent,
         Preserves(i, w[i], y), stage \notin Early,
         ~dry /\ y.picked /\ stage \in {"decide", "observe", "round", "tally"} => Explains(i, y),
         ~dry /\ y.picked /\ stage \in Late => Accounted(i, y)
  PROVE  CleanupInv'
<1>1. i \in Instances /\ "finished" \in Places
  BY DEF CleanupInv, RunTyped, Places
<1>2. /\ state' = state /\ volume' = volume /\ retagged' = retagged /\ stage' = stage /\ dry' = dry /\ ctx' = ctx
      /\ journal \subseteq journal'
  BY DEF WorkersStep, runFrame
<1>3. PICK x \in Workers, q \in Places : x = w[i] /\ q = at[i] /\ Dispatched(i, x, q)
  BY <1>1, WorkerIs
<1>4. Preserves(i, x, y)
  BY <1>3
<1>5. Dispatched(i, y, "finished")'
  BY <1>2, <1>3, <1>4 DEF Preserves, Dispatched, Early
<1>6. Excuses(i, y, "finished")'
  BY <1>2 DEF Excuses, Explains, Accounted, SettledBy, Late
<1>7. Honest(i, y)' /\ Selected(i, y, "finished")'
  BY <1>1, SelectionStands
<1>8. QED BY <1>1, <1>5, <1>6, <1>7, WorkerMoves DEF WorkerOK

LEMMA EmittedIs ==
  ASSUME NEW kind, NEW i, NEW ok \in BOOLEAN, Emitted(kind, i, ok)
  PROVE  journal \subseteq journal' /\ (ok => <<kind, i>> \in journal')
BY DEF Emitted

LEMMA AdvisedIs ==
  ASSUME NEW i \in Instances, NEW x \in Workers, ~x.terminal
  PROVE  Advised(x) \in Workers /\ Preserves(i, x, Advised(x))
<1>1. PICK y \in Workers : y = Diagnosed(x) /\ Preserves(i, x, y) /\ SameProgress(x, y)
  BY DiagnosedIs
<1>2. CASE y.picked /\ y.errs = {}
  <2>1. "would_terminate" \in Statuses /\ ~y.terminal
    BY <1>1 DEF Statuses, SameProgress
  <2>2. PICK z \in Workers : z = [y EXCEPT !.status = "would_terminate"] /\ Preserves(i, y, z)
    BY <2>1, StatusIs
  <2>3. Advised(x) = z
    BY <1>1, <1>2, <2>2 DEF Advised
  <2>4. QED BY <1>1, <2>2, <2>3 DEF Preserves
<1>3. CASE ~(y.picked /\ y.errs = {})
  BY <1>1, <1>3 DEF Advised
<1>4. QED BY <1>2, <1>3

LEMMA DecideKeeps == ASSUME CleanupInv, NEW i \in Instances, Decide(i) PROVE CleanupInv'
<1>1. stage = "decide" /\ at[i] = "queued" /\ Cardinality(Busy) < Concurrency
      /\ UNCHANGED <<ec2, runFrame, sent, retagged>>
  BY DEF Decide, Slot
<1>2. PICK x \in Workers : /\ x = w[i] /\ Selected(i, x, "queued") /\ Dispatched(i, x, "queued")
                           /\ Excuses(i, x, "queued")
  BY <1>1, WorkerIs
<1>3. i \in scanned /\ stage \notin Early /\ ~x.terminal
  BY <1>1, <1>2 DEF Selected, Dispatched, Early
<1>4. ASSUME NEW y, NEW p, Becomes(i, y, p), journal \subseteq journal' PROVE WorkersStep(i, y, p)
  BY <1>1, <1>4 DEF WorkersStep, ec2, CleanupInv, RunTyped, AccountTyped
<1>5. CASE dry
  <2>1. Advised(x) \in Workers /\ Preserves(i, x, Advised(x)) /\ Preserves(i, x, x)
    BY <1>3, AdvisedIs DEF Preserves
  <2>2. PICK y \in Workers : Becomes(i, y, "finished") /\ Preserves(i, x, y) /\ journal' = journal
    BY <1>2, <1>5, <2>1 DEF Decide
  <2>3. QED BY <1>1, <1>2, <1>3, <1>4, <1>5, <2>2, WorkerFinishes
<1>6. CASE ~dry
  <2>1. PICK ok \in BOOLEAN :
          /\ Emitted("decision", i, ok)
          /\ LET u == AfterEmit(w[i], ok)
                 y == Diagnosed(u)
             IN CASE ~ok \/ ~complete \/ u.reason \notin Actionable -> Becomes(i, u, "finished")
                  [] OTHER -> Becomes(i, y, IF ~y.picked THEN "prepared"
                                            ELSE IF RootProblem(y.rec) = "" THEN "decided" ELSE "finished")
    BY <1>6 DEF Decide
  <2>2. journal \subseteq journal' /\ (ok => <<"decision", i>> \in journal')
    BY <2>1, EmittedIs
  <2>3. PICK u \in Workers : /\ u = AfterEmit(x, ok) /\ Preserves(i, x, u) /\ SameProgress(x, u)
                             /\ (~ok => u.errs # {})
    BY AfterEmitIs
  <2>4. PICK y \in Workers : /\ y = Diagnosed(u) /\ Preserves(i, u, y) /\ SameProgress(u, y)
                             /\ (u.reason = "expired" /\ RootProblem(u.rec) # "" => y.errs # {})
    BY DiagnosedIs
  <2>5. Preserves(i, x, y) /\ SameProgress(x, y) /\ y.rec = u.rec
    BY <2>3, <2>4 DEF Preserves, SameProgress
  <2>6. x.picked => complete /\ x.reason = "expired"
    BY <1>1, <1>2, <1>6 DEF Selected, Excuses
  <2>7. CASE ~ok \/ ~complete \/ u.reason \notin Actionable
    <3>1. Becomes(i, u, "finished")
      BY <1>2, <2>1, <2>3, <2>7
    <3>2. u.picked => Explains(i, u)
      BY <2>3, <2>6, <2>7 DEF Preserves, SameProgress, Actionable, Explains, Accounted
    <3>3. QED BY <1>1, <1>2, <1>3, <1>4, <2>2, <2>3, <3>1, <3>2, WorkerFinishes DEF Late
  <2>8. CASE ~(~ok \/ ~complete \/ u.reason \notin Actionable)
    <3>1. Becomes(i, y, IF ~y.picked THEN "prepared"
                        ELSE IF RootProblem(y.rec) = "" THEN "decided" ELSE "finished")
      BY <1>2, <2>1, <2>3, <2>4, <2>8
    <3>2. ASSUME NEW p \in {"prepared", "decided"}, Becomes(i, y, p), p = "prepared" => ~y.picked,
                 p = "decided" => y.picked
          PROVE  CleanupInv'
      <4>1. p \in Places /\ WorkersStep(i, y, p)
        BY <1>4, <2>2, <3>2 DEF Places
      <4>2. Honest(i, y)' /\ Selected(i, y, p)'
        BY <1>1, <1>2, <1>3, <2>5, <3>2, <4>1, SelectionStands
      <4>3. Dispatched(i, y, p)'
        BY <1>1, <1>2, <1>3, <1>6, <2>2, <2>5, <2>8, <3>2 DEF Dispatched, Preserves, SameProgress, Early, runFrame
      <4>4. Excuses(i, y, p)'
        BY <1>1, <2>5, <2>6, <3>2 DEF Excuses, Preserves, SameProgress, Late, runFrame
      <4>5. QED BY <4>1, <4>2, <4>3, <4>4, WorkerMoves DEF WorkerOK
    <3>3. CASE ~y.picked
      BY <3>1, <3>2, <3>3
    <3>4. CASE y.picked /\ RootProblem(y.rec) = ""
      BY <3>1, <3>2, <3>4
    <3>5. CASE y.picked /\ RootProblem(y.rec) # ""
      <4>1. Becomes(i, y, "finished")
        BY <3>1, <3>5
      <4>2. Explains(i, y)
        BY <2>3, <2>4, <2>5, <2>6, <3>5 DEF Preserves, SameProgress, Explains, Accounted
      <4>3. QED BY <1>1, <1>2, <1>3, <1>4, <2>2, <2>5, <4>1, <4>2, WorkerFinishes DEF Late
    <3>6. QED BY <3>3, <3>4, <3>5
  <2>9. QED BY <2>7, <2>8
<1>7. QED BY <1>5, <1>6
LEMMA PrepareKeeps == ASSUME CleanupInv, NEW i \in Instances, Prepare(i) PROVE CleanupInv'
<1>1. PICK ok \in BOOLEAN :
        /\ Emitted("termination_prepared", i, ok)
        /\ Becomes(i, AfterEmit(w[i], ok), IF ok THEN "prepared" ELSE "finished")
  BY DEF Prepare, MayProceed
<1>2. at[i] = "decided" /\ UNCHANGED <<ec2, runFrame, sent, retagged>>
  BY DEF Prepare
<1>3. journal \subseteq journal' /\ (ok => <<"termination_prepared", i>> \in journal')
  BY <1>1, EmittedIs
<1>4. PICK x \in Workers : /\ x = w[i] /\ Selected(i, x, "decided") /\ Dispatched(i, x, "decided")
                           /\ Excuses(i, x, "decided")
  BY <1>2, WorkerIs
<1>5. stage = "decide" /\ i \in scanned /\ x.picked /\ stage \notin Early
  BY <1>4 DEF Dispatched, Early
<1>6. PICK y \in Workers : /\ y = AfterEmit(x, ok) /\ Preserves(i, x, y) /\ SameProgress(x, y) /\ (~ok => y.errs # {})
  BY AfterEmitIs
<1>7. ASSUME NEW p, Becomes(i, y, p) PROVE WorkersStep(i, y, p)
  BY <1>2, <1>3, <1>5, <1>7 DEF WorkersStep, ec2, CleanupInv, RunTyped, AccountTyped, Resting
<1>8. CASE ok
  <2>1. Becomes(i, y, "prepared") /\ WorkersStep(i, y, "prepared") /\ "prepared" \in Places
    BY <1>1, <1>4, <1>6, <1>7, <1>8 DEF Places
  <2>2. Honest(i, y)' /\ Selected(i, y, "prepared")'
    BY <1>2, <1>4, <1>5, <1>6, <2>1, SelectionStands
  <2>3. Dispatched(i, y, "prepared")'
    BY <1>2, <1>3, <1>4, <1>6, <1>8 DEF Dispatched, Preserves, SameProgress, Early, runFrame
  <2>4. Excuses(i, y, "prepared")'
    BY <1>2, <1>4, <1>5, <1>6 DEF Excuses, Preserves, SameProgress, Late, runFrame
  <2>5. QED BY <2>1, <2>2, <2>3, <2>4, WorkerMoves DEF WorkerOK
<1>9. CASE ~ok
  <2>1. Becomes(i, y, "finished") /\ WorkersStep(i, y, "finished")
    BY <1>1, <1>4, <1>6, <1>7, <1>9
  <2>2. Explains(i, y)
    BY <1>6, <1>9 DEF Explains, Accounted
  <2>3. QED BY <1>2, <1>4, <1>5, <1>6, <2>1, <2>2, WorkerFinishes DEF Late
<1>10. QED BY <1>8, <1>9

LEMMA RereadKeeps == ASSUME CleanupInv, NEW i \in Instances, Reread(i) PROVE CleanupInv'
<1>1. at[i] = "prepared" /\ UNCHANGED <<ec2, runFrame, history>>
  BY DEF Reread
<1>2. PICK x \in Workers : /\ x = w[i] /\ Selected(i, x, "prepared") /\ Dispatched(i, x, "prepared")
                           /\ Excuses(i, x, "prepared")
  BY <1>1, WorkerIs
<1>3. stage = "decide" /\ ~dry /\ i \in scanned /\ stage \notin Early /\ ~x.terminal
  BY <1>2 DEF Dispatched, Early
<1>4. ASSUME NEW y, NEW p, Becomes(i, y, p) PROVE WorkersStep(i, y, p)
  BY <1>1, <1>3, <1>4 DEF WorkersStep, ec2, history, CleanupInv, RunTyped, AccountTyped, Resting
<1>5. CASE Becomes(i, Fault(w[i], "resource_unverified"), "finished")
  <2>1. "resource_unverified" \in Problems
    BY DEF Problems
  <2>2. PICK y \in Workers : y = Fault(x, "resource_unverified") /\ Preserves(i, x, y) /\ y.errs # {}
    BY <2>1, FaultIs
  <2>3. Explains(i, y)
    BY <2>2 DEF Explains, Accounted
  <2>4. QED BY <1>1, <1>2, <1>3, <1>4, <1>5, <2>2, <2>3, WorkerFinishes DEF Late, history
<1>6. ASSUME NEW r \in Reads(i), LET y == Rechecked(w[i], r) IN Becomes(i, y.rec, y.at) PROVE CleanupInv'
  <2>1. PICK y \in Workers, p \in {"finished", "rechecked"} :
          /\ Becomes(i, y, p) /\ Preserves(i, x, y)
          /\ p = "rechecked" => y = x /\ x.picked /\ tag[i] = x.expires
          /\ p = "finished" /\ x.reason = "expired" /\ x.expires \in 0..now =>
               \/ y.errs # {} \/ y.active
               \/ y.status = "skipped" /\ y.reason \in Benign \ {"expired"} /\ tag[i] # x.expires
    <3>1. AccountTyped
      BY DEF CleanupInv
    <3>2. Becomes(i, Rechecked(x, r).rec, Rechecked(x, r).at)
      BY <1>2, <1>6
    <3>3. QED BY <1>3, <3>1, <3>2, RecheckedIs
  <2>2. x.picked => /\ x.expires \in 0..now /\ x.expires = x.rec.tag /\ x.reason = "expired"
                    /\ (i \in retagged <=> tag[i] # x.expires)
    <3>1. x.picked => x.expires \in 0..sampled /\ x.expires = x.rec.tag /\ x.reason = "expired"
      BY <1>2, <1>3 DEF Selected, Excuses
    <3>2. sampled \in 0..now /\ now \in Nat
      BY Bounds DEF CleanupInv, RunTyped, AccountTyped
    <3>3. i \in retagged <=> tag[i] # x.rec.tag
      BY <1>2, <1>3 DEF Selected
    <3>4. QED BY <3>1, <3>2, <3>3
  <2>3. CASE p = "rechecked"
    <3>1. WorkersStep(i, y, p) /\ p \in Places
      BY <1>4, <2>1, <2>3 DEF Places
    <3>2. Honest(i, y)' /\ Selected(i, y, p)'
      BY <1>2, <1>3, <2>1, <2>3, <3>1, SelectionStands
    <3>3. Dispatched(i, y, p)'
      BY <1>1, <1>2, <1>3, <2>1, <2>2, <2>3 DEF Dispatched, Early, runFrame, history
    <3>4. Excuses(i, y, p)'
      BY <1>1, <1>3, <2>3 DEF Excuses, Late, runFrame
    <3>5. QED BY <3>1, <3>2, <3>3, <3>4, WorkerMoves DEF WorkerOK
  <2>4. CASE p = "finished"
    <3>1. y.picked => Explains(i, y)
      BY <2>1, <2>2, <2>4 DEF Preserves, Explains, Accounted
    <3>2. WorkersStep(i, y, "finished") /\ sent' = sent
      BY <1>1, <1>4, <2>1, <2>4 DEF history
    <3>3. QED BY <1>2, <1>3, <2>1, <3>1, <3>2, WorkerFinishes DEF Late
  <2>5. QED BY <2>1, <2>3, <2>4
<1>7. QED BY <1>5, <1>6 DEF Reread

LEMMA DispatchKeeps == ASSUME CleanupInv, NEW i \in Instances, Dispatch(i) PROVE CleanupInv'
<1>1. at[i] = "rechecked" /\ UNCHANGED <<now, state, tag, flag, volume, moves, runFrame, journal, retagged>>
  BY DEF Dispatch
<1>2. PICK x \in Workers : x = w[i] /\ Selected(i, x, "rechecked") /\ Dispatched(i, x, "rechecked")
  BY <1>1, WorkerIs
<1>3. stage = "decide" /\ ~dry /\ i \in scanned /\ stage \notin Early /\ x.picked
  BY <1>2 DEF Dispatched, Early
<1>4. CASE ctx = "ended"
  <2>1. "interrupted" \in Problems
    BY DEF Problems
  <2>2. PICK y \in Workers : y = Fault(x, "interrupted") /\ Preserves(i, x, y) /\ y.errs # {}
    BY <2>1, FaultIs
  <2>3. Becomes(i, y, "finished") /\ UNCHANGED <<inflight, sent>>
    BY <1>2, <1>4, <2>2 DEF Dispatch
  <2>4. WorkersStep(i, y, "finished")
    BY <1>1, <1>3, <2>3 DEF WorkersStep, CleanupInv, RunTyped, AccountTyped, Resting
  <2>5. Explains(i, y)
    BY <2>2 DEF Explains, Accounted
  <2>6. QED BY <1>2, <1>3, <2>2, <2>3, <2>4, <2>5, WorkerFinishes DEF Late
<1>5. CASE ctx # "ended"
  <2>1. /\ inflight' = inflight \cup {i} /\ sent' = [sent EXCEPT ![i] = @ + 1] /\ at' = [at EXCEPT ![i] = "sent"]
        /\ w' = w
    BY <1>5 DEF Dispatch
  <2>2. Becomes(i, x, "sent")
    BY <1>2, <2>1 DEF Becomes, CleanupInv, RunTyped
  <2>3. sent \in [Instances -> Nat] /\ sent[i] = 0
    BY <1>2, <1>3 DEF Dispatched, CleanupInv, RunTyped
  <2>4. sent' \in [Instances -> Nat] /\ sent'[i] = 1 /\ \A j \in Instances \ {i} : sent'[j] = sent[j]
    BY <2>1, <2>3
  <2>5. WorkersStep(i, x, "sent") /\ "sent" \in Places
    BY <1>1, <1>3, <2>1, <2>2, <2>4 DEF WorkersStep, CleanupInv, AccountTyped, Resting, Places
  <2>6. Honest(i, x)' /\ Selected(i, x, "sent")'
    <3>1. Preserves(i, w[i], x)
      BY <1>2 DEF Preserves
    <3>2. QED BY <1>3, <2>5, <3>1, SelectionStands
  <2>7. Dispatched(i, x, "sent")'
    BY <1>1, <1>2, <1>3, <2>4 DEF Dispatched, Early, runFrame
  <2>8. Excuses(i, x, "sent")'
    BY <1>1, <1>3 DEF Excuses, Late, runFrame
  <2>9. QED BY <2>5, <2>6, <2>7, <2>8, WorkerMoves DEF WorkerOK
<1>6. QED BY <1>4, <1>5

LEMMA AnswerKeeps == ASSUME CleanupInv, NEW i \in Instances, Answer(i) PROVE CleanupInv'
<1>1. at[i] = "sent" /\ UNCHANGED <<now, state, tag, flag, volume, moves, runFrame, history>>
      /\ inflight' \subseteq inflight
  BY DEF Answer
<1>2. PICK x \in Workers : x = w[i] /\ Dispatched(i, x, "sent")
  BY <1>1, WorkerIs
<1>3. stage = "decide" /\ ~dry /\ i \in scanned /\ stage \notin Early /\ ~x.terminal
  BY <1>2 DEF Dispatched, Early
<1>4. ASSUME NEW y \in Workers, Preserves(i, x, y), y.errs # {} \/ y.active, Becomes(i, y, "finished")
      PROVE  CleanupInv'
  <2>1. WorkersStep(i, y, "finished") /\ sent' = sent
    BY <1>1, <1>3, <1>4 DEF WorkersStep, CleanupInv, RunTyped, AccountTyped, Resting, history
  <2>2. Explains(i, y)
    BY <1>4 DEF Explains, Accounted
  <2>3. QED BY <1>2, <1>3, <1>4, <2>1, <2>2, WorkerFinishes DEF Late
<1>5. ASSUME NEW s \in {"termination_requested", "termination_unknown"},
             s = "termination_requested" => state[i] \in {"shutting-down", "terminated"},
             Becomes(i, [w[i] EXCEPT !.status = s, !.active = TRUE], "finished")
      PROVE  CleanupInv'
  <2>1. s \in Statuses
    BY DEF Statuses
  <2>2. PICK y \in Workers : y = [x EXCEPT !.status = s, !.active = TRUE] /\ Preserves(i, x, y)
    <3> DEFINE y == [x EXCEPT !.status = s, !.active = TRUE]
    <3>1. ~x.terminal /\ TRUE \in BOOLEAN
          /\ (s = "termination_requested" => state[i] \in {"shutting-down", "terminated", "gone"})
      BY <1>3, <1>5
    <3>2. y \in Workers /\ Preserves(i, x, y)
      BY <2>1, <3>1, StatusIs
    <3> HIDE DEF y
    <3>3. \E t \in Workers : t = y /\ Preserves(i, x, t)
      BY <3>2
    <3>4. QED BY <3>3 DEF y
  <2>3. y.active
    BY <2>2 DEF Workers
  <2>4. QED BY <1>2, <1>4, <1>5, <2>2, <2>3
<1>6. ASSUME Becomes(i, [Fault(w[i], "termination_denied") EXCEPT !.status = "termination_denied"], "finished")
      PROVE  CleanupInv'
  <2>1. "termination_denied" \in Problems /\ "termination_denied" \in Statuses
    BY DEF Problems, Statuses
  <2>2. PICK y \in Workers : /\ y = Fault(x, "termination_denied") /\ Preserves(i, x, y) /\ SameProgress(x, y)
                             /\ y.errs # {}
    BY <2>1, FaultIs
  <2>3. ~y.terminal
    BY <1>3, <2>2 DEF SameProgress
  <2>4. PICK z \in Workers : z = [y EXCEPT !.status = "termination_denied"] /\ Preserves(i, y, z) /\ z.errs = y.errs
    <3> DEFINE z == [y EXCEPT !.status = "termination_denied"]
    <3>1. z \in Workers /\ Preserves(i, y, z) /\ z.errs = y.errs
      BY <2>1, <2>3, StatusIs
    <3> HIDE DEF z
    <3>2. \E t \in Workers : t = z /\ Preserves(i, y, t) /\ t.errs = y.errs
      BY <3>1
    <3>3. QED BY <3>2 DEF z
  <2>5. Preserves(i, x, z) /\ z.errs # {}
    BY <2>2, <2>4 DEF Preserves
  <2>6. QED BY <1>2, <1>4, <1>6, <2>2, <2>4, <2>5
<1>7. QED BY <1>5, <1>6 DEF Answer, Retries
LEMMA ObserveInstanceKeeps == ASSUME CleanupInv, NEW i \in Instances, ObserveInstance(i) PROVE CleanupInv'
<1>1. /\ stage = "round" /\ at[i] = "queued" /\ Cardinality(Busy) < Concurrency /\ ~w[i].terminal
      /\ UNCHANGED <<ec2, runFrame, history>>
  BY DEF ObserveInstance, Slot
<1>2. PICK x \in Workers : /\ x = w[i] /\ Selected(i, x, "queued") /\ Dispatched(i, x, "queued")
                           /\ Excuses(i, x, "queued")
  BY <1>1, WorkerIs
<1>3. i \in scanned /\ stage \notin Early /\ x.active /\ ~x.terminal
  BY <1>1, <1>2 DEF Selected, Early
<1>4. ASSUME NEW y, NEW p, Becomes(i, y, p) PROVE WorkersStep(i, y, p) /\ sent' = sent
  BY <1>1, <1>4 DEF WorkersStep, ec2, history, CleanupInv, RunTyped, AccountTyped
<1>5. ASSUME NEW y \in Workers, Preserves(i, x, y), Becomes(i, y, "finished"), y.errs # {} \/ y.active
      PROVE  CleanupInv'
  <2>1. Explains(i, y)
    BY <1>5 DEF Explains, Accounted
  <2>2. WorkersStep(i, y, "finished") /\ sent' = sent
    BY <1>4, <1>5
  <2>3. QED BY <1>1, <1>2, <1>3, <1>5, <2>1, <2>2, WorkerFinishes DEF Late
<1>6. CASE at' = [at EXCEPT ![i] = "finished"] /\ w' = w
  <2>1. Becomes(i, x, "finished") /\ Preserves(i, x, x)
    BY <1>2, <1>6 DEF Becomes, Preserves, CleanupInv, RunTyped
  <2>2. QED BY <1>3, <1>5, <2>1
<1>7. ASSUME NEW r \in Reads(i), Evaluate(r, now) = "already_terminated",
             LET y == [w[i] EXCEPT !.status = "termination_observed", !.terminal = TRUE]
             IN  IF ConsistentMappings(w[i].rec, r) THEN Becomes(i, y, "volumes")
                 ELSE Becomes(i, [Fault(y, "root_volume_unverified") EXCEPT
                                    !.root = "unavailable", !.active = FALSE], "finished")
      PROVE  CleanupInv'
  <2>1. state[i] \in {"terminated", "gone"}
    <3>1. AccountTyped /\ now \in Nat
      BY Bounds DEF CleanupInv, AccountTyped
    <3>2. QED BY <1>7, <3>1, ReadsAre, EvaluateIs
  <2>2. PICK y \in Workers : /\ y = [x EXCEPT !.status = "termination_observed", !.terminal = TRUE]
                             /\ Preserves(i, x, y) /\ y.active = x.active
    BY <2>1, TerminalIs
  <2>3. y.terminal
    BY <2>2 DEF Workers
  <2>4. CASE ConsistentMappings(w[i].rec, r)
    <3>1. Becomes(i, y, "volumes")
      BY <1>2, <1>7, <2>2, <2>4
    <3>2. WorkersStep(i, y, "volumes") /\ sent' = sent /\ "volumes" \in Places
      BY <1>4, <3>1 DEF Places
    <3>3. Honest(i, y)' /\ Selected(i, y, "volumes")'
      BY <1>2, <1>3, <2>2, <2>3, <3>2, SelectionStands
    <3>4. Dispatched(i, y, "volumes")'
      BY <1>1, <1>2, <2>2, <3>2 DEF Dispatched, Preserves, Early, runFrame, history
    <3>5. Excuses(i, y, "volumes")'
      BY <1>1, <1>3, <2>2 DEF Excuses, Explains, Late, runFrame
    <3>6. QED BY <3>2, <3>3, <3>4, <3>5, WorkerMoves DEF WorkerOK
  <2>5. CASE ~ConsistentMappings(w[i].rec, r)
    <3>1. "root_volume_unverified" \in Problems
      BY DEF Problems
    <3>2. PICK z \in Workers : z = Fault(y, "root_volume_unverified") /\ Preserves(i, y, z) /\ z.errs # {}
      BY <3>1, FaultIs
    <3>3. PICK u \in Workers : u = [z EXCEPT !.root = "unavailable"] /\ Preserves(i, z, u) /\ u.errs = z.errs
      BY RootIs
    <3>4. PICK t \in Workers : t = [u EXCEPT !.active = FALSE] /\ Preserves(i, u, t)
      BY ActiveIs
    <3>5. t = [z EXCEPT !.root = "unavailable", !.active = FALSE]
      BY <3>3, <3>4 DEF Workers
    <3>6. Becomes(i, t, "finished")
      BY <1>2, <1>7, <2>2, <2>5, <3>2, <3>5
    <3>7. Preserves(i, x, t) /\ t.errs # {}
      BY <2>2, <3>2, <3>3, <3>4 DEF Preserves
    <3>8. QED BY <1>5, <3>6, <3>7
  <2>6. QED BY <2>4, <2>5
<1>8. QED BY <1>6, <1>7 DEF ObserveInstance

LEMMA HasLeast ==
  ASSUME NEW S \in SUBSET Nat, S # {}
  PROVE  \E v \in S : \A u \in S : v <= u
<1> DEFINE R == {ss \in Nat \X Nat : ss[1] < ss[2]}
<1>1. R = OpToRel(<, Nat)
  BY DEF OpToRel
<1>2. \A u, v \in Nat : u < v => <<u, v>> \in R
  OBVIOUS
<1> HIDE DEF R
<1>3. PICK v \in S : \A u \in S : <<u, v>> \notin R
  BY <1>1, NatLessThanWellFounded, WFMin
<1>4. ASSUME NEW u \in S PROVE v <= u
  <2>1. u \in Nat /\ v \in Nat /\ ~(u < v)
    BY <1>2, <1>3
  <2>2. QED BY <2>1
<1>5. QED BY <1>4

\* Whatever is awaited, a turn finds its volume.
LEMMA NextVolumeIs ==
  ASSUME NEW x \in Workers, Awaited(x) # {}
  PROVE  NextVolume(x) \in Awaited(x)
<1> DEFINE S == Awaited(x)
           First(v) == \A u \in S : IF v >= x.next THEN (u < x.next \/ v <= u) ELSE (u < x.next /\ v <= u)
           ahead == {v \in S : v >= x.next}
<1>1. S \in SUBSET Nat /\ x.next \in Int
  <2>1. x.rec.vols \in Settings(Flags) /\ x.next \in Int
    BY DEF Workers, Records
  <2>2. DOMAIN x.rec.vols \in SUBSET Volumes
    BY <2>1, SettingsAre
  <2>3. QED BY <2>1, <2>2, Bounds DEF Awaited
<1>2. \E v \in S : First(v)
  <2>1. CASE ahead # {}
    <3>1. PICK v \in ahead : \A u \in ahead : v <= u
      BY <1>1, <2>1, HasLeast
    <3>2. ASSUME NEW u \in S PROVE u < x.next \/ v <= u
      <4>1. CASE u \in ahead
        BY <3>1, <4>1
      <4>2. CASE u \notin ahead
        BY <1>1, <4>2
      <4>3. QED BY <4>1, <4>2
    <3>3. QED BY <3>1, <3>2
  <2>2. CASE ahead = {}
    <3>1. PICK v \in S : \A u \in S : v <= u
      BY <1>1, HasLeast
    <3>2. \A u \in S : u < x.next
      BY <1>1, <2>2
    <3>3. QED BY <1>1, <3>1, <3>2
  <2>3. QED BY <2>1, <2>2
<1>3. QED BY <1>2 DEF NextVolume
\* A volume seen deleted is deleted.
LEMMA SeenIs ==
  ASSUME NEW i \in Instances, NEW x \in Workers, NEW v \in Awaited(x), NEW seen \in BOOLEAN,
         DOMAIN x.deletion = DOMAIN x.rec.vols, seen => volume[v] = "deleted"
  PROVE  LET y == [x EXCEPT !.next = v + 1, !.deletion[v] = IF seen THEN "deleted" ELSE @]
         IN  y \in Workers /\ Preserves(i, x, y) /\ SameProgress(x, y)
<1>1. x.deletion \in Settings(Deletions) /\ x.rec.vols \in Settings(Flags)
  BY DEF Workers, Records
<1>2. DOMAIN x.deletion \in SUBSET Volumes /\ \A u \in DOMAIN x.deletion : x.deletion[u] \in Deletions
  BY <1>1, SettingsAre
<1>3. v \in DOMAIN x.deletion /\ v + 1 \in Int /\ "deleted" \in Deletions /\ v \in DOMAIN x.rec.vols
  <2>1. v \in DOMAIN x.rec.vols
    BY DEF Awaited
  <2>2. v \in Nat
    BY <1>2, <2>1, Bounds
  <2>3. QED BY <2>1, <2>2 DEF Deletions
<1>4. PICK d \in Deletions : d = (IF seen THEN "deleted" ELSE x.deletion[v])
  BY <1>2, <1>3
<1>5. PICK f \in Settings(Deletions) : f = [x.deletion EXCEPT ![v] = d]
  <2>1. x.deletion = [u \in DOMAIN x.deletion |-> x.deletion[u]]
    BY <1>1, SettingsAre
  <2>2. [x.deletion EXCEPT ![v] = d] \in [DOMAIN x.deletion -> Deletions]
    BY <1>2, <2>1
  <2>3. QED BY <1>2, <2>2, IsSetting
<1> DEFINE y == [x EXCEPT !.next = v + 1, !.deletion[v] = IF seen THEN "deleted" ELSE @]
<1>6. y = [x EXCEPT !.next = v + 1, !.deletion = f]
  BY <1>4, <1>5
<1>7. y \in Workers
  BY <1>3, <1>6 DEF Workers
<1>8. /\ y.reason = x.reason /\ y.status = x.status /\ y.active = x.active /\ y.terminal = x.terminal
      /\ y.expires = x.expires /\ y.rec = x.rec /\ y.picked = x.picked /\ y.deletion = f
      /\ y.root = x.root /\ y.errs = x.errs
  BY <1>6 DEF Workers
<1> HIDE DEF y
<1>9. DOMAIN f = DOMAIN x.deletion /\ \A u \in DOMAIN f : f[u] = IF u = v THEN d ELSE x.deletion[u]
  BY <1>5
<1>10. d = "deleted" => volume[v] = "deleted" \/ x.deletion[v] = "deleted"
  BY <1>4
<1>11. d = "retained" => x.deletion[v] = "retained"
  BY <1>4
<1>12. Honest(i, x) => Honest(i, y)
  BY <1>3, <1>8, <1>9, <1>10, <1>11 DEF Honest
<1>13. QED BY <1>7, <1>8, <1>9, <1>12 DEF Preserves, SameProgress, y

LEMMA ObserveVolumeKeeps == ASSUME CleanupInv, NEW i \in Instances, ObserveVolume(i) PROVE CleanupInv'
<1>1. /\ stage = "round" /\ UNCHANGED <<ec2, runFrame, history>>
      /\ at[i] = "volumes" \/ (at[i] = "queued" /\ Cardinality(Busy) < Concurrency /\ w[i].terminal)
  BY DEF ObserveVolume, Slot
<1>2. PICK o \in Workers : o = w[i] /\ Honest(i, o) /\ Selected(i, o, at[i]) /\ Excuses(i, o, at[i])
  BY WorkerIs
<1>3. i \in scanned /\ stage \notin Early /\ o.terminal /\ DOMAIN o.deletion = DOMAIN o.rec.vols
  BY <1>1, <1>2 DEF Selected, Early
<1> DEFINE code == RootProblem(o.rec)
           x == IF code = "" THEN o ELSE [Fault(o, code) EXCEPT !.root = RootDiagnostic(code)]
<1>4. PICK u \in Workers : u = x /\ Preserves(i, o, u) /\ SameProgress(o, u)
  <2>1. code \in {"", "root_volume_unverified", "root_volume_retained"}
        /\ RootDiagnostic(code) \in {"unavailable", "retained"}
    BY RootProblemIs
  <2>2. CASE code = ""
    BY <2>2 DEF Preserves, SameProgress
  <2>3. CASE code # ""
    <3>1. code \in Problems
      BY <2>1, <2>3 DEF Problems
    <3>2. PICK y \in Workers : y = Fault(o, code) /\ Preserves(i, o, y) /\ SameProgress(o, y)
      BY <3>1, FaultIs
    <3>3. PICK z \in Workers : z = [y EXCEPT !.root = RootDiagnostic(code)] /\ Preserves(i, y, z) /\ SameProgress(y, z)
      BY <2>1, RootIs
    <3>4. z = x /\ Preserves(i, o, z) /\ SameProgress(o, z)
      BY <2>3, <3>2, <3>3 DEF Preserves, SameProgress
    <3>5. QED BY <3>4
  <2>4. QED BY <2>2, <2>3
<1>5. ASSUME NEW y \in Workers, Preserves(i, u, y), SameProgress(u, y), Becomes(i, Settle(y), "finished")
      PROVE  CleanupInv'
  <2>1. Preserves(i, o, y) /\ SameProgress(o, y)
    BY <1>4, <1>5 DEF Preserves, SameProgress
  <2>2. DOMAIN y.deletion = DOMAIN y.rec.vols /\ Honest(i, y) /\ y.terminal
    BY <1>2, <1>3, <2>1 DEF Preserves, SameProgress
  <2>3. PICK z \in Workers : /\ z = Settle(y) /\ Preserves(i, y, z)
                             /\ (Explains(i, y) /\ Honest(i, y) /\ y.terminal => Explains(i, z))
    BY <2>2, SettleIs
  <2>4. Explains(i, o) => Explains(i, y)
    <3>1. Accounted(i, o) => Accounted(i, y)
      BY <2>1, AccountedIsKept
    <3>2. QED BY <2>1, <3>1 DEF Explains, SameProgress
  <2>5. Preserves(i, o, z)
    BY <2>1, <2>3 DEF Preserves
  <2>6. ~dry /\ z.picked => Explains(i, z)
    BY <1>1, <1>2, <2>2, <2>3, <2>4, <2>5 DEF Excuses, Preserves
  <2>7. WorkersStep(i, z, "finished") /\ sent' = sent
    BY <1>1, <1>5, <2>3 DEF WorkersStep, ec2, history, CleanupInv, RunTyped, AccountTyped, Resting
  <2>8. QED BY <1>1, <1>2, <1>3, <2>5, <2>6, <2>7, WorkerFinishes DEF Late
<1>6. CASE Awaited(u) = {}
  <2>1. Becomes(i, Settle(u), "finished")
    BY <1>2, <1>4, <1>6 DEF ObserveVolume
  <2>2. QED BY <1>5, <2>1 DEF Preserves, SameProgress
<1>7. CASE Awaited(u) # {}
  <2>1. PICK seen \in BOOLEAN :
          /\ seen => volume[NextVolume(u)] = "deleted"
          /\ Becomes(i, Settle([u EXCEPT !.next = NextVolume(u) + 1,
                                         !.deletion[NextVolume(u)] = IF seen THEN "deleted" ELSE @]), "finished")
    BY <1>2, <1>4, <1>7 DEF ObserveVolume, Gone
  <2>2. PICK v \in Awaited(u) : v = NextVolume(u)
    BY <1>7, NextVolumeIs
  <2>3. DOMAIN u.deletion = DOMAIN u.rec.vols
    BY <1>3, <1>4 DEF Preserves
  <2>4. PICK y \in Workers : /\ y = [u EXCEPT !.next = v + 1, !.deletion[v] = IF seen THEN "deleted" ELSE @]
                             /\ Preserves(i, u, y) /\ SameProgress(u, y)
    BY <2>1, <2>2, <2>3, SeenIs
  <2>5. Becomes(i, Settle(y), "finished")
    BY <2>1, <2>2, <2>4
  <2>6. QED BY <1>5, <2>4, <2>5
<1>8. QED BY <1>6, <1>7

LEMMA OutcomeKeeps == ASSUME CleanupInv, NEW i \in Instances, Outcome(i) PROVE CleanupInv'
<1>1. PICK ok \in BOOLEAN : Emitted("outcome", i, ok) /\ Becomes(i, AfterEmit(w[i], ok), "finished")
  BY DEF Outcome
<1>2. stage = "outcomes" /\ at[i] = "queued" /\ UNCHANGED <<ec2, runFrame, sent, retagged>>
  BY DEF Outcome, Slot
<1>3. PICK x \in Workers : x = w[i] /\ Selected(i, x, "queued") /\ Excuses(i, x, "queued")
  BY <1>2, WorkerIs
<1>4. i \in scanned /\ stage \notin Early
  BY <1>2, <1>3 DEF Selected, Early
<1>5. PICK y \in Workers : y = AfterEmit(x, ok) /\ Preserves(i, x, y) /\ SameProgress(x, y)
  BY AfterEmitIs
<1>6. journal \subseteq journal'
  BY <1>1, EmittedIs
<1>7. WorkersStep(i, y, "finished")
  BY <1>1, <1>2, <1>3, <1>5, <1>6 DEF WorkersStep, ec2, CleanupInv, RunTyped, AccountTyped, Resting
<1>8. Accounted(i, x) => Accounted(i, y)
  BY <1>5, AccountedIsKept
<1>9. ~dry /\ y.picked => Accounted(i, y)
  BY <1>2, <1>3, <1>5, <1>8 DEF Excuses, Preserves, Late
<1>10. QED BY <1>2, <1>3, <1>4, <1>5, <1>7, <1>9, WorkerFinishes
(***************************************************************************)
(* The phases of the run                                                   *)
(***************************************************************************)
LEMMA BusyShrinks ==
  ASSUME Cardinality(Busy) <= Concurrency, \A i \in Instances : at'[i] = at[i] \/ at'[i] \in Resting
  PROVE  Cardinality(Busy)' <= Concurrency
<1>1. Busy \in SUBSET Instances /\ Busy' \in SUBSET Busy
  BY DEF Busy, Resting
<1>2. IsFiniteSet(Busy)
  BY <1>1, FS_Subset, Bounds
<1>3. /\ Cardinality(Busy') <= Cardinality(Busy) /\ Cardinality(Busy) \in Nat /\ Cardinality(Busy') \in Nat
      /\ Concurrency \in Nat
  BY <1>1, <1>2, FS_Subset, FS_CardinalityType, Bounds
<1>4. Cardinality(Busy') <= Concurrency
  BY <1>3
<1>5. QED BY <1>4

\* What the workers' part of the invariant asks of a phase that begins.
LEMMA PhaseMoves ==
  ASSUME CleanupInv, UNCHANGED <<ec2, w>>, RunTyped', ExitOK',
         \A i \in Instances :
           /\ at'[i] = at[i] \/ at'[i] \in Resting
           /\ Selected(i, w[i], at[i])' /\ Dispatched(i, w[i], at[i])' /\ Excuses(i, w[i], at[i])'
  PROVE  CleanupInv'
<1>1. AccountTyped'
  BY DEF ec2, CleanupInv, AccountTyped
<1>2. Cardinality(Busy)' <= Concurrency
  BY BusyShrinks DEF CleanupInv
<1>3. ASSUME NEW i \in Instances PROVE Honest(i, w[i])'
  <2>1. PICK x \in Workers : x = w[i] /\ Honest(i, x)
    BY WorkerIs
  <2>2. state' = state /\ volume' = volume /\ w'[i] = x
    BY <2>1 DEF ec2
  <2>3. Honest(i, x)'
    BY <2>1, <2>2 DEF Honest, RootOf
  <2>4. QED BY <2>2, <2>3
<1>4. QED BY <1>1, <1>2, <1>3 DEF CleanupInv, WorkerOK
LEMMA BeginKeeps == ASSUME CleanupInv, Begin PROVE CleanupInv'
<1>1. /\ stage = "begin" /\ stage' \in {"scan", "finish"} /\ sampled' = now /\ scanned = {}
      /\ UNCHANGED <<ec2, dry, ctx, scanned, complete, rounds, at, w, exit, history>>
  BY DEF Begin, CleanupInv, RunTyped
<1>2. RunTyped'
  <2>1. now \in 0..now
    BY Bounds DEF CleanupInv, AccountTyped
  <2>2. QED BY <1>1, <2>1 DEF CleanupInv, RunTyped, AccountTyped, Stages, ec2, history
<1>3. ExitOK'
  BY <1>1 DEF CleanupInv, ExitOK
<1>4. ASSUME NEW i \in Instances
      PROVE  Selected(i, w[i], at[i])' /\ Dispatched(i, w[i], at[i])' /\ Excuses(i, w[i], at[i])'
  <2>1. PICK x \in Workers : x = w[i] /\ Selected(i, x, at[i]) /\ Dispatched(i, x, at[i])
    BY WorkerIs
  <2>2. at[i] = "idle" /\ Fresh(x) /\ sent[i] = 0
    BY <1>1, <2>1 DEF Selected, Dispatched, Early
  <2>3. QED BY <1>1, <2>1, <2>2 DEF Selected, Dispatched, Excuses, Fresh, Early, Late, history
<1>5. QED BY <1>1, <1>2, <1>3, <1>4, PhaseMoves

LEMMA ReadPageKeeps == ASSUME CleanupInv, ReadPage PROVE CleanupInv'
<1>1. /\ stage = "scan" /\ rounds < MaxPages /\ rounds' = rounds + 1
      /\ (stage' = stage /\ complete' = complete) \/ (stage' = "select" /\ complete' = TRUE)
      /\ UNCHANGED <<ec2, dry, ctx, sampled, errors, at, exit, history>>
  BY DEF ReadPage
<1>2. rounds' \in 0..(IF MaxPages > MaxRounds THEN MaxPages ELSE MaxRounds)
  <2>1. rounds \in 0..(IF MaxPages > MaxRounds THEN MaxPages ELSE MaxRounds) /\ MaxPages \in Nat /\ MaxRounds \in Nat
    BY Bounds DEF CleanupInv, RunTyped
  <2>2. CASE MaxPages > MaxRounds
    BY <1>1, <2>1, <2>2
  <2>3. CASE ~(MaxPages > MaxRounds)
    BY <1>1, <2>1, <2>3
  <2>4. QED BY <2>2, <2>3
<1>3. AccountTyped' /\ Cardinality(Busy)' <= Concurrency
  BY <1>1, BusyShrinks DEF ec2, CleanupInv, AccountTyped
<1>4. ASSUME scanned' \subseteq Instances, scanned \subseteq scanned', w' \in [Instances -> Workers],
             \A i \in Instances :
               /\ Fresh(w[i]) => Fresh(w[i])'
               /\ w'[i].deletion = w[i].deletion
               /\ \/ w'[i].rec = w[i].rec /\ (i \in scanned' <=> i \in scanned)
                  \/ i \in scanned' /\ i \notin scanned /\ w'[i].rec.tag = tag[i]
               /\ w'[i].status = w[i].status
      PROVE  CleanupInv'
  <2>1. RunTyped'
    BY <1>1, <1>2, <1>4 DEF CleanupInv, RunTyped, Stages, ec2, history
  <2>2. ExitOK'
    BY <1>1 DEF CleanupInv, ExitOK
  <2>3. ASSUME NEW i \in Instances PROVE WorkerOK(i, w[i], at[i])'
    <3>1. PICK x \in Workers : /\ x = w[i] /\ Honest(i, x) /\ Selected(i, x, at[i]) /\ Dispatched(i, x, at[i])
      BY WorkerIs
    <3>2. PICK y \in Workers : y = w'[i]
      BY <1>4
    <3>3. at[i] = "idle" /\ Fresh(x) /\ sent[i] = 0 /\ (i \in retagged => i \in scanned)
      BY <1>1, <3>1 DEF Selected, Dispatched, Early, CleanupInv, RunTyped
    <3>4. /\ Fresh(y) /\ y.deletion = x.deletion /\ y.status = x.status
          /\ \/ y.rec = x.rec /\ (i \in scanned' <=> i \in scanned)
             \/ i \in scanned' /\ i \notin scanned /\ y.rec.tag = tag[i]
      <4>1. Fresh(w[i])'
        BY <1>4, <3>1, <3>3
      <4>2. Fresh(y)
        BY <3>2, <4>1 DEF Fresh
      <4>3. QED BY <1>4, <3>1, <3>2, <4>2
    <3>5. Honest(i, y)'
      BY <1>1, <3>1, <3>3, <3>4 DEF Honest, Fresh, ec2
    <3>6. Selected(i, y, "idle")'
      BY <1>1, <3>1, <3>3, <3>4 DEF Selected, Fresh, Early, ec2, history
    <3>7. Dispatched(i, y, "idle")'
      BY <1>1, <3>3, <3>4 DEF Dispatched, Fresh, Early, history
    <3>8. Excuses(i, y, "idle")'
      BY <3>4 DEF Excuses, Fresh
    <3>9. at'[i] = "idle"
      BY <1>1, <3>3
    <3>10. QED BY <3>2, <3>5, <3>6, <3>7, <3>8, <3>9 DEF WorkerOK
  <2>4. QED BY <1>3, <2>1, <2>2, <2>3 DEF CleanupInv
<1>5. CASE UNCHANGED <<scanned, w>>
  <2>1. \A i \in Instances : Fresh(w[i]) => Fresh(w[i])'
    BY <1>5 DEF Fresh
  <2>2. QED BY <1>4, <1>5, <2>1 DEF CleanupInv, RunTyped
<1>6. ASSUME NEW i \in Instances, NEW r \in Reads(i), scanned' = scanned \cup {i},
             w' = [w EXCEPT ![i].rec = IF i \in scanned THEN @ ELSE r, ![i].conflict = Conflicting(i, r)]
      PROVE  CleanupInv'
  <2>1. AccountTyped /\ w \in [Instances -> Workers] /\ scanned \subseteq Instances
    BY DEF CleanupInv, RunTyped
  <2>2. r \in Records /\ r.tag = tag[i]
    BY <2>1, ReadsAre
  <2>3. PICK q \in Records : /\ q = (IF i \in scanned THEN w[i].rec ELSE r)
                             /\ (i \in scanned => q = w[i].rec) /\ (i \notin scanned => q.tag = tag[i])
    <3>1. w[i].rec \in Records
      BY <2>1 DEF Workers
    <3>2. QED BY <2>2, <3>1
  <2>4. PICK c \in BOOLEAN : c = Conflicting(i, r)
    BY DEF Conflicting
  <2>5. PICK y \in Workers : /\ y = [w[i] EXCEPT !.rec = q, !.conflict = c] /\ y.rec = q
                             /\ y.deletion = w[i].deletion /\ y.status = w[i].status /\ y.picked = w[i].picked
                             /\ y.active = w[i].active /\ y.terminal = w[i].terminal /\ y.root = w[i].root
    <3> DEFINE z == [w[i] EXCEPT !.rec = q, !.conflict = c]
    <3>1. w[i] \in Workers
      BY <2>1
    <3>2. z \in Workers
      BY <3>1 DEF Workers
    <3>3. /\ z.rec = q /\ z.deletion = w[i].deletion /\ z.status = w[i].status /\ z.picked = w[i].picked
          /\ z.active = w[i].active /\ z.terminal = w[i].terminal /\ z.root = w[i].root
      BY <3>1 DEF Workers
    <3>4. QED BY <3>2, <3>3
  <2>6. w' = [w EXCEPT ![i] = y]
    BY <1>6, <2>1, <2>3, <2>4, <2>5
  <2>7. w' \in [Instances -> Workers] /\ w'[i] = y /\ \A j \in Instances \ {i} : w'[j] = w[j]
    BY <2>1, <2>6
  <2>8. ASSUME NEW j \in Instances
        PROVE  /\ Fresh(w[j]) => Fresh(w[j])'
               /\ w'[j].deletion = w[j].deletion /\ w'[j].status = w[j].status
               /\ \/ w'[j].rec = w[j].rec /\ (j \in scanned' <=> j \in scanned)
                  \/ j \in scanned' /\ j \notin scanned /\ w'[j].rec.tag = tag[j]
    <3>1. CASE j = i
      BY <1>6, <2>3, <2>5, <2>7, <3>1 DEF Fresh
    <3>2. CASE j # i
      BY <1>6, <2>7, <3>2 DEF Fresh
    <3>3. QED BY <3>1, <3>2
  <2>9. QED BY <1>4, <1>6, <2>1, <2>7, <2>8
<1>7. QED BY <1>5, <1>6 DEF ReadPage, Visible
LEMMA ScanFailsKeeps == ASSUME CleanupInv, ScanFails PROVE CleanupInv'
<1>1. /\ stage = "scan" /\ stage' = "select"
      /\ UNCHANGED <<ec2, dry, ctx, sampled, scanned, complete, errors, rounds, at, w, exit, history>>
  BY DEF ScanFails
<1>2. RunTyped' /\ ExitOK'
  BY <1>1 DEF CleanupInv, RunTyped, ExitOK, Stages, ec2, history
<1>3. ASSUME NEW i \in Instances
      PROVE  Selected(i, w[i], at[i])' /\ Dispatched(i, w[i], at[i])' /\ Excuses(i, w[i], at[i])'
  <2>1. PICK x \in Workers, p \in Places : x = w[i] /\ p = at[i] /\ Selected(i, x, p) /\ Dispatched(i, x, p)
    BY WorkerIs
  <2>2. p = "idle" /\ Fresh(x)
    BY <1>1, <2>1 DEF Selected, Early
  <2>3. w'[i] = x /\ at'[i] = p
    BY <1>1, <2>1
  <2>4. Selected(i, x, p)' /\ Dispatched(i, x, p)' /\ Excuses(i, x, p)'
    BY <1>1, <2>1, <2>2 DEF Selected, Dispatched, Excuses, Fresh, Early, ec2, history
  <2>5. QED BY <2>3, <2>4
<1>4. QED BY <1>1, <1>2, <1>3, PhaseMoves

LEMMA SelectKeeps == ASSUME CleanupInv, Select PROVE CleanupInv'
<1>1. /\ stage = "select" /\ stage' = "decide" /\ rounds' = 0
      /\ w' = [i \in Instances |->
                  IF i \in scanned THEN NewWorker(w[i].rec, w[i].conflict, sampled, complete) ELSE w[i]]
      /\ at' = [i \in Instances |-> IF i \in scanned THEN "queued" ELSE "finished"]
      /\ UNCHANGED <<ec2, dry, ctx, sampled, scanned, complete, exit, history>>
  BY DEF Select
<1>2. AccountTyped' /\ sampled \in Nat /\ complete \in BOOLEAN
  <2>1. sampled \in 0..now /\ now \in 0..MaxTime
    BY DEF CleanupInv, RunTyped, AccountTyped
  <2>2. QED BY <1>1, <2>1, Bounds DEF ec2, CleanupInv, RunTyped, AccountTyped
<1>3. ASSUME NEW i \in Instances
      PROVE  /\ w'[i] \in Workers /\ at'[i] \in {"queued", "finished"}
             /\ WorkerOK(i, w[i], at[i])'
  <2>1. PICK x \in Workers : /\ x = w[i] /\ Honest(i, x) /\ Selected(i, x, at[i]) /\ Dispatched(i, x, at[i])
    BY WorkerIs
  <2>2. at[i] = "idle" /\ Fresh(x) /\ sent[i] = 0
    BY <1>1, <2>1 DEF Selected, Dispatched, Early
  <2>3. CASE i \in scanned
    <3>1. x.rec \in Records /\ x.conflict \in BOOLEAN /\ (i \in retagged <=> tag[i] # x.rec.tag)
      BY <1>1, <2>1, <2>2, <2>3 DEF Workers, Selected, Early
    <3>2. PICK z \in Workers :
            /\ z = NewWorker(x.rec, x.conflict, sampled, complete) /\ Honest(i, z) /\ z.rec = x.rec
            /\ z.expires = x.rec.tag /\ ~z.active /\ ~z.terminal /\ DOMAIN z.deletion = DOMAIN x.rec.vols
            /\ z.picked => /\ complete /\ x.rec.tag \in 0..sampled /\ z.reason = "expired"
                           /\ z.status = "termination_not_requested"
      BY <1>2, <3>1, NewWorkerIs
    <3>3. w'[i] = z /\ at'[i] = "queued"
      BY <1>1, <2>1, <2>3, <3>2
    <3>4. Honest(i, z)'
      BY <1>1, <3>2 DEF Honest, RootOf, ec2
    <3>5. Selected(i, z, "queued")'
      BY <1>1, <2>3, <3>1, <3>2 DEF Selected, Early, ec2, history
    <3>6. Dispatched(i, z, "queued")'
      BY <1>1, <2>2, <3>2 DEF Dispatched, history
    <3>7. Excuses(i, z, "queued")'
      BY <1>1, <3>2 DEF Excuses, Late
    <3>8. QED BY <3>3, <3>4, <3>5, <3>6, <3>7 DEF WorkerOK
  <2>4. CASE i \notin scanned
    <3>1. w'[i] = x /\ at'[i] = "finished"
      BY <1>1, <2>1, <2>4
    <3>2. Honest(i, x)'
      BY <1>1, <2>1 DEF Honest, RootOf, ec2
    <3>3. Selected(i, x, "finished")'
      BY <1>1, <2>1, <2>2, <2>4 DEF Selected, Fresh, Early, ec2, history
    <3>4. Dispatched(i, x, "finished")' /\ Excuses(i, x, "finished")'
      BY <1>1, <2>2 DEF Dispatched, Excuses, Fresh, history
    <3>5. QED BY <3>1, <3>2, <3>3, <3>4 DEF WorkerOK
  <2>5. QED BY <2>3, <2>4
<1>4. Cardinality(Busy)' <= Concurrency
  BY <1>3, BusyShrinks DEF CleanupInv, Resting
<1>5. RunTyped'
  <2>1. w' \in [Instances -> Workers] /\ at' \in [Instances -> Places]
    BY <1>1, <1>3 DEF Places
  <2>2. rounds' \in 0..(IF MaxPages > MaxRounds THEN MaxPages ELSE MaxRounds)
    BY <1>1, Bounds
  <2>3. QED BY <1>1, <2>1, <2>2 DEF CleanupInv, RunTyped, Stages, ec2, history
<1>6. ExitOK'
  BY <1>1 DEF CleanupInv, ExitOK
<1>7. QED BY <1>2, <1>3, <1>4, <1>5, <1>6 DEF CleanupInv

LEMMA StopFeedingKeeps == ASSUME CleanupInv, StopFeeding PROVE CleanupInv'
<1>1. /\ ctx = "ended" /\ at' = [i \in Instances |-> IF at[i] = "queued" THEN "finished" ELSE at[i]]
      /\ UNCHANGED <<ec2, dry, ctx, stage, sampled, scanned, complete, errors, rounds, w, exit, history>>
  BY DEF StopFeeding
<1>2. RunTyped' /\ ExitOK'
  <2>1. at' \in [Instances -> Places]
    BY <1>1 DEF CleanupInv, RunTyped, Places
  <2>2. QED BY <1>1, <2>1 DEF CleanupInv, RunTyped, ExitOK, ec2, history
<1>3. ASSUME NEW i \in Instances
      PROVE  /\ at'[i] = at[i] \/ at'[i] \in Resting
             /\ Selected(i, w[i], at[i])' /\ Dispatched(i, w[i], at[i])' /\ Excuses(i, w[i], at[i])'
  <2>1. PICK x \in Workers, p \in Places : /\ x = w[i] /\ p = at[i] /\ Selected(i, x, p) /\ Dispatched(i, x, p)
                                            /\ Excuses(i, x, p)
    BY WorkerIs
  <2>2. PICK q \in Places : q = at'[i] /\ (q = p \/ (p = "queued" /\ q = "finished"))
    BY <1>1, <2>1 DEF Places
  <2>3. Selected(i, x, q)' /\ Dispatched(i, x, q)'
    BY <1>1, <2>1, <2>2 DEF Selected, Dispatched, Fresh, Early, ec2, history
  <2>4. Accounted(i, x)' <=> Accounted(i, x)
    BY <1>1 DEF Accounted, SettledBy, ec2, history
  <2>5. Explains(i, x)' <=> Explains(i, x)
    BY <1>1, <2>4 DEF Explains
  <2>6. stage = "decide" /\ p = "queued" /\ ~dry /\ x.picked => Explains(i, x)
    BY <1>1, <2>1 DEF Excuses, Explains
  <2>7. Excuses(i, x, q)'
    BY <1>1, <2>1, <2>2, <2>4, <2>5, <2>6 DEF Excuses
  <2>8. QED BY <1>1, <2>1, <2>2, <2>3, <2>7 DEF Resting
<1>4. QED BY <1>1, <1>2, <1>3, PhaseMoves
\* What a worker says of its candidate goes on being so.
LEMMA ExplanationStands ==
  ASSUME UNCHANGED <<ec2, retagged>>, ctx = "ended" => ctx' = "ended", NEW i \in Instances, NEW x \in Workers
  PROVE  (Accounted(i, x) => Accounted(i, x)') /\ (Explains(i, x) => Explains(i, x)')
<1>1. Accounted(i, x) => Accounted(i, x)'
  BY DEF Accounted, SettledBy, ec2
<1>2. QED BY <1>1 DEF Explains

LEMMA DecideEndsKeeps == ASSUME CleanupInv, DecideEnds PROVE CleanupInv'
<1>1. /\ stage = "decide" /\ \A i \in scanned : at[i] = "finished"
      /\ (dry /\ stage' = "tally") \/ (~dry /\ stage' = "observe")
      /\ UNCHANGED <<ec2, dry, ctx, sampled, scanned, complete, w, exit, history, errors, rounds, at>>
  BY DEF DecideEnds, EndPhase, PhaseOver, CleanupInv, RunTyped
<1>2. RunTyped' /\ ExitOK'
  BY <1>1 DEF CleanupInv, RunTyped, ExitOK, Stages, ec2, history
<1>3. ASSUME NEW i \in Instances
      PROVE  Selected(i, w[i], at[i])' /\ Dispatched(i, w[i], at[i])' /\ Excuses(i, w[i], at[i])'
  <2>1. PICK x \in Workers, p \in Places : /\ x = w[i] /\ p = at[i] /\ Selected(i, x, p) /\ Dispatched(i, x, p)
                                            /\ Excuses(i, x, p)
    BY WorkerIs
  <2>2. p \in {"idle", "finished"} /\ (x.picked => p = "finished") /\ w'[i] = x /\ at'[i] = p
    BY <1>1, <2>1 DEF Selected
  <2>3. Selected(i, x, p)'
    BY <1>1, <2>1, <2>2 DEF Selected, Fresh, Early, ec2, history
  <2>4. Dispatched(i, x, p)'
    BY <1>1, <2>1, <2>2 DEF Dispatched, Early, history
  <2>5. Explains(i, x) => Explains(i, x)'
    BY <1>1, ExplanationStands DEF history
  <2>6. Excuses(i, x, p)'
    BY <1>1, <2>1, <2>2, <2>5 DEF Excuses, Late
  <2>7. QED BY <2>2, <2>3, <2>4, <2>6
<1>4. QED BY <1>1, <1>2, <1>3, PhaseMoves

\* The rounds: the stages before the outcomes are told.
LEMMA RoundMoves ==
  ASSUME CleanupInv, stage \in {"observe", "round"}, stage' \in {"observe", "round", "tally"},
         UNCHANGED <<ec2, dry, ctx, sampled, scanned, complete, w, exit, history>>,
         rounds' \in 0..(IF MaxPages > MaxRounds THEN MaxPages ELSE MaxRounds), at' \in [Instances -> Places],
         \A i \in Instances :
           \/ at'[i] = "finished"
           \/ at'[i] = at[i] /\ stage' # "round"
           \/ at'[i] = "queued" /\ i \in scanned /\ w[i].active
  PROVE  CleanupInv'
<1>1. RunTyped' /\ ExitOK'
  BY DEF CleanupInv, RunTyped, ExitOK, Stages, ec2, history
<1>2. ASSUME NEW i \in Instances
      PROVE  /\ at'[i] = at[i] \/ at'[i] \in Resting
             /\ Selected(i, w[i], at[i])' /\ Dispatched(i, w[i], at[i])' /\ Excuses(i, w[i], at[i])'
  <2>1. PICK x \in Workers, p \in Places : /\ x = w[i] /\ p = at[i] /\ Selected(i, x, p) /\ Dispatched(i, x, p)
                                            /\ Excuses(i, x, p)
    BY WorkerIs
  <2>2. PICK q \in Places : /\ q = at'[i]
                            /\ q = "finished" \/ (q = p /\ stage' # "round") \/ (q = "queued" /\ i \in scanned /\ x.active)
    BY <2>1
  <2>3. w'[i] = x /\ p \notin {"decided", "prepared", "rechecked", "sent"}
    BY <2>1 DEF Dispatched
  <2>4. Selected(i, x, q)'
    BY <2>1, <2>2 DEF Selected, Fresh, Early, ec2, history
  <2>5. Dispatched(i, x, q)'
    BY <2>1, <2>2, <2>3 DEF Dispatched, Early, history
  <2>6. Explains(i, x) => Explains(i, x)'
    BY ExplanationStands DEF history
  <2>7. Excuses(i, x, q)'
    BY <2>1, <2>6 DEF Excuses, Late
  <2>8. QED BY <2>1, <2>2, <2>3, <2>4, <2>5, <2>7 DEF Resting
<1>3. QED BY <1>1, <1>2, PhaseMoves

LEMMA RoundBeginsKeeps == ASSUME CleanupInv, RoundBegins PROVE CleanupInv'
<1>1. /\ stage = "observe" /\ at \in [Instances -> Places]
      /\ rounds \in 0..(IF MaxPages > MaxRounds THEN MaxPages ELSE MaxRounds)
  BY DEF RoundBegins, CleanupInv, RunTyped
<1>2. CASE RoundsLeft /\ ctx = "live" /\ Active # {}
  <2>1. /\ stage' = "round" /\ rounds' = rounds + 1
        /\ at' = [i \in Instances |-> IF i \in Active THEN "queued" ELSE "finished"]
        /\ UNCHANGED <<ec2, dry, ctx, sampled, scanned, complete, w, exit, history>>
    BY <1>2 DEF RoundBegins, EndPhase
  <2>2. rounds' \in 0..(IF MaxPages > MaxRounds THEN MaxPages ELSE MaxRounds)
    <3>1. rounds \in Nat /\ rounds < MaxRounds /\ MaxPages \in Nat /\ MaxRounds \in Nat
      BY <1>1, <1>2, Bounds DEF RoundsLeft
    <3>2. CASE MaxPages > MaxRounds
      BY <2>1, <3>1, <3>2
    <3>3. CASE ~(MaxPages > MaxRounds)
      BY <2>1, <3>1, <3>3
    <3>4. QED BY <3>2, <3>3
  <2>3. at' \in [Instances -> Places]
    BY <2>1 DEF Places
  <2>4. ASSUME NEW i \in Instances PROVE at'[i] = "finished" \/ (at'[i] = "queued" /\ i \in scanned /\ w[i].active)
    BY <2>1 DEF Active
  <2>5. QED BY <1>1, <2>1, <2>2, <2>3, <2>4, RoundMoves
<1>3. CASE ~(RoundsLeft /\ ctx = "live" /\ Active # {})
  <2>1. /\ stage' = "tally" /\ rounds' = rounds /\ at' = at
        /\ UNCHANGED <<ec2, dry, ctx, sampled, scanned, complete, w, exit, history>>
    BY <1>3 DEF RoundBegins, EndPhase
  <2>2. QED BY <1>1, <2>1, RoundMoves
<1>4. QED BY <1>2, <1>3

LEMMA RoundEndsKeeps == ASSUME CleanupInv, RoundEnds PROVE CleanupInv'
<1>1. /\ stage = "round" /\ stage' \in {"observe", "tally"} /\ rounds' = rounds /\ at' = at
      /\ UNCHANGED <<ec2, dry, ctx, sampled, scanned, complete, w, exit, history>>
  BY DEF RoundEnds, EndPhase
<1>2. /\ at \in [Instances -> Places] /\ rounds \in 0..(IF MaxPages > MaxRounds THEN MaxPages ELSE MaxRounds)
  BY DEF CleanupInv, RunTyped
<1>3. QED BY <1>1, <1>2, RoundMoves

LEMMA TallyKeeps == ASSUME CleanupInv, Tally PROVE CleanupInv'
<1>1. /\ stage = "tally"
      /\ (dry /\ stage' = "finish") \/ (~dry /\ stage' = "outcomes")
      /\ w' = [i \in Instances |-> IF i \in scanned THEN Explained(w[i]) ELSE w[i]]
      /\ at' = [i \in Instances |-> IF i \in scanned THEN "queued" ELSE "finished"]
      /\ UNCHANGED <<ec2, dry, ctx, sampled, scanned, complete, errors, rounds, exit, history>>
  BY DEF Tally, CleanupInv, RunTyped
<1>2. AccountTyped' /\ stage' \in Late
  BY <1>1 DEF ec2, CleanupInv, AccountTyped, Late
<1>3. ASSUME NEW i \in Instances
      PROVE  /\ w'[i] \in Workers /\ at'[i] \in {"queued", "finished"}
             /\ WorkerOK(i, w[i], at[i])'
  <2>1. PICK x \in Workers, p \in Places :
          /\ x = w[i] /\ p = at[i] /\ Honest(i, x) /\ Selected(i, x, p) /\ Dispatched(i, x, p) /\ Excuses(i, x, p)
    BY WorkerIs
  <2>2. DOMAIN x.deletion = DOMAIN x.rec.vols
    BY <1>1, <2>1 DEF Selected
  <2>3. PICK y \in Workers : /\ y = (IF i \in scanned THEN Explained(x) ELSE x) /\ Preserves(i, x, y)
                             /\ i \in scanned /\ Explains(i, x) => Accounted(i, y)
    <3>1. CASE i \in scanned
      BY <2>1, <2>2, <3>1, ExplainedIs
    <3>2. CASE i \notin scanned
      BY <3>2 DEF Preserves
    <3>3. QED BY <3>1, <3>2
  <2>4. PICK q \in {"queued", "finished"} : /\ q = at'[i] /\ (i \notin scanned => q = "finished") /\ w'[i] = y
    BY <1>1, <2>1, <2>3
  <2>5. Honest(i, y)'
    BY <1>1, <2>1, <2>3 DEF Preserves, Honest, RootOf, ec2
  <2>6. Selected(i, y, q)'
    BY <1>1, <2>1, <2>2, <2>3, <2>4 DEF Preserves, Selected, Early, ec2, history
  <2>7. Dispatched(i, y, q)'
    BY <1>1, <2>1, <2>3 DEF Preserves, Dispatched, Early, history
  <2>8. ~dry /\ y.picked => Accounted(i, y)
    BY <1>1, <2>1, <2>3 DEF Selected, Excuses, Preserves
  <2>9. Accounted(i, y) => Accounted(i, y)'
    BY <1>1, ExplanationStands DEF history
  <2>10. Excuses(i, y, q)'
    BY <1>1, <2>8, <2>9 DEF Excuses
  <2>11. QED BY <2>4, <2>5, <2>6, <2>7, <2>10 DEF WorkerOK
<1>4. Cardinality(Busy)' <= Concurrency
  BY <1>3, BusyShrinks DEF CleanupInv, Resting
<1>5. RunTyped'
  <2>1. w' \in [Instances -> Workers] /\ at' \in [Instances -> Places]
    BY <1>1, <1>3 DEF Places
  <2>2. QED BY <1>1, <2>1 DEF CleanupInv, RunTyped, Stages, ec2, history
<1>6. ExitOK'
  BY <1>1 DEF CleanupInv, ExitOK
<1>7. QED BY <1>2, <1>3, <1>4, <1>5, <1>6 DEF CleanupInv
\* The last stages change nothing a worker says.
LEMMA EndMoves ==
  ASSUME CleanupInv, stage \in {"outcomes", "finish", "summary"}, stage' \in {"finish", "summary", "done"},
         UNCHANGED <<ec2, dry, ctx, sampled, scanned, complete, w, sent, retagged, rounds, at>>,
         journal \subseteq journal', exit' \in {-1, 0, 1, 3, 4}, ExitOK'
  PROVE  CleanupInv'
<1>1. AccountTyped' /\ RunTyped'
  BY DEF CleanupInv, AccountTyped, RunTyped, Stages, ec2
<1>2. ASSUME NEW i \in Instances PROVE WorkerOK(i, w[i], at[i])'
  <2>1. PICK x \in Workers, p \in Places :
          /\ x = w[i] /\ p = at[i] /\ Honest(i, x) /\ Selected(i, x, p) /\ Dispatched(i, x, p) /\ Excuses(i, x, p)
    BY WorkerIs
  <2>2. w'[i] = x /\ at'[i] = p
    BY <2>1
  <2>3. Honest(i, x)'
    BY <2>1 DEF Honest, RootOf, ec2
  <2>4. Selected(i, x, p)'
    BY <2>1 DEF Selected, Fresh, Early, ec2
  <2>5. Dispatched(i, x, p)'
    BY <2>1 DEF Dispatched, Early
  <2>6. Accounted(i, x) => Accounted(i, x)'
    BY ExplanationStands
  <2>7. Excuses(i, x, p)'
    BY <2>1, <2>6 DEF Excuses, Late
  <2>8. QED BY <2>2, <2>3, <2>4, <2>5, <2>7 DEF WorkerOK
<1>3. Cardinality(Busy)' <= Concurrency
  BY BusyShrinks DEF CleanupInv
<1>4. QED BY <1>1, <1>2, <1>3 DEF CleanupInv

LEMMA OutcomesEndKeeps == ASSUME CleanupInv, OutcomesEnd PROVE CleanupInv'
<1>1. /\ stage = "outcomes" /\ stage' = "finish"
      /\ UNCHANGED <<ec2, dry, ctx, sampled, scanned, complete, w, exit, history, errors, rounds, at>>
  BY DEF OutcomesEnd, EndPhase
<1>2. exit' \in {-1, 0, 1, 3, 4} /\ ExitOK' /\ journal' = journal
      /\ UNCHANGED <<ec2, dry, ctx, sampled, scanned, complete, w, sent, retagged, rounds, at>>
  BY <1>1 DEF CleanupInv, RunTyped, ExitOK, history
<1>3. QED BY <1>1, <1>2, EndMoves

\* An exit code of zero means a complete scan and outcomes without problems.
LEMMA AggregateIs ==
  ASSUME NEW errs
  PROVE  /\ Aggregate(errs) \in {0, 1, 3, 4}
         /\ Aggregate(errs) = 0 => complete /\ errs = {} /\ \A i \in scanned : w[i].errs = {}
BY DEF Aggregate

LEMMA FinishKeeps == ASSUME CleanupInv, Finish PROVE CleanupInv'
<1>1. /\ stage = "finish" /\ exit' = Aggregate(errors)
      /\ (dry /\ stage' = "done") \/ (~dry /\ stage' = "summary")
      /\ UNCHANGED <<ec2, dry, ctx, sampled, scanned, complete, rounds, at, w, history>>
  BY DEF Finish, CleanupInv, RunTyped
<1>2. exit' \in {0, 1, 3, 4} /\ (exit' = 0 => complete /\ \A i \in scanned : w[i].errs = {})
  BY <1>1, AggregateIs
<1>3. ExitOK'
  BY <1>1, <1>2 DEF ExitOK
<1>4. journal' = journal /\ UNCHANGED <<ec2, dry, ctx, sampled, scanned, complete, w, sent, retagged, rounds, at>>
  BY <1>1 DEF history
<1>5. QED BY <1>1, <1>2, <1>3, <1>4, EndMoves

LEMMA SummaryKeeps == ASSUME CleanupInv, Summary PROVE CleanupInv'
<1>1. /\ stage = "summary" /\ stage' = "done"
      /\ UNCHANGED <<ec2, dry, ctx, sampled, scanned, complete, rounds, at, w, sent, retagged>>
  BY DEF Summary
<1>2. PICK ok \in BOOLEAN : /\ Emitted("summary", "run", ok)
                            /\ (ok /\ exit' = exit) \/ (~ok /\ exit' = Aggregate(errors') /\ errors' # {})
  BY DEF Summary
<1>3. journal \subseteq journal' /\ (ok => <<"summary", "run">> \in journal')
  BY <1>2, EmittedIs
<1>4. exit \in {0, 1, 3, 4} /\ (exit = 0 => complete /\ \A i \in scanned : w[i].errs = {})
  BY <1>1 DEF CleanupInv, RunTyped, ExitOK
<1>5. /\ exit' \in {0, 1, 3, 4} /\ (exit' = 0 => ok /\ complete /\ \A i \in scanned : w[i].errs = {})
  BY <1>2, <1>4, AggregateIs
<1>6. ExitOK'
  BY <1>1, <1>3, <1>5 DEF ExitOK
<1>7. QED BY <1>1, <1>3, <1>5, <1>6, EndMoves

LEMMA ContextEndsKeeps == ASSUME CleanupInv, ContextEnds PROVE CleanupInv'
<1>1. ctx' = "ended" /\ UNCHANGED <<ec2, dry, stage, sampled, scanned, complete, errors, rounds, at, w, exit, history>>
  BY DEF ContextEnds
<1>2. AccountTyped' /\ RunTyped' /\ ExitOK' /\ Cardinality(Busy)' <= Concurrency
  BY <1>1, BusyShrinks DEF CleanupInv, AccountTyped, RunTyped, ExitOK, ec2, history
<1>3. ASSUME NEW i \in Instances PROVE WorkerOK(i, w[i], at[i])'
  <2>1. PICK x \in Workers, p \in Places :
          /\ x = w[i] /\ p = at[i] /\ Honest(i, x) /\ Selected(i, x, p) /\ Dispatched(i, x, p) /\ Excuses(i, x, p)
    BY WorkerIs
  <2>2. w'[i] = x /\ at'[i] = p
    BY <1>1, <2>1
  <2>3. Honest(i, x)'
    BY <1>1, <2>1 DEF Honest, RootOf, ec2
  <2>4. Selected(i, x, p)'
    BY <1>1, <2>1 DEF Selected, Fresh, ec2, history
  <2>5. Dispatched(i, x, p)'
    BY <1>1, <2>1 DEF Dispatched, history
  <2>6. (Accounted(i, x) => Accounted(i, x)') /\ (Explains(i, x) => Explains(i, x)')
    BY <1>1, ExplanationStands DEF history
  <2>7. Excuses(i, x, p)'
    BY <1>1, <2>1, <2>6 DEF Excuses
  <2>8. QED BY <2>2, <2>3, <2>4, <2>5, <2>7 DEF WorkerOK
<1>4. QED BY <1>2, <1>3 DEF CleanupInv
LEMMA WorkerKeeps == ASSUME CleanupInv, NEW i \in Instances, Worker(i) PROVE CleanupInv'
<1>1. CASE Decide(i)
  BY <1>1, DecideKeeps
<1>2. CASE Prepare(i)
  BY <1>2, PrepareKeeps
<1>3. CASE Reread(i)
  BY <1>3, RereadKeeps
<1>4. CASE Dispatch(i)
  BY <1>4, DispatchKeeps
<1>5. CASE Answer(i)
  BY <1>5, AnswerKeeps
<1>6. CASE ObserveInstance(i)
  BY <1>6, ObserveInstanceKeeps
<1>7. CASE ObserveVolume(i)
  BY <1>7, ObserveVolumeKeeps
<1>8. CASE Outcome(i)
  BY <1>8, OutcomeKeeps
<1>9. QED BY <1>1, <1>2, <1>3, <1>4, <1>5, <1>6, <1>7, <1>8 DEF Worker

\* No step of the run breaks the invariant.
LEMMA RunKeeps == ASSUME CleanupInv, Run PROVE CleanupInv'
<1>1. CASE Begin \/ ReadPage \/ ScanFails \/ Select
  BY <1>1, BeginKeeps, ReadPageKeeps, ScanFailsKeeps, SelectKeeps
<1>2. CASE StopFeeding \/ DecideEnds \/ RoundBegins \/ RoundEnds
  BY <1>2, StopFeedingKeeps, DecideEndsKeeps, RoundBeginsKeeps, RoundEndsKeeps
<1>3. CASE Tally \/ OutcomesEnd \/ Finish \/ Summary
  BY <1>3, TallyKeeps, OutcomesEndKeeps, FinishKeeps, SummaryKeeps
<1>4. CASE \E i \in Instances : Worker(i)
  BY <1>4, WorkerKeeps
<1>5. QED BY <1>1, <1>2, <1>3, <1>4 DEF Run

\* A run starts with nothing claimed, nothing sent and nothing recorded,
\* whatever the account looks like: its very first state, and the state in
\* which the handler is invoked again.
Clean ==
    /\ ctx = "live" /\ stage = "begin" /\ scanned = {} /\ complete = FALSE /\ rounds = 0
    /\ at = [i \in Instances |-> "idle"] /\ exit = -1
    /\ w = [i \in Instances |-> NewWorker(Blank, FALSE, 0, FALSE)]
    /\ journal = {} /\ sent = [i \in Instances |-> 0] /\ retagged = {}

LEMMA BlankWorkerIs ==
  ASSUME NEW i \in Instances
  PROVE  \E z \in Workers : /\ z = NewWorker(Blank, FALSE, 0, FALSE) /\ Honest(i, z) /\ Fresh(z)
                            /\ DOMAIN z.deletion = DOMAIN z.rec.vols
<1>1. Blank \in Records
  <2>1. PICK f \in [{} -> Flags] : f = [v \in {} |-> "none"]
    OBVIOUS
  <2>2. f \in Settings(Flags)
    BY <2>1, IsSetting
  <2>3. Blank = [state |-> "gone", tag |-> Missing, bad |-> FALSE, vols |-> f]
    BY <2>1 DEF Blank
  <2>4. QED BY <2>2, <2>3 DEF Records, States, Tags
<1>2. PICK b \in Records, no \in BOOLEAN, t \in Nat : b = Blank /\ no = FALSE /\ t = 0
  BY <1>1
<1>3. PICK z \in Workers :
        /\ z = NewWorker(b, no, t, no) /\ Honest(i, z) /\ z.rec = b /\ ~z.active /\ ~z.terminal
        /\ DOMAIN z.deletion = DOMAIN b.vols /\ (z.picked => no)
  BY NewWorkerIs
<1>4. DOMAIN b.vols = {} /\ z.root # "deleted"
  BY <1>2, <1>3 DEF Blank, NewWorker
<1>5. QED BY <1>2, <1>3, <1>4 DEF Fresh

LEMMA CleanIsSafe == AccountTyped /\ Clean /\ dry \in BOOLEAN /\ sampled \in 0..now => CleanupInv
<1> SUFFICES ASSUME AccountTyped, Clean, dry \in BOOLEAN, sampled \in 0..now PROVE CleanupInv
  OBVIOUS
<1>1. ASSUME NEW i \in Instances PROVE w[i] \in Workers /\ WorkerOK(i, w[i], at[i])
  <2>1. PICK z \in Workers : z = w[i] /\ Honest(i, z) /\ Fresh(z) /\ DOMAIN z.deletion = DOMAIN z.rec.vols
    BY BlankWorkerIs DEF Clean
  <2>2. at[i] = "idle" /\ sent[i] = 0 /\ stage = "begin" /\ scanned = {}
    BY DEF Clean
  <2>3. Selected(i, z, "idle")
    BY <2>1, <2>2 DEF Selected, Fresh, Early
  <2>4. Dispatched(i, z, "idle") /\ Excuses(i, z, "idle")
    BY <2>1, <2>2 DEF Dispatched, Excuses, Fresh, Early, Late
  <2>5. QED BY <2>1, <2>2, <2>3, <2>4 DEF WorkerOK
<1>2. RunTyped
  <2>1. w \in [Instances -> Workers] /\ at \in [Instances -> Places] /\ sent \in [Instances -> Nat]
    BY <1>1 DEF Clean, Places
  <2>2. 0 \in 0..(IF MaxPages > MaxRounds THEN MaxPages ELSE MaxRounds)
    BY Bounds
  <2>3. QED BY <2>1, <2>2 DEF RunTyped, Clean, Stages
<1>3. Cardinality(Busy) <= Concurrency
  <2>1. Busy = {}
    BY DEF Busy, Clean
  <2>2. QED BY <2>1, FS_EmptySet, Bounds
<1>4. ExitOK
  BY DEF ExitOK, Clean
<1>5. QED BY <1>1, <1>2, <1>3, <1>4 DEF CleanupInv

LEMMA InitIsSafe == Init => CleanupInv
<1> SUFFICES ASSUME Init PROVE CleanupInv
  OBVIOUS
<1>1. AccountTyped
  <2>1. state \in [Instances -> States]
    <3>1. InitStates \subseteq States
      BY Bounds DEF States, Live
    <3>2. state \in [Instances -> InitStates]
      BY DEF Init
    <3>3. QED BY <3>1, <3>2
  <2>2. tag \in [Instances -> Tags]
    <3>1. MaxTime \in Nat /\ InitTags \subseteq (0..MaxTime) \cup {Missing, Invalid, Ambiguous}
      BY Bounds
    <3>2. InitTags \subseteq Tags
      BY <3>1 DEF Tags
    <3>3. tag \in [Instances -> InitTags]
      BY DEF Init
    <3>4. QED BY <3>2, <3>3
  <2>3. flag \in [Volumes -> Flags]
    <3>1. flag \in InitFlags /\ InitFlags \subseteq [Volumes -> Flags]
      BY Bounds DEF Init
    <3>2. QED BY <3>1
  <2>4. QED BY <2>1, <2>2, <2>3, Bounds DEF Init, AccountTyped
<1>2. Clean /\ dry \in BOOLEAN /\ sampled \in 0..now
  BY DEF Init, Clean
<1>3. QED BY <1>1, <1>2, CleanIsSafe

(***************************************************************************)
(* The handler                                                             *)
(***************************************************************************)
Kinds == {"invocation_start", "summary", "invocation_end"} \X (1..MaxAttempts) \X BOOLEAN

\* A record is kept, printed or lost; what is acknowledged is kept.
LEMMA RecordedIs ==
  ASSUME HandlerInv, NEW kind \in {"invocation_start", "summary", "invocation_end"}, NEW good \in BOOLEAN,
         NEW ok \in BOOLEAN, Recorded(kind, good, ok)
  PROVE  /\ logged \subseteq logged' /\ logged' \subseteq Kinds /\ printed' \subseteq Kinds
         /\ setUp /\ ok => <<kind, attempt, good>> \in logged'
<1>1. <<kind, attempt, good>> \in Kinds
  BY DEF HandlerInv, HandlerOK, Kinds
<1>2. logged \subseteq Kinds /\ printed \subseteq Kinds
  BY DEF HandlerInv, HandlerOK, Kinds
<1>3. QED BY <1>1, <1>2 DEF Recorded

LEMMA AccountAloneMoves ==
  ASSUME HandlerInv, Account \/ ContextEnds, UNCHANGED handler
  PROVE  HandlerInv'
<1>1. CleanupInv'
  BY AccountKeeps, ContextEndsKeeps DEF HandlerInv
<1>2. stage' = stage /\ exit' = exit /\ dry' = dry
  BY DEF Account, ContextEnds, Tick, Retag, TerminatedElsewhere, ShutDown, Arrives, Remap, DeleteVolume, runVars
<1>3. HandlerOK'
  BY <1>2 DEF HandlerInv, HandlerOK, handler
<1>4. QED BY <1>1, <1>3 DEF HandlerInv

LEMMA RunKeepsItsMode == ASSUME Run PROVE dry' = dry
<1>1. CASE Begin \/ ReadPage \/ ScanFails \/ Select
  BY <1>1 DEF Begin, ReadPage, ScanFails, Select
<1>2. CASE StopFeeding \/ DecideEnds \/ RoundBegins \/ RoundEnds
  BY <1>2 DEF StopFeeding, DecideEnds, RoundBegins, RoundEnds, EndPhase
<1>3. CASE Tally \/ OutcomesEnd \/ Finish \/ Summary
  BY <1>3 DEF Tally, OutcomesEnd, Finish, Summary, EndPhase
<1>4. CASE \E i \in Instances : Worker(i)
  BY <1>4 DEF Worker, Decide, Prepare, Reread, Dispatch, Answer, ObserveInstance, ObserveVolume, Outcome, runFrame
<1>5. QED BY <1>1, <1>2, <1>3, <1>4 DEF Run

LEMMA ServesKeeps == ASSUME HandlerInv, Serves PROVE HandlerInv'
<1>1. hat \in {"running", "operator"} /\ UNCHANGED handler /\ dry' = dry /\ CleanupInv'
  BY RunKeeps, RunKeepsItsMode DEF HandlerInv, Serves
<1>2. HandlerOK'
  BY <1>1 DEF HandlerInv, HandlerOK, handler
<1>3. QED BY <1>1, <1>2 DEF HandlerInv

\* Nothing of the run moves.
LEMMA NothingRuns == ASSUME CleanupInv, UNCHANGED vars PROVE CleanupInv'
<1>1. UNCHANGED <<ec2, dry, ctx, stage, sampled, scanned, complete, errors, rounds, at, w, exit, journal, sent, retagged>>
  BY DEF vars, runVars, history
<1>2. AccountTyped' /\ RunTyped' /\ ExitOK' /\ Cardinality(Busy)' <= Concurrency
  BY <1>1, BusyShrinks DEF CleanupInv, AccountTyped, RunTyped, ExitOK, ec2
<1>3. ASSUME NEW i \in Instances PROVE WorkerOK(i, w[i], at[i])'
  <2>1. PICK x \in Workers, p \in Places :
          /\ x = w[i] /\ p = at[i] /\ Honest(i, x) /\ Selected(i, x, p) /\ Dispatched(i, x, p) /\ Excuses(i, x, p)
    BY WorkerIs
  <2>2. w'[i] = x /\ at'[i] = p
    BY <1>1, <2>1
  <2>3. Honest(i, x)' /\ Selected(i, x, p)'
    BY <1>1, <2>1 DEF Honest, RootOf, Selected, Fresh, ec2
  <2>4. Dispatched(i, x, p)'
    BY <1>1, <2>1 DEF Dispatched
  <2>5. (Accounted(i, x) => Accounted(i, x)') /\ (Explains(i, x) => Explains(i, x)')
    BY <1>1, ExplanationStands
  <2>6. Excuses(i, x, p)'
    BY <1>1, <2>1, <2>5 DEF Excuses
  <2>7. QED BY <2>2, <2>3, <2>4, <2>6 DEF WorkerOK
<1>4. QED BY <1>2, <1>3 DEF CleanupInv

LEMMA HandlerStutters == ASSUME HandlerInv, UNCHANGED allVars PROVE HandlerInv'
<1>1. CleanupInv'
  BY NothingRuns DEF HandlerInv, allVars
<1>2. HandlerOK'
  BY DEF HandlerInv, HandlerOK, allVars, vars, runVars, handler
<1>3. QED BY <1>1, <1>2 DEF HandlerInv

\* A clean start is a safe one, in the next state too.
LEMMA CleanStartIsSafe == ASSUME (AccountTyped /\ Clean /\ dry \in BOOLEAN /\ sampled \in 0..now)' PROVE CleanupInv'
<1>1. (AccountTyped /\ Clean /\ dry \in BOOLEAN /\ sampled \in 0..now => CleanupInv)'
  BY CleanIsSafe, PTL
<1>2. QED BY <1>1

LEMMA InvokedAgainKeeps == ASSUME HandlerInv, InvokedAgain PROVE HandlerInv'
<1>1. CleanupInv'
  <2>1. AccountTyped'
    BY DEF InvokedAgain, HandlerInv, CleanupInv, AccountTyped, ec2
  <2>2. Clean'
    BY DEF InvokedAgain, Clean
  <2>3. (dry \in BOOLEAN /\ sampled \in 0..now)'
    BY DEF InvokedAgain, HandlerInv, CleanupInv, RunTyped, ec2
  <2>4. QED BY <2>1, <2>2, <2>3, CleanStartIsSafe
<1>2. attempt' \in 1..MaxAttempts
  BY AttemptsAssumption DEF InvokedAgain, HandlerInv, HandlerOK
<1>3. HandlerOK'
  BY <1>2 DEF InvokedAgain, HandlerInv, HandlerOK
<1>4. QED BY <1>1, <1>3 DEF HandlerInv

\* The handler's own steps, which leave the run alone.
LEMMA HandlerMoves ==
  ASSUME HandlerInv, Rejects \/ SetUp \/ RecordStart \/ RunReturns \/ RecordLateStart \/ RecordSummary
                     \/ RecordEnd \/ Killed
  PROVE  HandlerInv'
<1>1. UNCHANGED vars /\ attempt' = attempt
  BY DEF Rejects, SetUp, RecordStart, RunReturns, RecordLateStart, RecordSummary, RecordEnd, Killed
<1>2. CleanupInv'
  BY <1>1, NothingRuns DEF HandlerInv
<1>3. stage' = stage /\ exit' = exit /\ dry' = dry
  BY <1>1 DEF vars, runVars
<1>4. CASE Rejects \/ SetUp \/ RunReturns \/ Killed
  <2>1. ASSUME Rejects PROVE HandlerOK'
    BY <1>3, <2>1 DEF HandlerInv, HandlerOK, Rejects
  <2>2. ASSUME SetUp PROVE HandlerOK'
    BY <1>3, <2>2 DEF HandlerInv, HandlerOK, SetUp
  <2>3. ASSUME RunReturns PROVE HandlerOK'
    <3>1. PICK bad \in BOOLEAN : failed' = bad /\ (~bad => exit = 0)
      BY <2>3 DEF RunReturns, RunSucceeded
    <3>2. /\ hat = "running" /\ hat' = "leaving" /\ stage = "done"
          /\ UNCHANGED <<attempt, setUp, started, logged, printed, reply>>
      BY <2>3 DEF RunReturns
    <3>3. QED BY <1>3, <3>1, <3>2 DEF HandlerInv, HandlerOK
  <2>4. ASSUME Killed PROVE HandlerOK'
    BY <1>3, <2>4 DEF HandlerInv, HandlerOK, Killed
  <2>5. HandlerOK'
    BY <1>4, <2>1, <2>2, <2>3, <2>4
  <2>6. QED BY <1>2, <2>5 DEF HandlerInv
<1>5. CASE RecordStart
  <2>1. PICK ok \in BOOLEAN :
          /\ Recorded("invocation_start", FALSE, ok) /\ started' = ok
          /\ (ok /\ hat' = "running" /\ failed' = failed) \/ (~ok /\ hat' = "leaving" /\ failed')
    BY <1>5 DEF RecordStart, StartHolds
  <2>2. hat = "starting" /\ setUp /\ setUp' = setUp /\ reply' = reply
    BY <1>5 DEF RecordStart, HandlerInv, HandlerOK
  <2>3. /\ logged' \subseteq Kinds /\ printed' \subseteq Kinds
        /\ ok => <<"invocation_start", attempt, FALSE>> \in logged'
    BY <2>1, <2>2, RecordedIs
  <2>4. HandlerOK'
    BY <1>1, <1>3, <2>1, <2>2, <2>3 DEF HandlerInv, HandlerOK, Kinds
  <2>5. QED BY <1>2, <2>4 DEF HandlerInv
<1>6. CASE RecordLateStart \/ RecordSummary
  <2>1. /\ logged \subseteq logged' /\ logged' \subseteq Kinds /\ printed' \subseteq Kinds
    <3>1. CASE logged' = logged /\ printed' = printed
      BY <3>1 DEF HandlerInv, HandlerOK, Kinds
    <3>2. CASE \E ok \in BOOLEAN : Recorded("invocation_start", FALSE, ok)
      BY <3>2, RecordedIs
    <3>3. CASE \E ok \in BOOLEAN : Recorded("summary", FALSE, ok)
      BY <3>3, RecordedIs
    <3>4. QED BY <1>6, <3>1, <3>2, <3>3 DEF RecordLateStart, RecordSummary
  <2>2. /\ hat \in {"leaving", "summing"} /\ hat' \in {"summing", "ending"}
        /\ UNCHANGED <<setUp, started, failed, reply>>
    BY <1>6 DEF RecordLateStart, RecordSummary, AfterLateStart
  <2>3. HandlerOK'
    BY <1>1, <1>3, <2>1, <2>2 DEF HandlerInv, HandlerOK, Kinds
  <2>4. QED BY <1>2, <2>3 DEF HandlerInv
<1>7. CASE RecordEnd
  <2>1. PICK ok \in BOOLEAN, good \in BOOLEAN :
          /\ Recorded("invocation_end", good, ok) /\ good = ~failed /\ reply' \in {"ok", "error"}
          /\ reply' = "ok" => ok /\ ~failed
    BY <1>7 DEF RecordEnd, Replies
  <2>2. hat = "ending" /\ hat' = "left" /\ UNCHANGED <<setUp, started, failed>>
    BY <1>7 DEF RecordEnd
  <2>3. /\ logged \subseteq logged' /\ logged' \subseteq Kinds /\ printed' \subseteq Kinds
        /\ setUp /\ ok => <<"invocation_end", attempt, good>> \in logged'
    BY <2>1, RecordedIs
  <2>4. reply' = "ok" => /\ stage = "done" /\ exit = 0 /\ started
                         /\ <<"invocation_end", attempt, TRUE>> \in logged'
    BY <2>1, <2>2, <2>3 DEF HandlerInv, HandlerOK
  <2>5. HandlerOK'
    BY <1>1, <1>3, <2>1, <2>2, <2>3, <2>4 DEF HandlerInv, HandlerOK, Kinds
  <2>6. QED BY <1>2, <2>5 DEF HandlerInv
<1>8. QED BY <1>4, <1>5, <1>6, <1>7
LEMMA HandlerStartsSafe == HandlerInit => HandlerInv
<1> SUFFICES ASSUME HandlerInit PROVE HandlerInv
  OBVIOUS
<1>1. CleanupInv /\ stage = "begin"
  BY InitIsSafe DEF HandlerInit, Init
<1>2. 1 \in 1..MaxAttempts
  BY AttemptsAssumption
<1>3. (hat = "entered" \/ hat = "operator") /\ (hat # "operator" => ~dry)
  BY DEF HandlerInit
<1>4. HandlerOK
  BY <1>1, <1>2, <1>3 DEF HandlerInit, HandlerOK
<1>5. QED BY <1>1, <1>4 DEF HandlerInv

\* No step of the runtime, the handler, the run or the account breaks it.
LEMMA HandlerKeeps == ASSUME HandlerInv, [HandlerNext]_allVars PROVE HandlerInv'
<1>1. CASE Serves
  BY <1>1, ServesKeeps
<1>2. CASE RunTimesOut \/ Elsewhere
  BY <1>2, AccountAloneMoves DEF RunTimesOut, Elsewhere
<1>3. CASE InvokedAgain
  BY <1>3, InvokedAgainKeeps
<1>4. CASE Rejects \/ SetUp \/ RecordStart \/ RunReturns \/ RecordLateStart \/ RecordSummary \/ RecordEnd \/ Killed
  BY <1>4, HandlerMoves
<1>5. CASE UNCHANGED allVars
  BY <1>5, HandlerStutters
<1>6. QED BY <1>1, <1>2, <1>3, <1>4, <1>5 DEF HandlerNext, Handle

\* The invariant holds of every run of either entry point.
THEOREM CleanupIsConsistent == HandlerSpec => []HandlerInv
<1>1. HandlerInit => HandlerInv
  BY HandlerStartsSafe
<1>2. HandlerInv /\ [HandlerNext]_allVars => HandlerInv'
  BY HandlerKeeps
<1>3. QED BY <1>1, <1>2, PTL DEF HandlerSpec

(***************************************************************************)
(* What follows                                                            *)
(***************************************************************************)
LEMMA HandlerInvIsTyped == HandlerInv => TypeOK /\ HandlerTypeOK
<1> SUFFICES ASSUME HandlerInv PROVE TypeOK /\ HandlerTypeOK
  OBVIOUS
<1>1. CleanupInv /\ AccountTyped /\ RunTyped /\ HandlerOK
  BY DEF HandlerInv, CleanupInv
<1>2. ASSUME NEW i \in Instances
      PROVE  /\ stage \notin {"scan", "select"} => DOMAIN w[i].deletion = DOMAIN w[i].rec.vols
             /\ w[i].terminal => w[i].status \in {"already_terminated", "termination_observed"}
  BY <1>1, WorkerIs DEF Honest, Selected
<1>3. TypeOK
  BY <1>1, <1>2 DEF TypeOK, AccountTyped, RunTyped, CleanupInv, ExitOK, Stages, Places
<1>4. HandlerTypeOK
  BY <1>1, <1>3 DEF HandlerTypeOK, HandlerOK
<1>5. QED BY <1>3, <1>4

\* A termination is sent only for an instance of a complete scan that had
\* expired when the run's clock was sampled, never by a dry run, and never if
\* the exact reread found another expiry (worker.go, prepare).
THEOREM TerminationsAreDue == HandlerSpec => []OnlyStillExpiredAreDispatched
<1>1. HandlerInv => OnlyStillExpiredAreDispatched
  <2> SUFFICES ASSUME HandlerInv, NEW i \in Instances, sent[i] > 0
               PROVE  /\ ~dry /\ complete /\ i \in scanned /\ w[i].picked
                      /\ w[i].expires \in 0..sampled /\ i \notin retagged
    BY DEF OnlyStillExpiredAreDispatched
  <2>1. Selected(i, w[i], at[i]) /\ Dispatched(i, w[i], at[i])
    BY WorkerIs DEF HandlerInv
  <2>2. QED BY <2>1 DEF Selected, Dispatched
<1>2. QED BY <1>1, CleanupIsConsistent, PTL

\* At most one termination is sent for an instance, and only once the sink
\* holds its decision and its preparation (worker.go, prepare).
THEOREM TerminationsAreSentOnce == HandlerSpec => []DispatchedOnceAndRecorded
<1>1. HandlerInv => DispatchedOnceAndRecorded
  <2> SUFFICES ASSUME HandlerInv, NEW i \in Instances, sent[i] > 0
               PROVE  sent[i] = 1 /\ <<"decision", i>> \in journal /\ <<"termination_prepared", i>> \in journal
    BY DEF DispatchedOnceAndRecorded
  <2>1. Dispatched(i, w[i], at[i])
    BY WorkerIs DEF HandlerInv
  <2>2. QED BY <2>1 DEF Dispatched
<1>2. QED BY <1>1, CleanupIsConsistent, PTL

\* No outcome claims more of an instance or of its volumes than happened,
\* whoever else terminated, remapped or deleted them (worker.go, observe).
THEOREM OutcomesTellTheTruth == HandlerSpec => []OutcomesAreTrue
<1>1. HandlerInv => OutcomesAreTrue
  <2> SUFFICES ASSUME HandlerInv, NEW i \in scanned
               PROVE  /\ w[i].terminal => state[i] \in {"terminated", "gone"}
                      /\ \A v \in DOMAIN w[i].deletion : w[i].deletion[v] = "deleted" => volume[v] = "deleted"
                      /\ w[i].root = "deleted" => \A v \in RootOf(w[i].rec) : volume[v] = "deleted"
                      /\ w[i].status = "termination_requested" => state[i] \in {"shutting-down", "terminated", "gone"}
    BY DEF OutcomesAreTrue
  <2>1. i \in Instances
    BY DEF HandlerInv, CleanupInv, RunTyped
  <2>2. Honest(i, w[i])
    BY <2>1, WorkerIs DEF HandlerInv
  <2>3. QED BY <2>2 DEF Honest
<1>2. QED BY <1>1, CleanupIsConsistent, PTL

\* Every candidate is explained when the outcomes are told: settled, in
\* error, or passed over for a reason that is none (service.go, Run; its
\* aggregate relies on it).
THEOREM CandidatesAreExplained == HandlerSpec => []CandidatesAreAccountedFor
<1>1. HandlerInv => CandidatesAreAccountedFor
  <2> SUFFICES ASSUME HandlerInv, stage \in Late, ~dry, NEW i \in scanned, w[i].picked
               PROVE  \/ w[i].errs # {}
                      \/ w[i].terminal /\ Settled(i)
                      \/ w[i].status = "skipped" /\ w[i].reason \in Benign \ {"expired"}
    BY DEF CandidatesAreAccountedFor, Late
  <2>1. i \in Instances
    BY DEF HandlerInv, CleanupInv, RunTyped
  <2>2. Excuses(i, w[i], at[i])
    BY <2>1, WorkerIs DEF HandlerInv
  <2>3. QED BY <2>2 DEF Excuses, Accounted, Settled, SettledBy
<1>2. QED BY <1>1, CleanupIsConsistent, PTL

\* The runtime hears of success only if the run completed whole, every
\* candidate was settled or had got another expiry, and the log stream holds
\* the start, the summary and the end of that attempt (handler.go).
THEOREM SuccessMeansSuccess == HandlerSpec => []SuccessIsRecorded
<1>1. HandlerInv => SuccessIsRecorded
  <2> SUFFICES ASSUME HandlerInv PROVE SuccessIsRecorded
    OBVIOUS
  <2>1. HandlerTypeOK
    BY HandlerInvIsTyped
  <2>2. ASSUME reply = "ok"
        PROVE  /\ {<<"invocation_start", attempt, FALSE>>, <<"invocation_end", attempt, TRUE>>} \subseteq logged
               /\ stage = "done" /\ exit = 0 /\ <<"summary", "run">> \in journal
               /\ \A i \in scanned : w[i].picked => (Settled(i) \/ i \in retagged)
    <3>1. /\ stage = "done" /\ exit = 0 /\ started /\ <<"invocation_end", attempt, TRUE>> \in logged
          /\ <<"invocation_start", attempt, FALSE>> \in logged /\ ~dry
      BY <2>2 DEF HandlerInv, HandlerOK
    <3>2. <<"summary", "run">> \in journal /\ \A i \in scanned : w[i].errs = {}
      BY <3>1 DEF HandlerInv, CleanupInv, ExitOK
    <3>3. ASSUME NEW i \in scanned, w[i].picked PROVE Settled(i) \/ i \in retagged
      <4>1. i \in Instances
        BY DEF HandlerInv, CleanupInv, RunTyped
      <4>2. Excuses(i, w[i], at[i])
        BY <4>1, WorkerIs DEF HandlerInv
      <4>3. QED BY <3>1, <3>2, <3>3, <4>2 DEF Excuses, Accounted, Late, Settled, SettledBy
    <3>4. QED BY <3>1, <3>2, <3>3
  <2>3. QED BY <2>1, <2>2 DEF SuccessIsRecorded
<1>2. QED BY <1>1, CleanupIsConsistent, PTL

=============================================================================
