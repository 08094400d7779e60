--------------------------- MODULE ExpiryCleanup ---------------------------
(***************************************************************************)
(* One run of the expiry cleanup service (internal/expirycleanup), beside  *)
(* an EC2 account that moves while the run reads it.                       *)
(*                                                                         *)
(* A run samples its clock, verifies its identity, scans the scope page by *)
(* page and decides on every instance; then parallel workers record the    *)
(* decision, record the preparation, read the instance again and send at   *)
(* most one termination; rounds of observation follow, an outcome event    *)
(* for every instance, and a summary.                                      *)
(*                                                                         *)
(* Expiry tags are instants 0..MaxTime or one of the defects below.  Scope *)
(* checks on account, region, owner and zone are one defect, Ambiguous.    *)
(* Volumes are numbered, as EC2's ids order them.                          *)
(***************************************************************************)
EXTENDS Integers, FiniteSets

CONSTANTS Instances,    \* the instances EC2 holds under the scope's tags
          Volumes,      \* volume numbers, a subset of Nat
          Home,         \* the instance each volume is attached to
          Roots,        \* the volumes that are root volumes
          InitTags,     \* the expiry tags instances may start with
          InitStates,   \* the EC2 states instances may start in
          InitFlags,    \* the delete-on-termination settings they start with
          MaxTime,      \* bound of the clock
          MaxMoves,     \* bound of the changes other actors make
          MaxPages,     \* Limits.MaxPages
          MaxRounds,    \* Limits.ObservationAttempts
          Concurrency,  \* Limits.Concurrency
          Malformed     \* whether EC2 may answer a mapping that is malformed

Missing == -1           \* no expiry tag
Invalid == -2           \* an expiry that does not parse, or two of them
Ambiguous == -3         \* tags or account that do not establish the scope
Flags == {"none", "delete", "keep", "unknown"}  \* "none": not attached

ASSUME Bounds ==
    /\ IsFiniteSet(Instances) /\ IsFiniteSet(Volumes)
    /\ Volumes \subseteq Nat /\ Home \in [Volumes -> Instances] /\ Roots \subseteq Volumes
    /\ InitTags \subseteq (0..MaxTime) \cup {Missing, Invalid, Ambiguous}
    /\ InitStates \subseteq {"pending", "running", "stopping", "stopped", "shutting-down", "terminated"}
    /\ InitFlags \subseteq [Volumes -> Flags]
    /\ \A n \in {MaxTime, MaxMoves} : n \in Nat
    /\ \A n \in {MaxPages, MaxRounds, Concurrency} : n \in Nat \ {0}

VARIABLES
    (* EC2 *)
    now,        \* the wall clock
    state,      \* EC2 state of each instance; "gone" when EC2 forgot it
    tag,        \* its expiry tag
    flag,       \* the delete-on-termination setting of each volume
    volume,     \* "inuse" or "deleted"
    moves,      \* changes made by other actors so far
    inflight,   \* instances whose termination request is under way
    (* the run *)
    dry,        \* Run's dryRun
    ctx,        \* "live" or "ended": deadline or signal
    stage,      \* where Run stands
    sampled,    \* the clock value the decisions use
    scanned,    \* the ids discovered
    complete,   \* ScanComplete
    errors,     \* Result.Errors
    rounds,     \* observation rounds begun
    at,         \* each worker's place in the current parallel phase
    w,          \* each worker's selected decision, captured record, outcome
    exit,       \* Result.ExitCode, -1 before finish
    (* history *)
    journal,    \* the events the sink holds
    sent,       \* termination requests sent for each instance
    retagged    \* candidates whose tag, until the reread, is not the scanned one

ec2 == <<now, state, tag, flag, volume, moves, inflight>>
runVars == <<dry, ctx, stage, sampled, scanned, complete, errors, rounds, at, w, exit>>
history == <<journal, sent, retagged>>
vars == <<ec2, runVars, history>>

Live == {"pending", "running", "stopping", "stopped"}
Attached(i) == {v \in Volumes : Home[v] = i /\ flag[v] # "none"}

(***************************************************************************)
(* Records and decisions                                                   *)
(***************************************************************************)
\* A record read of an instance, with the mappings of volumes vs.
Read(i, b, vs) == [state |-> state[i], tag |-> tag[i], bad |-> b, vols |-> [v \in vs |-> flag[v]]]

\* What one DescribeInstances answer may say of an instance.  EC2 may omit
\* the mappings of a terminated instance.
Reads(i) ==
    {Read(i, b, vs) :
        b \in {c \in BOOLEAN : c => Malformed},
        vs \in {Attached(i)} \cup (IF state[i] = "terminated" THEN {{}} ELSE {})}

\* Evaluate: why an instance is, or is not, to be terminated.
Evaluate(r, t) ==
    CASE r.tag = Ambiguous -> "scope_mismatch"
      [] r.tag = Missing -> "expiry_missing"
      [] r.tag = Invalid -> "expiry_invalid"
      [] r.tag >= 0 /\ t < r.tag -> "expiry_future"
      [] r.tag >= 0 /\ t >= r.tag /\ r.state \in Live -> "expired"
      [] r.tag >= 0 /\ t >= r.tag /\ r.state = "shutting-down" -> "already_terminating"
      [] OTHER -> "already_terminated"

\* Mutant of Recheck: only looks whether the instance is still expired.
RecheckAnyExpiry(x, r, t) == Evaluate(r, t)

\* Recheck: an expiry that changed at all needs a new scan.
Recheck(x, r, t) ==
    IF r.tag >= 0 /\ r.tag # x.expires THEN "expiry_changed" ELSE Evaluate(r, t)

Benign == {"expired", "expiry_future", "expiry_missing", "expiry_changed",
           "already_terminated", "already_terminating"}

HistoricalMappingsAbsent(r, reason) ==
    reason = "already_terminated" /\ ~r.bad /\ DOMAIN r.vols = {}

RootOf(r) == {v \in DOMAIN r.vols : v \in Roots}
RootProblem(r) ==
    IF r.bad \/ Cardinality(RootOf(r)) # 1 \/ \E v \in RootOf(r) : r.vols[v] = "unknown"
    THEN "root_volume_unverified"
    ELSE IF \E v \in RootOf(r) : r.vols[v] = "keep" THEN "root_volume_retained" ELSE ""

\* Terminal EC2 may leave mappings out, but may not contradict them.
ConsistentMappings(captured, current) ==
    /\ ~current.bad
    /\ \/ current.vols = captured.vols /\ ~captured.bad
       \/ current.state = "terminated" /\ DOMAIN current.vols = {}

\* The deletion a volume's mapping starts with.
FirstDeletion(f) ==
    CASE f = "keep" -> "retained" [] f = "unknown" -> "unavailable" [] OTHER -> "not_observed"

RootDiagnostic(code) == IF code = "root_volume_retained" THEN "retained" ELSE "unavailable"

\* A worker for record r of the scan.
NewWorker(r, conflict, t, whole) ==
    LET reason == IF conflict THEN "resource_invalid" ELSE Evaluate(r, t)
        eligible == reason = "expired"
    IN [reason |-> reason, expires |-> r.tag, rec |-> r,
        picked |-> whole /\ eligible,
        status |-> CASE reason \in {"already_terminated", "already_terminating"} -> reason
                     [] whole /\ eligible -> "termination_not_requested"
                     [] OTHER -> "skipped",
        root |-> IF HistoricalMappingsAbsent(r, reason) THEN "unavailable" ELSE "not_observed",
        deletion |-> [v \in DOMAIN r.vols |-> FirstDeletion(r.vols[v])],
        errs |-> IF reason \in Benign THEN {} ELSE {reason},
        active |-> FALSE, terminal |-> FALSE, next |-> 0, conflict |-> conflict]

Blank == [state |-> "gone", tag |-> Missing, bad |-> FALSE, vols |-> [v \in {} |-> "none"]]

Init ==
    /\ now = 0 /\ moves = 0 /\ inflight = {}
    /\ state \in [Instances -> InitStates] /\ tag \in [Instances -> InitTags]
    /\ flag \in InitFlags /\ volume = [v \in Volumes |-> "inuse"]
    /\ dry \in BOOLEAN /\ ctx = "live" /\ stage = "begin" /\ sampled = now
    /\ scanned = {} /\ complete = FALSE /\ errors = {} /\ rounds = 0
    /\ at = [i \in Instances |-> "idle"] /\ exit = -1
    /\ w = [i \in Instances |-> NewWorker(Blank, FALSE, 0, FALSE)]
    /\ journal = {} /\ sent = [i \in Instances |-> 0] /\ retagged = {}

(***************************************************************************)
(* EC2 and the other actors                                                *)
(***************************************************************************)
\* A candidate is held from its scan until its exact reread.
Held == {i \in scanned : stage \in {"scan", "select", "decide"} /\ at[i] \in {"idle", "queued", "decided", "prepared"}}

Tick == /\ now < MaxTime /\ stage # "done" /\ now' = now + 1
        /\ UNCHANGED <<state, tag, flag, volume, moves, inflight, runVars, history>>

\* An operator sets, extends or removes an expiry.
Retag(i) ==
    /\ moves < MaxMoves /\ stage # "done" /\ moves' = moves + 1
    /\ \E x \in (0..MaxTime) \cup {Missing} :
         /\ x # tag[i] /\ tag' = [tag EXCEPT ![i] = x]
         /\ retagged' = IF i \notin Held THEN retagged
                        ELSE IF x = w[i].rec.tag THEN retagged \ {i} ELSE retagged \cup {i}
    /\ UNCHANGED <<now, state, flag, volume, inflight, runVars, journal, sent>>

\* Somebody attaches or detaches a volume, or changes its setting.
Remap(v) ==
    /\ moves < MaxMoves /\ stage # "done" /\ moves' = moves + 1
    /\ state[Home[v]] \in Live /\ volume[v] = "inuse"
    /\ \E f \in Flags \ {flag[v]} : flag' = [flag EXCEPT ![v] = f]
    /\ UNCHANGED <<now, state, tag, volume, inflight, runVars, history>>

\* Somebody else (devbox down, another run) terminates the instance.
TerminatedElsewhere(i) ==
    /\ moves < MaxMoves /\ stage # "done" /\ moves' = moves + 1
    /\ state[i] \in Live /\ state' = [state EXCEPT ![i] = "shutting-down"]
    /\ UNCHANGED <<now, tag, flag, volume, inflight, runVars, history>>

\* Termination completes; attached volumes set to go are deleted later; EC2
\* forgets the instance.
ShutDown(i) ==
    /\ \/ state[i] = "shutting-down" /\ state' = [state EXCEPT ![i] = "terminated"]
       \/ /\ state[i] = "terminated" /\ moves < MaxMoves /\ stage # "done"
          /\ state' = [state EXCEPT ![i] = "gone"]
    /\ moves' = IF state[i] = "terminated" THEN moves + 1 ELSE moves
    /\ UNCHANGED <<now, tag, flag, volume, inflight, runVars, history>>

DeleteVolume(v) ==
    /\ state[Home[v]] \in {"terminated", "gone"} /\ flag[v] = "delete" /\ volume[v] = "inuse"
    /\ volume' = [volume EXCEPT ![v] = "deleted"]
    /\ UNCHANGED <<now, state, tag, flag, moves, inflight, runVars, history>>

\* A termination request arrives, possibly after its sender stopped waiting.
Arrives(i) ==
    /\ i \in inflight /\ inflight' = inflight \ {i}
    /\ state' = IF state[i] \in Live THEN [state EXCEPT ![i] = "shutting-down"] ELSE state
    /\ UNCHANGED <<now, tag, flag, volume, moves, runVars, history>>

Account ==
    \/ Tick
    \/ \E i \in Instances : Retag(i) \/ TerminatedElsewhere(i) \/ ShutDown(i) \/ Arrives(i)
    \/ \E v \in Volumes : Remap(v) \/ DeleteVolume(v)

(***************************************************************************)
(* Recording                                                               *)
(***************************************************************************)
\* The sink is asked to keep an event.  An error leaves open whether it did;
\* an ended context does not reach it.
Emitted(kind, i, ok) ==
    LET kept == journal \cup {<<kind, i>>}
    IN IF ok THEN ctx = "live" /\ journal' = kept
       ELSE journal' \in IF ctx = "live" THEN {journal, kept} ELSE {journal}

\* What a failed acknowledgement leaves in the outcome.
AfterEmit(x, ok) == IF ok THEN x ELSE [x EXCEPT !.errs = @ \cup {"evidence_unavailable"}]

Fault(x, code) == [x EXCEPT !.errs = @ \cup {code}]

(***************************************************************************)
(* Scanning                                                                *)
(***************************************************************************)
\* The clock is sampled, then the identity verified; either may fail.
Begin ==
    /\ stage = "begin" /\ sampled' = now
    /\ \/ ctx = "live" /\ stage' = "scan" /\ UNCHANGED errors
       \/ stage' = "finish" /\ errors' = errors \cup {"identity_unverified"}
    /\ UNCHANGED <<ec2, dry, ctx, scanned, complete, rounds, at, w, exit, history>>

Visible == {i \in Instances : state[i] # "gone"}

\* An id met again with other contents is no longer trusted.
Conflicting(i, r) == i \in scanned /\ (w[i].conflict \/ w[i].rec # r)

\* A page names an instance, or none; the last one comes when all were named.
ReadPage ==
    /\ stage = "scan" /\ ctx = "live" /\ rounds < MaxPages /\ rounds' = rounds + 1
    /\ \/ UNCHANGED <<scanned, w>>
       \/ \E i \in Visible : \E r \in Reads(i) :
            /\ scanned' = scanned \cup {i}
            /\ w' = [w EXCEPT ![i].rec = IF i \in scanned THEN @ ELSE r,
                              ![i].conflict = Conflicting(i, r)]
    /\ \/ UNCHANGED <<stage, complete>>
       \/ Visible \subseteq scanned' /\ stage' = "select" /\ complete' = TRUE
    /\ UNCHANGED <<ec2, dry, ctx, sampled, errors, at, exit, history>>

\* A failed page, a repeated token or the page limit: what was read is kept.
ScanFails ==
    /\ stage = "scan" /\ stage' = "select"
    /\ UNCHANGED <<ec2, dry, ctx, sampled, scanned, complete, errors, rounds, at, w, exit, history>>

\* Every decision is made before any event is recorded.
Select ==
    /\ stage = "select" /\ stage' = "decide" /\ rounds' = 0
    /\ errors' = IF complete THEN errors ELSE errors \cup {"scan_incomplete"}
    /\ w' = [i \in Instances |->
                IF i \in scanned THEN NewWorker(w[i].rec, w[i].conflict, sampled, complete) ELSE w[i]]
    /\ at' = [i \in Instances |-> IF i \in scanned THEN "queued" ELSE "finished"]
    /\ UNCHANGED <<ec2, dry, ctx, sampled, scanned, complete, exit, history>>

(***************************************************************************)
(* Deciding, preparing, dispatching                                        *)
(***************************************************************************)
Busy == {i \in Instances : at[i] \notin {"idle", "queued", "finished"}}

\* A queued job starts when one of the parallel workers is free.
Slot(i) == at[i] = "queued" /\ Cardinality(Busy) < Concurrency
PhaseOver == \A i \in scanned : at[i] = "finished"

\* The feeder hands out no more jobs once it notices the end of the context.
StopFeeding ==
    /\ ctx = "ended" /\ \E i \in Instances : at[i] = "queued"
    /\ at' = [i \in Instances |-> IF at[i] = "queued" THEN "finished" ELSE at[i]]
    /\ UNCHANGED <<ec2, dry, ctx, stage, sampled, scanned, complete, errors, rounds, w, exit, history>>

Actionable == {"expired", "already_terminated", "already_terminating"}

\* A problem with the root volume, noted before anything else is done.
Diagnosed(x) ==
    LET code == RootProblem(x.rec)
    IN IF code = "" \/ HistoricalMappingsAbsent(x.rec, x.reason) THEN x
       ELSE [Fault(x, code) EXCEPT !.root = RootDiagnostic(code)]

\* A dry run's advice.
Advised(x) ==
    LET y == Diagnosed(x)
    IN IF y.picked /\ y.errs = {} THEN [y EXCEPT !.status = "would_terminate"] ELSE y

\* Worker i moves on: its record becomes x and its place p.
Becomes(i, x, p) == w' = [w EXCEPT ![i] = x] /\ at' = [at EXCEPT ![i] = p]

runFrame == <<dry, ctx, stage, sampled, scanned, complete, errors, rounds, exit>>

Decide(i) ==
    /\ stage = "decide" /\ Slot(i)
    /\ IF dry
       THEN /\ Becomes(i, IF complete /\ w[i].reason \in Actionable THEN Advised(w[i]) ELSE w[i], "finished")
            /\ UNCHANGED journal
       ELSE \E ok \in BOOLEAN :
              /\ Emitted("decision", i, ok)
              /\ LET x == AfterEmit(w[i], ok)
                     y == Diagnosed(x)
                 IN CASE ~ok \/ ~complete \/ x.reason \notin Actionable -> Becomes(i, x, "finished")
                      [] OTHER -> Becomes(i, y, IF ~y.picked THEN "prepared"
                                                ELSE IF RootProblem(y.rec) = "" THEN "decided" ELSE "finished")
    /\ UNCHANGED <<ec2, runFrame, sent, retagged>>

\* Only an acknowledged preparation lets a termination go on.
MayProceed(ok) == ok

Prepare(i) ==
    /\ at[i] = "decided"
    /\ \E ok \in BOOLEAN :
         /\ Emitted("termination_prepared", i, ok)
         /\ Becomes(i, AfterEmit(w[i], ok), IF MayProceed(ok) THEN "prepared" ELSE "finished")
    /\ UNCHANGED <<ec2, runFrame, sent, retagged>>

\* What the exact reread makes of the worker, and where it goes next.
Rechecked(x, r) ==
    LET d == Recheck(x, r, now)
        y == IF d = "already_terminated" THEN [x EXCEPT !.status = d, !.terminal = TRUE] ELSE x
    IN CASE d \notin Actionable ->
              [rec |-> [x EXCEPT !.status = "skipped", !.reason = d,
                                 !.errs = IF d \in Benign THEN @ ELSE @ \cup {d}], at |-> "finished"]
         [] d \in Actionable /\ ~ConsistentMappings(x.rec, r) ->
              [rec |-> [Fault(y, "root_volume_unverified") EXCEPT !.root = "unavailable"], at |-> "finished"]
         [] d = "already_terminated" /\ ConsistentMappings(x.rec, r) ->
              [rec |-> IF ~HistoricalMappingsAbsent(x.rec, x.reason) THEN [y EXCEPT !.active = TRUE]
                       ELSE IF HistoricalMappingsAbsent(r, d) THEN y ELSE Fault(y, "root_volume_unverified"),
               at |-> "finished"]
         [] d = "already_terminating" /\ ConsistentMappings(x.rec, r) ->
              [rec |-> [x EXCEPT !.status = d, !.active = TRUE], at |-> "finished"]
         [] OTHER -> IF x.picked THEN [rec |-> x, at |-> "rechecked"]
                     ELSE [rec |-> Fault(x, "resource_unverified"), at |-> "finished"]

Reread(i) ==
    /\ at[i] = "prepared"
    /\ \/ Becomes(i, Fault(w[i], "resource_unverified"), "finished")
       \/ /\ ctx = "live" /\ i \in Visible
          /\ \E r \in Reads(i) : LET y == Rechecked(w[i], r) IN Becomes(i, y.rec, y.at)
    /\ UNCHANGED <<ec2, runFrame, history>>

Dispatch(i) ==
    /\ at[i] = "rechecked"
    /\ IF ctx = "ended"
       THEN Becomes(i, Fault(w[i], "interrupted"), "finished") /\ UNCHANGED <<inflight, sent>>
       ELSE /\ inflight' = inflight \cup {i} /\ sent' = [sent EXCEPT ![i] = @ + 1]
            /\ at' = [at EXCEPT ![i] = "sent"] /\ UNCHANGED w
    /\ UNCHANGED <<now, state, tag, flag, volume, moves, runFrame, journal, retagged>>

\* Mutant of Retries: an answer that says nothing is sent again.
RetriesUnknown == {"rechecked"}

\* Where a worker goes whose answer said nothing: to be observed, never back.
Retries == {"finished"}

\* The answer: acknowledged, refused, or unknown (the request may yet arrive).
Answer(i) ==
    /\ at[i] = "sent"
    /\ \/ /\ i \notin inflight /\ ctx = "live" /\ state[i] \in {"shutting-down", "terminated"}
          /\ Becomes(i, [w[i] EXCEPT !.status = "termination_requested", !.active = TRUE], "finished")
          /\ UNCHANGED inflight
       \/ /\ i \in inflight /\ inflight' = inflight \ {i}
          /\ Becomes(i, [Fault(w[i], "termination_denied") EXCEPT !.status = "termination_denied"], "finished")
       \/ /\ inflight' \in {inflight, inflight \ {i}}
          /\ \E p \in Retries :
               Becomes(i, [w[i] EXCEPT !.status = "termination_unknown", !.active = TRUE], p)
    /\ UNCHANGED <<now, state, tag, flag, volume, moves, runFrame, history>>

(***************************************************************************)
(* Observing                                                               *)
(***************************************************************************)
Active == {i \in scanned : w[i].active}

EndPhase(s) == stage' = s /\ UNCHANGED <<ec2, dry, ctx, sampled, scanned, complete, w, exit, history>>

DecideEnds ==
    /\ stage = "decide" /\ PhaseOver
    /\ EndPhase(IF dry THEN "tally" ELSE "observe") /\ UNCHANGED <<errors, rounds, at>>

RoundsLeft == rounds < MaxRounds

RoundBegins ==
    /\ stage = "observe"
    /\ IF RoundsLeft /\ ctx = "live" /\ Active # {}
       THEN /\ EndPhase("round") /\ rounds' = rounds + 1
            /\ at' = [i \in Instances |-> IF i \in Active THEN "queued" ELSE "finished"]
       ELSE EndPhase("tally") /\ UNCHANGED <<rounds, at>>
    /\ UNCHANGED errors

\* Between rounds the run waits, unless its context ends first.
RoundEnds ==
    /\ stage = "round" /\ PhaseOver
    /\ IF Active # {} /\ RoundsLeft
       THEN \/ ctx = "live" /\ EndPhase("observe") /\ UNCHANGED errors
            \/ ctx = "ended" /\ EndPhase("tally") /\ errors' = errors \cup {"interrupted"}
       ELSE EndPhase("tally") /\ UNCHANGED errors
    /\ UNCHANGED <<rounds, at>>

\* Volumes nothing confirmed, once nothing more is awaited.
Unresolved(x) ==
    LET open == {v \in DOMAIN x.deletion : x.deletion[v] \notin {"deleted", "retained"}}
    IN IF open = {} THEN x
       ELSE [Fault(x, "volume_unresolved") EXCEPT
                !.deletion = [v \in DOMAIN @ |-> IF v \in open THEN "unavailable" ELSE @[v]],
                !.root = IF open \cap Roots # {} THEN "unavailable" ELSE @]

\* The exact read of a turn.  A missing instance is not a terminated one, and
\* neither is one whose expiry has changed.
ObserveInstance(i) ==
    /\ stage = "round" /\ Slot(i) /\ ~w[i].terminal
    /\ \/ at' = [at EXCEPT ![i] = "finished"] /\ UNCHANGED w
       \/ /\ ctx = "live" /\ i \in Visible
          /\ \E r \in Reads(i) :
               LET y == [w[i] EXCEPT !.status = "termination_observed", !.terminal = TRUE]
               IN CASE Evaluate(r, now) # "already_terminated" \/ r.tag # w[i].expires ->
                         at' = [at EXCEPT ![i] = "finished"] /\ UNCHANGED w
                    [] OTHER ->
                         IF ConsistentMappings(w[i].rec, r) THEN Becomes(i, y, "volumes")
                         ELSE Becomes(i, [Fault(y, "root_volume_unverified") EXCEPT
                                            !.root = "unavailable", !.active = FALSE], "finished")
    /\ UNCHANGED <<ec2, runFrame, history>>

Awaited(x) == {v \in DOMAIN x.rec.vols :
                 x.rec.vols[v] = "delete" /\ ~x.rec.bad /\ x.deletion[v] # "deleted"}

\* The turn's one volume: the first awaited one from where the last turn ended.
NextVolume(x) ==
    CHOOSE v \in Awaited(x) : \A u \in Awaited(x) :
        IF v >= x.next THEN (u < x.next \/ v <= u) ELSE (u < x.next /\ v <= u)

\* Mutant of Gone: a volume on its way out counts as deleted.
GoneSoon(v) == state[Home[v]] = "terminated"

\* DescribeVolumes proves a volume deleted: not found, or in state deleted.
Gone(v) == volume[v] = "deleted"

\* What became of the one root volume.
RootDeletion(x) == x.deletion[CHOOSE v \in RootOf(x.rec) : TRUE]

\* The end of a turn: the root's deletion is taken over, and a worker that
\* awaits nothing more is done.
Settle(y) ==
    LET z == IF RootProblem(y.rec) # "" THEN y
             ELSE [y EXCEPT !.root = RootDeletion(y)]
    IN IF Awaited(z) # {} THEN z ELSE Unresolved([z EXCEPT !.active = FALSE])

ObserveVolume(i) ==
    /\ stage = "round" /\ (at[i] = "volumes" \/ (Slot(i) /\ w[i].terminal))
    /\ LET code == RootProblem(w[i].rec)
           x == IF code = "" THEN w[i] ELSE [Fault(w[i], code) EXCEPT !.root = RootDiagnostic(code)]
       IN IF Awaited(x) = {} THEN Becomes(i, Settle(x), "finished")
          ELSE LET v == NextVolume(x)
               IN \E seen \in IF ctx = "live" /\ Gone(v) THEN BOOLEAN ELSE {FALSE} :
                    Becomes(i, Settle([x EXCEPT !.next = v + 1,
                                                !.deletion[v] = IF seen THEN "deleted" ELSE @]), "finished")
    /\ UNCHANGED <<ec2, runFrame, history>>

(***************************************************************************)
(* Outcomes and summary                                                    *)
(***************************************************************************)
\* Mutant of Explained: only observation leaves something to explain.
ExplainsObserved(x) ==
    IF x.active THEN IF x.terminal THEN Unresolved(x) ELSE Fault(x, "termination_unresolved") ELSE x

\* What is left open is named in the outcome.
Explained(x) ==
    LET y == IF ~x.active THEN x
             ELSE IF x.terminal THEN Unresolved(x) ELSE Fault(x, "termination_unresolved")
    IN IF ctx = "ended" /\ y.status = "termination_not_requested" THEN Fault(y, "interrupted") ELSE y

Tally ==
    /\ stage = "tally" /\ stage' = IF dry THEN "finish" ELSE "outcomes"
    /\ w' = [i \in Instances |-> IF i \in scanned THEN Explained(w[i]) ELSE w[i]]
    /\ at' = [i \in Instances |-> IF i \in scanned THEN "queued" ELSE "finished"]
    /\ UNCHANGED <<ec2, dry, ctx, sampled, scanned, complete, errors, rounds, exit, history>>

Outcome(i) ==
    /\ stage = "outcomes" /\ Slot(i)
    /\ \E ok \in BOOLEAN : Emitted("outcome", i, ok) /\ Becomes(i, AfterEmit(w[i], ok), "finished")
    /\ UNCHANGED <<ec2, runFrame, sent, retagged>>

OutcomesEnd == stage = "outcomes" /\ PhaseOver /\ EndPhase("finish") /\ UNCHANGED <<errors, rounds, at>>

Useful == IF dry THEN {i \in scanned : w[i].status = "would_terminate"}
          ELSE {i \in scanned : w[i].terminal /\ w[i].root = "deleted"}

\* aggregate: the exit code of a run with run-level problems errs.
Aggregate(errs) ==
    IF ctx = "ended" \/ "interrupted" \in errs THEN 4
    ELSE IF complete /\ errs = {} /\ \A i \in scanned : w[i].errs = {} THEN 0
    ELSE IF Useful # {} THEN 3 ELSE 1

Finish ==
    /\ stage = "finish" /\ exit' = Aggregate(errors)
    /\ stage' = IF dry THEN "done" ELSE "summary"
    /\ UNCHANGED <<ec2, dry, ctx, sampled, scanned, complete, errors, rounds, at, w, history>>

\* A summary that is not acknowledged changes the result it summarised.
Summary ==
    /\ stage = "summary" /\ stage' = "done"
    /\ \E ok \in BOOLEAN :
         /\ Emitted("summary", "run", ok)
         /\ errors' = IF ok THEN errors ELSE errors \cup {"evidence_unavailable"}
         /\ exit' = IF ok THEN exit ELSE Aggregate(errors')
    /\ UNCHANGED <<ec2, dry, ctx, sampled, scanned, complete, rounds, at, w, sent, retagged>>

\* The invocation deadline, a signal, or the caller's deadline.
ContextEnds ==
    /\ ctx = "live" /\ stage # "done" /\ ctx' = "ended"
    /\ UNCHANGED <<ec2, dry, stage, sampled, scanned, complete, errors, rounds, at, w, exit, history>>

Worker(i) ==
    \/ Decide(i) \/ Prepare(i) \/ Reread(i) \/ Dispatch(i) \/ Answer(i)
    \/ ObserveInstance(i) \/ ObserveVolume(i) \/ Outcome(i)

Run ==
    \/ Begin \/ ReadPage \/ ScanFails \/ Select \/ StopFeeding
    \/ DecideEnds \/ RoundBegins \/ RoundEnds \/ Tally \/ OutcomesEnd \/ Finish \/ Summary
    \/ \E i \in Instances : Worker(i)

Next == Account \/ Run \/ ContextEnds

Spec == Init /\ [][Next]_vars

(***************************************************************************)
(* Properties                                                              *)
(***************************************************************************)
TypeOK ==
    /\ now \in 0..MaxTime /\ sampled \in 0..now /\ moves \in 0..MaxMoves
    /\ inflight \subseteq Instances /\ scanned \subseteq Instances
    /\ rounds \in 0..(IF MaxPages > MaxRounds THEN MaxPages ELSE MaxRounds)
    /\ stage \in {"begin", "scan", "select", "decide", "observe", "round", "tally",
                  "outcomes", "finish", "summary", "done"}
    /\ at \in [Instances -> {"idle", "queued", "decided", "prepared", "rechecked", "sent",
                             "volumes", "finished"}]
    /\ Cardinality(Busy) <= Concurrency
    /\ exit \in {-1, 0, 1, 3, 4} /\ (stage = "done" => exit # -1)
    /\ \A i \in Instances :
         /\ stage \notin {"scan", "select"} => DOMAIN w[i].deletion = DOMAIN w[i].rec.vols
         /\ w[i].terminal => w[i].status \in {"already_terminated", "termination_observed"}

\* A termination is sent only for an instance of a complete scan that had
\* expired when the run's clock was sampled, by a run that is not a dry one,
\* and never if the exact reread found another expiry than the scan.
OnlyStillExpiredAreDispatched ==
    \A i \in Instances : sent[i] > 0 =>
        /\ ~dry /\ complete /\ i \in scanned /\ w[i].picked
        /\ w[i].expires \in 0..sampled /\ i \notin retagged

\* At most one termination is sent for an instance, however its answer was
\* lost, and not before the sink acknowledged its decision and preparation.
DispatchedOnceAndRecorded ==
    \A i \in Instances : sent[i] > 0 =>
        sent[i] = 1 /\ <<"decision", i>> \in journal /\ <<"termination_prepared", i>> \in journal

\* No outcome claims more than happened, whoever else changes the account: an
\* instance reported terminated is, a volume reported deleted is, and so is a
\* root, and a termination reported as requested has taken hold of its instance.
OutcomesAreTrue ==
    \A i \in scanned :
        /\ w[i].terminal => state[i] \in {"terminated", "gone"}
        /\ \A v \in DOMAIN w[i].deletion : w[i].deletion[v] = "deleted" => volume[v] = "deleted"
        /\ w[i].root = "deleted" => \A v \in RootOf(w[i].rec) : volume[v] = "deleted"
        /\ w[i].status = "termination_requested" => state[i] \in {"shutting-down", "terminated", "gone"}

Settled(i) ==
    /\ state[i] \in {"terminated", "gone"}
    /\ \A v \in DOMAIN w[i].rec.vols : w[i].rec.vols[v] = "delete" => volume[v] = "deleted"

\* Whatever happened to a candidate, its outcome says so: if its termination
\* was not sent, or not confirmed, the outcome has a problem or a reason that
\* does not need one; a signal in the middle leaves none unexplained.
CandidatesAreAccountedFor ==
    stage \in {"outcomes", "finish", "summary", "done"} /\ ~dry =>
        \A i \in scanned : w[i].picked =>
            \/ w[i].errs # {}
            \/ w[i].terminal /\ Settled(i)
            \/ w[i].status = "skipped" /\ w[i].reason \in Benign \ {"expired"}

=============================================================================
