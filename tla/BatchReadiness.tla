--------------------------- MODULE BatchReadiness ---------------------------
(***************************************************************************)
(* devbox up after the allocation (internal/lifecycle batch_readiness.go,   *)
(* batch_startup.go, readiness.go): the workers wait in a queue, a few      *)
(* goroutines verify, resolve and probe them within one time budget, their  *)
(* progress goes through a small channel to a writer that may block, and    *)
(* at last the request is reconciled once more and its result decided.      *)
(*                                                                         *)
(* Every AWS call may fail.  An instance boots, ends or loses its launch    *)
(* tags at any point, also between a check and the probe that follows it.   *)
(***************************************************************************)
EXTENDS Naturals, FiniteSets

CONSTANTS N,       \* the workers of the request, in the order of their ids
          Goroutines,
          Buffer,  \* capacity of the progress channel
          Printed, \* progress has a destination
          Begins,  \* what its instances may be at first
          Short,   \* capacity the original request may lack
          Strangers\* bound of the workers that end or lose their tags

ASSUME ReadinessAssumption ==
    /\ N \in Nat \ {0} /\ Buffer \in Nat \ {0} /\ Printed \in BOOLEAN /\ Short \in Nat /\ Strangers \in Nat
    /\ Goroutines # {} /\ Begins \subseteq {"starting", "running", "gone", "foreign"}

Batch == 1..N

VARIABLES
    (* AWS *)
    vm,      \* "starting", "running", "gone" or "foreign": no longer this launch
    boot,    \* "offline" for SSM, or its marker: "pending", "complete", "failed"
    probe,   \* "none", "sent", or what a probe read
    (* the outcome of the request *)
    out,     \* known worker -> what is reported of it
    evidence,\* workers bound to an authorized attempt
    bounded, \* the missing capacity is known
    short,   \* what it is, once it is counted
    opErr,   \* error of the operation so far: "none", "retryable" or "other"
    exit,    \* exit status, 9 while undecided
    (* the wait *)
    step, queue, doing, at, errs,
    spent,   \* the time budget is used up
    again,   \* some worker is verified now, so the request is reconciled again
    lines,   \* progress lines in the channel
    writer,  \* "idle", "writing", "done" or "failed"
    (* history *)
    strange, \* workers that were no running part of this launch, apart from
             \* those that changed between the last check and the probe
    troubled \* workers in trouble of their own

aws == <<vm, boot, probe>>
request == <<out, bounded, opErr>>
slots == <<queue, doing, at, errs>>
fixed == <<evidence, short>>
history == <<strange, troubled>>
readyVars == <<aws, request, fixed, exit, step, slots, spent, again, lines, writer, history>>

WorkerOutcome == [status : {"allocated", "historical", "not_observed", "identity_mismatch"},
                  state : {"unknown", "starting", "running", "gone"},
                  readiness : {"not_observed", "unknown", "pending", "ready", "failed", "not_ready"}]

FreshOutcome(status, state) == [status |-> status, state |-> state, readiness |-> "not_observed"]

(***************************************************************************)
(* What an inspection finds                                                *)
(***************************************************************************)
\* Settings and root volume against the immutable launch: a root or an address
\* may still be missing, and an ended instance may have lost what it showed.
Findings(v) == IF v = "foreign" THEN {"identity_mismatch"} ELSE {"allocated", "not_observed"}

Verified(v) == {FreshOutcome(finding, IF v = "foreign" THEN "running" ELSE v) : finding \in Findings(v)}

NotRead == FreshOutcome("not_observed", "unknown")

\* A reconciliation also recognises what the original response named and ended since.
Reconciled(v) == Verified(v) \union {NotRead} \union (IF v = "gone" THEN {FreshOutcome("historical", "gone")} ELSE {})

Doubtful(o) == o.status \in {"not_observed", "identity_mismatch"}

\* The outcome the allocation leaves: doubt about a worker is an error, and the
\* missing capacity then unknown.
ReadyInit ==
    /\ vm \in [Batch -> Begins]
    /\ Cardinality({w \in Batch : vm[w] \in {"gone", "foreign"}}) <= Strangers
    /\ boot = [w \in Batch |-> "offline"] /\ probe = [w \in Batch |-> "none"]
    /\ out \in {o \in [Batch -> UNION {Reconciled(vm[w]) : w \in Batch}] : \A w \in Batch : o[w] \in Reconciled(vm[w])}
    /\ evidence \in (IF \E w \in Batch : out[w].status = "not_observed" THEN {Batch, {}} ELSE {Batch})
    /\ short = 0
    /\ opErr \in (IF \E w \in Batch : Doubtful(out[w]) THEN {"retryable", "other"} ELSE {"none", "other"})
    /\ bounded \in (IF opErr = "none" THEN BOOLEAN ELSE {FALSE})
    /\ exit = 9 /\ step = "sort" /\ queue = {} /\ errs = {} /\ spent = FALSE /\ again = FALSE
    /\ doing = [g \in Goroutines |-> "idle"] /\ at = [g \in Goroutines |-> 1]
    /\ lines = 0 /\ writer = (IF Printed THEN "idle" ELSE "done")
    /\ strange = {w \in Batch : vm[w] \in {"gone", "foreign"}} /\ troubled = strange

(***************************************************************************)
(* Which workers wait                                                      *)
(***************************************************************************)
CannotRun(w) == out[w].status = "historical" \/ out[w].state = "gone"
Eligible(w) == out[w].status = "not_observed" /\ w \in evidence
Ready(w) == out[w].status = "allocated" /\ ~CannotRun(w)
Admitted(w) ==
    \/ out[w].status \in {"allocated", "historical"}
    \/ out[w].status = "not_observed" /\ \E v \in Batch : Eligible(v)
PendingStartup(w) == out[w].status = "not_observed" /\ Admitted(w) /\ ~CannotRun(w)

Waiting == {w \in Batch : Ready(w) \/ PendingStartup(w)}

\* The workers verified already come first, each kind in its own order.
Precedes(w, v) == IF Ready(w) = Ready(v) THEN w < v ELSE Ready(w)

\* What a worker that does not wait is given.
Rejected(w) == [out[w] EXCEPT !.readiness = IF CannotRun(w) /\ Admitted(w) THEN "not_ready" ELSE "unknown"]

\* An unavailable service or an invalid document fails every worker that waits.
Sort ==
    /\ step = "sort" /\ again' = (\E w \in Batch : Eligible(w))
    /\ \E verified \in BOOLEAN :
         LET waits == IF verified /\ ~spent THEN Waiting ELSE {}
             others == Batch \ waits
         IN  /\ out' = [w \in Batch |-> IF w \in others THEN Rejected(w) ELSE out[w]]
             /\ queue' = waits /\ errs' = others /\ troubled' = troubled \union others
             /\ doing' = [g \in Goroutines |-> IF waits = {} THEN "idle" ELSE "take"]
             /\ step' = IF waits = {} THEN "join" ELSE "run"
    /\ UNCHANGED <<aws, bounded, opErr, fixed, exit, at, spent, lines, writer, strange>>

(***************************************************************************)
(* One goroutine                                                           *)
(***************************************************************************)
theRest == <<vm, boot, bounded, opErr, fixed, exit, step, spent, again, writer, strange>>

\* Mutant of Prints: a line waits for room in the channel.
WaitsForRoom == lines < Buffer /\ lines' = lines + 1

\* Progress is advisory: a line is dropped when the channel is full, and left
\* out when it is the last one again or nobody prints.
Prints == lines' \in {lines} \union {n \in {lines + 1} : n <= Buffer /\ writer \in {"idle", "writing"}}

Moves(g, to) == doing' = [doing EXCEPT ![g] = to] /\ UNCHANGED <<queue, at, errs>>

\* Mutant of Afterwards: the goroutine of a worker that failed returns.
GivesUp(readiness) == IF readiness = "ready" THEN "take" ELSE "idle"

\* A worker's own end never ends the goroutine's work.
Afterwards(readiness) == "take"

Gives(g, outcome) ==
    /\ out' = [out EXCEPT ![at[g]] = outcome]
    /\ errs' = IF outcome.readiness = "ready" THEN errs ELSE errs \union {at[g]}
    /\ doing' = [doing EXCEPT ![g] = Afterwards(outcome.readiness)] /\ UNCHANGED <<queue, at>>

Noted(g, readiness) == [out[at[g]] EXCEPT !.readiness = readiness]

\* observationError: of the worker, or because the budget is used up, after
\* which no call is answered.
Fails(g) == ~spent /\ Gives(g, Noted(g, "unknown")) /\ troubled' = troubled \union {at[g]}
OutOfTime(g) == spent /\ Gives(g, Noted(g, "unknown")) /\ UNCHANGED troubled
NotRunning(g) ==
    /\ ~spent /\ Gives(g, [Noted(g, "not_ready") EXCEPT !.state = "gone"])
    /\ troubled' = troubled \union {at[g]}

Take(g) ==
    /\ doing[g] = "take" /\ UNCHANGED <<theRest, probe, out, errs, troubled>>
    /\ \/ queue = {} /\ doing' = [doing EXCEPT ![g] = "idle"] /\ UNCHANGED <<queue, at, lines>>
       \/ \E w \in queue :
            /\ \A v \in queue \ {w} : Precedes(w, v)
            /\ queue' = queue \ {w} /\ at' = [at EXCEPT ![g] = w]
            /\ \/ out[w].status = "not_observed" /\ doing' = [doing EXCEPT ![g] = "verify"] /\ Prints
               \/ out[w].status # "not_observed" /\ doing' = [doing EXCEPT ![g] = "resolve"] /\ UNCHANGED lines

\* batchStartup.wait: a pending worker is inspected until it is verified.  One
\* that has ended, or is another's, gives up, and so does any whose inspection
\* names instances that were not asked for; what was seen of it is kept.
Verify(g) ==
    /\ doing[g] = "verify" /\ UNCHANGED <<theRest, probe, lines>>
    /\ \/ OutOfTime(g)
       \/ ~Eligible(at[g]) /\ Fails(g)
       \/ /\ ~spent /\ Eligible(at[g])
          /\ \E o \in Verified(vm[at[g]]) \union {[NotRead EXCEPT !.state = out[at[g]].state]} :
               \/ /\ Gives(g, [o EXCEPT !.readiness = "unknown"])
                  /\ troubled' = troubled \union {at[g]}
               \/ /\ o.status = "allocated" /\ UNCHANGED troubled
                  /\ out' = [out EXCEPT ![at[g]] = o] /\ Moves(g, "resolve")
               \/ /\ o.status = "not_observed" /\ o.state # "gone" /\ UNCHANGED troubled
                  /\ out' = [out EXCEPT ![at[g]] = o] /\ Moves(g, "verify")

\* Mutant of SameLaunch: the tags of a worker are not compared again.
AnyLaunch(v) == TRUE

\* batchReadyIdentity, and the scope the inventory itself insists on.
SameLaunch(v) == v # "foreign"

Resolve(g) ==
    /\ doing[g] = "resolve" /\ UNCHANGED <<theRest, probe, lines>>
    /\ \/ OutOfTime(g)
       \/ Fails(g)
       \/ SameLaunch(vm[at[g]]) /\ vm[at[g]] = "gone" /\ NotRunning(g)
       \/ /\ ~spent /\ SameLaunch(vm[at[g]]) /\ vm[at[g]] # "gone"
          /\ out' = [out EXCEPT ![at[g]].state = IF vm[at[g]] = "starting" THEN "starting" ELSE "running"]
          /\ Moves(g, "ping") /\ UNCHANGED troubled

\* observeWithGuard: a running worker that SSM reaches is probed.
Ping(g) ==
    /\ doing[g] = "ping" /\ UNCHANGED <<theRest, probe>>
    /\ LET reached == ~spent /\ boot[at[g]] # "offline" /\ out[at[g]].state = "running"
       IN  \/ Prints /\ (OutOfTime(g) \/ Fails(g))
           \/ reached /\ out' = [out EXCEPT ![at[g]].readiness = "pending"] /\ Moves(g, "recheck") /\ UNCHANGED <<lines, troubled>>
           \/ ~spent /\ ~reached /\ out' = [out EXCEPT ![at[g]].readiness = "pending"] /\ Moves(g, "pause") /\ Prints /\ UNCHANGED troubled

\* The lookup immediately before a probe.
Recheck(g) ==
    /\ doing[g] = "recheck" /\ UNCHANGED <<theRest, probe>>
    /\ \/ Prints /\ (OutOfTime(g) \/ Fails(g))
       \/ Prints /\ SameLaunch(vm[at[g]]) /\ vm[at[g]] = "gone" /\ NotRunning(g)
       \/ /\ ~spent /\ SameLaunch(vm[at[g]]) /\ vm[at[g]] # "gone"
          /\ Moves(g, "send") /\ UNCHANGED <<out, lines, troubled>>

\* SendCommand may send although it answers with an error.
Send(g) ==
    /\ doing[g] = "send" /\ UNCHANGED theRest
    /\ \/ probe' \in {probe, [probe EXCEPT ![at[g]] = "sent"]} /\ Prints /\ (OutOfTime(g) \/ Fails(g))
       \/ ~spent /\ probe' = [probe EXCEPT ![at[g]] = "sent"] /\ Moves(g, "poll") /\ UNCHANGED <<out, lines, troubled>>

Poll(g) ==
    /\ doing[g] = "poll" /\ UNCHANGED <<theRest, probe>> /\ Prints
    /\ \/ OutOfTime(g)
       \/ Fails(g)
       \/ ~spent /\ probe[at[g]] = "complete" /\ Gives(g, Noted(g, "ready")) /\ UNCHANGED troubled
       \/ ~spent /\ probe[at[g]] = "failed" /\ Gives(g, Noted(g, "failed")) /\ troubled' = troubled \union {at[g]}
       \/ ~spent /\ probe[at[g]] = "pending" /\ Moves(g, "pause") /\ UNCHANGED <<out, troubled>>

Pause(g) ==
    /\ doing[g] = "pause" /\ UNCHANGED <<theRest, probe, lines>>
    /\ \/ OutOfTime(g)
       \/ Moves(g, "resolve") /\ UNCHANGED <<out, troubled>>

Goroutine(g) == Take(g) \/ Verify(g) \/ Resolve(g) \/ Ping(g) \/ Recheck(g) \/ Send(g) \/ Poll(g) \/ Pause(g)

(***************************************************************************)
(* The progress writer                                                     *)
(***************************************************************************)
notWriter == <<aws, request, fixed, exit, step, slots, spent, again, history>>

\* It is there while workers wait, and its end is awaited; lines it leaves in
\* the channel nobody reads.
Printing == step \in {"run", "finish"}

Takes ==
    /\ Printing /\ writer = "idle" /\ lines > 0 /\ UNCHANGED notWriter
    /\ IF spent THEN writer' = "done" /\ lines' = 0 ELSE writer' = "writing" /\ lines' = lines - 1

\* The destination may also never take it.
Writes ==
    /\ Printing /\ writer = "writing" /\ UNCHANGED notWriter
    /\ \/ writer' = "idle" /\ UNCHANGED lines
       \/ writer' = "failed" /\ lines' = 0

ProgressStops ==
    /\ Printing /\ writer = "idle" /\ (spent \/ (step = "finish" /\ lines = 0))
    /\ writer' = "done" /\ lines' = 0 /\ UNCHANGED notWriter

(***************************************************************************)
(* The result                                                              *)
(***************************************************************************)
ends == <<aws, evidence, slots, spent, again, lines, writer, history>>

Joined ==
    /\ step = "run" /\ \A g \in Goroutines : doing[g] = "idle"
    /\ step' = "finish" /\ UNCHANGED <<ends, request, short, exit>>

\* A blocked writer holds the batch no longer than the budget.
FinishProgress ==
    /\ step = "finish" /\ (spent \/ writer \in {"done", "failed"})
    /\ step' = "join" /\ UNCHANGED <<ends, request, short, exit>>

Join ==
    /\ step = "join" /\ step' = IF again /\ ~spent THEN "refresh" ELSE "result"
    /\ UNCHANGED <<ends, request, short, exit>>

\* Mutant of Carries: readiness observed once is kept.
AlwaysCarries(old, new) == TRUE

\* Readiness is carried only onto a worker that is verified now and lives.
Carries(old, new) == old.status = "allocated" /\ new.status = "allocated" /\ new.state # "gone"

\* refreshBatchStartup: no worker is forgotten.
MergedOutcomes(current) == [w \in Batch |->
    IF w \notin DOMAIN current THEN [out[w] EXCEPT !.status = "not_observed", !.readiness = "unknown"]
    ELSE IF Carries(out[w], current[w]) THEN [current[w] EXCEPT !.readiness = out[w].readiness]
    ELSE current[w]]

Kept == IF opErr = "retryable" THEN "none" ELSE opErr

\* An error that stays, or a worker unknown to the reconciliation, leaves the
\* missing capacity unknown.
Bounds(current, says) == says /\ opErr # "other" /\ DOMAIN current = Batch

\* The request is reconciled again: fully, from records that cannot be read
\* completely, or not at all.
Refresh ==
    /\ step = "refresh" /\ step' = "result" /\ UNCHANGED <<ends, short, exit>>
    /\ \/ opErr' = "other" /\ UNCHANGED <<out, bounded>>
       \/ \E known \in SUBSET Batch :
            LET current == [w \in known |-> NotRead]
            IN  out' = MergedOutcomes(current) /\ bounded' = Bounds(current, FALSE) /\ opErr' = "other"
       \/ \E current \in [Batch -> UNION {Reconciled(vm[w]) : w \in Batch}], complete \in BOOLEAN, saved \in BOOLEAN :
            /\ \A w \in Batch : current[w] \in Reconciled(vm[w])
            /\ LET doubt == ~saved \/ \E w \in Batch : Doubtful(current[w])
               IN  /\ out' = MergedOutcomes(current) /\ bounded' = Bounds(current, complete /\ ~doubt)
                   /\ opErr' = IF doubt THEN "other" ELSE Kept

\* completeBatchResult; capacity is missing only beside N > 0 workers here.
Verdict(missing, ready, failed) ==
    IF ~bounded THEN 1 ELSE IF missing > 0 THEN 3
    ELSE IF ready = N THEN IF failed THEN 1 ELSE 0
    ELSE IF ready > 0 THEN 3 ELSE 1

ReadyOnes == {w \in DOMAIN out : out[w].readiness = "ready"}

Result ==
    /\ step = "result" /\ step' = "done" /\ short' \in 0..Short
    /\ exit' = IF spent THEN 4
               ELSE Verdict(short', Cardinality(ReadyOnes), opErr # "none" \/ errs # {} \/ writer = "failed")
    /\ UNCHANGED <<ends, request>>

(***************************************************************************)
(* Time and AWS                                                            *)
(***************************************************************************)
besides == <<request, fixed, exit, step, slots, again, lines, writer>>

Expire == ~spent /\ exit = 9 /\ spent' = TRUE /\ UNCHANGED <<aws, besides, history>>

\* After the last look at AWS nothing of it matters.
Looks == step \notin {"result", "done"}

Boots(w) ==
    /\ Looks /\ UNCHANGED <<probe, besides, spent, strange>>
    /\ \/ vm[w] = "starting" /\ vm' = [vm EXCEPT ![w] = "running"] /\ UNCHANGED <<boot, troubled>>
       \/ vm[w] = "running" /\ boot[w] = "offline" /\ boot' = [boot EXCEPT ![w] = "pending"] /\ UNCHANGED <<vm, troubled>>
       \/ vm[w] = "running" /\ boot[w] = "pending" /\ boot' = [boot EXCEPT ![w] = "complete"] /\ UNCHANGED <<vm, troubled>>
       \/ /\ vm[w] = "running" /\ boot[w] = "pending" /\ boot' = [boot EXCEPT ![w] = "failed"]
          /\ troubled' = troubled \union {w} /\ UNCHANGED vm

\* An instance ends, or somebody changes its tags.
Leaves(w) ==
    /\ Looks /\ vm[w] \in {"starting", "running"}
    /\ Cardinality({v \in Batch : vm[v] \in {"gone", "foreign"}}) < Strangers /\ troubled' = troubled \union {w}
    /\ vm' \in {[vm EXCEPT ![w] = "gone"], [vm EXCEPT ![w] = "foreign"]}
    /\ strange' = IF \E g \in Goroutines : doing[g] = "send" /\ at[g] = w THEN strange ELSE strange \union {w}
    /\ UNCHANGED <<boot, probe, besides, spent>>

\* The probe reads the marker; that its invocation fails is Poll's.
ProbeRuns(w) ==
    /\ Looks /\ probe[w] = "sent" /\ vm[w] # "gone" /\ boot[w] # "offline" /\ probe' = [probe EXCEPT ![w] = boot[w]]
    /\ UNCHANGED <<vm, boot, besides, spent, history>>

Process == Sort \/ Joined \/ FinishProgress \/ Join \/ Refresh \/ Result \/ \E g \in Goroutines : Goroutine(g)
ReadyNext ==
    \/ Process \/ Takes \/ Writes \/ ProgressStops \/ Expire
    \/ \E w \in Batch : Boots(w) \/ Leaves(w) \/ ProbeRuns(w)

ReadySpec == ReadyInit /\ [][ReadyNext]_readyVars

\* The process runs, and its budget ends; nobody has to read its progress.
ReadyFairness ==
    /\ WF_readyVars(Sort) /\ WF_readyVars(Joined \/ FinishProgress \/ Join \/ Refresh \/ Result)
    /\ WF_readyVars(Expire) /\ WF_readyVars(Takes) /\ WF_readyVars(ProgressStops)
    /\ \A g \in Goroutines : WF_readyVars(Goroutine(g))

FairReadySpec == ReadySpec /\ ReadyFairness

(***************************************************************************)
(* Properties                                                              *)
(***************************************************************************)
ReadyTypeOK ==
    /\ vm \in [Batch -> {"starting", "running", "gone", "foreign"}]
    /\ boot \in [Batch -> {"offline", "pending", "complete", "failed"}]
    /\ probe \in [Batch -> {"none", "sent", "pending", "complete", "failed"}]
    /\ DOMAIN out \subseteq Batch /\ \A w \in DOMAIN out : out[w] \in WorkerOutcome
    /\ evidence \subseteq Batch /\ bounded \in BOOLEAN /\ short \in 0..Short
    /\ opErr \in {"none", "retryable", "other"} /\ exit \in {0, 1, 3, 4, 9}
    /\ step \in {"sort", "run", "finish", "join", "refresh", "result", "done"}
    /\ queue \subseteq Batch /\ errs \subseteq Batch
    /\ doing \in [Goroutines -> {"idle", "take", "verify", "resolve", "ping", "recheck", "send", "poll", "pause"}]
    /\ at \in [Goroutines -> Batch] /\ spent \in BOOLEAN /\ again \in BOOLEAN
    /\ lines \in 0..Buffer /\ writer \in {"idle", "writing", "done", "failed"}
    /\ strange \subseteq Batch /\ troubled \subseteq Batch

\* No probe is sent to an instance that had ended or lost its launch tags
\* before the lookup that precedes the probe; only a change within that last
\* window can meet one.
StrangersAreNotProbed ==
    [][\A w \in Batch : probe'[w] = "sent" /\ probe[w] # "sent" => w \notin strange]_readyVars

\* A worker reported ready is one the report verifies as allocated, whose own
\* probe read a completed bootstrap: also after the last reconciliation.
ReadyIsWitnessed ==
    \A w \in DOMAIN out : out[w].readiness = "ready" =>
        out[w].status = "allocated" /\ probe[w] = "complete" /\ boot[w] = "complete"

\* Once all have waited within the budget, a worker that is not ready had a
\* trouble of its own: no peer's failure and no failing output takes it along.
FailuresAreTheirOwn ==
    step = "join" /\ ~spent => \A w \in Batch : out[w].readiness = "ready" \/ w \in troubled

\* No unverified worker occupies a goroutine while a verified one waits.
VerifiedGoFirst ==
    \A g \in Goroutines : doing[g] = "verify" => \A w \in queue : out[w].status # "allocated"

\* Whatever the last reconciliation finds or fails to find, every worker the
\* command knew is in its result, to be torn down by its id.
NobodyIsForgotten == DOMAIN out = Batch

\* The command reports success only when the original capacity is complete,
\* every worker is ready, and no part of the operation failed.
SuccessIsComplete ==
    exit = 0 => /\ short = 0 /\ bounded /\ ReadyOnes = Batch
                /\ opErr = "none" /\ errs = {} /\ writer # "failed"

\* The missing capacity is stated, and a retry of it offered, only when no part
\* of the allocation or of its last reconciliation failed.
BoundsAreProven == bounded => opErr = "none"

\* The result tells of every worker, and no more of it than was seen.
ResultIsHonest ==
    ReadyTypeOK /\ ReadyIsWitnessed /\ NobodyIsForgotten /\ BoundsAreProven /\ SuccessIsComplete /\ VerifiedGoFirst
    /\ FailuresAreTheirOwn

(***************************************************************************)
(* What makes the result honest at every step                              *)
(***************************************************************************)
Begun(g) == doing[g] \notin {"idle", "take"}

\* A worker waits, or one goroutine has it; meanwhile it is not ready, and past
\* its verification it is allocated.  Goroutines are at work in "run" only,
\* and leave it when nobody waits.
WaitOK ==
    /\ step = "run" \/ queue = {}
    /\ \A g \in Goroutines : doing[g] # "idle" => step = "run"
    /\ \A g \in Goroutines : step = "run" /\ doing[g] = "idle" => queue = {}
    /\ \A g \in Goroutines : Begun(g) =>
         /\ at[g] \notin queue /\ out[at[g]].readiness # "ready"
         /\ doing[g] # "verify" => out[at[g]].status = "allocated"
         /\ \A h \in Goroutines : Begun(h) /\ at[h] = at[g] => h = g
    /\ \A w \in queue : out[w].status \in {"allocated", "not_observed"} /\ ~CannotRun(w) /\ out[w].readiness # "ready"
    /\ step = "sort" => \A w \in Batch : out[w].readiness # "ready"

\* Within the budget every worker waits, is worked on, is ready or in trouble.
TroubleOK ==
    ~spent /\ step \in {"run", "finish", "join"} =>
        \A w \in Batch : \/ w \in queue \/ w \in troubled \/ out[w].readiness = "ready"
                         \/ \E g \in Goroutines : Begun(g) /\ at[g] = w

\* What a probe read was so, and stays so.
ProbeOK == \A w \in Batch : probe[w] = "complete" => boot[w] = "complete"

\* Strangers stay strangers, and none was looked up just now.
StrangerOK ==
    /\ \A w \in strange : vm[w] \in {"gone", "foreign"}
    /\ \A g \in Goroutines : doing[g] = "send" => at[g] \notin strange

\* A batch that is reconciled again began in doubt; a batch whose writer is not
\* waited for has a worker in error or no time.
EndOK ==
    /\ step = "sort" /\ bounded => \A w \in Batch : out[w].status # "not_observed"
    /\ (again /\ step \in {"run", "finish", "join"}) \/ step = "refresh" => ~bounded
    /\ step \in {"join", "refresh", "result"} /\ ~spent => writer \in {"done", "failed"} \/ errs # {}
    /\ exit = 9 <=> step # "done"
    /\ exit = 0 => writer = "done"

\* The inductive invariant behind ResultIsHonest and StrangersAreNotProbed.
ReadyInv ==
    /\ ResultIsHonest /\ out \in [Batch -> WorkerOutcome]
    /\ WaitOK /\ TroubleOK /\ ProbeOK /\ StrangerOK /\ EndOK

\* The command ends, although nobody reads its progress.
BatchEnds == <>(exit # 9)
=============================================================================
