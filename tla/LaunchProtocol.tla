--------------------------- MODULE LaunchProtocol ---------------------------
(***************************************************************************)
(* One `devbox up` request and its recovery: the dispatch of capacity      *)
(* (internal/lifecycle/attempt.go), the shared immutable launch ledger in  *)
(* S3 (launch_ledger.go), resume and explicit retry of missing capacity    *)
(* (batch_recovery.go), reconciliation with the EC2 inventory              *)
(* (batch_reconcile.go), and the local receipt cache each machine keeps    *)
(* under a file lock (batch_store.go, lock_linux.go).                      *)
(*                                                                         *)
(* Several devbox processes, on one or several machines, work on the same  *)
(* request.  A PUT or a CreateFleet call is a message that takes effect at *)
(* any later time or never, whatever became of its sender.  CreateFleet's  *)
(* client token is not relied upon: every call that reaches EC2 allocates. *)
(* The expiry of the request is checked at several points; the clock is    *)
(* left open, so that any of these checks may fail at any time.            *)
(***************************************************************************)
EXTENDS Integers, FiniteSets, SequencesExt

CONSTANTS
  Client,       \* devbox processes, one command at a time each
  Machine,      \* state directories
  Placements,   \* the machines the clients may run on
  Creator,      \* the client whose `up` created the request
  Target,       \* the requested instance count of the plan
  MaxAttempts,  \* MaxLaunchAttempts
  MaxRecoveries,\* bound: resumes and retries a client starts
  Stamps,       \* creation times a retry may draw
  Absent

ASSUME LaunchAssumption ==
  /\ Creator \in Client /\ Placements \subseteq [Client -> Machine]
  /\ Target \in Nat \ {0} /\ MaxAttempts \in Nat \ {0} /\ MaxRecoveries \in Nat
  /\ IsFiniteSet(Client) /\ Absent \notin Client /\ Absent \notin Stamps

Turns   == 1..(MaxRecoveries + 1)
Calls   == [by : Client, turn : Turns, attempt : 1..MaxAttempts, count : 1..Target]
Workers == [call : Calls, index : 1..Target]

\* AttemptReceipt: also what prepared.json and response.json hold.
States == {"prepared", "dispatched", "unknown", "complete", "rejected"}
Attempt == [stamp : Stamps \cup {Absent}, count : 1..Target, state : States,
            ids : SUBSET Workers, fleet : BOOLEAN]

ASSUME AbsentIsNoRecord == Absent \notin Attempt

\* A new attempt; also the plan (its count) and a dispatch claim, which commits
\* to the attempt's count but not to its creation time.
Fresh(s, k) == [stamp |-> s, count |-> k, state |-> "prepared", ids |-> {}, fleet |-> FALSE]

PlanKey == <<"plan", 0>>
Keys == {PlanKey} \cup ({"prepared", "dispatch", "response"} \X (1..MaxAttempts))

VARIABLES
  home,       \* the machine each client runs on
  ledger,     \* S3: the record under each key
  wire,       \* PUT requests S3 has not processed
  won,        \* clients told that their dispatch claim was stored
  cache,      \* the receipt file of each machine
  lock,       \* the client that holds a machine's request lock
  calls,      \* CreateFleet calls ever sent
  answered,   \* those EC2 has processed
  allocated,  \* workers EC2 ever allocated
  heard,      \* EC2's answer as the waiting client received it
  pc,         \* the stage of a client's command
  io,         \* how far it is in the stage's storage call
  goal,       \* what a ledger load is for
  turn,       \* commands a client has started
  parent,     \* --after of a retry; 0 for up and resume
  receipt,    \* the receipt being dispatched
  view,       \* the attempts a ledger load has read so far
  report      \* the result of the latest command

ledgerVars == <<ledger, wire, won>>
localVars  == <<cache, lock>>
worldVars  == <<home, calls, answered, allocated, heard>>
memoryVars == <<turn, parent, receipt, report>>
stageVars  == <<pc, io, goal, view>>
vars == <<ledgerVars, localVars, worldVars, memoryVars, stageVars>>

Stages == {"idle", "lock", "lockDispatch", "save", "plan", "load", "prepared",
           "dispatch", "send", "fleet", "response"}

\* MissingCount of the outcome, for the attempts up to the one named; or nil.
Missed(missing, upto) == [bounded |-> TRUE, missing |-> missing, upto |-> upto]
Nil == [bounded |-> FALSE, missing |-> 0, upto |-> 0]

TypeOK ==
  /\ ledger \in [Keys -> Attempt \cup {Absent}]
  /\ wire \subseteq [by : Client, turn : Turns, key : Keys, obj : Attempt]
  /\ won \subseteq Client
  /\ home \in [Client -> Machine]
  /\ cache \in [Machine -> Seq(Attempt) \cup {Absent}]
  /\ lock \in [Machine -> Client \cup {Absent}]
  /\ calls \subseteq Calls /\ answered \subseteq calls /\ allocated \subseteq Workers
  /\ heard \in [Client -> Attempt \cup {Absent}]
  /\ pc \in [Client -> Stages]
  /\ io \in [Client -> {"none", "prepared", "orphans", "dispatch", "response", "loaded"}]
  /\ goal \in [Client -> {"none", "prepare", "claim", "record", "observe"}]
  /\ turn \in [Client -> Turns \cup {0}]
  /\ parent \in [Client -> 0..MaxAttempts]
  /\ receipt \in [Client -> Seq(Attempt)]
  /\ view \in [Client -> Seq(Attempt)]
  /\ report \in [Client -> [bounded : BOOLEAN, missing : Int, upto : Nat]]

Init ==
  /\ ledger = [k \in Keys |-> Absent] /\ wire = {} /\ won = {}
  /\ home \in Placements /\ cache = [m \in Machine |-> Absent] /\ lock = [m \in Machine |-> Absent]
  /\ calls = {} /\ answered = {} /\ allocated = {}
  /\ heard = [c \in Client |-> Absent]
  /\ pc = [c \in Client |-> "idle"]
  /\ io = [c \in Client |-> "none"] /\ goal = [c \in Client |-> "none"]
  /\ turn = [c \in Client |-> 0] /\ parent = [c \in Client |-> 0]
  /\ receipt = [c \in Client |-> <<>>] /\ view = [c \in Client |-> <<>>]
  /\ report = [c \in Client |-> Nil]

----------------------------------------------------------------------------
(* Receipts *)

\* Mutant of Settled: an unknown allocation counts as a finished one.
SettledUnknown(a) == a.state \in {"unknown", "complete", "rejected"}

Settled(a) == a.state \in {"complete", "rejected"}
Bounded(r) == \A n \in DOMAIN r : Settled(r[n])
Ids(r)     == UNION {r[n].ids : n \in DOMAIN r}

\* Mutant of Missing: only the latest attempt is counted.
MissingOfLast(r) == Target - Cardinality(Last(r).ids)

\* What every worker ever fulfilled leaves to ask for (MissingCapacity).
Missing(r) == Target - Cardinality(Ids(r))

\* batchCacheCanAdvance: a cached receipt is only ever extended with evidence.
CanAdvance(old, new) ==
  /\ Len(new) >= Len(old)
  /\ \A n \in DOMAIN old :
       LET a == old[n]  b == new[n]
       IN /\ a.state # "prepared" => a.stamp = b.stamp /\ b.state # "prepared"
          /\ a.fleet => b.fleet
          /\ Settled(a) => a = b
          /\ a.state = "unknown" => b.state # "dispatched"
          /\ a.ids \subseteq b.ids

\* Validate: lineage and counts; only the last attempt may be open.
Valid(r) ==
  \A n \in DOMAIN r :
    /\ n < Len(r) => Settled(r[n])
    /\ r[n].count = Target - Cardinality(Ids(SubSeq(r, 1, n - 1)))
    /\ Settled(r[n]) => Cardinality(r[n].ids) <= r[n].count

CanSave(m, r) == Valid(r) /\ (cache[m] # Absent => CanAdvance(cache[m], r))

\* mergeUnknownCache: identities only this machine knows are worth inspecting,
\* for attempts whose claim is shared and whose response is not.
Merged(r, m) ==
  [n \in DOMAIN r |->
     IF /\ cache[m] # Absent /\ n \in DOMAIN cache[m]
        /\ r[n].state \in {"dispatched", "unknown"}
        /\ cache[m][n].count = r[n].count
        /\ cache[m][n].ids # {} \/ cache[m][n].fleet
     THEN [r[n] EXCEPT !.state = "unknown", !.ids = @ \cup cache[m][n].ids,
                       !.fleet = @ \/ cache[m][n].fleet]
     ELSE r[n]]

\* cachedIdentityConflict: the cache names a worker a settled attempt does not.
IdentityConflict(r, m) ==
  /\ cache[m] # Absent
  /\ \E n \in DOMAIN r \cap DOMAIN cache[m] :
       Settled(r[n]) /\ ~(cache[m][n].ids \subseteq r[n].ids)

\* retain: every worker EC2 shows is added to its attempt.
Sighted(r, seen) ==
  [n \in DOMAIN r |->
     LET new == {w \in seen : w.call.attempt = n} \ r[n].ids
     IN IF new = {} THEN r[n]
        ELSE [r[n] EXCEPT !.state = "unknown", !.ids = @ \cup new]]

\* A worker of an unknown or unclaimed attempt, or one that a settled response
\* left out, contradicts the ledger as it was read.
Contradicts(r, seen) ==
  \E w \in seen :
    \/ w.call.attempt \notin DOMAIN r
    \/ r[w.call.attempt].state = "prepared"
    \/ Settled(r[w.call.attempt]) /\ w \notin r[w.call.attempt].ids

----------------------------------------------------------------------------
(* A client's command: how it ends, and its storage calls *)

Goto(c, stage, call, g) ==
  /\ pc' = [pc EXCEPT ![c] = stage]
  /\ io' = [io EXCEPT ![c] = call]
  /\ goal' = [goal EXCEPT ![c] = g]

\* The command returns, releasing the lock if it holds it.
Return(c, result) ==
  /\ Goto(c, "idle", "none", "none")
  /\ view' = [view EXCEPT ![c] = <<>>]
  /\ receipt' = [receipt EXCEPT ![c] = <<>>]
  /\ report' = [report EXCEPT ![c] = result]
  /\ lock' = [m \in Machine |-> IF lock[m] = c THEN Absent ELSE lock[m]]
  /\ parent' = [parent EXCEPT ![c] = 0]
  /\ UNCHANGED turn

Fail(c) == Return(c, Nil)

\* Dispatch was refused before anything was sent: `up` reports it, a retry
\* observes the request instead (recoverablePreparationConflict).
Refused(c) ==
  IF Len(receipt[c]) = 1
  THEN Fail(c)
  ELSE /\ Goto(c, "lock", "none", "none")
       /\ view' = [view EXCEPT ![c] = <<>>]
       /\ receipt' = [receipt EXCEPT ![c] = <<>>]
       /\ parent' = [parent EXCEPT ![c] = 0]
       /\ lock' = [lock EXCEPT ![home[c]] = Absent]
       /\ UNCHANGED <<turn, report>>

BeginLoad(c, g) == Goto(c, "load", "prepared", g) /\ view' = [view EXCEPT ![c] = <<>>]

BeginPut(c, key, obj) ==
  /\ Goto(c, key[1], "none", "none")
  /\ wire' = wire \cup {m \in {[by |-> c, turn |-> turn[c], key |-> key, obj |-> obj]} :
                         ledger[key] = Absent}
  /\ view' = [view EXCEPT ![c] = <<>>]
  /\ UNCHANGED <<ledger, won>>

\* The attempt a client dispatches, and the record it writes at its stage.
Mine(c) == Last(receipt[c])
Number(c) == Len(receipt[c])
Key(c)  == IF pc[c] = "plan" THEN PlanKey ELSE <<pc[c], Number(c)>>
Plan == Fresh(Absent, Target)
Body(c) == IF pc[c] = "plan" THEN Plan
           ELSE IF pc[c] = "dispatch" THEN Fresh(Absent, Mine(c).count) ELSE Mine(c)

\* putImmutable: whatever became of the PUT, it counts only if the same bytes are
\* found, and an answer adds nothing to that.  Only a claim needs its answer.
Confirmed(c, stage) == pc[c] = stage /\ ledger[Key(c)] = Body(c)

----------------------------------------------------------------------------
(* Starting a command *)

Start(c) ==
  /\ pc[c] = "idle" /\ turn[c] < MaxRecoveries + (IF c = Creator THEN 1 ELSE 0)
  /\ turn' = [turn EXCEPT ![c] = @ + 1]
  /\ report' = [report EXCEPT ![c] = Nil]
  /\ UNCHANGED <<ledgerVars, localVars, worldVars, view>>

\* `up`: a fresh random request, prepared by its one creator.
StartUp(c) ==
  /\ c = Creator /\ turn[c] = 0
  /\ Start(c)
  /\ Goto(c, "lockDispatch", "none", "none")
  /\ receipt' = [receipt EXCEPT ![c] = <<Fresh(Absent, Target)>>]
  /\ UNCHANGED parent

\* `up --resume`, or `up --retry-missing --after n`.
StartRecovery(c, n) ==
  /\ turn[Creator] > 0
  /\ Start(c)
  /\ Goto(c, "lock", "none", "none")
  /\ parent' = [parent EXCEPT ![c] = n]
  /\ UNCHANGED receipt

AcquireLock(c) ==
  /\ pc[c] \in {"lock", "lockDispatch"} /\ lock[home[c]] = Absent
  /\ lock' = [lock EXCEPT ![home[c]] = c]
  /\ IF pc[c] = "lock" THEN BeginLoad(c, "observe")
     ELSE Goto(c, "save", "none", "none") /\ UNCHANGED view
  /\ UNCHANGED <<ledgerVars, cache, worldVars, memoryVars>>

\* The process is killed, or its context ends, or the request has expired, or a
\* check, a write or an announcement fails at a point where the command can only return.
Abandon(c) ==
  /\ pc[c] # "idle" /\ Fail(c)
  /\ won' = won \ {c} /\ heard' = [heard EXCEPT ![c] = Absent]
  /\ UNCHANGED <<ledger, wire, cache, calls, answered, allocated, home>>

\* The state directory is lost.
LoseCache(m) ==
  /\ cache[m] # Absent /\ lock[m] = Absent
  /\ cache' = [cache EXCEPT ![m] = Absent]
  /\ UNCHANGED <<ledgerVars, lock, worldVars, memoryVars, stageVars>>

----------------------------------------------------------------------------
(* Load: one GET at a time, in the order of the attempts *)

Reads(c, record) == pc[c] = "load" /\ io[c] = record

Read(c, next, seen) ==
  /\ io' = [io EXCEPT ![c] = next]
  /\ view' = [view EXCEPT ![c] = seen]
  /\ UNCHANGED <<ledgerVars, localVars, worldVars, memoryVars, pc, goal>>

LoadFails(c) ==
  /\ IF goal[c] = "claim" THEN Refused(c) ELSE Fail(c)
  /\ UNCHANGED <<ledgerVars, cache, worldVars>>

LoadUnavailable(c) == pc[c] = "load" /\ io[c] # "loaded" /\ LoadFails(c)

\* The plan is immutable: its own GET, just before the first of these, is read
\* with them.  A successor is valid only after the attempts as they were read.
LoadPrepared(c) ==
  LET n == Len(view[c]) + 1
  IN /\ Reads(c, "prepared") /\ ledger[PlanKey] # Absent
     /\ IF n > MaxAttempts THEN Read(c, "loaded", view[c])
        ELSE IF ledger[<<"prepared", n>>] = Absent THEN Read(c, "orphans", view[c])
        ELSE LET next == Append(view[c], ledger[<<"prepared", n>>])
             IN IF Valid(next) THEN Read(c, "dispatch", next)
                ELSE LoadFails(c)

\* "A missing preparation cannot hide an orphaned claim/response."
LoadOrphans(c) ==
  LET n == Len(view[c]) + 1
  IN /\ Reads(c, "orphans")
     /\ IF ledger[<<"dispatch", n>>] = Absent /\ ledger[<<"response", n>>] = Absent
        THEN Read(c, "loaded", view[c])
        ELSE LoadFails(c)

LoadClaim(c) ==
  LET n == Len(view[c])
  IN /\ Reads(c, "dispatch")
     /\ Read(c, "response", IF ledger[<<"dispatch", n>>] = Absent THEN view[c]
                            ELSE [view[c] EXCEPT ![n].state = "dispatched"])

LoadResponse(c) ==
  LET n == Len(view[c])  found == ledger[<<"response", n>>]
  IN /\ Reads(c, "response")
     /\ IF found = Absent THEN Read(c, "prepared", view[c])
        ELSE IF view[c][n].state = "prepared" THEN LoadFails(c)
        ELSE Read(c, "prepared", [view[c] EXCEPT ![n] = found])

LoadStep(c) ==
  \/ LoadUnavailable(c) \/ LoadPrepared(c) \/ LoadOrphans(c)
  \/ LoadClaim(c) \/ LoadResponse(c)

Loaded(c, g) == Reads(c, "loaded") /\ goal[c] = g

----------------------------------------------------------------------------
(* Dispatch: prepare, claim, send, record *)

\* SaveBatch of the prepared receipt, its announcement, then the plan's PUT.
\* An attempt beyond the ledger's limit is refused only after it was saved.
SavePrepared(c) ==
  /\ pc[c] = "save" /\ CanSave(home[c], receipt[c])
  /\ cache' = [cache EXCEPT ![home[c]] = receipt[c]]
  /\ IF Number(c) > MaxAttempts
     THEN Fail(c) /\ UNCHANGED ledgerVars
     ELSE BeginPut(c, PlanKey, Plan) /\ UNCHANGED <<lock, memoryVars>>
  /\ UNCHANGED worldVars

SaveRefused(c) ==
  /\ pc[c] = "save" /\ ~CanSave(home[c], receipt[c])
  /\ Refused(c)
  /\ UNCHANGED <<ledgerVars, cache, worldVars>>

PlanPublished(c) ==
  /\ Confirmed(c, "plan")
  /\ BeginLoad(c, "prepare")
  /\ UNCHANGED <<ledgerVars, localVars, worldVars, memoryVars>>

\* Prepare: the shared history is the one this attempt was computed from, and
\* the attempt is new or already prepared with the same content.
Agrees(c) ==
  LET n == Number(c)
  IN IF Len(view[c]) < n THEN view[c] = Front(receipt[c])
     ELSE /\ Len(view[c]) = n /\ Front(view[c]) = Front(receipt[c])
          /\ view[c][n].stamp = Mine(c).stamp /\ view[c][n].count = Mine(c).count

Prepare(c) ==
  /\ Loaded(c, "prepare")
  /\ IF Agrees(c)
     THEN BeginPut(c, <<"prepared", Number(c)>>, Mine(c)) /\ UNCHANGED <<lock, memoryVars>>
     ELSE Refused(c) /\ UNCHANGED ledgerVars
  /\ UNCHANGED <<cache, worldVars>>

\* Another client prepared the attempt with other content, or is about to.
PreparationConflicts(c) ==
  /\ pc[c] = "prepared" /\ ledger[Key(c)] # Body(c)
  /\ Refused(c)
  /\ UNCHANGED <<ledgerVars, cache, worldVars>>

\* The attempt is durable: the local intent is saved before the expiry is
\* checked again and the claim is tried.
SaveIntent(c) ==
  LET r == [receipt[c] EXCEPT ![Number(c)].state = "dispatched"]
  IN /\ Confirmed(c, "prepared") /\ CanSave(home[c], r)
     /\ cache' = [cache EXCEPT ![home[c]] = r]
     /\ BeginLoad(c, "claim") /\ UNCHANGED <<lock, memoryVars>>
     /\ UNCHANGED <<ledgerVars, worldVars>>

\* Claim: never sent over an existing claim, and only for the last attempt.
SendClaim(c) ==
  LET n == Number(c)
  IN /\ Loaded(c, "claim")
     /\ Len(view[c]) = n /\ view[c][n].state = "prepared" /\ view[c][n].count = Mine(c).count
     /\ BeginPut(c, <<"dispatch", n>>, Fresh(Absent, Mine(c).count))
     /\ UNCHANGED <<localVars, worldVars, memoryVars>>

ClaimRefused(c) ==
  LET n == Number(c)
  IN /\ Loaded(c, "claim")
     /\ ~(Len(view[c]) = n /\ view[c][n].state = "prepared" /\ view[c][n].count = Mine(c).count)
     /\ Refused(c)
     /\ UNCHANGED <<ledgerVars, cache, worldVars>>

\* Mutant of ClaimUnconfirmed: an unanswered claim is taken for won.
ClaimAssumed(c) ==
  /\ pc[c] = "dispatch" /\ Goto(c, "send", "none", "none")
  /\ won' = won \ {c}
  /\ UNCHANGED <<ledger, wire, localVars, worldVars, memoryVars, view>>

\* A claim is never reconciled by a read: no positive answer, no permission.
ClaimUnconfirmed(c) ==
  /\ pc[c] = "dispatch" /\ Refused(c)
  /\ won' = won \ {c}
  /\ UNCHANGED <<ledger, wire, cache, worldVars>>

ClaimWon(c) ==
  /\ pc[c] = "dispatch" /\ c \in won
  /\ won' = won \ {c}
  /\ Goto(c, "send", "none", "none")
  /\ UNCHANGED <<ledger, wire, localVars, worldVars, memoryVars, view>>

CreateFleet(c) ==
  /\ pc[c] = "send"
  /\ calls' = calls \cup {[by |-> c, turn |-> turn[c], attempt |-> Number(c), count |-> Mine(c).count]}
  /\ Goto(c, "fleet", "none", "none")
  /\ UNCHANGED <<ledgerVars, localVars, home, answered, allocated, heard, memoryVars, view>>

\* NormalizeFleetResponse: the evidence is kept, in the cache and in the ledger,
\* each attempted whether or not the other succeeds.
Observed(c, a) ==
  LET r == [receipt[c] EXCEPT ![Number(c)] = a]
  IN /\ receipt' = [receipt EXCEPT ![c] = r]
     /\ \/ UNCHANGED cache
        \/ CanSave(home[c], r) /\ cache' = [cache EXCEPT ![home[c]] = r]
     /\ BeginLoad(c, "record")
     /\ heard' = [heard EXCEPT ![c] = Absent]
     /\ UNCHANGED <<ledgerVars, lock, calls, answered, allocated, home, turn, parent, report>>

Unknown(a) == [a EXCEPT !.state = "unknown"]

FleetHeard(c) == pc[c] = "fleet" /\ heard[c] # Absent /\ Observed(c, heard[c])

\* Mutant of FleetLost: silence is taken for a rejection.
SilenceIsRejection(c) == pc[c] = "fleet" /\ Observed(c, [Mine(c) EXCEPT !.state = "rejected"])

\* No answer, or none that bounds the allocation.
FleetLost(c) == pc[c] = "fleet" /\ Observed(c, Unknown(Mine(c)))

\* The SDK middleware's last expiry check stops the call.
ExpiresAtSend(c) == pc[c] = "send" /\ Observed(c, Unknown(Mine(c)))

RecordResponse(c) ==
  LET n == Number(c)
  IN /\ Loaded(c, "record")
     /\ IF Len(view[c]) >= n /\ view[c][n].state # "prepared"
        THEN BeginPut(c, <<"response", n>>, Mine(c)) /\ UNCHANGED <<lock, memoryVars>>
        ELSE Fail(c) /\ UNCHANGED ledgerVars
     /\ UNCHANGED <<cache, worldVars>>

\* The result of Dispatch; known workers may also fail verification.
ResponseRecorded(c) ==
  /\ Confirmed(c, "response")
  /\ \/ Settled(Mine(c)) /\ Return(c, Missed(Missing(receipt[c]), Number(c)))
     \/ Fail(c)
  /\ UNCHANGED <<ledgerVars, cache, worldVars>>

\* The PUT and the GET fail, or find nothing, or another writer's record.
PutUnconfirmed(c) ==
  /\ pc[c] \in {"plan", "prepared", "response"}
  /\ Fail(c)
  /\ UNCHANGED <<ledgerVars, cache, worldVars>>

DispatchStep(c) ==
  \/ SavePrepared(c) \/ SaveRefused(c) \/ PlanPublished(c) \/ Prepare(c)
  \/ PreparationConflicts(c) \/ SaveIntent(c) \/ SendClaim(c) \/ ClaimRefused(c)
  \/ ClaimUnconfirmed(c) \/ ClaimWon(c) \/ CreateFleet(c) \/ FleetHeard(c)
  \/ FleetLost(c) \/ ExpiresAtSend(c) \/ RecordResponse(c) \/ ResponseRecorded(c)
  \/ PutUnconfirmed(c)

----------------------------------------------------------------------------
(* Recovery: observe, then resume or retry *)

\* A plan without a prepared attempt: nothing was ever asked for.
NothingPrepared(c) ==
  /\ Loaded(c, "observe") /\ view[c] = <<>>
  /\ Fail(c)
  /\ UNCHANGED <<ledgerVars, cache, worldVars>>

\* What a machine knows after ReconcileLaunch saw these workers.
Learnt(c, seen) == Sighted(Merged(view[c], home[c]), seen)

\* RestoreBatch keeps it, even if the inspection failed.
Inspected(c, seen) ==
  /\ Loaded(c, "observe") /\ view[c] # <<>> /\ ~IdentityConflict(view[c], home[c])
  /\ cache' = IF CanSave(home[c], Learnt(c, seen))
              THEN [cache EXCEPT ![home[c]] = Learnt(c, seen)] ELSE cache
  /\ UNCHANGED <<ledgerVars, worldVars>>

\* No contradiction, and every known worker of an open attempt was inspected.
Clean(c, seen) ==
  LET known == Merged(view[c], home[c])
  IN /\ ~Contradicts(known, seen)
     /\ \A n \in DOMAIN known : Settled(known[n]) \/ known[n].ids \subseteq seen

InspectionFails(c) == \E seen \in SUBSET allocated : Inspected(c, seen) /\ Fail(c)

\* The cache contradicts a settled response, or cannot advance to what was learnt.
ReceiptConflicts(c) ==
  /\ Loaded(c, "observe") /\ view[c] # <<>>
  /\ \E seen \in SUBSET allocated :
       \/ IdentityConflict(view[c], home[c])
       \/ Clean(c, seen) /\ ~CanSave(home[c], Learnt(c, seen))
  /\ Fail(c)
  /\ UNCHANGED <<ledgerVars, cache, worldVars>>

\* What a client is told of an observed request.
Outcome(r) ==
  IF Bounded(r) THEN Missed(Missing(r), Len(r)) ELSE Nil

Retries(c, r) == parent[c] = Len(r) /\ Bounded(r) /\ Missing(r) > 0

\* Resume; a retry of an older parent, of an open attempt, or of nothing missing.
Reported(c) ==
  \E seen \in SUBSET allocated :
    LET r == Learnt(c, seen)
    IN /\ Inspected(c, seen) /\ Clean(c, seen) /\ CanSave(home[c], r) /\ ~Retries(c, r)
       /\ IF parent[c] > Len(r) THEN Fail(c) ELSE Return(c, Outcome(r))

\* RetryMissing builds the successor from the shared receipt and lets go of the
\* lock; Dispatch takes it again.
Authorize(c, r) ==
  /\ Goto(c, "lockDispatch", "none", "none")
  /\ receipt' = [receipt EXCEPT ![c] = r]
  /\ view' = [view EXCEPT ![c] = <<>>]
  /\ lock' = [lock EXCEPT ![home[c]] = Absent]
  /\ UNCHANGED <<turn, parent, report>>

RetryGranted(c) ==
  \E seen \in SUBSET allocated : \E s \in Stamps :
    LET r == Learnt(c, seen)
    IN /\ Inspected(c, seen) /\ Clean(c, seen) /\ CanSave(home[c], r) /\ Retries(c, r)
       /\ Authorize(c, Append(r, Fresh(s, Missing(r))))

Observe(c) ==
  \/ NothingPrepared(c) \/ InspectionFails(c) \/ ReceiptConflicts(c)
  \/ Reported(c) \/ RetryGranted(c)

----------------------------------------------------------------------------
(* The services: S3 keeps the first object under a key; EC2 allocates *)

\* The claim a client waits for: its answer tells it that it has won.
ClaimOf(m, c) == pc[c] = "dispatch" /\ m.key = Key(c) /\ m.by = c /\ m.turn = turn[c]

PutArrives(m) ==
  /\ m \in wire /\ ledger[m.key] = Absent
  /\ ledger' = [ledger EXCEPT ![m.key] = m.obj]
  /\ wire' = {other \in wire : other.key # m.key}
  /\ won' = won \cup {c \in Client : ClaimOf(m, c)}
  /\ UNCHANGED <<localVars, worldVars, memoryVars, stageVars>>

\* An answer that bounds the allocation lists every worker.  Any other answer
\* may name some of them.  A definitive rejection allocates nothing.
Answers(a, new) ==
  {[a EXCEPT !.state = "complete", !.ids = new, !.fleet = TRUE]}
  \cup {[a EXCEPT !.state = "unknown", !.ids = some, !.fleet = TRUE] : some \in SUBSET new}
  \cup {[a EXCEPT !.state = "unknown"]}
  \cup (IF new = {} THEN {[a EXCEPT !.state = "rejected"]} ELSE {})

Launch(call, k) ==
  LET new == {[call |-> call, index |-> i] : i \in 1..k}
  IN /\ call \in calls \ answered /\ k <= call.count
     /\ answered' = answered \cup {call}
     /\ allocated' = allocated \cup new
     /\ IF turn[call.by] = call.turn /\ pc[call.by] = "fleet"
        THEN \E a \in Answers(Mine(call.by), new) : heard' = [heard EXCEPT ![call.by] = a]
        ELSE UNCHANGED heard
     /\ UNCHANGED <<ledgerVars, localVars, home, calls, memoryVars, stageVars>>

----------------------------------------------------------------------------
Progress(c) == AcquireLock(c) \/ LoadStep(c) \/ DispatchStep(c) \/ Observe(c)

Next ==
  \/ \E c \in Client :
       \/ StartUp(c) \/ (\E n \in 0..MaxAttempts : StartRecovery(c, n))
       \/ Progress(c) \/ Abandon(c)
  \/ \E m \in Machine : LoseCache(m)
  \/ \E m \in wire : PutArrives(m)
  \/ \E call \in calls, k \in 0..Target : Launch(call, k)

Spec == Init /\ [][Next]_vars

----------------------------------------------------------------------------
(* Properties *)

CallsOf(n)   == {call \in calls : call.attempt = n}
WorkersOf(n) == {w \in allocated : w.call.attempt = n}

\* Whatever is claimed, lost, retried or run twice on however many machines, one
\* CreateFleet call at most is ever sent for an attempt (attempt.go: "a claim is
\* never released"; Claim never reconciles its PUT by a read).
AtMostOneSend == \A n \in 1..MaxAttempts : Cardinality(CallsOf(n)) <= 1

\* A request never owns more workers than its plan asks for: no retry of missing
\* capacity races an allocation that may still arrive.
NeverOverAllocated == Cardinality(allocated) <= Target

\* What a settled record says of an attempt is what EC2 did and will ever do.
IsTrue(a, n) ==
  Settled(a) => /\ a.ids = WorkersOf(n) /\ CallsOf(n) # {} /\ CallsOf(n) \subseteq answered

\* Every settled response, in the ledger and in each machine's cache, agrees with
\* EC2 for good: silence, damage and crashes never pass for a bounded allocation.
ResponsesAreTrue ==
  \A n \in 1..MaxAttempts :
    /\ ledger[<<"response", n>>] # Absent => IsTrue(ledger[<<"response", n>>], n)
    /\ \A m \in Machine : cache[m] # Absent /\ n \in DOMAIN cache[m] => IsTrue(cache[m][n], n)

\* A client is told a count of missing workers only when it is the true one, for
\* the attempts it was told of, though inventory lags and other clients retry.
MissingCountIsTrue ==
  \A c \in Client :
    report[c].bounded =>
      report[c].missing = Target - Cardinality({w \in allocated : w.call.attempt <= report[c].upto})

\* No record of the shared ledger is ever rewritten or removed.
RecordsAreImmutable ==
  [][\A k \in Keys : ledger[k] # Absent => ledger'[k] = ledger[k]]_vars

\* No machine ever remembers a worker that a settled shared response leaves out,
\* so the receipt_conflict of cachedIdentityConflict only reports corruption.
CachesAgree ==
  \A m \in Machine, n \in 1..MaxAttempts :
    LET response == ledger[<<"response", n>>]
    IN /\ response # Absent /\ Settled(response)
       /\ cache[m] # Absent /\ n \in DOMAIN cache[m]
       => cache[m][n].ids \subseteq response.ids

\* What the ledger, the caches and the reports say of an allocation is true.
RecordsAreTrue == TypeOK /\ ResponsesAreTrue /\ MissingCountIsTrue /\ CachesAgree

Claimed == {n \in 1..MaxAttempts : ledger[<<"dispatch", n>>] # Absent}

\* The stage of the latest claimed attempt, as CapacityRequest counts stages.
Phase ==
  LET n == Cardinality(Claimed)
  IN IF n = 0 THEN "closed"
     ELSE IF ledger[<<"response", n>>] # Absent /\ Settled(ledger[<<"response", n>>]) THEN "closed"
     ELSE IF CallsOf(n) = {} THEN "granted"
     ELSE IF CallsOf(n) \subseteq answered THEN "filled" ELSE "sent"

Request == INSTANCE CapacityRequest
             WITH attempts <- Cardinality(Claimed), phase <- Phase, owned <- allocated

\* Clients, caches and the ledger together behave as one capacity request.
ImplementsCapacityRequest == Request!Spec
=============================================================================
