-------------------------- MODULE CommandProtocol --------------------------
(***************************************************************************)
(* The durable command protocol behind `devbox exec`: one public command   *)
(* ID, the client that submits it (internal/execution/submit.go), Systems  *)
(* Manager (external: it may deliver a command more than once), the runner *)
(* processes it starts on the worker (internal/runner/run_linux.go), and   *)
(* the immutable result objects in S3 (internal/execprotocol/store.go).    *)
(*                                                                         *)
(* A PUT is a message that reaches S3 at any later time or never, and its  *)
(* response can be lost: the sender may give up first.  An object's bytes  *)
(* are abstracted to the fields the protocol compares and to who wrote it. *)
(***************************************************************************)
EXTENDS Naturals, FiniteSets

CONSTANTS
  Client,       \* the submitting devbox process
  Runs,         \* runner processes SSM may start for the one command
  Workloads,    \* workload statuses the executor may report in this instance
  ClockFaults,  \* what the worker's wall clock may do during one run
  Absent        \* no object is stored under the key

AllWorkloads == {"exit_zero", "exit_nonzero", "signaled", "execution_timeout",
                 "runner_setup_failed", "capture_failed", "unknown"}

\* "beforeStart": FinishedAt precedes StartedAt; "beforeSubmit": it precedes
\* the request's S3 creation time; "beforeFinish": FinalizedAt precedes
\* FinishedAt.
AllClocks == {"steady", "beforeStart", "beforeSubmit", "beforeFinish"}

Actors  == Runs \cup {Client}
Streams == {"stdout", "stderr"}
Keys    == {"request", "acknowledgement", "started", "outcome", "result"} \cup Streams

Objects == [by : Actors,
            workload    : AllWorkloads \cup {"none"},
            capture     : {"none", "complete", "incomplete"},
            stdout      : {"none", "pending", "complete", "failed"},
            stderr      : {"none", "pending", "complete", "failed"},
            publication : {"none", "complete", "incomplete"},
            clock       : AllClocks]

ASSUME ConstantsAssumption ==
  /\ Client \notin Runs
  /\ Workloads \subseteq AllWorkloads
  /\ ClockFaults \subseteq AllClocks
  /\ Absent \notin Objects

VARIABLES
  store,     \* S3: the object under each key
  wire,      \* PUT requests that S3 has not processed
  reply,     \* the response an actor has received for the PUT it waits for
  mode,      \* how far an actor is in one storage call: local, put, get
  step,      \* the stage of Submit or Run an actor is at
  draft,     \* the record a runner is completing
  readable,  \* the capture files of a run that can be hashed
  executed,  \* runs that called the executor
  send,      \* SendCommand: unsent, wire, accepted, rejected
  heard,     \* SSM's answer as the client received it
  sends,     \* SendCommand requests put on the wire
  state,     \* Submission.State
  ctx,       \* the setup context: live, canceled, deadline
  verdict    \* how Submit and Run's fail() classified a stopped client

clientVars == <<state, ctx, verdict>>
ssmVars    == <<send, heard, sends>>
runVars    == <<draft, readable, executed>>
vars == <<store, wire, reply, mode, step, draft, readable, executed,
          send, heard, sends, state, ctx, verdict>>

ClientSteps == {"idle", "request", "prepared", "sending", "announce",
                "acknowledgement", "observing", "stopped", "dead"}
RunSteps == {"undelivered", "prepare", "started", "claimed", "running", "outcome",
             "stdout", "stderr", "result", "exited", "crashed"}

TypeOK ==
  /\ store \in [Keys -> Objects \cup {Absent}]
  /\ wire \subseteq [key : Keys, obj : Objects]
  /\ reply \in [Actors -> {"none", "ok", "conflict"}]
  /\ mode \in [Actors -> {"local", "put", "get"}]
  /\ step \in [Actors -> ClientSteps \cup RunSteps]
  /\ step[Client] \in ClientSteps /\ \A r \in Runs : step[r] \in RunSteps
  /\ draft \in [Runs -> Objects]
  /\ readable \in [Runs -> SUBSET Streams]
  /\ executed \subseteq Runs
  /\ send \in {"unsent", "wire", "accepted", "rejected"}
  /\ heard \in {"none", "ack", "rejected"}
  /\ sends \in Nat
  /\ state \in {"none", "prepared", "submission_rejected", "submission_unknown", "submitted"}
  /\ ctx \in {"live", "canceled", "deadline"}
  /\ verdict \in {"none", "interrupted", "setup_timeout", "setup_failed", "submission_unknown"}

\* An object whose content is fixed by its writer: a request, an
\* acknowledgement, a start claim, or the bytes of one captured stream.
Plain(a) == [by |-> a, workload |-> "none", capture |-> "none", stdout |-> "none",
             stderr |-> "none", publication |-> "none", clock |-> "steady"]

Init ==
  /\ store = [k \in Keys |-> Absent]
  /\ wire = {}
  /\ reply = [a \in Actors |-> "none"]
  /\ mode = [a \in Actors |-> "local"]
  /\ step = [a \in Actors |-> IF a = Client THEN "idle" ELSE "undelivered"]
  /\ draft = [r \in Runs |-> Plain(r)]
  /\ readable = [r \in Runs |-> {}]
  /\ executed = {}
  /\ send = "unsent" /\ heard = "none" /\ sends = 0
  /\ state = "none" /\ ctx = "live" /\ verdict = "none"

----------------------------------------------------------------------------
(* S3 and the storage calls of execprotocol/store.go *)

\* Mutant of PutArrives: an unconditional PUT.
PutOverwrites(m) ==
  /\ m \in wire
  /\ wire' = wire \ {m}
  /\ store' = [store EXCEPT ![m.key] = m.obj]
  /\ reply' = IF mode[m.obj.by] = "put" /\ step[m.obj.by] = m.key
              THEN [reply EXCEPT ![m.obj.by] = "ok"] ELSE reply
  /\ UNCHANGED <<mode, step, runVars, ssmVars, clientVars>>

\* S3 processes a PUT carrying If-None-Match: only an absent key is created.
\* The sender learns of it only while it still waits for that PUT.
PutArrives(m) ==
  /\ m \in wire
  /\ wire' = wire \ {m}
  /\ store' = IF store[m.key] = Absent THEN [store EXCEPT ![m.key] = m.obj] ELSE store
  /\ reply' = IF mode[m.obj.by] = "put" /\ step[m.obj.by] = m.key
              THEN [reply EXCEPT ![m.obj.by] = IF store[m.key] = Absent THEN "ok" ELSE "conflict"]
              ELSE reply
  /\ UNCHANGED <<mode, step, runVars, ssmVars, clientVars>>

\* Actor a begins stage k by sending its one PUT of that object.
Send(a, k, o) ==
  /\ wire' = wire \cup {[key |-> k, obj |-> o]}
  /\ reply' = [reply EXCEPT ![a] = "none"]
  /\ mode' = [mode EXCEPT ![a] = "put"]
  /\ step' = [step EXCEPT ![a] = k]

\* The object an actor writes at the stage it is at.
Written(a) == IF a = Client \/ step[a] \in {"started"} \cup Streams THEN Plain(a) ELSE draft[a]

\* PutImmutable returned nil: the PUT was acknowledged, or the reconciling GET
\* found the same bytes.
Confirmed(a, k) ==
  /\ step[a] = k
  /\ \/ mode[a] = "put" /\ reply[a] = "ok"
     \/ mode[a] = "get" /\ store[k] = Written(a)

\* The PUT failed, conflicted, or its response did not come in time.
Uncertain(a, k) == step[a] = k /\ mode[a] = "put"

\* PutImmutable returned an error: whatever the store holds, the GET can be
\* unavailable; otherwise the object is missing or differs.
Unconfirmed(a, k) == step[a] = k /\ mode[a] = "get"

\* PutImmutable reconciles an uncertain PUT with a GET of the same key.
Reconcile(a, k) ==
  /\ Uncertain(a, k)
  /\ mode' = [mode EXCEPT ![a] = "get"]
  /\ UNCHANGED <<store, wire, reply, step, runVars, ssmVars, clientVars>>

Stage(a, s) ==
  /\ step' = [step EXCEPT ![a] = s]
  /\ mode' = [mode EXCEPT ![a] = "local"]

----------------------------------------------------------------------------
(* The client: Submit and the part of Run that classifies its failures *)

\* fail() in execution/run.go.
FailOutcome(unknown) ==
  IF ctx = "canceled" THEN "interrupted"
  ELSE IF unknown THEN "submission_unknown"
  ELSE IF ctx = "deadline" THEN "setup_timeout" ELSE "setup_failed"

StopClient(newState) ==
  /\ Stage(Client, "stopped")
  /\ state' = newState
  /\ verdict' = FailOutcome(newState = "submission_unknown")
  /\ UNCHANGED <<store, wire, reply, runVars, ssmVars, ctx>>

\* Validation, target, storage, runtime, readiness and agent checks, any of
\* which can fail; then the durable request is published.
PreflightFails == step[Client] = "idle" /\ StopClient(state)

PublishRequest ==
  /\ step[Client] = "idle" /\ ctx = "live"
  /\ Send(Client, "request", Plain(Client))
  /\ UNCHANGED <<store, runVars, ssmVars, clientVars>>

RequestPrepared ==
  /\ Confirmed(Client, "request")
  /\ mode[Client] = "get" => ctx = "live"
  /\ Stage(Client, "prepared")
  /\ state' = "prepared"
  /\ UNCHANGED <<store, wire, reply, runVars, ssmVars, ctx, verdict>>

RequestUnconfirmed == Unconfirmed(Client, "request") /\ StopClient(state)

\* The prepared ID cannot be printed, or the repeated agent and target checks
\* fail, or the context ended.
RecheckFails == step[Client] = "prepared" /\ StopClient(state)

\* The single SendCommand, with SDK retries disabled.
SendCommand ==
  /\ step[Client] = "prepared" /\ ctx = "live"
  /\ Stage(Client, "sending")
  /\ send' = "wire" /\ sends' = sends + 1
  /\ UNCHANGED <<store, wire, reply, runVars, heard, clientVars>>

SendRejected == step[Client] = "sending" /\ heard = "rejected" /\ StopClient("submission_rejected")

\* Mutant of SendUncertain: a missing answer is taken for a rejection.
SilenceIsRejection == step[Client] = "sending" /\ StopClient("submission_rejected")

\* The response was lost, late or not a valid acknowledgement.
SendUncertain == step[Client] = "sending" /\ StopClient("submission_unknown")

SendAcknowledged ==
  /\ step[Client] = "sending" /\ heard = "ack"
  /\ Stage(Client, "announce")
  /\ state' = "submitted"
  /\ UNCHANGED <<store, wire, reply, runVars, ssmVars, ctx, verdict>>

AnnounceFails == step[Client] = "announce" /\ StopClient(state)

PublishAcknowledgement ==
  /\ step[Client] = "announce"
  /\ Send(Client, "acknowledgement", Plain(Client))
  /\ UNCHANGED <<store, runVars, ssmVars, clientVars>>

\* Publication of the acknowledgement is optional: stored or not, Submit
\* returns no error and Run goes on to observe.
AcknowledgementSettled ==
  /\ Confirmed(Client, "acknowledgement") \/ Unconfirmed(Client, "acknowledgement")
  /\ Stage(Client, "observing")
  /\ UNCHANGED <<store, wire, reply, runVars, ssmVars, clientVars>>

\* Ctrl-C, or the setup deadline.
ClientContextEnds ==
  /\ step[Client] \notin {"observing", "stopped", "dead"} /\ ctx = "live"
  /\ ctx' \in {"canceled", "deadline"}
  /\ UNCHANGED <<store, wire, reply, mode, step, runVars, ssmVars, state, verdict>>

\* The client process is killed.
ClientDies ==
  /\ step[Client] \notin {"stopped", "dead"}
  /\ Stage(Client, "dead")
  /\ UNCHANGED <<store, wire, reply, runVars, ssmVars, clientVars>>

ClientStep ==
  \/ PreflightFails \/ PublishRequest \/ RequestPrepared \/ RequestUnconfirmed
  \/ RecheckFails \/ SendCommand \/ SendRejected \/ SendUncertain \/ SendAcknowledged
  \/ AnnounceFails \/ PublishAcknowledgement \/ AcknowledgementSettled
  \/ Reconcile(Client, "request") \/ Reconcile(Client, "acknowledgement")

----------------------------------------------------------------------------
(* Systems Manager (external) *)

\* SSM decides on the request at any later time; the answer may not be heard.
SSMDecides ==
  /\ send = "wire"
  /\ send' \in {"accepted", "rejected"}
  /\ heard' = IF send' = "accepted" THEN "ack" ELSE "rejected"
  /\ UNCHANGED <<store, wire, reply, mode, step, runVars, sends, clientVars>>

\* An accepted command is delivered, perhaps again.
Deliver(r) ==
  /\ send = "accepted" /\ step[r] = "undelivered"
  /\ Stage(r, "prepare")
  /\ UNCHANGED <<store, wire, reply, runVars, ssmVars, clientVars>>

----------------------------------------------------------------------------
(* The runner: Run in runner/run_linux.go *)

\* Run returns; the process ends with its publication status.
Exit(r) ==
  /\ Stage(r, "exited")
  /\ UNCHANGED <<store, wire, reply, runVars, ssmVars, clientVars>>

\* Configuration, payload, identity, hash, request or clock preparation fails.
PreparationFails(r) == step[r] = "prepare" /\ Exit(r)

\* The request is read and matches; the start claim is sent, once.
Claim(r) ==
  /\ step[r] = "prepare" /\ store["request"] = Plain(Client)
  /\ Send(r, "started", Plain(r))
  /\ UNCHANGED <<store, runVars, ssmVars, clientVars>>

\* A claim is never reconciled: conflict, error or a lost response aborts.
ClaimUnconfirmed(r) == Uncertain(r, "started") /\ Exit(r)

\* Mutant of ClaimConfirmed: any stored claim counts, as if reconciled by a read.
ClaimByReading(r) ==
  /\ step[r] = "started" /\ store["started"] # Absent
  /\ Stage(r, "claimed")
  /\ UNCHANGED <<store, wire, reply, runVars, ssmVars, clientVars>>

ClaimConfirmed(r) ==
  /\ step[r] = "started" /\ mode[r] = "put" /\ reply[r] = "ok"
  /\ Stage(r, "claimed")
  /\ UNCHANGED <<store, wire, reply, runVars, ssmVars, clientVars>>

\* The preparation budget ended while the claim was confirmed.
PreparationExpires(r) == step[r] = "claimed" /\ Exit(r)

\* Mutant of Execute: the workload starts without waiting for the claim's answer.
ExecuteEarly(r) ==
  /\ step[r] \in {"started", "claimed"}
  /\ Stage(r, "running")
  /\ executed' = executed \cup {r}
  /\ UNCHANGED <<store, wire, reply, draft, readable, ssmVars, clientVars>>

Execute(r) ==
  /\ step[r] = "claimed"
  /\ Stage(r, "running")
  /\ executed' = executed \cup {r}
  /\ UNCHANGED <<store, wire, reply, draft, readable, ssmVars, clientVars>>

\* The executor returns; the capture files are hashed and the outcome drafted.
\* A stream that cannot be hashed makes the capture incomplete.
Capture(r, w, complete, files, c) ==
  [Plain(r) EXCEPT !.workload = w, !.clock = c, !.stdout = "pending", !.stderr = "pending",
                   !.capture = IF complete /\ files = Streams THEN "complete" ELSE "incomplete"]

\* An outcome whose FinishedAt precedes submission does not encode.
PublishOutcome(r) ==
  /\ step[r] = "running"
  /\ \E w \in Workloads, complete \in BOOLEAN, files \in SUBSET Streams, c \in ClockFaults :
       /\ draft' = [draft EXCEPT ![r] = Capture(r, w, complete, files, c)]
       /\ readable' = [readable EXCEPT ![r] = files]
       /\ IF c = "beforeSubmit"
          THEN Stage(r, "exited") /\ UNCHANGED <<wire, reply>>
          ELSE Send(r, "outcome", Capture(r, w, complete, files, c))
  /\ UNCHANGED <<store, executed, ssmVars, clientVars>>

OutcomeUnconfirmed(r) == Unconfirmed(r, "outcome") /\ Exit(r)

\* upload(): an unreadable capture fails without a PUT.
StartUpload(r, s) ==
  IF s \in readable[r]
  THEN Send(r, s, Plain(r))
  ELSE /\ step' = [step EXCEPT ![r] = s]
       /\ mode' = [mode EXCEPT ![r] = "get"]
       /\ UNCHANGED <<wire, reply>>

\* Mutant of UploadStdout: the uploads begin though the outcome is not durable.
UploadAnyway(r) ==
  /\ Confirmed(r, "outcome") \/ Unconfirmed(r, "outcome")
  /\ StartUpload(r, "stdout")
  /\ UNCHANGED <<store, runVars, ssmVars, clientVars>>

UploadStdout(r) ==
  /\ Confirmed(r, "outcome")
  /\ StartUpload(r, "stdout")
  /\ UNCHANGED <<store, runVars, ssmVars, clientVars>>

\* Mutant of Upload: a stream that could be hashed is taken for uploaded.
UploadAssumed(r, s) == IF s \in readable[r] THEN "complete" ELSE "failed"

\* The upload flag the previous stage recorded.
Upload(r, s) == IF s \in readable[r] /\ Confirmed(r, s) THEN "complete" ELSE "failed"
Uploaded(r, s) == Unconfirmed(r, s) \/ Confirmed(r, s)

UploadStderr(r) ==
  /\ Uploaded(r, "stdout")
  /\ \E flag \in {Upload(r, "stdout"), "failed"} :
       /\ flag = "failed" => Unconfirmed(r, "stdout")
       /\ draft' = [draft EXCEPT ![r].stdout = flag]
  /\ StartUpload(r, "stderr")
  /\ UNCHANGED <<store, readable, executed, ssmVars, clientVars>>

Publication(d) ==
  IF d.workload # "unknown" /\ d.capture = "complete" /\ d.stdout = "complete" /\ d.stderr = "complete"
  THEN "complete" ELSE "incomplete"

\* A result finalized before its own FinishedAt does not encode.
PublishResult(r) ==
  /\ Uploaded(r, "stderr")
  /\ \E flag \in {Upload(r, "stderr"), "failed"} :
       LET d == [draft[r] EXCEPT !.stderr = flag]
           final == [d EXCEPT !.publication = Publication(d)]
       IN /\ flag = "failed" => Unconfirmed(r, "stderr")
          /\ draft' = [draft EXCEPT ![r] = final]
          /\ IF d.clock = "beforeFinish"
             THEN Stage(r, "exited") /\ UNCHANGED <<wire, reply>>
             ELSE Send(r, "result", final)
  /\ UNCHANGED <<store, readable, executed, ssmVars, clientVars>>

ResultSettled(r) == (Confirmed(r, "result") \/ Unconfirmed(r, "result")) /\ Exit(r)

\* The worker is lost, or SSM kills the runner.
Crash(r) ==
  /\ step[r] \notin {"undelivered", "exited", "crashed"}
  /\ Stage(r, "crashed")
  /\ UNCHANGED <<store, wire, reply, runVars, ssmVars, clientVars>>

RunnerStep(r) ==
  \/ PreparationFails(r) \/ Claim(r) \/ ClaimUnconfirmed(r) \/ ClaimConfirmed(r)
  \/ PreparationExpires(r) \/ Execute(r) \/ PublishOutcome(r) \/ OutcomeUnconfirmed(r)
  \/ UploadStdout(r) \/ UploadStderr(r) \/ PublishResult(r) \/ ResultSettled(r)
  \/ \E k \in {"outcome", "result"} \cup Streams : Reconcile(r, k)

----------------------------------------------------------------------------
Next ==
  \/ ClientStep \/ ClientContextEnds \/ ClientDies
  \/ SSMDecides
  \/ \E m \in wire : PutArrives(m)
  \/ \E r \in Runs : Deliver(r) \/ RunnerStep(r) \/ Crash(r)

\* Every call of the client and of a runner is bounded by a context deadline,
\* so a process that is not killed keeps moving; the network owes nothing.
Fairness == WF_vars(ClientStep) /\ \A r \in Runs : WF_vars(RunnerStep(r))

Spec == Init /\ [][Next]_vars /\ Fairness
----------------------------------------------------------------------------
(* Properties *)

\* A public ID never authorises two executions: however often SSM delivers the
\* command and whatever responses are lost, at most one runner process calls
\* the executor (the start claim of Run, run_linux.go).
AtMostOneExecution == \A r1, r2 \in executed : r1 = r2

\* What sameOutcome (observe.go) compares of an outcome and a result.
Evidence(o) == <<o.by, o.workload, o.capture, o.clock>>

\* Durable evidence is about a real execution: an outcome comes from the run
\* that holds the start claim and executed, and a result exists only beside an
\* outcome it agrees with in everything sameOutcome compares (observe.go).
EvidenceIsGenuine ==
  /\ store["outcome"] # Absent =>
       /\ store["outcome"].by \in executed
       /\ store["started"] = Plain(store["outcome"].by)
  /\ store["result"] # Absent =>
       /\ store["outcome"] # Absent
       /\ Evidence(store["result"]) = Evidence(store["outcome"])

\* A result that claims complete publication is backed by both stream objects
\* of the same run and by a known workload, so `logs` can retrieve it after the
\* worker is gone (the publication rule of Run, run_linux.go).
CompletePublicationIsBacked ==
  store["result"] # Absent /\ store["result"].publication = "complete" =>
    /\ \A s \in Streams : store[s] = Plain(store["result"].by)
    /\ store["result"].workload # "unknown"
    /\ store["result"].capture = "complete"

\* SendCommand follows a durable request and is sent at most once (Submit).
DispatchFollowsRequest ==
  /\ sends <= 1
  /\ send # "unsent" => store["request"] = Plain(Client)

\* When the client stops saying that nothing was submitted (no state, prepared,
\* or submission_rejected), nothing was and nothing will be executed, also when
\* SSM's answer is late (Submit and fail() of execution/run.go).
UnsubmittedNeverExecutes ==
  step[Client] = "stopped" /\ state \in {"none", "prepared", "submission_rejected"} =>
    /\ send \notin {"wire", "accepted"}
    /\ executed = {}

\* No writer, late PUT or duplicate delivery changes an object once stored.
ObjectsAreImmutable ==
  [][\A k \in Keys : store[k] # Absent => store'[k] = store[k]]_vars

(***************************************************************************)
(* The inductive invariant behind the safety properties.                   *)
(***************************************************************************)
Backed(o) == /\ o.workload # "unknown" /\ o.capture = "complete"
             /\ \A s \in Streams : store[s] = Plain(o.by)

\* What may be stored, or be on its way to S3, under each key.
Genuine(k, o) ==
  /\ k \in {"request", "acknowledgement"} => o = Plain(Client)
  /\ k \notin {"request", "acknowledgement"} => o.by \in Runs /\ store["request"] # Absent
  /\ k \in {"started"} \cup Streams => o = Plain(o.by)
  /\ k \in {"outcome", "result"} => o.by \in executed
  /\ k = "outcome" => o.workload \in Workloads
  /\ k = "result" =>
       /\ store["outcome"] # Absent /\ Evidence(store["outcome"]) = Evidence(o)
       /\ o.publication = "complete" => Backed(o)

ObjectsAreGenuine ==
  /\ \A m \in wire : Genuine(m.key, m.obj)
  /\ \A k \in Keys : store[k] # Absent => Genuine(k, store[k])

\* A PUT on the wire belongs to a stage its writer has reached, and while the
\* writer waits for it, it carries what the writer will compare against.
WireIsCurrent ==
  \A m \in wire :
    /\ m.key = "outcome" => step[m.obj.by] \in {"outcome", "stdout", "stderr", "result", "exited", "crashed"}
    /\ m.key = "result" => step[m.obj.by] \in {"result", "exited", "crashed"}
    /\ step[m.obj.by] = m.key => m.obj = Written(m.obj.by)

RepliesAreTrue ==
  \A a \in Actors : mode[a] = "put" /\ reply[a] = "ok" => step[a] \in Keys /\ store[step[a]] = Written(a)

RunsHoldTheClaim ==
  \A r \in Runs :
    /\ r \in executed => store["started"] = Plain(r)
    /\ step[r] = "claimed" => store["started"] = Plain(r)
    /\ step[r] \in {"running", "outcome", "stdout", "stderr", "result"} => r \in executed
    /\ step[r] # "undelivered" => send = "accepted"
    /\ r \in executed => step[r] # "undelivered"

DraftsAreRecorded ==
  \A r \in Runs :
    /\ draft[r].by = r
    /\ step[r] \in {"stdout", "stderr", "result"} =>
         store["outcome"] # Absent /\ Evidence(store["outcome"]) = Evidence(draft[r])
    /\ draft[r].stdout = "complete" => store["stdout"] = Plain(r)
    /\ draft[r].stderr = "complete" => store["stderr"] = Plain(r)

SubmissionIsOrdered ==
  /\ step[Client] \in {"idle", "request", "prepared"} =>
       send = "unsent" /\ sends = 0 /\ heard = "none" /\ state \in {"none", "prepared"}
  /\ sends <= 1
  /\ send # "unsent" => store["request"] = Plain(Client)
  /\ step[Client] = "prepared" => store["request"] = Plain(Client)
  /\ heard = "rejected" => send = "rejected"
  /\ step[Client] \in {"announce", "acknowledgement", "observing"} => state = "submitted"
  /\ step[Client] = "stopped" /\ state \in {"none", "prepared"} => send = "unsent"
  /\ step[Client] = "stopped" /\ state = "submission_rejected" => send = "rejected"

\* The conjunction the proofs carry: what each stored object, message, reply,
\* runner and submission state (run_linux.go, submit.go) implies of the others.
ProtocolInv ==
  /\ TypeOK
  /\ ObjectsAreGenuine
  /\ WireIsCurrent
  /\ RepliesAreTrue
  /\ RunsHoldTheClaim
  /\ DraftsAreRecorded
  /\ SubmissionIsOrdered

(***************************************************************************)
(* The protocol implements the abstract life of one command.               *)
(***************************************************************************)
LifePhase ==
  IF store["result"] # Absent THEN "final"
  ELSE IF store["outcome"] # Absent THEN "recorded"
  ELSE IF executed # {} THEN "running"
  ELSE IF store["started"] # Absent THEN "claimed"
  ELSE IF store["request"] # Absent THEN "requested"
  ELSE "none"

Life == INSTANCE CommandLife WITH
  phase  <- LifePhase,
  holder <- IF store["started"] = Absent THEN Absent ELSE store["started"].by,
  known  <- IF store["outcome"] = Absent THEN "none" ELSE store["outcome"].workload

\* Every step of the protocol is a step of CommandLife, or changes nothing it
\* shows.
ImplementsCommandLife == Life!Spec
=============================================================================
