----------------------- MODULE CommandProtocolProofs -----------------------
(***************************************************************************)
(* Proofs about CommandProtocol, for any set of runs, workload statuses    *)
(* and clock faults.  ProtocolInv is inductive; the lemmas first say what  *)
(* the shapes of step share: a PUT that reaches S3, a stage entered        *)
(* without a storage call, a stage entered by sending a PUT.  The second   *)
(* half is about RunnerProcess, the runner's supervision of the workload   *)
(* between its claim and the outcome it publishes.                         *)
(***************************************************************************)
EXTENDS CommandProtocol, RunnerProcess, TLAPS

AfterOutcome == {"outcome", "stdout", "stderr", "result", "exited", "crashed"}

LEMMA PlainIsObject == \A a \in Actors : Plain(a) \in Objects /\ Plain(a).by = a
BY DEF Plain, Objects, AllWorkloads, AllClocks

LEMMA CaptureIsObject ==
  ASSUME NEW r \in Runs, NEW w \in AllWorkloads, NEW ok \in BOOLEAN,
         NEW files \in SUBSET Streams, NEW c \in AllClocks
  PROVE  /\ Capture(r, w, ok, files, c) \in Objects
         /\ Capture(r, w, ok, files, c).by = r
         /\ Capture(r, w, ok, files, c).stdout = "pending"
         /\ Capture(r, w, ok, files, c).stderr = "pending"
         /\ Capture(r, w, ok, files, c).workload = w
BY DEF Capture, Plain, Objects, Actors, AllWorkloads, AllClocks

LEMMA InitIsGood == Init => ProtocolInv
<1>1. Init => TypeOK
  BY PlainIsObject, ConstantsAssumption DEF Init, TypeOK, Actors, ClientSteps, RunSteps, Keys, Streams
<1>2. Init => ObjectsAreGenuine /\ WireIsCurrent /\ RepliesAreTrue
  BY DEF Init, ObjectsAreGenuine, WireIsCurrent, RepliesAreTrue
<1>3. Init => RunsHoldTheClaim /\ DraftsAreRecorded /\ SubmissionIsOrdered
  BY ConstantsAssumption DEF Init, RunsHoldTheClaim, DraftsAreRecorded, SubmissionIsOrdered, Plain, Actors
<1>4. QED BY <1>1, <1>2, <1>3 DEF ProtocolInv

\* What a PUT that reaches S3 does: it may find the key taken.
LEMMA PutArrivesFills ==
  ASSUME TypeOK, NEW m \in wire, PutArrives(m)
  PROVE  /\ m.key \in Keys /\ m.obj \in Objects /\ m.obj # Absent /\ m.obj.by \in Actors
         /\ store' \in [Keys -> Objects \cup {Absent}]
         /\ \A k \in Keys : store[k] # Absent => store'[k] = store[k]
         /\ \A k \in Keys : store[k] = Absent /\ store'[k] # Absent => k = m.key /\ store'[k] = m.obj
         /\ store[m.key] = Absent => store'[m.key] = m.obj
         /\ wire' \subseteq wire
<1>1. m \in [key : Keys, obj : Objects]
  BY DEF TypeOK
<1>2. m.key \in Keys /\ m.obj \in Objects /\ m.obj # Absent
  BY <1>1, ConstantsAssumption
<1>3. m.obj.by \in Actors
  BY <1>2 DEF Objects
<1>4. QED BY <1>2, <1>3 DEF PutArrives, TypeOK

LEMMA PutArrivesKeeps ==
  ASSUME ProtocolInv, NEW m \in wire, PutArrives(m)
  PROVE  ProtocolInv'
<1> DEFINE k == m.key
<1>1. TypeOK /\ ObjectsAreGenuine /\ WireIsCurrent /\ RepliesAreTrue
  BY DEF ProtocolInv
<1>2. /\ k \in Keys /\ m.obj \in Objects /\ m.obj # Absent /\ m.obj.by \in Actors
      /\ store' \in [Keys -> Objects \cup {Absent}]
      /\ \A j \in Keys : store[j] # Absent => store'[j] = store[j]
      /\ \A j \in Keys : store[j] = Absent /\ store'[j] # Absent => j = k /\ store'[j] = m.obj
      /\ store[k] = Absent => store'[k] = m.obj
      /\ wire' \subseteq wire
  BY <1>1, PutArrivesFills
<1>3. UNCHANGED <<mode, step, draft, readable, executed, send, heard, sends, state, ctx, verdict>>
  BY DEF PutArrives, runVars, ssmVars, clientVars
<1>4. Genuine(k, m.obj)
  BY <1>1 DEF ObjectsAreGenuine
<1>5. {"started", "outcome", "request", "stdout", "stderr"} \subseteq Keys
  BY DEF Keys, Streams
<1>6. \A a \in Actors : Plain(a) # Absent
  BY PlainIsObject, ConstantsAssumption
<1> HIDE DEF k
<1>a. TypeOK'
  BY <1>1, <1>2, <1>3 DEF PutArrives, TypeOK
<1>b. ObjectsAreGenuine'
  <2>1. \A o \in Objects : Backed(o) => Backed(o)'
    <3> SUFFICES ASSUME NEW o \in Objects, Backed(o)
                 PROVE  Backed(o)'
      OBVIOUS
    <3>1. o.by \in Actors
      BY DEF Objects
    <3>2. \A s \in Streams : store'[s] = Plain(o.by)
      BY <1>2, <1>5, <1>6, <3>1 DEF Backed, Streams
    <3>3. QED BY <3>2 DEF Backed, Plain
  <2>2. \A j \in Keys, o \in Objects : Genuine(j, o) => Genuine(j, o)'
    BY <1>2, <1>3, <1>5, <2>1 DEF Genuine, Plain, Evidence
  <2>3. QED BY <1>1, <1>2, <1>4, <2>2 DEF ObjectsAreGenuine, TypeOK
<1>c. WireIsCurrent'
  BY <1>1, <1>2, <1>3 DEF WireIsCurrent, Written, Plain
<1>d. RepliesAreTrue'
  <2> SUFFICES ASSUME NEW a \in Actors, mode[a] = "put", reply'[a] = "ok"
               PROVE  step[a] \in Keys /\ store'[step[a]] = Written(a)
    BY <1>3 DEF RepliesAreTrue, Written, Plain
  <2>1. CASE reply[a] = "ok"
    <3>1. step[a] \in Keys /\ store[step[a]] = Written(a) /\ Written(a) # Absent
      BY <1>1, <1>6, <2>1, ConstantsAssumption DEF RepliesAreTrue, Written, TypeOK, Actors
    <3>2. QED BY <1>2, <3>1
  <2>2. CASE reply[a] # "ok"
    <3>1. a = m.obj.by /\ step[a] = k /\ store[k] = Absent
      BY <1>1, <1>2, <2>2 DEF PutArrives, TypeOK, k
    <3>2. m.obj = Written(a)
      BY <1>1, <3>1 DEF WireIsCurrent, k
    <3>3. QED BY <1>2, <3>1, <3>2
  <2>3. QED BY <2>1, <2>2
<1>e. RunsHoldTheClaim'
  <2>1. \A r \in Runs : store["started"] = Plain(r) => store'["started"] = Plain(r)
    BY <1>2, <1>5, <1>6 DEF Actors
  <2>2. QED BY <1>3, <2>1 DEF ProtocolInv, RunsHoldTheClaim
<1>f. DraftsAreRecorded'
  <2>1. \A r \in Runs, s \in Streams : store[s] = Plain(r) => store'[s] = Plain(r)
    BY <1>2, <1>5, <1>6 DEF Actors, Streams
  <2>2. store["outcome"] # Absent => store'["outcome"] = store["outcome"]
    BY <1>2, <1>5
  <2>3. QED BY <1>3, <2>1, <2>2 DEF ProtocolInv, DraftsAreRecorded, Evidence, Streams
<1>g. SubmissionIsOrdered'
  BY <1>2, <1>3, <1>5, <1>6 DEF ProtocolInv, SubmissionIsOrdered, Plain, Actors
<1>9. QED BY <1>a, <1>b, <1>c, <1>d, <1>e, <1>f, <1>g DEF ProtocolInv

----------------------------------------------------------------------------
(* Types *)

LEMMA FlagsAreTyped ==
  ASSUME NEW o \in Objects, NEW f \in {"complete", "failed"}, NEW p \in {"complete", "incomplete"}
  PROVE  /\ [o EXCEPT !.stdout = f] \in Objects
         /\ [o EXCEPT !.stderr = f] \in Objects
         /\ [o EXCEPT !.publication = p] \in Objects
BY DEF Objects

StepsAreTyped == /\ mode \in [Actors -> {"local", "put", "get"}]
                 /\ step \in [Actors -> ClientSteps \cup RunSteps]
                 /\ step[Client] \in ClientSteps /\ \A q \in Runs : step[q] \in RunSteps

CallsAreTyped == /\ wire \subseteq [key : Keys, obj : Objects]
                 /\ reply \in [Actors -> {"none", "ok", "conflict"}]

LEMMA StageTypes ==
  ASSUME TypeOK, NEW r \in Runs, NEW s \in RunSteps, Stage(r, s)
  PROVE  StepsAreTyped'
<1>1. r \in Actors /\ r # Client
  BY ConstantsAssumption DEF Actors
<1>2. QED BY <1>1 DEF Stage, TypeOK, StepsAreTyped

LEMMA SendTypes ==
  ASSUME TypeOK, NEW r \in Runs, NEW k \in Keys \cap RunSteps, NEW o \in Objects, Send(r, k, o)
  PROVE  StepsAreTyped' /\ CallsAreTyped'
<1>1. r \in Actors /\ r # Client
  BY ConstantsAssumption DEF Actors
<1>2. QED BY <1>1 DEF Send, TypeOK, StepsAreTyped, CallsAreTyped

LEMMA StartUploadTypes ==
  ASSUME TypeOK, NEW r \in Runs, NEW s \in Streams, StartUpload(r, s)
  PROVE  StepsAreTyped' /\ CallsAreTyped'
<1>1. r \in Actors /\ r # Client /\ s \in Keys \cap RunSteps /\ Plain(r) \in Objects
  BY PlainIsObject, ConstantsAssumption DEF Actors, Streams, Keys, RunSteps
<1>2. CASE s \in readable[r]
  <2>1. Send(r, s, Plain(r))
    BY <1>2 DEF StartUpload
  <2>2. QED BY <1>1, <2>1, SendTypes
<1>3. CASE s \notin readable[r]
  <2>1. /\ step' = [step EXCEPT ![r] = s]
        /\ mode' = [mode EXCEPT ![r] = "get"]
        /\ UNCHANGED <<wire, reply>>
    BY <1>3 DEF StartUpload
  <2>2. CallsAreTyped'
    BY <2>1 DEF TypeOK, CallsAreTyped
  <2>3. QED BY <1>1, <2>1, <2>2 DEF TypeOK, StepsAreTyped
<1>4. QED BY <1>2, <1>3

LEMMA ClientTypes == TypeOK /\ ClientStep => TypeOK'
<1> SUFFICES ASSUME TypeOK, ClientStep
             PROVE  TypeOK'
  OBVIOUS
<1>0. Client \in Actors /\ Client \notin Runs /\ Plain(Client) \in Objects
  BY PlainIsObject, ConstantsAssumption DEF Actors
<1> USE <1>0 DEF TypeOK, Actors, ClientSteps, Keys, Streams, Stage, runVars, ssmVars, clientVars
<1>1. ASSUME NEW st \in {"none", "prepared", "submission_rejected", "submission_unknown", "submitted"},
             StopClient(st)
      PROVE  TypeOK'
  BY <1>1 DEF StopClient, FailOutcome
<1>2. CASE PreflightFails \/ RequestUnconfirmed \/ RecheckFails \/ AnnounceFails
  BY <1>1, <1>2 DEF PreflightFails, RequestUnconfirmed, RecheckFails, AnnounceFails
<1>3. CASE SendRejected \/ SendUncertain
  BY <1>1, <1>3 DEF SendRejected, SendUncertain
<1>4. CASE PublishRequest
  BY <1>4 DEF PublishRequest, Send
<1>5. CASE PublishAcknowledgement
  BY <1>5 DEF PublishAcknowledgement, Send
<1>6. CASE RequestPrepared
  BY <1>6 DEF RequestPrepared
<1>7. CASE SendCommand
  BY <1>7 DEF SendCommand
<1>8. CASE SendAcknowledged
  BY <1>8 DEF SendAcknowledged
<1>9. CASE AcknowledgementSettled
  BY <1>9 DEF AcknowledgementSettled
<1>10. CASE Reconcile(Client, "request") \/ Reconcile(Client, "acknowledgement")
  BY <1>10 DEF Reconcile
<1>11. QED
  BY <1>2, <1>3, <1>4, <1>5, <1>6, <1>7, <1>8, <1>9, <1>10 DEF ClientStep

LEMMA RunnerTypes ==
  ASSUME TypeOK, NEW r \in Runs, RunnerStep(r) \/ Deliver(r) \/ Crash(r)
  PROVE  TypeOK'
<1>0. r \in Actors /\ r # Client /\ Plain(r) \in Objects /\ draft[r] \in Objects
  BY PlainIsObject, ConstantsAssumption DEF Actors, TypeOK
<1> USE <1>0 DEF runVars, ssmVars, clientVars
<1>1. CASE Exit(r) \/ Deliver(r) \/ Crash(r) \/ ClaimConfirmed(r)
  <2>1. \E s \in RunSteps : Stage(r, s)
    BY <1>1 DEF Exit, Deliver, Crash, ClaimConfirmed, RunSteps
  <2>2. StepsAreTyped'
    BY <2>1, StageTypes
  <2>3. QED BY <1>1, <2>2 DEF Exit, Deliver, Crash, ClaimConfirmed, TypeOK, StepsAreTyped
<1>2. CASE Claim(r)
  BY <1>2, SendTypes DEF Claim, Keys, RunSteps, TypeOK, StepsAreTyped, CallsAreTyped
<1>3. CASE Execute(r)
  BY <1>3, StageTypes DEF Execute, RunSteps, TypeOK, StepsAreTyped
<1>4. CASE PublishOutcome(r)
  <2>1. PICK w \in Workloads, ok \in BOOLEAN, files \in SUBSET Streams, c \in ClockFaults :
          /\ draft' = [draft EXCEPT ![r] = Capture(r, w, ok, files, c)]
          /\ readable' = [readable EXCEPT ![r] = files]
          /\ IF c = "beforeSubmit"
             THEN Stage(r, "exited") /\ UNCHANGED <<wire, reply>>
             ELSE Send(r, "outcome", Capture(r, w, ok, files, c))
    BY <1>4 DEF PublishOutcome
  <2>2. Capture(r, w, ok, files, c) \in Objects
    BY CaptureIsObject, ConstantsAssumption
  <2>3. StepsAreTyped' /\ CallsAreTyped'
    BY <2>1, <2>2, StageTypes, SendTypes DEF Keys, RunSteps, TypeOK, CallsAreTyped
  <2>4. QED BY <1>4, <2>1, <2>2, <2>3 DEF PublishOutcome, TypeOK, StepsAreTyped, CallsAreTyped
<1>5. CASE UploadStdout(r)
  BY <1>5, StartUploadTypes DEF UploadStdout, Streams, TypeOK, StepsAreTyped, CallsAreTyped
<1>6. CASE UploadStderr(r)
  <2>1. PICK flag \in {"complete", "failed"} : draft' = [draft EXCEPT ![r].stdout = flag]
    BY <1>6 DEF UploadStderr, Upload
  <2>2. draft' \in [Runs -> Objects]
    BY <2>1, FlagsAreTyped DEF TypeOK
  <2>3. QED BY <1>6, <2>2, StartUploadTypes DEF UploadStderr, Streams, TypeOK, StepsAreTyped, CallsAreTyped
<1>7. CASE PublishResult(r)
  <2>1. PICK flag \in {"complete", "failed"} :
          LET d == [draft[r] EXCEPT !.stderr = flag]
              final == [d EXCEPT !.publication = Publication(d)]
          IN /\ draft' = [draft EXCEPT ![r] = final]
             /\ IF d.clock = "beforeFinish"
                THEN Stage(r, "exited") /\ UNCHANGED <<wire, reply>>
                ELSE Send(r, "result", final)
    BY <1>7 DEF PublishResult, Upload
  <2> DEFINE d == [draft[r] EXCEPT !.stderr = flag]
             final == [d EXCEPT !.publication = Publication(d)]
  <2>2. d \in Objects /\ Publication(d) \in {"complete", "incomplete"}
    BY FlagsAreTyped DEF Publication
  <2>3. final \in Objects
    BY <2>2, FlagsAreTyped
  <2>4. /\ draft' = [draft EXCEPT ![r] = final]
        /\ \/ Stage(r, "exited") /\ UNCHANGED <<wire, reply>>
           \/ Send(r, "result", final)
    BY <2>1
  <2> HIDE DEF final
  <2>5. StepsAreTyped' /\ CallsAreTyped'
    BY <2>3, <2>4, StageTypes, SendTypes DEF Keys, RunSteps, TypeOK, CallsAreTyped
  <2>6. QED BY <1>7, <2>3, <2>4, <2>5 DEF PublishResult, TypeOK, StepsAreTyped, CallsAreTyped
<1>8. CASE \E k \in {"outcome", "result"} \cup Streams : Reconcile(r, k)
  BY <1>8 DEF Reconcile, TypeOK
<1>9. QED
  BY <1>1, <1>2, <1>3, <1>4, <1>5, <1>6, <1>7, <1>8
  DEF RunnerStep, PreparationFails, ClaimUnconfirmed, PreparationExpires, OutcomeUnconfirmed, ResultSettled

LEMMA TypeStep == TypeOK /\ [Next]_vars => TypeOK'
<1> SUFFICES ASSUME TypeOK, [Next]_vars
             PROVE  TypeOK'
  OBVIOUS
<1>1. ASSUME NEW m \in wire, PutArrives(m)
      PROVE  TypeOK'
  <2>1. store' \in [Keys -> Objects \cup {Absent}] /\ wire' \subseteq wire
    BY <1>1, PutArrivesFills
  <2>2. reply' \in [Actors -> {"none", "ok", "conflict"}]
    BY <1>1 DEF PutArrives, TypeOK
  <2>3. UNCHANGED <<mode, step, runVars, ssmVars, clientVars>>
    BY <1>1 DEF PutArrives
  <2>4. QED BY <2>1, <2>2, <2>3 DEF TypeOK, runVars, ssmVars, clientVars
<1>2. CASE ClientContextEnds \/ SSMDecides
  BY <1>2 DEF ClientContextEnds, SSMDecides, TypeOK, runVars, ssmVars, clientVars
<1>3. CASE ClientDies
  BY <1>3, ConstantsAssumption DEF ClientDies, Stage, TypeOK, Actors, ClientSteps, runVars, ssmVars, clientVars
<1>4. CASE UNCHANGED vars
  BY <1>4 DEF vars, TypeOK
<1>5. QED
  BY <1>1, <1>2, <1>3, <1>4, ClientTypes, RunnerTypes DEF Next

\* Every variable keeps its type: the invariant TypeOK of the runs, for any
\* number of runner processes and any SSM deliveries of Run and Submit.
THEOREM TypeCorrect == Spec => []TypeOK
<1>1. Init => TypeOK
  BY InitIsGood DEF ProtocolInv
<1>2. QED BY <1>1, TypeStep, PTL DEF Spec

----------------------------------------------------------------------------
(* What the shapes of step preserve *)

\* No draft changes, and no run enters a stage that a draft is compared at.
LEMMA DraftsUntouched ==
  ASSUME DraftsAreRecorded, store' = store, draft' = draft,
         \A q \in Runs : step'[q] \in {"stdout", "stderr", "result"} => step'[q] = step[q]
  PROVE  DraftsAreRecorded'
<1> SUFFICES ASSUME NEW q \in Runs
             PROVE  /\ draft[q].by = q
                    /\ step'[q] \in {"stdout", "stderr", "result"} =>
                         store["outcome"] # Absent /\ Evidence(store["outcome"]) = Evidence(draft[q])
                    /\ draft[q].stdout = "complete" => store["stdout"] = Plain(q)
                    /\ draft[q].stderr = "complete" => store["stderr"] = Plain(q)
  BY DEF DraftsAreRecorded, Evidence, Plain
<1> QED BY DEF DraftsAreRecorded

\* Only run r's step or draft changes, and what its draft says is recorded.
LEMMA DraftsKept ==
  ASSUME DraftsAreRecorded, NEW r \in Runs, store' = store,
         \A q \in Runs : q # r => step'[q] = step[q] /\ draft'[q] = draft[q],
         draft'[r].by = r,
         step'[r] \in {"stdout", "stderr", "result"} =>
           store["outcome"] # Absent /\ Evidence(store["outcome"]) = Evidence(draft'[r]),
         draft'[r].stdout = "complete" => store["stdout"] = Plain(r),
         draft'[r].stderr = "complete" => store["stderr"] = Plain(r)
  PROVE  DraftsAreRecorded'
<1> DEFINE Good(q, st, dr) ==
      /\ dr.by = q
      /\ st \in {"stdout", "stderr", "result"} =>
           store["outcome"] # Absent /\ Evidence(store["outcome"]) = Evidence(dr)
      /\ dr.stdout = "complete" => store["stdout"] = Plain(q)
      /\ dr.stderr = "complete" => store["stderr"] = Plain(q)
<1>1. ASSUME NEW q \in Runs
      PROVE  Good(q, step'[q], draft'[q])
  <2>1. CASE q = r
    BY <2>1
  <2>2. CASE q # r
    <3>1. Good(q, step[q], draft[q])
      BY DEF DraftsAreRecorded
    <3>2. step'[q] = step[q] /\ draft'[q] = draft[q]
      BY <2>2
    <3>3. QED BY <3>1, <3>2
  <2>3. QED BY <2>1, <2>2
<1> HIDE DEF Good
<1>2. DraftsAreRecorded' <=> \A q \in Runs : Good(q, step'[q], draft'[q])
  BY DEF DraftsAreRecorded, Good, Evidence, Plain
<1>3. QED BY <1>1, <1>2

\* Actor a moves to a stage without a PUT of its own.
LEMMA StageKeeps ==
  ASSUME ProtocolInv, NEW a \in Actors, NEW s, s \notin Keys, Stage(a, s),
         step[a] \in AfterOutcome => s \in {"exited", "crashed"},
         UNCHANGED <<store, wire, reply>>, executed \subseteq executed',
         \A r \in Runs : r # a => draft'[r] = draft[r]
  PROVE  /\ ObjectsAreGenuine' /\ WireIsCurrent' /\ RepliesAreTrue'
         /\ UNCHANGED draft => DraftsAreRecorded'
<1>1. TypeOK /\ step'[a] = s /\ mode'[a] = "local"
      /\ \A b \in Actors : b # a => step'[b] = step[b] /\ mode'[b] = mode[b]
  BY DEF ProtocolInv, TypeOK, Stage
<1>2. \A b \in Actors : b # a => Written(b)' = Written(b)
  BY <1>1, ConstantsAssumption DEF Written, Plain, Actors
<1>3. \A m \in wire : m.key \in Keys /\ m.obj.by \in Actors
  BY <1>1 DEF TypeOK, Objects
<1>4. ObjectsAreGenuine'
  <2>1. \A k \in Keys, o \in Objects : Genuine(k, o) => Genuine(k, o)'
    BY DEF Genuine, Backed, Plain, Evidence
  <2>2. QED BY <1>1, <2>1 DEF ProtocolInv, ObjectsAreGenuine, TypeOK
<1>5. WireIsCurrent'
  <2> SUFFICES ASSUME NEW m \in wire
               PROVE  /\ m.key = "outcome" => step'[m.obj.by] \in AfterOutcome
                      /\ m.key = "result" => step'[m.obj.by] \in {"result", "exited", "crashed"}
                      /\ step'[m.obj.by] = m.key => m.obj = Written(m.obj.by)'
    BY DEF WireIsCurrent, AfterOutcome
  <2>1. CASE m.obj.by = a
    BY <1>1, <1>3, <2>1 DEF ProtocolInv, WireIsCurrent, AfterOutcome
  <2>2. CASE m.obj.by # a
    BY <1>1, <1>2, <1>3, <2>2 DEF ProtocolInv, WireIsCurrent, AfterOutcome
  <2>3. QED BY <2>1, <2>2
<1>6. RepliesAreTrue'
  BY <1>1, <1>2 DEF ProtocolInv, RepliesAreTrue
<1>7. UNCHANGED draft => DraftsAreRecorded'
  <2>1. \A q \in Runs : step'[q] \in {"stdout", "stderr", "result"} => step'[q] = step[q]
    BY <1>1 DEF Actors, Keys, Streams
  <2>2. QED BY <2>1, DraftsUntouched DEF ProtocolInv
<1>8. QED BY <1>4, <1>5, <1>6, <1>7

\* Actor a enters stage k by sending the one PUT of that stage.
LEMMA SendKeeps ==
  ASSUME ProtocolInv, NEW a \in Actors, NEW k \in Keys, NEW o \in Objects, Send(a, k, o),
         Genuine(k, o), o.by = a, o = Written(a)',
         \A m \in wire : m.obj.by = a /\ m.key = k => m.obj = o,
         step[a] \in AfterOutcome => k \in AfterOutcome,
         step[a] \notin {"result", "exited", "crashed"},
         UNCHANGED <<store, executed>>,
         \A r \in Runs : r # a => draft'[r] = draft[r]
  PROVE  ObjectsAreGenuine' /\ WireIsCurrent' /\ RepliesAreTrue'
<1>1. TypeOK /\ step'[a] = k /\ reply'[a] = "none" /\ wire' = wire \cup {[key |-> k, obj |-> o]}
      /\ \A b \in Actors : b # a => step'[b] = step[b] /\ mode'[b] = mode[b] /\ reply'[b] = reply[b]
  BY DEF ProtocolInv, TypeOK, Send
<1>2. \A b \in Actors : b # a => Written(b)' = Written(b)
  BY <1>1, ConstantsAssumption DEF Written, Plain, Actors
<1>3. \A m \in wire : m.key \in Keys /\ m.obj.by \in Actors /\ m.obj \in Objects
  BY <1>1 DEF TypeOK, Objects
<1>4. ObjectsAreGenuine'
  <2>1. \A j \in Keys, p \in Objects : Genuine(j, p) => Genuine(j, p)'
    BY DEF Genuine, Backed, Plain, Evidence
  <2>2. \A m \in wire' : Genuine(m.key, m.obj)'
    BY <1>1, <1>3, <2>1 DEF ProtocolInv, ObjectsAreGenuine
  <2>3. \A j \in Keys : store'[j] # Absent => Genuine(j, store[j])'
    BY <1>1, <2>1 DEF ProtocolInv, ObjectsAreGenuine, TypeOK
  <2>4. QED BY <2>2, <2>3 DEF ObjectsAreGenuine
<1>5. WireIsCurrent'
  <2> SUFFICES ASSUME NEW m \in wire'
               PROVE  /\ m.key = "outcome" => step'[m.obj.by] \in AfterOutcome
                      /\ m.key = "result" => step'[m.obj.by] \in {"result", "exited", "crashed"}
                      /\ step'[m.obj.by] = m.key => m.obj = Written(m.obj.by)'
    BY DEF WireIsCurrent, AfterOutcome
  <2>1. CASE m = [key |-> k, obj |-> o]
    BY <1>1, <2>1 DEF AfterOutcome
  <2>2. CASE m \in wire /\ m.obj.by # a
    BY <1>1, <1>2, <1>3, <2>2 DEF ProtocolInv, WireIsCurrent, AfterOutcome
  <2>3. CASE m \in wire /\ m.obj.by = a
    <3>1. m.key # "result"
      BY <2>3 DEF ProtocolInv, WireIsCurrent
    <3>2. m.key = "outcome" => k \in AfterOutcome
      BY <2>3 DEF ProtocolInv, WireIsCurrent, AfterOutcome
    <3>3. QED BY <1>1, <2>3, <3>1, <3>2
  <2>4. QED BY <1>1, <2>1, <2>2, <2>3
<1>6. RepliesAreTrue'
  BY <1>1, <1>2 DEF ProtocolInv, RepliesAreTrue
<1>7. QED BY <1>4, <1>5, <1>6

\* An uncertain PUT is read back.
LEMMA ReconcileKeeps ==
  ASSUME ProtocolInv, NEW a \in Actors, NEW k \in Keys, Reconcile(a, k)
  PROVE  ObjectsAreGenuine' /\ WireIsCurrent' /\ RepliesAreTrue' /\ RunsHoldTheClaim'
         /\ DraftsAreRecorded' /\ SubmissionIsOrdered'
<1>1. /\ UNCHANGED <<store, wire, reply, step, draft, executed, send, heard, sends, state>>
      /\ mode'[a] = "get" /\ \A b \in Actors : b # a => mode'[b] = mode[b]
  BY DEF Reconcile, ProtocolInv, TypeOK, runVars, ssmVars, clientVars
<1>2. ObjectsAreGenuine' /\ WireIsCurrent'
  BY <1>1 DEF ProtocolInv, ObjectsAreGenuine, WireIsCurrent, Genuine, Backed, Written, Plain, Evidence
<1>3. RepliesAreTrue'
  BY <1>1 DEF ProtocolInv, RepliesAreTrue, Written, Plain
<1>4. RunsHoldTheClaim' /\ DraftsAreRecorded' /\ SubmissionIsOrdered'
  BY <1>1 DEF ProtocolInv, RunsHoldTheClaim, DraftsAreRecorded, SubmissionIsOrdered, Plain, Evidence
<1>5. QED BY <1>2, <1>3, <1>4

----------------------------------------------------------------------------
(* Each action preserves the invariant *)

LEMMA ClientFacts ==
  ASSUME ProtocolInv
  PROVE  /\ Client \in Actors /\ Client \notin Runs
         /\ step[Client] \notin AfterOutcome /\ step \in [Actors -> ClientSteps \cup RunSteps]
         /\ Plain(Client) \in Objects /\ Plain(Client).by = Client
         /\ \A r \in Runs : r # Client /\ r \in Actors
BY PlainIsObject, ConstantsAssumption DEF ProtocolInv, TypeOK, Actors, ClientSteps, AfterOutcome

\* The client moves on without a PUT: only what its stage and state say of SSM
\* is at stake.
LEMMA ClientStageKeeps ==
  ASSUME ProtocolInv, NEW s \in ClientSteps \ Keys, Stage(Client, s),
         UNCHANGED <<store, wire, reply, runVars>>
  PROVE  /\ ObjectsAreGenuine' /\ WireIsCurrent' /\ RepliesAreTrue' /\ DraftsAreRecorded'
         /\ step'[Client] = s /\ \A r \in Runs : step'[r] = step[r]
<1>1. step'[Client] = s /\ \A r \in Runs : step'[r] = step[r]
  BY ClientFacts DEF Stage
<1>2. QED BY <1>1, ClientFacts, StageKeeps DEF runVars

LEMMA ClientKeeps ==
  ASSUME ProtocolInv, ClientStep \/ ClientDies, TypeOK'
  PROVE  ProtocolInv'
<1> USE DEF ssmVars, clientVars
<1>0. RunsHoldTheClaim /\ SubmissionIsOrdered /\ TypeOK /\ RepliesAreTrue
  BY DEF ProtocolInv
<1>1. ASSUME NEW st, StopClient(st),
             st \in {"none", "prepared"} => send = "unsent",
             st = "submission_rejected" => send = "rejected"
      PROVE  ProtocolInv'
  <2>1. Stage(Client, "stopped") /\ UNCHANGED <<store, wire, reply, runVars, ssmVars>> /\ state' = st
    BY <1>1 DEF StopClient
  <2>2. /\ ObjectsAreGenuine' /\ WireIsCurrent' /\ RepliesAreTrue' /\ DraftsAreRecorded'
        /\ step'[Client] = "stopped" /\ \A r \in Runs : step'[r] = step[r]
    BY <2>1, ClientStageKeeps DEF ClientSteps, Keys, Streams
  <2>3. RunsHoldTheClaim' /\ SubmissionIsOrdered'
    BY <1>0, <1>1, <2>1, <2>2 DEF RunsHoldTheClaim, SubmissionIsOrdered, Plain, runVars
  <2>4. QED BY <2>2, <2>3 DEF ProtocolInv
<1>2. CASE PreflightFails \/ RequestUnconfirmed \/ RecheckFails
  <2>1. send = "unsent" /\ state \in {"none", "prepared"} /\ StopClient(state)
    BY <1>0, <1>2 DEF PreflightFails, RequestUnconfirmed, RecheckFails, Unconfirmed, SubmissionIsOrdered
  <2>2. QED BY <1>1, <2>1
<1>3. CASE AnnounceFails
  <2>1. state = "submitted" /\ StopClient(state)
    BY <1>0, <1>3 DEF AnnounceFails, SubmissionIsOrdered
  <2>2. QED BY <1>1, <2>1
<1>4. CASE SendRejected
  BY <1>0, <1>1, <1>4 DEF SendRejected, SubmissionIsOrdered
<1>5. CASE SendUncertain
  BY <1>1, <1>5 DEF SendUncertain
<1>6. CASE PublishRequest \/ PublishAcknowledgement
  <2>1. PICK k \in {"request", "acknowledgement"} :
          /\ Send(Client, k, Plain(Client))
          /\ k = "request" => step[Client] = "idle"
          /\ k = "acknowledgement" => step[Client] = "announce"
    BY <1>6 DEF PublishRequest, PublishAcknowledgement
  <2>2. UNCHANGED <<store, runVars, ssmVars, clientVars>> /\ k \in Keys
    BY <1>6 DEF PublishRequest, PublishAcknowledgement, Keys
  <2>3. Genuine(k, Plain(Client)) /\ Plain(Client) = Written(Client)'
    BY DEF Genuine, Written, Plain
  <2>4. \A m \in wire : m.obj.by = Client /\ m.key = k => m.obj = Plain(Client)
    BY DEF ProtocolInv, ObjectsAreGenuine, Genuine
  <2>5. ObjectsAreGenuine' /\ WireIsCurrent' /\ RepliesAreTrue'
    BY <2>1, <2>2, <2>3, <2>4, ClientFacts, SendKeeps DEF AfterOutcome, runVars
  <2>6. step'[Client] = k /\ \A r \in Runs : step'[r] = step[r]
    BY <2>1, ClientFacts DEF Send
  <2>7. RunsHoldTheClaim' /\ DraftsAreRecorded' /\ SubmissionIsOrdered'
    BY <1>0, <2>1, <2>2, <2>6 DEF ProtocolInv, RunsHoldTheClaim, DraftsAreRecorded, SubmissionIsOrdered, Plain, Evidence, runVars
  <2>8. QED BY <2>5, <2>7 DEF ProtocolInv
<1>7. CASE RequestPrepared
  <2>1. Stage(Client, "prepared") /\ UNCHANGED <<store, wire, reply, runVars, ssmVars>> /\ step[Client] = "request"
        /\ state' = "prepared"
    BY <1>7 DEF RequestPrepared, Confirmed
  <2>2. /\ ObjectsAreGenuine' /\ WireIsCurrent' /\ RepliesAreTrue' /\ DraftsAreRecorded'
        /\ step'[Client] = "prepared" /\ \A r \in Runs : step'[r] = step[r]
    BY <2>1, ClientStageKeeps DEF ClientSteps, Keys, Streams
  <2>3. store["request"] = Plain(Client)
    BY <1>0, <1>7, ClientFacts DEF RequestPrepared, Confirmed, RepliesAreTrue, Written
  <2>4. RunsHoldTheClaim' /\ SubmissionIsOrdered'
    BY <1>0, <2>1, <2>2, <2>3 DEF RunsHoldTheClaim, SubmissionIsOrdered, Plain, runVars
  <2>5. QED BY <2>2, <2>4 DEF ProtocolInv
<1>8. CASE SendCommand
  <2>1. Stage(Client, "sending") /\ UNCHANGED <<store, wire, reply, runVars, heard, clientVars>>
        /\ step[Client] = "prepared" /\ send' = "wire" /\ sends' = sends + 1
    BY <1>8 DEF SendCommand
  <2>2. /\ ObjectsAreGenuine' /\ WireIsCurrent' /\ RepliesAreTrue' /\ DraftsAreRecorded'
        /\ step'[Client] = "sending" /\ \A r \in Runs : step'[r] = step[r]
    BY <2>1, ClientStageKeeps DEF ClientSteps, Keys, Streams
  <2>3. send = "unsent" /\ sends = 0 /\ heard = "none" /\ store["request"] = Plain(Client)
    BY <1>0, <2>1 DEF SubmissionIsOrdered
  <2>4. RunsHoldTheClaim' /\ SubmissionIsOrdered'
    BY <1>0, <2>1, <2>2, <2>3 DEF RunsHoldTheClaim, SubmissionIsOrdered, Plain, runVars
  <2>5. QED BY <2>2, <2>4 DEF ProtocolInv
<1>9. CASE SendAcknowledged
  <2>1. Stage(Client, "announce") /\ UNCHANGED <<store, wire, reply, runVars, ssmVars>> /\ state' = "submitted"
    BY <1>9 DEF SendAcknowledged
  <2>2. /\ ObjectsAreGenuine' /\ WireIsCurrent' /\ RepliesAreTrue' /\ DraftsAreRecorded'
        /\ step'[Client] = "announce" /\ \A r \in Runs : step'[r] = step[r]
    BY <2>1, ClientStageKeeps DEF ClientSteps, Keys, Streams
  <2>3. RunsHoldTheClaim' /\ SubmissionIsOrdered'
    BY <1>0, <2>1, <2>2 DEF RunsHoldTheClaim, SubmissionIsOrdered, Plain, runVars
  <2>4. QED BY <2>2, <2>3 DEF ProtocolInv
<1>10. CASE AcknowledgementSettled \/ ClientDies
  <2>1. PICK s \in {"observing", "dead"} : Stage(Client, s) /\ (s = "observing" => step[Client] = "acknowledgement")
    BY <1>10 DEF AcknowledgementSettled, ClientDies, Confirmed, Unconfirmed
  <2>2. UNCHANGED <<store, wire, reply, runVars, ssmVars, clientVars>>
    BY <1>10 DEF AcknowledgementSettled, ClientDies
  <2>3. /\ ObjectsAreGenuine' /\ WireIsCurrent' /\ RepliesAreTrue' /\ DraftsAreRecorded'
        /\ step'[Client] = s /\ \A r \in Runs : step'[r] = step[r]
    BY <2>1, <2>2, ClientStageKeeps DEF ClientSteps, Keys, Streams
  <2>4. RunsHoldTheClaim' /\ SubmissionIsOrdered'
    BY <1>0, <2>1, <2>2, <2>3 DEF RunsHoldTheClaim, SubmissionIsOrdered, Plain, runVars
  <2>5. QED BY <2>3, <2>4 DEF ProtocolInv
<1>11. CASE Reconcile(Client, "request") \/ Reconcile(Client, "acknowledgement")
  BY <1>11, ClientFacts, ReconcileKeeps DEF ProtocolInv, Keys
<1>12. QED
  BY <1>2, <1>3, <1>4, <1>5, <1>6, <1>7, <1>8, <1>9, <1>10, <1>11 DEF ClientStep

LEMMA RunFacts ==
  ASSUME ProtocolInv, NEW r \in Runs
  PROVE  /\ r \in Actors /\ r # Client
         /\ Plain(r) \in Objects /\ Plain(r).by = r /\ draft[r] \in Objects /\ draft[r].by = r
         /\ step \in [Actors -> ClientSteps \cup RunSteps]
         /\ draft \in [Runs -> Objects]
BY PlainIsObject, ConstantsAssumption DEF ProtocolInv, TypeOK, Actors, DraftsAreRecorded

\* A delivered run has a durable request behind it.
LEMMA RequestIsThere ==
  ASSUME ProtocolInv, NEW r \in Runs, step[r] # "undelivered"
  PROVE  store["request"] # Absent
<1>1. store["request"] = Plain(Client)
  BY DEF ProtocolInv, RunsHoldTheClaim, SubmissionIsOrdered
<1>2. QED BY <1>1, ClientFacts, ConstantsAssumption

\* Nothing a runner does changes what the client knows of its submission.
LEMMA RunnerKeepsSubmission ==
  ASSUME ProtocolInv, UNCHANGED <<store, send, heard, sends, state>>, step'[Client] = step[Client]
  PROVE  SubmissionIsOrdered'
BY DEF ProtocolInv, SubmissionIsOrdered, Plain

\* A run that claimed nothing new, executed nothing new and was delivered.
LEMMA RunnerKeepsClaim ==
  ASSUME ProtocolInv, NEW r \in Runs, UNCHANGED <<store, executed, send>>,
         \A q \in Runs : q # r => step'[q] = step[q],
         step'[r] \notin {"undelivered", "claimed"},
         step'[r] \in {"running", "outcome", "stdout", "stderr", "result"} => r \in executed,
         send = "accepted"
  PROVE  RunsHoldTheClaim'
BY DEF ProtocolInv, RunsHoldTheClaim, Plain

\* A run ends, or moves on without a PUT and without executing.
LEMMA RunStageKeeps ==
  ASSUME ProtocolInv, TypeOK', NEW r \in Runs, NEW s \in RunSteps \ Keys, Stage(r, s),
         UNCHANGED <<store, wire, reply, runVars, send, heard, sends, clientVars>>,
         s \in {"prepare", "claimed", "exited", "crashed"}, send = "accepted",
         s = "claimed" => store["started"] = Plain(r),
         s \in {"exited", "crashed"} \/ step[r] \notin AfterOutcome
  PROVE  ProtocolInv'
<1>1. step'[r] = s /\ \A b \in Actors : b # r => step'[b] = step[b]
  BY RunFacts DEF Stage
<1>2. ObjectsAreGenuine' /\ WireIsCurrent' /\ RepliesAreTrue' /\ DraftsAreRecorded'
  BY RunFacts, StageKeeps DEF runVars
<1>3. RunsHoldTheClaim'
  <2>1. UNCHANGED <<store, executed, send>> /\ Runs \subseteq Actors
    BY RunFacts DEF runVars
  <2>2. RunsHoldTheClaim /\ r \in Runs
    BY DEF ProtocolInv
  <2>3. s \notin {"undelivered", "running", "outcome", "stdout", "stderr", "result"}
    OBVIOUS
  <2> SUFFICES ASSUME NEW q \in Runs
               PROVE  /\ q \in executed => store["started"] = Plain(q)
                      /\ step'[q] = "claimed" => store["started"] = Plain(q)
                      /\ step'[q] \in {"running", "outcome", "stdout", "stderr", "result"} => q \in executed
                      /\ step'[q] # "undelivered" => send = "accepted"
                      /\ q \in executed => step'[q] # "undelivered"
    BY <2>1 DEF RunsHoldTheClaim, Plain
  <2>4. CASE q = r
    BY <1>1, <2>2, <2>3, <2>4 DEF RunsHoldTheClaim
  <2>5. CASE q # r
    BY <1>1, <2>1, <2>2, <2>5 DEF RunsHoldTheClaim
  <2>6. QED BY <2>4, <2>5
<1>4. SubmissionIsOrdered'
  <2>1. Client \in Actors /\ Client # r
    BY ClientFacts, RunFacts
  <2>2. step'[Client] = step[Client] /\ UNCHANGED <<store, send, heard, sends, state>>
    BY <1>1, <2>1 DEF clientVars
  <2>3. QED BY <2>2, RunnerKeepsSubmission
<1>5. QED BY <1>2, <1>3, <1>4 DEF ProtocolInv

\* Once the outcome is durable and agrees with the draft, an upload begins.
LEMMA StartUploadKeeps ==
  ASSUME ProtocolInv, NEW r \in Runs, NEW s \in Streams, StartUpload(r, s),
         step[r] \in {"outcome", "stdout"},
         UNCHANGED <<store, executed, ssmVars, clientVars>>,
         draft' \in [Runs -> Objects], draft'[r].by = r,
         \A q \in Runs : q # r => draft'[q] = draft[q],
         store["outcome"] # Absent /\ Evidence(store["outcome"]) = Evidence(draft'[r]),
         draft'[r].stdout = "complete" => store["stdout"] = Plain(r),
         draft'[r].stderr = "complete" => store["stderr"] = Plain(r),
         TypeOK'
  PROVE  ProtocolInv'
<1>0. s \in Keys /\ r \in executed /\ send = "accepted" /\ s \in {"stdout", "stderr"}
  BY DEF Keys, Streams, ProtocolInv, RunsHoldTheClaim
<1>1. step'[r] = s /\ \A b \in Actors : b # r => step'[b] = step[b]
  BY RunFacts DEF StartUpload, Send
<1>2. ASSUME s \in readable[r]
      PROVE  ObjectsAreGenuine' /\ WireIsCurrent' /\ RepliesAreTrue'
  <2>1. Send(r, s, Plain(r))
    BY <1>2 DEF StartUpload
  <2>2. Genuine(s, Plain(r)) /\ Plain(r) = Written(r)'
    BY <1>0, <1>1, RunFacts, RequestIsThere DEF Genuine, Written, Plain, Streams
  <2>3. \A m \in wire : m.obj.by = r /\ m.key = s => m.obj = Plain(r)
    BY <1>0 DEF ProtocolInv, ObjectsAreGenuine, Genuine, Streams
  <2>4. s \in AfterOutcome /\ step[r] \notin {"result", "exited", "crashed"}
    BY <1>0 DEF AfterOutcome
  <2>5. QED BY <1>0, <2>1, <2>2, <2>3, <2>4, RunFacts, SendKeeps
<1>3. ASSUME s \notin readable[r]
      PROVE  ObjectsAreGenuine' /\ WireIsCurrent' /\ RepliesAreTrue'
  <2>1. /\ mode'[r] = "get" /\ \A b \in Actors : b # r => mode'[b] = mode[b]
        /\ UNCHANGED <<wire, reply>>
    BY <1>3, RunFacts DEF StartUpload, ProtocolInv, TypeOK
  <2>2. \A b \in Actors : b # r => Written(b)' = Written(b)
    BY <1>1, ConstantsAssumption DEF Written, Plain, Actors
  <2>3. ObjectsAreGenuine'
    BY <2>1 DEF ProtocolInv, ObjectsAreGenuine, Genuine, Backed, Plain, Evidence
  <2>4. WireIsCurrent'
    <3> SUFFICES ASSUME NEW m \in wire
                 PROVE  /\ m.key = "outcome" => step'[m.obj.by] \in AfterOutcome
                        /\ m.key = "result" => step'[m.obj.by] \in {"result", "exited", "crashed"}
                        /\ step'[m.obj.by] = m.key => m.obj = Written(m.obj.by)'
      BY <2>1 DEF WireIsCurrent, AfterOutcome
    <3>1. m.obj.by \in Actors /\ m.key \in Keys /\ Genuine(m.key, m.obj)
      BY DEF ProtocolInv, TypeOK, Objects, ObjectsAreGenuine
    <3>2. CASE m.obj.by # r
      BY <1>1, <2>2, <3>1, <3>2 DEF ProtocolInv, WireIsCurrent, AfterOutcome
    <3>3. CASE m.obj.by = r
      <4>1. m.key # "result"
        BY <3>3 DEF ProtocolInv, WireIsCurrent
      <4>2. m.key = s => m.obj = Plain(r) /\ Written(r)' = Plain(r)
        BY <1>0, <1>1, <3>1, <3>3 DEF Genuine, Written, Plain, Streams
      <4>3. QED BY <1>0, <1>1, <3>3, <4>1, <4>2 DEF AfterOutcome
    <3>4. QED BY <3>2, <3>3
  <2>5. RepliesAreTrue'
    BY <1>1, <2>1, <2>2 DEF ProtocolInv, RepliesAreTrue
  <2>6. QED BY <2>3, <2>4, <2>5
<1>4. DraftsAreRecorded'
  <2>1. ASSUME NEW q \in Runs, q # r
        PROVE  step'[q] = step[q] /\ draft'[q] = draft[q]
    BY <1>1, <2>1, RunFacts
  <2>2. step'[r] \in {"stdout", "stderr", "result"} =>
          store["outcome"] # Absent /\ Evidence(store["outcome"]) = Evidence(draft'[r])
    OBVIOUS
  <2>3. DraftsAreRecorded /\ store' = store
    BY DEF ProtocolInv
  <2>4. QED BY <2>1, <2>2, <2>3, DraftsKept
<1>5. RunsHoldTheClaim' /\ SubmissionIsOrdered'
  BY <1>0, <1>1, RunFacts, ClientFacts, RunnerKeepsClaim, RunnerKeepsSubmission DEF ssmVars, clientVars
<1>6. QED BY <1>2, <1>3, <1>4, <1>5 DEF ProtocolInv

LEMMA RunnerKeeps ==
  ASSUME ProtocolInv, TypeOK', NEW r \in Runs, RunnerStep(r) \/ Deliver(r) \/ Crash(r)
  PROVE  ProtocolInv'
<1> USE DEF ssmVars, clientVars
<1>0. TypeOK /\ RepliesAreTrue /\ RunsHoldTheClaim /\ DraftsAreRecorded
  BY DEF ProtocolInv
<1>a. step[r] # "undelivered" => send = "accepted"
  BY <1>0 DEF RunsHoldTheClaim
<1>b. \A k \in Keys \ {"request", "acknowledgement"} : Confirmed(r, k) => store[k] = Written(r)
  BY <1>0, RunFacts DEF Confirmed, RepliesAreTrue
<1>1. CASE Deliver(r)
  BY <1>1, RunStageKeeps DEF Deliver, RunSteps, Keys, Streams, AfterOutcome
<1>2. ASSUME Exit(r), step[r] # "undelivered"
      PROVE  ProtocolInv'
  BY <1>a, <1>2, RunStageKeeps DEF Exit, RunSteps, Keys, Streams
<1>3. CASE Crash(r)
  BY <1>a, <1>3, RunStageKeeps DEF Crash, RunSteps, Keys, Streams
<1>4. CASE PreparationFails(r) \/ ClaimUnconfirmed(r) \/ PreparationExpires(r)
           \/ OutcomeUnconfirmed(r) \/ ResultSettled(r)
  BY <1>2, <1>4 DEF PreparationFails, ClaimUnconfirmed, PreparationExpires, OutcomeUnconfirmed,
                    ResultSettled, Uncertain, Confirmed, Unconfirmed
<1>5. CASE Claim(r)
  <2>1. Send(r, "started", Plain(r)) /\ UNCHANGED <<store, runVars, ssmVars, clientVars>>
        /\ step[r] = "prepare" /\ "started" \in Keys
    BY <1>5 DEF Claim, Keys
  <2>2. Genuine("started", Plain(r)) /\ Plain(r) = Written(r)'
    BY <2>1, RunFacts, RequestIsThere DEF Genuine, Written, Plain, Send, Streams
  <2>3. \A m \in wire : m.obj.by = r /\ m.key = "started" => m.obj = Plain(r)
    BY DEF ProtocolInv, ObjectsAreGenuine, Genuine
  <2>4. ObjectsAreGenuine' /\ WireIsCurrent' /\ RepliesAreTrue'
    BY <2>1, <2>2, <2>3, RunFacts, SendKeeps DEF AfterOutcome, runVars
  <2>5. step'[r] = "started" /\ \A b \in Actors : b # r => step'[b] = step[b]
    BY <2>1, RunFacts DEF Send
  <2>6. RunsHoldTheClaim' /\ SubmissionIsOrdered'
    BY <1>a, <2>1, <2>5, RunFacts, ClientFacts, RunnerKeepsClaim, RunnerKeepsSubmission DEF runVars
  <2>7. DraftsAreRecorded'
    BY <1>0, <2>1, <2>5, RunFacts DEF DraftsAreRecorded, Plain, Evidence, runVars
  <2>8. QED BY <2>4, <2>6, <2>7 DEF ProtocolInv
<1>6. CASE ClaimConfirmed(r)
  <2>1. store["started"] = Plain(r)
    BY <1>0, <1>6, RunFacts DEF ClaimConfirmed, RepliesAreTrue, Written
  <2>2. QED BY <1>a, <1>6, <2>1, RunStageKeeps DEF ClaimConfirmed, RunSteps, Keys, Streams, AfterOutcome
<1>7. CASE Execute(r)
  <2>1. /\ Stage(r, "running") /\ executed' = executed \cup {r} /\ step[r] = "claimed"
        /\ UNCHANGED <<store, wire, reply, draft, readable, ssmVars, clientVars>>
    BY <1>7 DEF Execute
  <2>2. step'[r] = "running" /\ \A b \in Actors : b # r => step'[b] = step[b]
    BY <2>1, RunFacts DEF Stage
  <2>3. ObjectsAreGenuine' /\ WireIsCurrent' /\ RepliesAreTrue' /\ DraftsAreRecorded'
    BY <2>1, RunFacts, StageKeeps DEF AfterOutcome, Keys, Streams
  <2>4. RunsHoldTheClaim'
    BY <1>0, <1>a, <2>1, <2>2, RunFacts DEF RunsHoldTheClaim, Plain
  <2>5. SubmissionIsOrdered'
    BY <2>1, <2>2, ClientFacts, RunFacts, RunnerKeepsSubmission
  <2>6. QED BY <2>3, <2>4, <2>5 DEF ProtocolInv
<1>8. CASE PublishOutcome(r)
  <2>1. PICK w \in Workloads, ok \in BOOLEAN, files \in SUBSET Streams, c \in ClockFaults :
          /\ draft' = [draft EXCEPT ![r] = Capture(r, w, ok, files, c)]
          /\ IF c = "beforeSubmit"
             THEN Stage(r, "exited") /\ UNCHANGED <<wire, reply>>
             ELSE Send(r, "outcome", Capture(r, w, ok, files, c))
    BY <1>8 DEF PublishOutcome
  <2> DEFINE o == Capture(r, w, ok, files, c)
  <2>2. o \in Objects /\ o.by = r /\ o.stdout = "pending" /\ o.stderr = "pending" /\ o.workload = w
    BY CaptureIsObject, ConstantsAssumption
  <2> HIDE DEF o
  <2>3. /\ draft' = [draft EXCEPT ![r] = o] /\ UNCHANGED <<store, executed, ssmVars, clientVars>>
        /\ \/ Stage(r, "exited") /\ UNCHANGED <<wire, reply>>
           \/ Send(r, "outcome", o)
        /\ step[r] = "running" /\ r \in executed /\ send = "accepted"
    BY <1>0, <1>8, <2>1 DEF PublishOutcome, RunsHoldTheClaim, o
  <2>4. draft'[r] = o /\ \A q \in Runs : q # r => draft'[q] = draft[q]
    BY <2>3, RunFacts
  <2>5. step'[r] \in {"exited", "outcome"} /\ \A b \in Actors : b # r => step'[b] = step[b]
    BY <2>3, RunFacts DEF Stage, Send
  <2>6. ObjectsAreGenuine' /\ WireIsCurrent' /\ RepliesAreTrue'
    <3>1. CASE Stage(r, "exited") /\ UNCHANGED <<wire, reply>>
      BY <2>3, <2>4, <3>1, RunFacts, StageKeeps DEF Keys, Streams
    <3>2. CASE Send(r, "outcome", o)
      <4>1. Genuine("outcome", o) /\ o = Written(r)' /\ "outcome" \in Keys
        BY <2>2, <2>3, <2>4, <3>2, RunFacts, RequestIsThere DEF Genuine, Written, Send, Streams, Keys
      <4>2. \A m \in wire : m.obj.by = r => m.key # "outcome"
        BY <2>3 DEF ProtocolInv, WireIsCurrent
      <4>3. QED BY <2>2, <2>3, <2>4, <3>2, <4>1, <4>2, RunFacts, SendKeeps DEF AfterOutcome
    <3>3. QED BY <2>3, <3>1, <3>2
  <2>7. RunsHoldTheClaim' /\ SubmissionIsOrdered'
    BY <2>3, <2>5, RunFacts, ClientFacts, RunnerKeepsClaim, RunnerKeepsSubmission
  <2>8. DraftsAreRecorded'
    BY <1>0, <2>2, <2>3, <2>4, <2>5, RunFacts DEF DraftsAreRecorded, Plain, Evidence
  <2>9. QED BY <2>6, <2>7, <2>8 DEF ProtocolInv
<1>9. CASE UploadStdout(r)
  <2>1. store["outcome"] = draft[r] /\ step[r] = "outcome"
    BY <1>9, <1>b, RunFacts DEF UploadStdout, Confirmed, Written, Keys, Streams
  <2>2. draft[r] # Absent
    BY ConstantsAssumption, RunFacts
  <2>3. QED
    BY <1>0, <1>9, <2>1, <2>2, RunFacts, StartUploadKeeps
    DEF UploadStdout, DraftsAreRecorded, Streams, runVars
<1>10. CASE UploadStderr(r)
  <2>1. PICK flag \in {Upload(r, "stdout"), "failed"} : draft' = [draft EXCEPT ![r].stdout = flag]
    BY <1>10 DEF UploadStderr
  <2>2. /\ StartUpload(r, "stderr") /\ UNCHANGED <<store, executed, ssmVars, clientVars>>
        /\ step[r] = "stdout"
    BY <1>10 DEF UploadStderr, Uploaded, Confirmed, Unconfirmed
  <2>3. flag = "complete" => store["stdout"] = Plain(r)
    BY <1>b, <2>1, RunFacts DEF Upload, Written, Keys, Streams, Confirmed
  <2>4. /\ draft'[r].by = r /\ Evidence(draft'[r]) = Evidence(draft[r])
        /\ draft'[r].stdout = flag /\ draft'[r].stderr = draft[r].stderr
        /\ \A q \in Runs : q # r => draft'[q] = draft[q]
    BY <2>1, RunFacts DEF Objects, Evidence
  <2>5. draft' \in [Runs -> Objects]
    BY DEF TypeOK
  <2>6. QED
    BY <1>0, <2>2, <2>3, <2>4, <2>5, StartUploadKeeps DEF DraftsAreRecorded, Streams
<1>11. CASE PublishResult(r)
  <2>1. PICK flag \in {Upload(r, "stderr"), "failed"} :
          LET d == [draft[r] EXCEPT !.stderr = flag]
              final == [d EXCEPT !.publication = Publication(d)]
          IN /\ draft' = [draft EXCEPT ![r] = final]
             /\ IF d.clock = "beforeFinish"
                THEN Stage(r, "exited") /\ UNCHANGED <<wire, reply>>
                ELSE Send(r, "result", final)
    BY <1>11 DEF PublishResult
  <2> DEFINE d == [draft[r] EXCEPT !.stderr = flag]
             final == [d EXCEPT !.publication = Publication(d)]
  <2>2. /\ step[r] = "stderr" /\ r \in executed /\ send = "accepted"
        /\ UNCHANGED <<store, executed, ssmVars, clientVars>>
    BY <1>0, <1>11 DEF PublishResult, Uploaded, Confirmed, Unconfirmed, RunsHoldTheClaim
  <2>3. flag = "complete" => store["stderr"] = Plain(r)
    BY <1>b, RunFacts DEF Upload, Written, Keys, Streams, Confirmed
  <2>4. d \in Objects /\ d.by = r /\ Evidence(d) = Evidence(draft[r]) /\ d.stderr = flag /\ d.stdout = draft[r].stdout
    BY RunFacts DEF Objects, Evidence, Upload
  <2>5. /\ final \in Objects /\ final.by = r /\ Evidence(final) = Evidence(draft[r])
        /\ final.stderr = flag /\ final.stdout = draft[r].stdout /\ final.publication = Publication(d)
        /\ final.workload = d.workload /\ final.capture = d.capture
    <3> HIDE DEF d
    <3>1. QED BY <2>4 DEF Objects, Evidence, Publication
  <2>6. Publication(d) = "complete" => Backed(final)
    <3>1. ASSUME Publication(d) = "complete"
          PROVE  d.workload # "unknown" /\ d.capture = "complete" /\ flag = "complete" /\ draft[r].stdout = "complete"
      BY <2>4, <3>1 DEF Publication
    <3>2. QED BY <1>0, <2>3, <2>5, <3>1 DEF Backed, DraftsAreRecorded, Streams
  <2>7. \/ Stage(r, "exited") /\ UNCHANGED <<wire, reply>>
        \/ Send(r, "result", final)
    BY <2>1
  <2>8. draft'[r] = final /\ \A q \in Runs : q # r => draft'[q] = draft[q]
    BY <2>1, RunFacts
  <2> HIDE DEF d, final
  <2>9. step'[r] \in {"exited", "result"} /\ \A b \in Actors : b # r => step'[b] = step[b]
    BY <2>7, RunFacts DEF Stage, Send
  <2>10. store["outcome"] # Absent /\ Evidence(store["outcome"]) = Evidence(final)
    BY <1>0, <2>2, <2>5 DEF DraftsAreRecorded
  <2>11. ObjectsAreGenuine' /\ WireIsCurrent' /\ RepliesAreTrue'
    <3>1. CASE Stage(r, "exited") /\ UNCHANGED <<wire, reply>>
      BY <2>2, <2>8, <3>1, RunFacts, StageKeeps DEF Keys, Streams
    <3>2. CASE Send(r, "result", final)
      <4>1. Genuine("result", final) /\ final = Written(r)' /\ "result" \in Keys
        BY <2>2, <2>5, <2>6, <2>8, <2>10, <3>2, RunFacts, RequestIsThere DEF Genuine, Written, Send, Streams, Keys
      <4>2. \A m \in wire : m.obj.by = r => m.key # "result"
        BY <2>2 DEF ProtocolInv, WireIsCurrent
      <4>3. QED BY <2>2, <2>5, <2>8, <3>2, <4>1, <4>2, RunFacts, SendKeeps DEF AfterOutcome
    <3>3. QED BY <2>7, <3>1, <3>2
  <2>12. RunsHoldTheClaim' /\ SubmissionIsOrdered'
    BY <2>2, <2>9, RunFacts, ClientFacts, RunnerKeepsClaim, RunnerKeepsSubmission
  <2>13. DraftsAreRecorded'
    <3>1. /\ draft'[r].by = r /\ Evidence(draft'[r]) = Evidence(store["outcome"])
          /\ draft'[r].stdout = "complete" => store["stdout"] = Plain(r)
          /\ draft'[r].stderr = "complete" => store["stderr"] = Plain(r)
      BY <1>0, <2>3, <2>5, <2>8, <2>10 DEF DraftsAreRecorded
    <3>2. ASSUME NEW q \in Runs, q # r
          PROVE  step'[q] = step[q] /\ draft'[q] = draft[q]
      BY <2>8, <2>9, <3>2, RunFacts
    <3>3. Evidence(store["outcome"]) = Evidence(draft'[r]) /\ store["outcome"] # Absent /\ store' = store
      BY <2>2, <2>10, <3>1
    <3>4. QED BY <1>0, <3>1, <3>2, <3>3, DraftsKept
  <2>14. QED BY <2>11, <2>12, <2>13 DEF ProtocolInv
<1>12. CASE \E k \in {"outcome", "result"} \cup Streams : Reconcile(r, k)
  BY <1>12, RunFacts, ReconcileKeeps DEF ProtocolInv, Keys, Streams
<1>13. QED
  BY <1>1, <1>3, <1>4, <1>5, <1>6, <1>7, <1>8, <1>9, <1>10, <1>11, <1>12 DEF RunnerStep

----------------------------------------------------------------------------
LEMMA InductiveStep == ProtocolInv /\ [Next]_vars => ProtocolInv'
<1> SUFFICES ASSUME ProtocolInv, [Next]_vars
             PROVE  ProtocolInv'
  OBVIOUS
<1>0. TypeOK'
  BY TypeStep DEF ProtocolInv
<1>1. CASE ClientContextEnds \/ SSMDecides
  <2>1. UNCHANGED <<store, wire, reply, mode, step, draft, readable, executed, sends, state>>
    BY <1>1 DEF ClientContextEnds, SSMDecides, runVars, ssmVars, clientVars
  <2>2. ObjectsAreGenuine' /\ WireIsCurrent' /\ RepliesAreTrue' /\ DraftsAreRecorded'
    BY <2>1 DEF ProtocolInv, ObjectsAreGenuine, WireIsCurrent, RepliesAreTrue, DraftsAreRecorded,
                Genuine, Backed, Written, Plain, Evidence
  <2>3. RunsHoldTheClaim' /\ SubmissionIsOrdered'
    BY <1>1, <2>1 DEF ClientContextEnds, SSMDecides, ProtocolInv, RunsHoldTheClaim, SubmissionIsOrdered,
                      Plain, ssmVars
  <2>4. QED BY <1>0, <2>2, <2>3 DEF ProtocolInv
<1>2. CASE UNCHANGED vars
  BY <1>0, <1>2 DEF vars, ProtocolInv, ObjectsAreGenuine, WireIsCurrent, RepliesAreTrue, RunsHoldTheClaim,
                    DraftsAreRecorded, SubmissionIsOrdered, Genuine, Backed, Written, Plain, Evidence
<1>3. QED
  BY <1>0, <1>1, <1>2, PutArrivesKeeps, ClientKeeps, RunnerKeeps DEF Next

\* The relation between objects, PUTs in flight, replies, runners and the
\* client's state that every step of submit.go and run_linux.go keeps.
THEOREM InvariantCorrect == Spec => []ProtocolInv
BY InitIsGood, InductiveStep, PTL DEF Spec

(* The safety properties of the runs *)

\* One public ID, one execution, whatever SSM delivers twice and whatever
\* response is lost (the start claim of Run, run_linux.go).
THEOREM OneExecution == Spec => []AtMostOneExecution
<1>1. \A r1, r2 \in Runs : Plain(r1) = Plain(r2) => r1 = r2
  BY PlainIsObject DEF Actors
<1>2. ProtocolInv => AtMostOneExecution
  BY <1>1 DEF ProtocolInv, RunsHoldTheClaim, AtMostOneExecution, TypeOK
<1>3. QED BY <1>2, InvariantCorrect, PTL

\* Outcomes and results describe the execution that holds the claim, and a
\* result agrees with the outcome beside it (sameOutcome, observe.go).
THEOREM EvidenceCorrect == Spec => []EvidenceIsGenuine
<1>1. ASSUME ProtocolInv
      PROVE  EvidenceIsGenuine
  <2>1. /\ store["outcome"] # Absent => Genuine("outcome", store["outcome"])
        /\ store["result"] # Absent => Genuine("result", store["result"])
    BY <1>1 DEF ProtocolInv, ObjectsAreGenuine, Keys
  <2>2. executed \subseteq Runs /\ \A r \in executed : store["started"] = Plain(r)
    BY <1>1 DEF ProtocolInv, TypeOK, RunsHoldTheClaim
  <2>3. QED BY <2>1, <2>2 DEF Genuine, EvidenceIsGenuine
<1>2. QED BY <1>1, InvariantCorrect, PTL

\* A result that says its publication is complete has both streams stored
\* beside it (the publication rule of Run, run_linux.go).
THEOREM CompletePublicationCorrect == Spec => []CompletePublicationIsBacked
<1>1. ProtocolInv => CompletePublicationIsBacked
  BY DEF ProtocolInv, ObjectsAreGenuine, Genuine, Backed, CompletePublicationIsBacked, Keys
<1>2. QED BY <1>1, InvariantCorrect, PTL

\* Dispatch happens at most once, behind a durable request (Submit, submit.go).
THEOREM DispatchCorrect == Spec => []DispatchFollowsRequest
<1>1. ProtocolInv => DispatchFollowsRequest
  BY DEF ProtocolInv, SubmissionIsOrdered, DispatchFollowsRequest
<1>2. QED BY <1>1, InvariantCorrect, PTL

\* A client that says nothing was submitted is right, now and later (Submit and
\* fail(), submit.go and run.go).
THEOREM UnsubmittedCorrect == Spec => []UnsubmittedNeverExecutes
<1>1. ProtocolInv => UnsubmittedNeverExecutes
  BY DEF ProtocolInv, TypeOK, SubmissionIsOrdered, RunsHoldTheClaim, UnsubmittedNeverExecutes
<1>2. QED BY <1>1, InvariantCorrect, PTL

\* Stored objects never change: every PUT is conditional (S3Store.Put, store.go).
THEOREM ImmutabilityCorrect == Spec => ObjectsAreImmutable
<1>1. TypeOK /\ [Next]_vars => [\A k \in Keys : store[k] # Absent => store'[k] = store[k]]_vars
  <2> SUFFICES ASSUME TypeOK, Next
               PROVE  \A k \in Keys : store[k] # Absent => store'[k] = store[k]
    OBVIOUS
  <2>1. ASSUME NEW m \in wire, PutArrives(m)
        PROVE  \A k \in Keys : store[k] # Absent => store'[k] = store[k]
    BY <2>1, PutArrivesFills
  <2>2. ~(\E m \in wire : PutArrives(m)) => UNCHANGED store
    BY DEF Next, ClientStep, RunnerStep, ClientContextEnds, ClientDies, SSMDecides, Deliver, Crash,
           PreflightFails, PublishRequest, RequestPrepared, RequestUnconfirmed, RecheckFails, SendCommand,
           SendRejected, SendUncertain, SendAcknowledged, AnnounceFails, PublishAcknowledgement,
           AcknowledgementSettled, StopClient, Reconcile, Exit, PreparationFails, Claim, ClaimUnconfirmed,
           ClaimConfirmed, PreparationExpires, Execute, PublishOutcome, OutcomeUnconfirmed, UploadStdout,
           UploadStderr, PublishResult, ResultSettled
  <2>3. QED BY <2>1, <2>2
<1>2. QED BY <1>1, TypeCorrect, PTL DEF Spec, ObjectsAreImmutable

----------------------------------------------------------------------------
(* The refinement *)

\* What stands behind each object the abstract phase looks at.
LEMMA PhaseFacts ==
  ASSUME ProtocolInv
  PROVE  /\ store["result"] # Absent => store["outcome"] # Absent
         /\ store["outcome"] # Absent => executed # {}
         /\ executed # {} => store["started"] # Absent
         /\ store["started"] # Absent => store["request"] # Absent
         /\ \A r \in executed : r \in Runs /\ store["started"] = Plain(r)
<1>1. {"result", "outcome", "started"} \subseteq Keys
  BY DEF Keys
<1>2. \A r \in Runs : Plain(r) # Absent
  BY RunFacts, ConstantsAssumption
<1>3. executed \subseteq Runs /\ \A r \in executed : store["started"] = Plain(r)
  BY DEF ProtocolInv, TypeOK, RunsHoldTheClaim
<1>4. \A k \in {"result", "outcome", "started"} : store[k] # Absent => Genuine(k, store[k])
  BY <1>1 DEF ProtocolInv, ObjectsAreGenuine
<1>5. QED BY <1>2, <1>3, <1>4 DEF Genuine

LEMMA OnlyTwoActionsShow ==
  ASSUME [Next]_vars, ~(\E m \in wire : PutArrives(m)), ~(\E r \in Runs : Execute(r))
  PROVE  UNCHANGED <<store, executed>>
BY DEF Next, ClientStep, RunnerStep, ClientContextEnds, ClientDies, SSMDecides, Deliver, Crash,
       PreflightFails, PublishRequest, RequestPrepared, RequestUnconfirmed, RecheckFails, SendCommand,
       SendRejected, SendUncertain, SendAcknowledged, AnnounceFails, PublishAcknowledgement,
       AcknowledgementSettled, StopClient, Reconcile, Exit, PreparationFails, Claim, ClaimUnconfirmed,
       ClaimConfirmed, PreparationExpires, PublishOutcome, OutcomeUnconfirmed, UploadStdout,
       UploadStderr, PublishResult, ResultSettled, vars, runVars

LEMMA LifeStep ==
  ASSUME ProtocolInv, ProtocolInv', [Next]_vars
  PROVE  [Life!Next]_(Life!vars)
<1>1. CASE UNCHANGED <<store, executed>>
  BY <1>1 DEF Life!vars, LifePhase
<1>2. ASSUME NEW r \in Runs, Execute(r)
      PROVE  [Life!Next]_(Life!vars)
  <2>1. UNCHANGED store /\ executed' = executed \cup {r} /\ store["started"] = Plain(r)
    BY <1>2 DEF Execute, ProtocolInv, RunsHoldTheClaim
  <2>2. store["started"] # Absent
    BY <2>1, RunFacts, ConstantsAssumption
  <2>3. CASE executed = {}
    <3>1. LifePhase = "claimed" /\ LifePhase' = "running"
      BY <2>1, <2>2, <2>3, PhaseFacts DEF LifePhase
    <3>2. Life!Run
      BY <2>1, <3>1 DEF Life!Run
    <3>3. QED BY <3>2 DEF Life!Next
  <2>4. CASE executed # {}
    BY <2>1, <2>4 DEF Life!vars, LifePhase
  <2>5. QED BY <2>3, <2>4
<1>3. ASSUME NEW m \in wire, PutArrives(m), store[m.key] = Absent
      PROVE  [Life!Next]_(Life!vars)
  <2>0. TypeOK /\ Genuine(m.key, m.obj) /\ m.obj \in Objects /\ UNCHANGED executed
    BY <1>3, PutArrivesFills DEF ProtocolInv, ObjectsAreGenuine, PutArrives, runVars
  <2>1. /\ m.key \in Keys /\ m.obj # Absent /\ store'[m.key] = m.obj
        /\ \A j \in Keys : j # m.key => store'[j] = store[j]
    BY <1>3, <2>0, PutArrivesFills DEF PutArrives, TypeOK
  <2>2. {"request", "started", "outcome", "result"} \subseteq Keys
    BY DEF Keys
  <2>3. CASE m.key = "request"
    <3>1. LifePhase = "none" /\ LifePhase' = "requested" /\ UNCHANGED <<store["started"], store["outcome"]>>
      BY <1>3, <2>0, <2>1, <2>2, <2>3, PhaseFacts DEF LifePhase
    <3>2. Life!Request
      BY <3>1 DEF Life!Request
    <3>3. QED BY <3>2 DEF Life!Next
  <2>4. CASE m.key = "started"
    <3>1. LifePhase = "requested" /\ LifePhase' = "claimed" /\ UNCHANGED <<store["outcome"]>>
      BY <1>3, <2>0, <2>1, <2>2, <2>4, PhaseFacts DEF LifePhase, Genuine
    <3>2. store'["started"] # Absent /\ store'["started"].by \in Runs
      BY <2>0, <2>1, <2>4 DEF Genuine
    <3>3. Life!Claim(store'["started"].by)
      BY <3>1, <3>2 DEF Life!Claim
    <3>4. QED BY <3>2, <3>3 DEF Life!Next
  <2>5. CASE m.key = "outcome"
    <3>1. LifePhase = "running" /\ LifePhase' = "recorded" /\ UNCHANGED <<store["started"]>>
      BY <1>3, <2>0, <2>1, <2>2, <2>5, PhaseFacts DEF LifePhase, Genuine
    <3>2. store'["outcome"] # Absent /\ store'["outcome"].workload \in Workloads
      BY <2>0, <2>1, <2>5 DEF Genuine
    <3>3. Life!Record(store'["outcome"].workload)
      BY <3>1, <3>2 DEF Life!Record
    <3>4. QED BY <3>2, <3>3 DEF Life!Next
  <2>6. CASE m.key = "result"
    <3>1. LifePhase = "recorded" /\ LifePhase' = "final" /\ UNCHANGED <<store["started"], store["outcome"]>>
      BY <1>3, <2>0, <2>1, <2>2, <2>6, PhaseFacts DEF LifePhase, Genuine
    <3>2. Life!Finalize
      BY <3>1 DEF Life!Finalize
    <3>3. QED BY <3>2 DEF Life!Next
  <2>7. CASE m.key \notin {"request", "started", "outcome", "result"}
    <3>1. UNCHANGED <<store["request"], store["started"], store["outcome"], store["result"]>>
      BY <2>1, <2>2, <2>7
    <3>2. QED BY <2>0, <3>1 DEF Life!vars, LifePhase
  <2>8. QED BY <2>3, <2>4, <2>5, <2>6, <2>7
<1>4. ASSUME NEW m \in wire, PutArrives(m), store[m.key] # Absent
      PROVE  [Life!Next]_(Life!vars)
  BY <1>1, <1>4 DEF PutArrives, runVars
<1>5. QED BY <1>1, <1>2, <1>3, <1>4, OnlyTwoActionsShow

\* Whatever the clients, runners, SSM and S3 do, one command lives as
\* CommandLife says: requested, claimed, run, recorded and finalized once.
THEOREM LifeImplemented == Spec => ImplementsCommandLife
<1>1. Init => Life!Init
  BY DEF Init, Life!Init, LifePhase, Keys
<1>2. ProtocolInv /\ ProtocolInv' /\ [Next]_vars => [Life!Next]_(Life!vars)
  BY LifeStep
<1>3. QED BY <1>1, <1>2, InvariantCorrect, PTL DEF Spec, ImplementsCommandLife, Life!Spec

-----------------------------------------------------------------------------
(***************************************************************************)
(* The runner process, for any outputs, limit and clock.  Its actions fall *)
(* into eight classes by what they leave alone; each conjunct of RunnerInv *)
(* is shown for the classes that can disturb it.                           *)
(***************************************************************************)
Passing   == Tick \/ PrepareEnds \/ WorkEnds \/ Signal
Claiming  == ReadClock \/ NoClaim \/ ClaimLost \/ ClaimWon \/ Claimed
Starting  == SetupFails \/ StartHelper
Acting    == Refuse \/ ClearDeadline \/ Exec \/ Fork \/ ChildEnds \/ RelativeEnds
Emitting  == \E s \in Outputs : Emit(s)
Capturing == \E s \in Outputs : CaptureStep(s)
Waiting   == SetupDone \/ SetupStopped \/ ChildDone \/ CaptureFailed \/ WorkDone
Stopping  == StopGroup \/ KillGroup \/ WaitChild \/ DrainTimeout \/ Classify

LEMMA RunnerClasses ==
  RunnerNext => Passing \/ Claiming \/ Starting \/ Acting \/ Emitting \/ Capturing \/ Waiting \/ Stopping
BY DEF RunnerNext, Environment, Runner, Passing, Claiming, Starting, Acting, Emitting, Capturing, Waiting, Stopping

LEMMA PassingFrame == ASSUME Passing PROVE UNCHANGED <<claim, pc, processes, made, pipes, outcome>>
BY DEF Passing, Tick, PrepareEnds, WorkEnds, Signal

LEMMA ClaimingFrame == ASSUME Claiming PROVE UNCHANGED <<clock, over, processes, made, pipes, outcome>>
BY DEF Claiming, ReadClock, NoClaim, ClaimLost, ClaimWon, Claimed, GiveUp

LEMMA StartingFrame ==
  ASSUME Starting
  PROVE  UNCHANGED <<clock, over, claim, kin, detached, said, ran, end, made, got, stored, flawed, reason, reaped, stopping>>
BY DEF Starting, SetupFails, StartHelper, processes, pipes, outcome

LEMMA ActingFrame == ASSUME Acting PROVE UNCHANGED <<made, theRunner>>
BY DEF Acting, Refuse, ClearDeadline, Exec, Fork, ChildEnds, RelativeEnds

LEMMA EmittingFrame == ASSUME Emitting PROVE UNCHANGED <<processes, theRunner>>
BY DEF Emitting, Emit

LEMMA CapturingFrame == ASSUME Capturing PROVE UNCHANGED theRest
BY DEF Capturing, CaptureStep, Read, EndOfFile, ReadFails

LEMMA WaitingFrame == ASSUME Waiting PROVE UNCHANGED <<capture, status, stopping, others>>
BY DEF Waiting, SetupDone, SetupStopped, ChildDone, CaptureFailed, WorkDone, Because, outcome

LEMMA StoppingFrame ==
  ASSUME Stopping PROVE UNCHANGED <<clock, over, claim, detached, said, ran, made, pipes, reason>>
BY DEF Stopping, StopGroup, KillGroup, WaitChild, DrainTimeout, Classify, others, outcome, processes

(* The type invariant in four parts, by who changes them. *)
ClockTypes ==
  /\ clock \in 0..MaxClock /\ over \subseteq {"prepare", "run", "work"}
  /\ claim \in [state : {"none", "sent", "confirmed", "unconfirmed"}, at : 0..MaxClock]

ChildTypes ==
  /\ child \in {"none", "helper", "cleared", "refusing", "workload", "dying", "gone"}
  /\ said \in {"", "S", "N", "X"} /\ end \in {"none", "exited", "signaled", "stopped"}
  /\ kin \in BOOLEAN /\ detached \in BOOLEAN /\ ran \in BOOLEAN

PipeTypes ==
  /\ made \in [Outputs -> 0..MaxData] /\ got \in [Outputs -> 0..MaxData]
  /\ stored \in [Outputs -> 0..Limit] /\ flawed \in [Outputs -> BOOLEAN]
  /\ reader \in [Outputs -> {"none", "reading", "ended"}]

EndTypes ==
  /\ pc \in Steps /\ reason \in Reasons /\ capture \in {"complete", "incomplete"}
  /\ reaped \in BOOLEAN /\ stopping \in BOOLEAN

LEMMA RunnerTypesSplit ==
  RunnerTypeOK /\ pc \in Steps /\ reason \in Reasons <=> ClockTypes /\ ChildTypes /\ PipeTypes /\ EndTypes
BY DEF RunnerTypeOK, ClockTypes, ChildTypes, PipeTypes, EndTypes

LEMMA ClockTypesKept == ASSUME ClockTypes, RunnerNext PROVE ClockTypes'
<1>1. CASE Passing
  <2>1. clock' \in 0..MaxClock
    BY <1>1, RunnerAssumption DEF Passing, Tick, PrepareEnds, WorkEnds, Signal, ClockTypes
  <2>2. over' \subseteq {"prepare", "run", "work"}
    BY <1>1 DEF Passing, Tick, PrepareEnds, WorkEnds, Signal, ClockTypes
  <2>3. QED BY <1>1, <2>1, <2>2, PassingFrame DEF ClockTypes
<1>2. CASE Claiming
  BY <1>2, ClaimingFrame DEF Claiming, ReadClock, NoClaim, ClaimLost, ClaimWon, Claimed, ClockTypes
<1>3. CASE Starting \/ Acting \/ Emitting \/ Capturing \/ Waiting \/ Stopping
  <2>1. UNCHANGED <<clock, over, claim>>
    BY <1>3, StartingFrame, ActingFrame, EmittingFrame, CapturingFrame, WaitingFrame, StoppingFrame
       DEF theRunner, theRest, others
  <2>2. QED BY <2>1 DEF ClockTypes
<1>4. QED BY <1>1, <1>2, <1>3, RunnerClasses

LEMMA ChildTypesKept == ASSUME ChildTypes, RunnerNext PROVE ChildTypes'
<1>1. CASE Passing \/ Claiming \/ Emitting \/ Capturing \/ Waiting
  <2>1. UNCHANGED processes
    BY <1>1, PassingFrame, ClaimingFrame, EmittingFrame, CapturingFrame, WaitingFrame DEF theRest, others
  <2>2. QED BY <2>1 DEF ChildTypes, processes
<1>2. CASE Starting
  BY <1>2, StartingFrame DEF Starting, SetupFails, StartHelper, ChildTypes, processes
<1>3. CASE Acting
  BY <1>3 DEF Acting, Refuse, ClearDeadline, Exec, Fork, ChildEnds, RelativeEnds, ChildTypes
<1>4. CASE KillGroup
  BY <1>4 DEF KillGroup, ChildTypes
<1>5. CASE StopGroup \/ WaitChild \/ DrainTimeout \/ Classify
  BY <1>5 DEF StopGroup, WaitChild, DrainTimeout, Classify, others, processes, ChildTypes
<1>6. QED BY <1>1, <1>2, <1>3, <1>4, <1>5, RunnerClasses DEF Stopping

LEMMA PipeTypesKept == ASSUME PipeTypes, RunnerNext PROVE PipeTypes'
<1>1. CASE Passing \/ Claiming \/ Acting \/ Waiting \/ Stopping
  <2>1. UNCHANGED <<made, pipes>>
    BY <1>1, PassingFrame, ClaimingFrame, ActingFrame, WaitingFrame, StoppingFrame DEF theRunner, others
  <2>2. QED BY <2>1 DEF PipeTypes, pipes
<1>2. CASE Starting
  BY <1>2, StartingFrame DEF Starting, SetupFails, StartHelper, PipeTypes, pipes
<1>3. ASSUME NEW s \in Outputs, Emit(s) PROVE PipeTypes'
  <2>1. made[s] \in 0..MaxData /\ made[s] < MaxData /\ MaxData \in Nat /\ made' = [made EXCEPT ![s] = made[s] + 1]
    BY <1>3, RunnerAssumption DEF Emit, PipeTypes
  <2>2. made[s] + 1 \in 0..MaxData
    BY <2>1
  <2>3. QED BY <1>3, <2>1, <2>2 DEF Emit, PipeTypes, theRunner, pipes
<1>4. ASSUME NEW s \in Outputs, Read(s) PROVE PipeTypes'
  <2>1. /\ got[s] \in 0..MaxData /\ made[s] \in 0..MaxData /\ got[s] < made[s] /\ MaxData \in Nat
        /\ stored[s] \in 0..Limit /\ Limit \in Nat
    BY <1>4, RunnerAssumption DEF Read, PipeTypes
  <2>2. got[s] + 1 \in 0..MaxData /\ (stored[s] < Limit => stored[s] + 1 \in 0..Limit)
    BY <2>1
  <2>3. /\ got' = [got EXCEPT ![s] = got[s] + 1] /\ UNCHANGED <<made, reader>>
        /\ stored' = stored \/ (stored[s] < Limit /\ stored' = [stored EXCEPT ![s] = stored[s] + 1])
        /\ flawed' = flawed \/ flawed' = [flawed EXCEPT ![s] = TRUE]
    BY <1>4 DEF Read, theRest
  <2>4. QED BY <2>2, <2>3 DEF PipeTypes
<1>5. ASSUME NEW s \in Outputs, EndOfFile(s) \/ ReadFails(s) PROVE PipeTypes'
  BY <1>5 DEF EndOfFile, ReadFails, theRest, PipeTypes
<1>6. QED BY <1>1, <1>2, <1>3, <1>4, <1>5, RunnerClasses DEF Emitting, Capturing, CaptureStep

LEMMA EndTypesKept == ASSUME EndTypes, RunnerNext PROVE EndTypes'
<1>1. CASE Passing \/ Acting \/ Emitting \/ Capturing
  <2>1. UNCHANGED <<pc, outcome>>
    BY <1>1, PassingFrame, ActingFrame, EmittingFrame, CapturingFrame DEF theRunner, theRest
  <2>2. QED BY <2>1 DEF EndTypes, outcome
<1>2. CASE Claiming
  <2>1. pc' \in Steps
    BY <1>2 DEF Claiming, ReadClock, NoClaim, ClaimLost, ClaimWon, Claimed, GiveUp, Steps
  <2>2. QED BY <1>2, <2>1, ClaimingFrame DEF EndTypes, outcome
<1>3. CASE Starting
  <2>1. pc' \in Steps /\ capture' \in {"complete", "incomplete"}
    BY <1>3 DEF Starting, SetupFails, StartHelper, Steps, EndTypes, outcome
  <2>2. QED BY <1>3, <2>1, StartingFrame DEF EndTypes
<1>4. CASE Waiting
  <2>1. pc' \in Steps /\ reason' \in Reasons /\ (reaped' = reaped \/ reaped' = TRUE)
    BY <1>4 DEF Waiting, SetupDone, SetupStopped, ChildDone, CaptureFailed, WorkDone, Because, outcome,
                Steps, Reasons, EndTypes
  <2>2. QED BY <1>4, <2>1, WaitingFrame DEF EndTypes
<1>5. CASE Stopping
  <2>1. pc' \in Steps /\ capture' \in {"complete", "incomplete"}
    BY <1>5 DEF Stopping, StopGroup, KillGroup, WaitChild, DrainTimeout, Classify, outcome, Steps, EndTypes
  <2>2. Group \in BOOLEAN
    BY DEF Group
  <2>3. reaped' \in BOOLEAN /\ stopping' \in BOOLEAN
    BY <1>5, <2>2 DEF Stopping, StopGroup, KillGroup, WaitChild, DrainTimeout, Classify, outcome, EndTypes
  <2>4. QED BY <1>5, <2>1, <2>3, StoppingFrame DEF EndTypes
<1>6. QED BY <1>1, <1>2, <1>3, <1>4, <1>5, RunnerClasses

\* Where the claim stands.
LEMMA ClaimHeldKept == ASSUME RunnerInv, RunnerNext PROVE ClaimHeld'
<1>0. ClaimHeld /\ WorkloadOK /\ ClockTypes
  BY RunnerTypesSplit DEF RunnerInv, ReportIsTrue
<1>1. CASE Claiming
  <2>1. child' = child /\ child = "none"
    BY <1>0, <1>1, ClaimingFrame
       DEF Claiming, ReadClock, NoClaim, ClaimLost, ClaimWon, Claimed, WorkloadOK, processes
  <2>2. CASE ReadClock
    BY <2>1, <2>2 DEF ReadClock, ClaimHeld
  <2>3. CASE NoClaim \/ Claimed
    BY <1>0, <2>1, <2>3 DEF NoClaim, Claimed, GiveUp, ClaimHeld
  <2>4. CASE ClaimLost \/ ClaimWon
    BY <1>0, <2>1, <2>4 DEF ClaimLost, ClaimWon, GiveUp, ClaimHeld, ClockTypes
  <2>5. QED BY <1>1, <2>2, <2>3, <2>4 DEF Claiming
<1>2. CASE Starting
  BY <1>0, <1>2, StartingFrame DEF Starting, SetupFails, StartHelper, ClaimHeld, processes
<1>3. CASE Passing \/ Emitting \/ Capturing
  <2>1. UNCHANGED <<claim, pc, child>>
    BY <1>3, PassingFrame, EmittingFrame, CapturingFrame DEF processes, theRunner, theRest
  <2>2. QED BY <1>0, <2>1 DEF ClaimHeld
<1>4. CASE Acting
  <2>1. UNCHANGED <<claim, pc>>
    BY <1>4, ActingFrame DEF theRunner
  <2>2. child' # child => child # "none"
    BY <1>4 DEF Acting, Refuse, ClearDeadline, Exec, Fork, ChildEnds, RelativeEnds, Alive
  <2>3. QED BY <1>0, <2>1, <2>2 DEF ClaimHeld
<1>5. CASE Waiting \/ Stopping
  <2>1. claim' = claim /\ (child' = child \/ child # "none") /\ pc' \notin {"claim", "claimed", "start"}
    BY <1>5, WaitingFrame, StoppingFrame
       DEF Waiting, Stopping, SetupDone, SetupStopped, ChildDone, CaptureFailed, WorkDone, Because, StopGroup,
           KillGroup, WaitChild, DrainTimeout, Classify, Alive, others, processes
  <2>2. QED BY <1>0, <2>1 DEF ClaimHeld
<1>6. QED BY <1>1, <1>2, <1>3, <1>4, <1>5, RunnerClasses

\* Which processes there may be at each step, and how the child ended.
LEMMA WorkloadKept == ASSUME RunnerInv, RunnerNext PROVE WorkloadOK'
<1>0. WorkloadOK /\ EndTypes /\ ChildTypes
  BY RunnerTypesSplit DEF RunnerInv, ReportIsTrue
<1>1. CASE Passing \/ Emitting \/ Capturing
  <2>1. UNCHANGED <<pc, stopping, processes>>
    BY <1>1, PassingFrame, EmittingFrame, CapturingFrame DEF theRunner, theRest, outcome
  <2>2. QED BY <1>0, <2>1 DEF WorkloadOK, processes
<1>2. CASE Claiming
  <2>1. UNCHANGED <<stopping, processes>> /\ child = "none" /\ ~kin /\ ~stopping
    BY <1>0, <1>2, ClaimingFrame
       DEF Claiming, ReadClock, NoClaim, ClaimLost, ClaimWon, Claimed, WorkloadOK, outcome
  <2>2. pc' \in {"clock", "claim", "claimed", "start", "done"}
    BY <1>2 DEF Claiming, ReadClock, NoClaim, ClaimLost, ClaimWon, Claimed, GiveUp
  <2>3. QED BY <1>0, <2>1, <2>2 DEF WorkloadOK, processes
<1>3. CASE Starting
  <2>1. /\ pc = "start" /\ pc' \in {"setup", "done"} /\ UNCHANGED <<kin, detached, said, ran, end, stopping>>
        /\ child' = IF pc' = "setup" THEN "helper" ELSE child
    BY <1>3, StartingFrame DEF Starting, SetupFails, StartHelper, processes
  <2>2. child = "none" /\ ~kin /\ ~detached /\ ~ran /\ said = "" /\ end = "none" /\ ~stopping
    BY <1>0, <2>1 DEF WorkloadOK
  <2>3. CASE pc' = "setup"
    BY <2>1, <2>2, <2>3 DEF WorkloadOK
  <2>4. CASE pc' = "done"
    BY <2>1, <2>2, <2>4 DEF WorkloadOK
  <2>5. QED BY <2>1, <2>3, <2>4
<1>4. CASE Acting
  <2>1. pc' = pc /\ stopping' = stopping
    BY <1>4, ActingFrame DEF theRunner, outcome
  <2>2. CASE Refuse \/ ClearDeadline \/ Exec
    <3>1. /\ child \in {"helper", "cleared"} /\ child' \in {"refusing", "cleared", "workload"}
          /\ child' # "refusing" => said' = said
          /\ child' # "workload" /\ ran' => ran
          /\ UNCHANGED <<kin, detached, end>>
      BY <2>2 DEF Refuse, ClearDeadline, Exec
    <3>2. /\ pc \notin {"clock", "claim", "claimed", "start", "wait", "drain", "closing", "done"}
          /\ ~ran /\ said = "" /\ end = "none"
      BY <1>0, <3>1 DEF WorkloadOK
    <3>3. /\ child' = "cleared" => ~ran' /\ said' = ""
          /\ child' = "workload" => said' = ""
          /\ child' = "refusing" => ~ran'
      BY <3>1, <3>2
    <3>4. QED BY <1>0, <2>1, <3>1, <3>2, <3>3 DEF WorkloadOK
  <2>3. CASE Fork \/ RelativeEnds
    <3>1. UNCHANGED <<child, said, ran, end>>
      BY <2>3 DEF Fork, RelativeEnds
    <3>2. pc \in {"wait", "drain", "closing", "done"} => ~kin'
      BY <1>0, <2>3 DEF Fork, RelativeEnds, WorkloadOK
    <3>3. child # "none"
      BY <1>0, <2>3 DEF Fork, RelativeEnds, WorkloadOK
    <3>4. QED BY <1>0, <2>1, <3>1, <3>2, <3>3 DEF WorkloadOK
  <2>4. CASE ChildEnds
    BY <1>0, <2>1, <2>4 DEF ChildEnds, Alive, WorkloadOK
  <2>5. QED BY <1>4, <2>2, <2>3, <2>4 DEF Acting
<1>5. CASE Waiting
  <2>1. UNCHANGED <<stopping, processes>>
    BY <1>5, WaitingFrame DEF others
  <2>2. pc \in {"setup", "work"} /\ pc' \in {"work", "stop"}
    BY <1>5 DEF Waiting, SetupDone, SetupStopped, ChildDone, CaptureFailed, WorkDone, Because
  <2>3. QED BY <1>0, <2>1, <2>2 DEF WorkloadOK, processes
<1>6. CASE StopGroup
  BY <1>0, <1>6 DEF StopGroup, Group, Alive, WorkloadOK, ChildTypes, others, processes
<1>7. CASE KillGroup
  <2>1. /\ pc = "grace" /\ pc' = "wait" /\ UNCHANGED <<said, ran, detached, stopping>> /\ kin' = FALSE
    BY <1>7 DEF KillGroup, outcome
  <2>2. child' \in {"dying", "gone"} /\ child # "none"
    BY <1>0, <2>1, <1>7 DEF KillGroup, WorkloadOK, Alive, ChildTypes
  <2>3. (end' = "none" <=> child' # "gone") /\ (end' = end \/ (end' = "stopped" /\ Alive(child)))
    BY <1>0, <1>7, <2>1 DEF KillGroup, WorkloadOK, Alive, ChildTypes
  <2>4. stopping
    BY <1>0, <2>1 DEF WorkloadOK
  <2>5. QED BY <1>0, <2>1, <2>2, <2>3, <2>4 DEF WorkloadOK
<1>8. CASE WaitChild \/ DrainTimeout \/ Classify
  <2>1. UNCHANGED <<stopping, processes>>
    BY <1>8 DEF WaitChild, DrainTimeout, Classify, others
  <2>2. pc \in {"wait", "drain", "closing"} /\ pc' \in {"drain", "closing", "done"}
    BY <1>8 DEF WaitChild, DrainTimeout, Classify
  <2>3. QED BY <1>0, <2>1, <2>2 DEF WorkloadOK, processes
<1>9. QED BY <1>1, <1>2, <1>3, <1>4, <1>5, <1>6, <1>7, <1>8, RunnerClasses DEF Stopping

\* A goroutine without an error has stored what it read, and at the end of
\* its pipe nobody writes any more.
LEMMA PipesKept == ASSUME RunnerInv, RunnerNext PROVE \A s \in Outputs : PipeOK(s)'
<1>0. WorkloadOK /\ PipeTypes /\ ChildTypes /\ \A s \in Outputs : PipeOK(s)
  BY RunnerTypesSplit DEF RunnerInv, ReportIsTrue
<1> SUFFICES ASSUME NEW s \in Outputs PROVE PipeOK(s)'
  OBVIOUS
<1>2. PipeOK(s)
  BY <1>0
<1>3. ASSUME Writers' => Writers, child' = "none" => child = "none", UNCHANGED <<made, pipes>>
      PROVE  PipeOK(s)'
  BY <1>2, <1>3 DEF PipeOK, pipes
<1>4. CASE Passing \/ Claiming \/ Waiting
  <2>1. UNCHANGED <<processes, made, pipes>>
    BY <1>4, PassingFrame, ClaimingFrame, WaitingFrame DEF others
  <2>2. Writers' => Writers
    BY <2>1 DEF Writers, Alive, processes
  <2>3. QED BY <1>3, <2>1, <2>2 DEF processes
<1>5. CASE Starting
  <2>1. CASE SetupFails
    BY <1>3, <2>1 DEF SetupFails, processes, pipes, Writers, Alive
  <2>2. CASE StartHelper
    <3>1. child' # "none" /\ reader'[s] = "reading" /\ UNCHANGED <<stored, got, flawed>>
      BY <2>2 DEF StartHelper
    <3>2. QED BY <1>2, <3>1 DEF PipeOK
  <2>3. QED BY <1>5, <2>1, <2>2 DEF Starting
<1>6. CASE Acting
  <2>1. UNCHANGED <<made, pipes>>
    BY <1>6, ActingFrame DEF theRunner
  <2>2. (Writers' => Writers) /\ child' # "none"
    <3>1. CASE Refuse \/ ClearDeadline \/ Exec
      BY <3>1 DEF Refuse, ClearDeadline, Exec, Writers, Alive
    <3>2. CASE Fork \/ RelativeEnds
      BY <1>0, <3>2 DEF Fork, RelativeEnds, Writers, Alive, WorkloadOK
    <3>3. CASE ChildEnds
      BY <3>3 DEF ChildEnds, Writers, Alive
    <3>4. QED BY <1>6, <3>1, <3>2, <3>3 DEF Acting
  <2>3. QED BY <1>3, <2>1, <2>2
<1>7. CASE Stopping
  <2>1. UNCHANGED <<made, pipes, detached>>
    BY <1>7, StoppingFrame
  <2>2. (child' = child \/ (Alive(child) /\ child' # "none")) /\ (kin' = kin \/ kin' = FALSE)
    BY <1>7 DEF Stopping, StopGroup, KillGroup, WaitChild, DrainTimeout, Classify, others, processes
  <2>3. (Writers' => Writers) /\ (child' = "none" => child = "none")
    BY <2>1, <2>2 DEF Writers
  <2>4. QED BY <1>3, <2>1, <2>3
<1>8. ASSUME NEW q \in Outputs, Emit(q) PROVE PipeOK(s)'
  <2>1. Writers /\ child # "none" /\ UNCHANGED <<processes, pipes>>
    BY <1>0, <1>8 DEF Emit, Writers, Alive, WorkloadOK, theRunner
  <2>2. child' = child
    BY <2>1 DEF processes
  <2>3. reader[s] = "ended" => flawed[s]
    BY <1>2, <2>1 DEF PipeOK
  <2>4. QED BY <1>2, <2>1, <2>2, <2>3 DEF PipeOK, pipes
<1>9. ASSUME NEW q \in Outputs, CaptureStep(q) PROVE PipeOK(s)'
  <2>1. UNCHANGED <<processes, made>>
    BY <1>9 DEF CaptureStep, Read, EndOfFile, ReadFails, theRest
  <2>2. (Writers' => Writers) /\ child' = child
    BY <2>1 DEF Writers, Alive, processes
  <2>3. CASE q # s
    <3>1. got'[s] = got[s] /\ stored'[s] = stored[s] /\ flawed'[s] = flawed[s] /\ reader'[s] = reader[s]
      BY <1>0, <1>9, <2>3 DEF CaptureStep, Read, EndOfFile, ReadFails, PipeTypes
    <3>2. QED BY <1>2, <2>1, <2>2, <3>1 DEF PipeOK
  <2>4. CASE q = s /\ Read(s)
    <3>1. /\ reader'[s] = "reading" /\ got'[s] = got[s] + 1 /\ reader[s] = "reading"
          /\ flawed'[s] = TRUE \/ (~flawed[s] /\ stored'[s] = stored[s] + 1)
      BY <1>0, <2>4 DEF Read, PipeTypes
    <3>2. QED BY <1>2, <2>1, <2>2, <3>1 DEF PipeOK
  <2>5. CASE q = s /\ EndOfFile(s)
    <3>1. reader[s] = "reading" /\ got[s] = made[s] /\ ~Writers /\ UNCHANGED <<got, stored, flawed>>
      BY <2>5 DEF EndOfFile
    <3>2. QED BY <1>2, <2>1, <2>2, <3>1 DEF PipeOK
  <2>6. CASE q = s /\ ReadFails(s)
    <3>1. reader[s] = "reading" /\ flawed'[s] = TRUE
      BY <1>0, <2>6 DEF ReadFails, PipeTypes
    <3>2. QED BY <1>2, <2>1, <2>2, <3>1 DEF PipeOK
  <2>7. QED BY <1>9, <2>3, <2>4, <2>5, <2>6 DEF CaptureStep
<1>10. QED BY <1>4, <1>5, <1>6, <1>7, <1>8, <1>9, RunnerClasses DEF Emitting, Capturing

\* What the end of the wait says of the child.
LEMMA EndingKept == ASSUME RunnerInv, RunnerNext PROVE EndingOK'
<1>0. EndingOK /\ WorkloadOK /\ EndTypes
  BY RunnerTypesSplit DEF RunnerInv, ReportIsTrue
<1>1. CASE Passing \/ Emitting \/ Capturing
  <2>1. UNCHANGED <<pc, outcome, child, end>>
    BY <1>1, PassingFrame, EmittingFrame, CapturingFrame DEF theRunner, theRest, processes
  <2>2. QED BY <1>0, <2>1 DEF EndingOK, outcome
<1>2. CASE Claiming
  <2>1. UNCHANGED <<processes, outcome>> /\ status = "none"
    BY <1>0, <1>2, ClaimingFrame DEF Claiming, ReadClock, NoClaim, ClaimLost, ClaimWon, Claimed, EndingOK
  <2>2. pc' \in {"claim", "claimed", "start", "done"}
    BY <1>2 DEF Claiming, ReadClock, NoClaim, ClaimLost, ClaimWon, Claimed, GiveUp
  <2>3. QED BY <1>0, <2>1, <2>2 DEF EndingOK, processes, outcome
<1>3. CASE Starting
  <2>1. /\ UNCHANGED <<reason, reaped, end>> /\ pc = "start" /\ pc' \in {"setup", "done"}
        /\ status' = status \/ (pc' = "done" /\ status' = "runner_setup_failed")
    BY <1>3, StartingFrame DEF Starting, SetupFails, StartHelper, outcome
  <2>2. ~reaped /\ status = "none"
    BY <1>0, <2>1 DEF EndingOK, WorkloadOK
  <2>3. QED BY <1>0, <2>1, <2>2 DEF EndingOK
<1>4. CASE Acting
  <2>1. UNCHANGED <<pc, outcome>>
    BY <1>4, ActingFrame DEF theRunner
  <2>2. child = "gone" => UNCHANGED <<child, end>>
    BY <1>4 DEF Acting, Refuse, ClearDeadline, Exec, Fork, ChildEnds, RelativeEnds, Alive
  <2>3. QED BY <1>0, <2>1, <2>2 DEF EndingOK, outcome
<1>5. CASE Waiting
  <2>1. UNCHANGED <<child, end, status>> /\ pc \in {"setup", "work"} /\ pc' \in {"work", "stop"}
    BY <1>5, WaitingFrame
       DEF Waiting, SetupDone, SetupStopped, ChildDone, CaptureFailed, WorkDone, Because, others, processes
  <2>2. status = "none" /\ ~stopping /\ end # "stopped"
    BY <1>0, <2>1 DEF EndingOK, WorkloadOK
  <2>3. /\ reaped' = reaped \/ (reaped' = TRUE /\ child = "gone")
        /\ reason' = "exit" => reaped' = TRUE \/ reason = "exit"
        /\ pc' = "stop" => reason' # "none"
    BY <1>5 DEF Waiting, SetupDone, SetupStopped, ChildDone, CaptureFailed, WorkDone, Because, outcome
  <2>4. QED BY <1>0, <2>1, <2>2, <2>3 DEF EndingOK
<1>6. CASE StopGroup \/ KillGroup
  <2>1. /\ pc \in {"stop", "grace"} /\ pc' \in {"grace", "wait"} /\ UNCHANGED <<reason, reaped, status>>
        /\ child = "gone" => UNCHANGED <<child, end>>
    BY <1>6 DEF StopGroup, KillGroup, Alive, others, processes, outcome
  <2>2. QED BY <1>0, <2>1 DEF EndingOK
<1>7. CASE WaitChild \/ DrainTimeout \/ Classify
  <2>1. /\ pc \in {"wait", "drain", "closing"} /\ pc' \in {"drain", "closing", "done"}
        /\ UNCHANGED <<reason, child, end>> /\ (status' = status \/ pc' = "done")
        /\ reaped' = reaped \/ (reaped' = TRUE /\ child = "gone")
    BY <1>0, <1>7 DEF WaitChild, DrainTimeout, Classify, others, processes, EndingOK
  <2>2. status' \in {"exited", "signaled"} => reason = "exit"
    <3>1. status' = status \/ (status' = Verdict /\ pc \in {"drain", "closing"})
      BY <1>7 DEF WaitChild, DrainTimeout, Classify
    <3>2. pc \in {"drain", "closing"} => reason # "none"
      BY <1>0 DEF EndingOK
    <3>3. QED BY <1>0, <3>1, <3>2 DEF Verdict, EndingOK, EndTypes, Reasons
  <2>3. QED BY <1>0, <2>1, <2>2 DEF EndingOK
<1>8. QED BY <1>1, <1>2, <1>3, <1>4, <1>5, <1>6, <1>7, RunnerClasses DEF Stopping

\* After the end nothing that the status speaks of changes.
LEMMA OwnEndKept == ASSUME RunnerInv, RunnerNext PROVE EndIsItsOwn'
<1>0. EndIsItsOwn /\ EndingOK /\ WorkloadOK /\ ChildTypes /\ EndTypes
  BY RunnerTypesSplit DEF RunnerInv, ReportIsTrue
<1>1. CASE Classify
  <2>1. /\ pc \in {"drain", "closing"} /\ status' = Verdict
        /\ UNCHANGED <<reason, reaped, said, ran, end>>
    BY <1>1 DEF Classify, others, processes
  <2>2. reason # "none" /\ (reason = "exit" => end # "stopped") /\ (reaped => child = "gone" /\ end # "none")
    BY <1>0, <2>1 DEF EndingOK, WorkloadOK
  <2>3. reason \in {"exit", "stopped", "interrupted", "capture_failed", "execution_timeout"}
    BY <1>0, <2>2 DEF EndTypes, Reasons
  <2>4. said \in {"N", "X"} => ~ran
    BY <1>0 DEF WorkloadOK
  <2>5. status' = "unknown" => reason = "interrupted" \/ ~reaped
    BY <1>0, <2>1, <2>3 DEF Verdict, ChildTypes
  <2>6. status' \in {"exited", "signaled"} =>
          /\ reason = "exit"
          /\ said \notin {"N", "X"} => status' = end
    BY <2>1, <2>3 DEF Verdict
  <2>7. QED BY <2>1, <2>2, <2>4, <2>5, <2>6 DEF EndIsItsOwn
<1>2. CASE SetupFails
  BY <1>2 DEF SetupFails, EndIsItsOwn
<1>3. CASE status = "none" /\ status' = status
  BY <1>3 DEF EndIsItsOwn
<1>4. CASE pc # "done" /\ ~Classify /\ ~SetupFails
  <2>1. status' = status
    BY <1>4, RunnerClasses, PassingFrame, ClaimingFrame, ActingFrame, EmittingFrame, CapturingFrame, WaitingFrame
       DEF Starting, StartHelper, Stopping, StopGroup, KillGroup, WaitChild, DrainTimeout, outcome, theRunner, theRest
  <2>2. status = "none"
    BY <1>0, <1>4 DEF EndingOK
  <2>3. QED BY <1>3, <2>1, <2>2
<1>5. CASE pc = "done"
  <2>1. Acting \/ Emitting \/ Capturing \/ Passing
    BY <1>5, RunnerClasses
       DEF Claiming, ReadClock, NoClaim, ClaimLost, ClaimWon, Claimed, Starting, SetupFails, StartHelper, Waiting,
           SetupDone, SetupStopped, ChildDone, CaptureFailed, WorkDone, Stopping, StopGroup, KillGroup, WaitChild,
           DrainTimeout, Classify
  <2>2. UNCHANGED <<status, reason, reaped>>
    BY <2>1, PassingFrame, ActingFrame, EmittingFrame, CapturingFrame DEF theRunner, theRest, outcome
  <2>3. UNCHANGED <<said, ran>> /\ (end' = end \/ child \notin {"none", "gone"})
    BY <1>0, <1>5, <2>1, PassingFrame, EmittingFrame, CapturingFrame
       DEF Acting, Refuse, ClearDeadline, Exec, Fork, ChildEnds, RelativeEnds, WorkloadOK, Alive, theRest, processes
  <2>4. status \in {"exited", "signaled"} => child = "gone"
    BY <1>0 DEF EndingOK
  <2>5. QED BY <1>0, <2>2, <2>3, <2>4 DEF EndIsItsOwn
<1>6. QED BY <1>1, <1>2, <1>4, <1>5

\* What holds when Execute has returned goes on to hold.
LEMMA CaptureOverKept == ASSUME RunnerInv, RunnerNext PROVE CaptureIsOver'
<1>0. /\ CaptureIsOver /\ WorkloadOK /\ EndTypes /\ PipeTypes /\ \A s \in Outputs : PipeOK(s)
      /\ WorkloadOK' /\ \A s \in Outputs : PipeOK(s)'
  BY RunnerTypesSplit, WorkloadKept, PipesKept DEF RunnerInv, ReportIsTrue
<1>1. pc' = "done" => ~kin' /\ child' \in {"none", "gone", "dying"}
  BY <1>0 DEF WorkloadOK
<1>2. CASE Classify
  <2>1. /\ Finished /\ UNCHANGED <<processes, made, pipes>>
        /\ capture' = "complete" => \A s \in Outputs : ~flawed[s]
    BY <1>2 DEF Classify, others
  <2>2. capture' = "complete" => \A s \in Outputs : stored[s] = made[s] /\ ~Writers
    BY <1>0, <2>1 DEF PipeOK, Finished
  <2>3. (capture' = "complete" => ~Writers) /\ Writers' = Writers /\ Finished'
    BY <2>1, <2>2, RunnerAssumption DEF Writers, Alive, Finished, processes, pipes
  <2>4. QED BY <1>1, <2>1, <2>2, <2>3 DEF CaptureIsOver, pipes
<1>3. CASE Claiming \/ SetupFails
  <2>1. child = "none" /\ UNCHANGED <<processes, made, pipes>>
    BY <1>0, <1>3, ClaimingFrame
       DEF Claiming, ReadClock, NoClaim, ClaimLost, ClaimWon, Claimed, SetupFails, WorkloadOK
  <2>2. ~kin /\ ~detached /\ \A s \in Outputs : stored[s] = made[s]
    BY <1>0, <2>1 DEF WorkloadOK, PipeOK
  <2>3. QED BY <1>1, <2>1, <2>2 DEF CaptureIsOver, Writers, Alive, processes, pipes
<1>4. CASE pc' # "done"
  BY <1>4 DEF CaptureIsOver
<1>5. CASE pc = "done"
  <2>1. Acting \/ Emitting \/ Capturing \/ Passing
    BY <1>5, RunnerClasses
       DEF Claiming, ReadClock, NoClaim, ClaimLost, ClaimWon, Claimed, Starting, SetupFails, StartHelper, Waiting,
           SetupDone, SetupStopped, ChildDone, CaptureFailed, WorkDone, Stopping, StopGroup, KillGroup, WaitChild,
           DrainTimeout, Classify
  <2>2. capture' = capture
    BY <2>1, PassingFrame, ActingFrame, EmittingFrame, CapturingFrame DEF theRunner, theRest, outcome
  <2>3. /\ ~kin /\ child \in {"none", "gone", "dying"} /\ (child = "none" \/ Finished)
        /\ capture = "complete" => ~Writers /\ \A s \in Outputs : stored[s] = made[s]
    BY <1>0, <1>5 DEF CaptureIsOver
  <2>4. CASE Passing
    BY <1>1, <2>2, <2>3, <2>4, PassingFrame DEF CaptureIsOver, Finished, Writers, Alive, processes, pipes
  <2>5. CASE Acting
    <3>1. UNCHANGED <<made, pipes>>
      BY <2>5, ActingFrame DEF theRunner
    <3>2. (child = "none" => child' = "none") /\ (Writers' => Writers)
      BY <1>0, <2>3, <2>5
         DEF Acting, Refuse, ClearDeadline, Exec, Fork, ChildEnds, RelativeEnds, Writers, Alive, WorkloadOK
    <3>3. QED BY <1>1, <2>2, <2>3, <3>1, <3>2 DEF CaptureIsOver, Finished, pipes
  <2>6. CASE Emitting
    <3>1. Writers /\ UNCHANGED <<processes, pipes>>
      BY <2>6, EmittingFrame DEF Emitting, Emit, Writers, Alive, theRunner
    <3>2. capture # "complete" /\ Finished' = Finished /\ child' = child
      BY <2>3, <3>1 DEF Finished, processes, pipes
    <3>3. QED BY <1>1, <2>2, <2>3, <3>2 DEF CaptureIsOver
  <2>7. CASE Capturing
    <3>1. PICK s \in Outputs : CaptureStep(s) /\ reader[s] = "reading"
      BY <2>7 DEF Capturing, CaptureStep, Read, EndOfFile, ReadFails
    <3>2. child # "none" => FALSE
      BY <2>3, <3>1 DEF Finished
    <3>3. reader[s] = "none"
      BY <1>0, <3>2 DEF PipeOK
    <3>4. QED BY <3>1, <3>3
  <2>8. QED BY <2>1, <2>4, <2>5, <2>6, <2>7
<1>6. CASE pc # "done" /\ pc' = "done" /\ ~Claiming /\ ~SetupFails
  <2>1. Classify
    BY <1>6, RunnerClasses, PassingFrame, ActingFrame, EmittingFrame, CapturingFrame
       DEF Starting, StartHelper, Waiting, SetupDone, SetupStopped, ChildDone, CaptureFailed, WorkDone, Because,
           Stopping, StopGroup, KillGroup, WaitChild, DrainTimeout, theRunner, theRest
  <2>2. QED BY <1>2, <2>1
<1>7. QED BY <1>3, <1>4, <1>5, <1>6

LEMMA RunnerInitIsTrue == RunnerInit => RunnerInv
<1> SUFFICES ASSUME RunnerInit PROVE RunnerInv
  OBVIOUS
<1>1. ClockTypes /\ ChildTypes /\ EndTypes
  <2>1. MaxClock \in Nat /\ 0 \in 0..MaxClock
    BY RunnerAssumption
  <2>2. ClockTypes
    BY <2>1 DEF RunnerInit, ClockTypes
  <2>3. ChildTypes /\ EndTypes
    BY DEF RunnerInit, ChildTypes, EndTypes, Steps, Reasons
  <2>4. QED BY <2>2, <2>3
<1>2. PipeTypes
  <2>1. 0 \in 0..MaxData /\ 0 \in 0..Limit
    BY RunnerAssumption
  <2>2. made = [s \in Outputs |-> 0] /\ got = made /\ stored = made
    BY DEF RunnerInit
  <2>3. made \in [Outputs -> 0..MaxData] /\ stored \in [Outputs -> 0..Limit]
    BY <2>1, <2>2
  <2>4. QED BY <2>2, <2>3 DEF RunnerInit, PipeTypes
<1>3. ClaimHeld /\ WorkloadOK /\ EndingOK /\ ClaimedFirst /\ EndIsItsOwn /\ CaptureIsOver
  BY DEF RunnerInit, ClaimHeld, WorkloadOK, EndingOK, ClaimedFirst, EndIsItsOwn, CaptureIsOver
<1>4. \A s \in Outputs : PipeOK(s)
  BY DEF RunnerInit, PipeOK
<1>5. QED BY <1>1, <1>2, <1>3, <1>4, RunnerTypesSplit DEF RunnerInv, ReportIsTrue

LEMMA RunnerInvKept == RunnerInv /\ [RunnerNext]_runnerVars => RunnerInv'
<1> SUFFICES ASSUME RunnerInv, [RunnerNext]_runnerVars PROVE RunnerInv'
  OBVIOUS
<1>1. CASE RunnerNext
  <2>1. ClockTypes' /\ ChildTypes' /\ PipeTypes' /\ EndTypes'
    BY <1>1, RunnerTypesSplit, ClockTypesKept, ChildTypesKept, PipeTypesKept, EndTypesKept DEF RunnerInv, ReportIsTrue
  <2>2. RunnerTypeOK' /\ pc' \in Steps /\ reason' \in Reasons
    BY <2>1 DEF RunnerTypeOK, ClockTypes, ChildTypes, PipeTypes, EndTypes
  <2>3. ClaimHeld' /\ WorkloadOK' /\ EndingOK' /\ \A s \in Outputs : PipeOK(s)'
    BY <1>1, ClaimHeldKept, WorkloadKept, EndingKept, PipesKept
  <2>4. ClaimedFirst'
    BY <2>3 DEF ClaimHeld, ClaimedFirst
  <2>5. EndIsItsOwn' /\ CaptureIsOver'
    BY <1>1, OwnEndKept, CaptureOverKept
  <2>6. QED BY <2>2, <2>3, <2>4, <2>5 DEF RunnerInv, ReportIsTrue, Steps, Reasons
<1>2. CASE UNCHANGED runnerVars
  <2>1. RunnerTypeOK' /\ pc' \in Steps /\ reason' \in Reasons
    <3>1. ClockTypes /\ ChildTypes /\ PipeTypes /\ EndTypes
      BY RunnerTypesSplit DEF RunnerInv, ReportIsTrue
    <3>2. ClockTypes'
      BY <1>2, <3>1 DEF ClockTypes, runnerVars
    <3>a. ChildTypes'
      BY <1>2, <3>1 DEF ChildTypes, runnerVars, processes
    <3>3. PipeTypes'
      BY <1>2, <3>1 DEF PipeTypes, runnerVars, pipes
    <3>4. EndTypes'
      BY <1>2, <3>1 DEF EndTypes, Steps, Reasons, runnerVars, outcome
    <3>5. QED BY <3>2, <3>a, <3>3, <3>4 DEF RunnerTypeOK, ClockTypes, ChildTypes, PipeTypes, EndTypes, Steps, Reasons
  <2>2. ClaimHeld' /\ WorkloadOK' /\ EndingOK' /\ ClaimedFirst' /\ EndIsItsOwn'
    BY <1>2 DEF RunnerInv, ReportIsTrue, ClaimHeld, WorkloadOK, EndingOK, ClaimedFirst, EndIsItsOwn,
                runnerVars, processes, pipes, outcome
  <2>3. CaptureIsOver' /\ \A s \in Outputs : PipeOK(s)'
    BY <1>2 DEF RunnerInv, ReportIsTrue, CaptureIsOver, Finished, Writers, Alive, PipeOK,
                runnerVars, processes, pipes, outcome
  <2>4. QED BY <2>1, <2>2, <2>3 DEF RunnerInv, ReportIsTrue, Steps, Reasons
<1>3. QED BY <1>1, <1>2

\* What a runner reports of its claim, its workload and its capture is true,
\* whatever the order of exit, full streams, deadlines and signal (Execute).
THEOREM ReportCorrect == RunnerSpec => []ReportIsTrue
<1>1. RunnerInv => ReportIsTrue
  BY DEF RunnerInv
<1>2. QED BY <1>1, RunnerInitIsTrue, RunnerInvKept, PTL DEF RunnerSpec
=============================================================================
