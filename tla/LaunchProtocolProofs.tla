------------------------ MODULE LaunchProtocolProofs ------------------------
(***************************************************************************)
(* Proofs about LaunchProtocol, for any clients, machines, targets and     *)
(* limits: the types; that no attempt is ever sent to EC2 twice; that the  *)
(* request never owns more workers than its plan; that what a record, a    *)
(* cache or a report says of an allocation is true; and that the protocol  *)
(* implements CapacityRequest.                                             *)
(*                                                                         *)
(* LaunchInv is inductive.  A client that may send (Holds) has the only    *)
(* permission there is for its attempt: the claim is stored, no call was   *)
(* made, and no other client holds one for the same attempt.               *)
(*                                                                         *)
(* CapacityInv is inductive together with LaunchInv.  A client dispatches  *)
(* an attempt only after reading, for each attempt before it, the settled  *)
(* response the shared ledger holds (Closed).  Such a response is the      *)
(* truth and the attempt's one call is over, so what is still owed to the  *)
(* plan (Owed) can no longer change.                                       *)
(***************************************************************************)
EXTENDS LaunchProtocol, TLAPS, FiniteSetTheorems, SequenceTheorems

Reports == [bounded : BOOLEAN, missing : Int, upto : Nat]

\* TypeOK, without and with what belongs to the clients.
ServiceTypes ==
  /\ ledger \in [Keys -> Attempt \cup {Absent}]
  /\ wire \subseteq [by : Client, turn : Turns, key : Keys, obj : Attempt]
  /\ won \subseteq Client /\ home \in [Client -> Machine]
  /\ cache \in [Machine -> Seq(Attempt) \cup {Absent}]
  /\ calls \subseteq Calls /\ answered \subseteq calls /\ allocated \subseteq Workers
  /\ heard \in [Client -> Attempt \cup {Absent}]

ClientTypes ==
  /\ lock \in [Machine -> Client \cup {Absent}]
  /\ pc \in [Client -> Stages]
  /\ io \in [Client -> {"none", "prepared", "orphans", "dispatch", "response", "loaded"}]
  /\ goal \in [Client -> {"none", "prepare", "claim", "record", "observe"}]
  /\ turn \in [Client -> Turns \cup {0}]
  /\ parent \in [Client -> 0..MaxAttempts]
  /\ receipt \in [Client -> Seq(Attempt)]
  /\ view \in [Client -> Seq(Attempt)]
  /\ report \in [Client -> Reports]

LEMMA TypesSplit == TypeOK <=> ServiceTypes /\ ClientTypes
BY DEF TypeOK, ServiceTypes, ClientTypes, Reports

Numbered == {"plan", "prepared", "dispatch", "send", "fleet", "response"}

\* What a client's stage says of its command: a started one has a turn, one
\* that dispatches a receipt, and one that has passed SavePrepared an attempt
\* within the ledger's limit.
StageOK(c) ==
  /\ pc[c] # "idle" => turn[c] \in Turns
  /\ pc[c] \in {"lockDispatch", "save"} => receipt[c] # <<>>
  /\ pc[c] \in Numbered \/ (pc[c] = "load" /\ goal[c] \in {"prepare", "claim", "record"})
       => Number(c) \in 1..MaxAttempts
  /\ Len(view[c]) <= MaxAttempts
  /\ io[c] \in {"dispatch", "response"} => view[c] # <<>>

\* A client that may still send, whatever happens to anyone else.
Holds(c) == pc[c] = "send" \/ (pc[c] = "dispatch" /\ c \in won)

HoldersAreAlone ==
  /\ \A c \in Client : c \in won => pc[c] = "dispatch"
  /\ \A c \in Client : Holds(c) =>
       /\ ledger[<<"dispatch", Number(c)>>] # Absent
       /\ \A call \in calls : call.attempt # Number(c)
  /\ \A c, d \in Client : Holds(c) /\ Holds(d) /\ Number(c) = Number(d) => c = d

CallsAreClaimed ==
  /\ \A call \in calls : ledger[<<"dispatch", call.attempt>>] # Absent
  /\ \A x, y \in calls : x.attempt = y.attempt => x = y

LaunchInv ==
  /\ TypeOK
  /\ \A c \in Client : StageOK(c)
  /\ HoldersAreAlone
  /\ CallsAreClaimed

\* What no step of one client touches.
Others(c) ==
  \A d \in Client : d # c =>
    /\ pc'[d] = pc[d] /\ io'[d] = io[d] /\ goal'[d] = goal[d] /\ turn'[d] = turn[d]
    /\ receipt'[d] = receipt[d] /\ view'[d] = view[d]

----------------------------------------------------------------------------
(* Data *)

LEMMA KeysAreTyped ==
  /\ PlanKey \in Keys
  /\ \A k \in {"prepared", "dispatch", "response"}, n \in 1..MaxAttempts : <<k, n>> \in Keys
BY DEF Keys, PlanKey

LEMMA WorkersAreFinite == IsFiniteSet(Workers)
<1> DEFINE Tuples == ((Client \X Turns) \X (1..MaxAttempts)) \X (1..Target)
           P == Tuples \X (1..Target)
           f == [p \in P |-> [call |-> [by |-> p[1][1][1][1], turn |-> p[1][1][1][2],
                                        attempt |-> p[1][1][2], count |-> p[1][2]],
                              index |-> p[2]]]
<1>1. IsFiniteSet(Turns) /\ IsFiniteSet(1..MaxAttempts) /\ IsFiniteSet(1..Target)
  BY LaunchAssumption, FS_Interval DEF Turns
<1>2. IsFiniteSet(Client \X Turns)
  BY <1>1, LaunchAssumption, FS_Product
<1>3. IsFiniteSet((Client \X Turns) \X (1..MaxAttempts))
  BY <1>1, <1>2, FS_Product
<1>4. IsFiniteSet(Tuples)
  BY <1>1, <1>3, FS_Product
<1>5. IsFiniteSet(P)
  BY <1>1, <1>4, FS_Product
<1>6. f \in Surjection(P, Workers)
  <2>1. f \in [P -> Workers]
    <3> SUFFICES ASSUME NEW p \in P PROVE f[p] \in Workers
      OBVIOUS
    <3>1. /\ p[1] \in Tuples /\ p[2] \in 1..Target
          /\ p[1][1] \in (Client \X Turns) \X (1..MaxAttempts) /\ p[1][2] \in 1..Target
          /\ p[1][1][1] \in Client \X Turns /\ p[1][1][2] \in 1..MaxAttempts
          /\ p[1][1][1][1] \in Client /\ p[1][1][1][2] \in Turns
      OBVIOUS
    <3>2. QED BY <3>1 DEF Workers, Calls
  <2>2. ASSUME NEW w \in Workers PROVE \E p \in P : f[p] = w
    <3> DEFINE p == <<<<<<<<w.call.by, w.call.turn>>, w.call.attempt>>, w.call.count>>, w.index>>
    <3>1. w \in [call : Calls, index : 1..Target] /\ w.call \in [by : Client, turn : Turns, attempt : 1..MaxAttempts, count : 1..Target]
      BY DEF Workers, Calls
    <3>2. p \in P
      BY <3>1
    <3>3. f[p] = [call |-> [by |-> w.call.by, turn |-> w.call.turn, attempt |-> w.call.attempt,
                            count |-> w.call.count], index |-> w.index]
      BY <3>2
    <3>4. f[p] = w
      BY <3>1, <3>3
    <3>5. QED BY <3>2, <3>4
  <2>3. QED BY <2>1, <2>2 DEF Surjection
<1>7. QED BY <1>5, <1>6, FS_Surjection

LEMMA FreshIsAttempt ==
  \A s \in Stamps \cup {Absent}, k \in 1..Target : Fresh(s, k) \in Attempt
BY DEF Fresh, Attempt, States

LEMMA MissingIsCount ==
  ASSUME NEW r \in Seq(Attempt)
  PROVE  Missing(r) \in Int /\ (Missing(r) > 0 => Missing(r) \in 1..Target)
<1>1. \A n \in DOMAIN r : r[n] \in Attempt
  OBVIOUS
<1>2. Ids(r) \subseteq Workers
  BY <1>1 DEF Ids, Attempt
<1>3. Cardinality(Ids(r)) \in Nat
  BY <1>2, WorkersAreFinite, FS_Subset, FS_CardinalityType
<1>4. QED BY <1>3, LaunchAssumption DEF Missing

\* A record of the attempts of a sequence, under the same numbers, is one too.
LEMMA SameDomain ==
  ASSUME NEW r \in Seq(Attempt), NEW f, f = [n \in DOMAIN r |-> f[n]],
         \A n \in DOMAIN r : f[n] \in Attempt
  PROVE  f \in Seq(Attempt) /\ Len(f) = Len(r)
<1>1. Len(r) \in Nat /\ DOMAIN r = 1..Len(r)
  OBVIOUS
<1>2. f \in [1..Len(r) -> Attempt]
  BY <1>1
<1>3. f \in Seq(Attempt)
  BY <1>1, <1>2
<1>4. DOMAIN f = 1..Len(r)
  BY <1>2
<1>5. QED BY <1>1, <1>3, <1>4

LEMMA MergedIsTyped ==
  ASSUME ServiceTypes, NEW r \in Seq(Attempt), NEW m \in Machine
  PROVE  Merged(r, m) \in Seq(Attempt) /\ Len(Merged(r, m)) = Len(r)
<1>1. ASSUME NEW n \in DOMAIN r PROVE Merged(r, m)[n] \in Attempt
  <2>1. r[n] \in Attempt
    OBVIOUS
  <2>2. CASE cache[m] # Absent /\ n \in DOMAIN cache[m]
    <3>1. cache[m] \in Seq(Attempt)
      BY <2>2 DEF ServiceTypes
    <3>2. cache[m][n] \in Attempt
      BY <2>2, <3>1
    <3>3. [r[n] EXCEPT !.state = "unknown", !.ids = @ \cup cache[m][n].ids,
                       !.fleet = @ \/ cache[m][n].fleet] \in Attempt
      <4>1. (r[n].fleet \/ cache[m][n].fleet) \in BOOLEAN
        OBVIOUS
      <4>2. r[n].ids \cup cache[m][n].ids \subseteq Workers
        BY <2>1, <3>2 DEF Attempt
      <4>3. QED BY <2>1, <4>1, <4>2 DEF Attempt, States
    <3>4. QED BY <2>1, <3>3 DEF Merged
  <2>3. CASE ~(cache[m] # Absent /\ n \in DOMAIN cache[m])
    BY <2>1, <2>3 DEF Merged
  <2>4. QED BY <2>2, <2>3
<1>2. Merged(r, m) = [n \in DOMAIN r |-> Merged(r, m)[n]]
  BY DEF Merged
<1>3. QED BY <1>1, <1>2, SameDomain

LEMMA SightedIsTyped ==
  ASSUME NEW r \in Seq(Attempt), NEW seen \in SUBSET Workers
  PROVE  Sighted(r, seen) \in Seq(Attempt) /\ Len(Sighted(r, seen)) = Len(r)
<1>1. ASSUME NEW n \in DOMAIN r PROVE Sighted(r, seen)[n] \in Attempt
  <2> DEFINE new == {w \in seen : w.call.attempt = n} \ r[n].ids
  <2>1. r[n] \in Attempt
    OBVIOUS
  <2>2. [r[n] EXCEPT !.state = "unknown", !.ids = @ \cup new] \in Attempt
    BY <2>1 DEF Attempt, States
  <2>3. QED BY <2>1, <2>2 DEF Sighted
<1>2. Sighted(r, seen) = [n \in DOMAIN r |-> Sighted(r, seen)[n]]
  BY DEF Sighted
<1>3. QED BY <1>1, <1>2, SameDomain

LEMMA LearntIsTyped ==
  ASSUME ServiceTypes, ClientTypes, NEW c \in Client, NEW seen \in SUBSET allocated
  PROVE  Learnt(c, seen) \in Seq(Attempt) /\ Len(Learnt(c, seen)) = Len(view[c])
<1>1. view[c] \in Seq(Attempt) /\ home[c] \in Machine /\ seen \in SUBSET Workers
  BY DEF ServiceTypes, ClientTypes
<1>2. Merged(view[c], home[c]) \in Seq(Attempt) /\ Len(Merged(view[c], home[c])) = Len(view[c])
  BY <1>1, MergedIsTyped
<1>3. QED BY <1>1, <1>2, SightedIsTyped DEF Learnt

----------------------------------------------------------------------------
(* How a client's command moves on *)

LEMMA InitIsGood == Init => LaunchInv
<1> SUFFICES ASSUME Init PROVE LaunchInv
  OBVIOUS
<1>1. TypeOK
  BY LaunchAssumption DEF Init, TypeOK, Stages, Nil
<1>2. \A c \in Client : StageOK(c)
  BY LaunchAssumption DEF Init, StageOK, Numbered
<1>3. HoldersAreAlone /\ CallsAreClaimed
  BY DEF Init, HoldersAreAlone, Holds, CallsAreClaimed
<1>4. QED BY <1>1, <1>2, <1>3 DEF LaunchInv

\* A step of one client that sends no call keeps the invariant, if the client
\* gains no permission by it.
LEMMA ClientKeeps ==
  ASSUME LaunchInv, NEW c \in Client, Others(c), TypeOK', StageOK(c)',
         ledger' = ledger, calls' = calls, won' \subseteq won,
         c \in won' => pc'[c] = "dispatch",
         Holds(c)' => Holds(c) /\ Number(c)' = Number(c)
  PROVE  LaunchInv'
<1>1. ASSUME NEW d \in Client, d # c
      PROVE  StageOK(d)' /\ (Holds(d)' => Holds(d)) /\ Number(d)' = Number(d)
             /\ (d \in won' => pc'[d] = "dispatch")
  <2>1. /\ pc'[d] = pc[d] /\ io'[d] = io[d] /\ goal'[d] = goal[d] /\ turn'[d] = turn[d]
        /\ receipt'[d] = receipt[d] /\ view'[d] = view[d]
    BY <1>1 DEF Others
  <2>2. StageOK(d) /\ (d \in won => pc[d] = "dispatch")
    BY DEF LaunchInv, HoldersAreAlone
  <2>3. StageOK(d)'
    BY <2>1, <2>2 DEF StageOK, Number
  <2>4. QED BY <2>1, <2>2, <2>3 DEF Holds, Number
<1>2. \A d \in Client : StageOK(d)' /\ (d \in won' => pc'[d] = "dispatch")
                        /\ (Holds(d)' => Holds(d) /\ Number(d)' = Number(d))
  BY <1>1
<1>3. HoldersAreAlone'
  BY <1>2 DEF LaunchInv, HoldersAreAlone
<1>4. CallsAreClaimed'
  BY DEF LaunchInv, CallsAreClaimed
<1>5. QED BY <1>2, <1>3, <1>4 DEF LaunchInv

LEMMA ReturnIsLocal ==
  ASSUME ClientTypes, NEW c \in Client, NEW result \in Reports, Return(c, result)
  PROVE  ClientTypes' /\ Others(c) /\ StageOK(c)' /\ pc'[c] = "idle"
<1>1. ClientTypes'
  BY LaunchAssumption DEF ClientTypes, Return, Goto, Stages
<1>2. pc'[c] = "idle" /\ io'[c] = "none" /\ view'[c] = <<>>
  BY DEF ClientTypes, Return, Goto
<1>3. Others(c)
  BY DEF ClientTypes, Return, Goto, Others
<1>4. StageOK(c)'
  BY <1>2, LaunchAssumption DEF StageOK, Numbered
<1>5. QED BY <1>1, <1>2, <1>3, <1>4

LEMMA FailIsLocal ==
  ASSUME ClientTypes, NEW c \in Client, Fail(c)
  PROVE  ClientTypes' /\ Others(c) /\ StageOK(c)' /\ pc'[c] = "idle"
<1>1. Nil \in Reports /\ Return(c, Nil)
  BY DEF Nil, Reports, Fail
<1>2. QED BY <1>1, ReturnIsLocal

LEMMA RefusedIsLocal ==
  ASSUME ClientTypes, ServiceTypes, NEW c \in Client, StageOK(c), pc[c] # "idle", Refused(c)
  PROVE  ClientTypes' /\ Others(c) /\ StageOK(c)' /\ pc'[c] \in {"idle", "lock"}
<1>1. CASE Len(receipt[c]) = 1
  BY <1>1, FailIsLocal DEF Refused
<1>2. CASE Len(receipt[c]) # 1
  <2>1. home[c] \in Machine
    BY DEF ServiceTypes
  <2>a. 0 \in 0..MaxAttempts /\ <<>> \in Seq(Attempt) /\ "lock" \in Stages
    BY LaunchAssumption DEF Stages
  <2>b. lock' = [lock EXCEPT ![home[c]] = Absent] /\ UNCHANGED <<turn, report>>
    BY <1>2 DEF Refused
  <2>c. lock' \in [Machine -> Client \cup {Absent}]
    BY <2>1, <2>b DEF ClientTypes
  <2>d. receipt' \in [Client -> Seq(Attempt)] /\ view' \in [Client -> Seq(Attempt)]
    BY <1>2, <2>a DEF ClientTypes, Refused
  <2>e. parent' \in [Client -> 0..MaxAttempts]
    BY <1>2, <2>a DEF ClientTypes, Refused
  <2>f. Goto(c, "lock", "none", "none")
    BY <1>2 DEF Refused
  <2>2. ClientTypes'
    BY <2>a, <2>b, <2>c, <2>d, <2>e, <2>f DEF ClientTypes, Goto
  <2>3. pc'[c] = "lock" /\ io'[c] = "none" /\ goal'[c] = "none" /\ view'[c] = <<>> /\ turn'[c] = turn[c]
    BY <1>2 DEF ClientTypes, Refused, Goto
  <2>4. Others(c)
    BY <1>2 DEF ClientTypes, Refused, Goto, Others
  <2>5. StageOK(c)'
    BY <2>3, LaunchAssumption DEF StageOK, Numbered
  <2>6. QED BY <2>2, <2>3, <2>4, <2>5
<1>3. QED BY <1>1, <1>2

\* A load begins: the lock may have been taken with it.
LEMMA BeginLoadIsLocal ==
  ASSUME ClientTypes, NEW c \in Client, StageOK(c), pc[c] # "idle",
         NEW g \in {"prepare", "claim", "record", "observe"}, BeginLoad(c, g),
         g # "observe" => Number(c) \in 1..MaxAttempts,
         UNCHANGED <<turn, parent, report>>,
         receipt' \in [Client -> Seq(Attempt)], Len(receipt'[c]) = Len(receipt[c]),
         \A d \in Client : d # c => receipt'[d] = receipt[d],
         lock' \in [Machine -> Client \cup {Absent}]
  PROVE  ClientTypes' /\ Others(c) /\ StageOK(c)' /\ pc'[c] = "load"
<1>a. "load" \in Stages /\ <<>> \in Seq(Attempt)
  BY DEF Stages
<1>b. view' \in [Client -> Seq(Attempt)]
  BY <1>a DEF ClientTypes, BeginLoad
<1>1. ClientTypes'
  BY <1>a, <1>b DEF ClientTypes, BeginLoad, Goto
<1>2. pc'[c] = "load" /\ io'[c] = "prepared" /\ goal'[c] = g /\ view'[c] = <<>> /\ turn'[c] = turn[c]
  BY DEF ClientTypes, BeginLoad, Goto
<1>3. Others(c)
  BY DEF ClientTypes, BeginLoad, Goto, Others
<1>4. StageOK(c)'
  BY <1>2, LaunchAssumption DEF StageOK, Numbered, Number
<1>5. QED BY <1>1, <1>2, <1>3, <1>4

LEMMA BeginPutIsLocal ==
  ASSUME ClientTypes, NEW c \in Client, StageOK(c), pc[c] # "idle",
         NEW key \in Keys, NEW obj \in Attempt, BeginPut(c, key, obj),
         key[1] \in {"plan", "prepared", "dispatch", "response"},
         Number(c) \in 1..MaxAttempts,
         UNCHANGED <<lock, memoryVars>>
  PROVE  ClientTypes' /\ Others(c) /\ StageOK(c)' /\ pc'[c] = key[1] /\ Number(c)' = Number(c)
<1>1. ClientTypes'
  BY DEF ClientTypes, BeginPut, Goto, Stages, memoryVars
<1>2. pc'[c] = key[1] /\ io'[c] = "none" /\ goal'[c] = "none" /\ view'[c] = <<>>
      /\ turn'[c] = turn[c] /\ receipt'[c] = receipt[c]
  BY DEF ClientTypes, BeginPut, Goto, memoryVars
<1>3. Others(c)
  BY DEF ClientTypes, BeginPut, Goto, Others, memoryVars
<1>4. StageOK(c)'
  BY <1>2, LaunchAssumption DEF StageOK, Numbered, Number
<1>5. QED BY <1>1, <1>2, <1>3, <1>4 DEF Number

\* The request of a PUT is typed, and nothing else of the services moves.
LEMMA BeginPutIsTyped ==
  ASSUME ServiceTypes, NEW c \in Client, NEW key \in Keys, NEW obj \in Attempt, BeginPut(c, key, obj),
         turn[c] \in Turns, cache' \in [Machine -> Seq(Attempt) \cup {Absent}], UNCHANGED worldVars
  PROVE  ServiceTypes' /\ ledger' = ledger /\ won' = won /\ calls' = calls
BY DEF ServiceTypes, BeginPut, worldVars

\* A step that ends outside the stages of a permission, and takes the client
\* out of those that were told of one.
LEMMA QuietKeeps ==
  ASSUME LaunchInv, NEW c \in Client, Others(c), ServiceTypes', ClientTypes', StageOK(c)',
         ledger' = ledger, calls' = calls, won' \subseteq won, c \notin won',
         pc'[c] \notin {"dispatch", "send"}
  PROVE  LaunchInv'
<1>1. ~Holds(c)'
  BY DEF Holds
<1>2. TypeOK'
  BY TypesSplit, PTL
<1>3. QED BY <1>1, <1>2, ClientKeeps

\* Most steps leave the services alone.
LEMMA LocalKeeps ==
  ASSUME LaunchInv, NEW c \in Client, Others(c), ClientTypes', StageOK(c)',
         cache' \in [Machine -> Seq(Attempt) \cup {Absent}], UNCHANGED <<ledgerVars, worldVars>>,
         pc[c] # "dispatch", pc'[c] \notin {"dispatch", "send"}
  PROVE  LaunchInv'
<1>1. ServiceTypes'
  BY TypesSplit DEF LaunchInv, ServiceTypes, ledgerVars, worldVars
<1>2. c \notin won /\ won' = won /\ ledger' = ledger /\ calls' = calls
  BY DEF LaunchInv, HoldersAreAlone, ledgerVars, worldVars
<1>3. QED BY <1>1, <1>2, QuietKeeps

LEMMA FailKeeps ==
  ASSUME LaunchInv, NEW c \in Client, Fail(c), pc[c] # "dispatch",
         cache' \in [Machine -> Seq(Attempt) \cup {Absent}], UNCHANGED <<ledgerVars, worldVars>>
  PROVE  LaunchInv'
<1>1. ClientTypes
  BY TypesSplit DEF LaunchInv
<1>2. QED BY <1>1, FailIsLocal, LocalKeeps

LEMMA RefusedKeeps ==
  ASSUME LaunchInv, NEW c \in Client, Refused(c), pc[c] \notin {"idle", "dispatch"},
         UNCHANGED <<ledgerVars, cache, worldVars>>
  PROVE  LaunchInv'
<1>1. ClientTypes /\ ServiceTypes /\ StageOK(c)
  BY TypesSplit DEF LaunchInv
<1>2. ClientTypes' /\ Others(c) /\ StageOK(c)' /\ pc'[c] \in {"idle", "lock"}
  BY <1>1, RefusedIsLocal
<1>3. cache' \in [Machine -> Seq(Attempt) \cup {Absent}]
  BY <1>1 DEF ServiceTypes
<1>4. QED BY <1>2, <1>3, LocalKeeps

----------------------------------------------------------------------------
(* Starting a command, and ending it *)

LEMMA StartKeeps ==
  ASSUME LaunchInv, NEW c \in Client, StartUp(c) \/ \E n \in 0..MaxAttempts : StartRecovery(c, n)
  PROVE  LaunchInv'
<1>1. ClientTypes /\ ServiceTypes /\ StageOK(c)
  BY TypesSplit DEF LaunchInv
<1>2. Start(c) /\ pc[c] = "idle" /\ UNCHANGED <<ledgerVars, localVars, worldVars, view>>
  BY DEF StartUp, StartRecovery, Start
<1>3. turn[c] + 1 \in Turns /\ turn' = [turn EXCEPT ![c] = @ + 1] /\ report' = [report EXCEPT ![c] = Nil]
  <2>1. turn[c] \in 0..(MaxRecoveries + 1) /\ MaxRecoveries \in Nat
    BY <1>1, LaunchAssumption DEF ClientTypes, Turns
  <2>2. turn[c] < MaxRecoveries + (IF c = Creator THEN 1 ELSE 0)
    BY <1>2 DEF Start
  <2>3. turn[c] + 1 \in 1..(MaxRecoveries + 1)
    BY <2>1, <2>2
  <2>4. QED BY <1>2, <2>3 DEF Start, Turns
<1>4. turn' \in [Client -> Turns \cup {0}] /\ report' \in [Client -> Reports]
  BY <1>1, <1>3 DEF ClientTypes, Nil, Reports
<1>5. Fresh(Absent, Target) \in Attempt /\ <<Fresh(Absent, Target)>> \in Seq(Attempt)
      /\ <<Fresh(Absent, Target)>> # <<>>
  BY FreshIsAttempt, LaunchAssumption
<1>6. cache' \in [Machine -> Seq(Attempt) \cup {Absent}] /\ lock' = lock /\ view' = view
  BY <1>1, <1>2 DEF ServiceTypes, localVars
<1>7. CASE StartUp(c)
  <2>1. receipt' \in [Client -> Seq(Attempt)] /\ receipt'[c] # <<>> /\ parent' = parent
    BY <1>1, <1>5, <1>7 DEF StartUp, ClientTypes
  <2>2. Goto(c, "lockDispatch", "none", "none")
    BY <1>7 DEF StartUp
  <2>3. ClientTypes'
    BY <1>1, <1>4, <1>6, <2>1, <2>2 DEF ClientTypes, Goto, Stages
  <2>4. Others(c)
    BY <1>1, <1>3, <1>7, <2>2 DEF Others, ClientTypes, Goto, StartUp, Start
  <2>5. StageOK(c)'
    BY <1>1, <1>3, <1>6, <2>1, <2>2 DEF StageOK, ClientTypes, Goto, Numbered
  <2>6. pc'[c] = "lockDispatch"
    BY <1>1, <2>2 DEF ClientTypes, Goto
  <2>7. QED BY <1>2, <1>6, <2>3, <2>4, <2>5, <2>6, LocalKeeps
<1>8. ASSUME NEW n \in 0..MaxAttempts, StartRecovery(c, n)
      PROVE  LaunchInv'
  <2>1. receipt' = receipt /\ parent' \in [Client -> 0..MaxAttempts]
    BY <1>1, <1>8 DEF StartRecovery, ClientTypes
  <2>2. Goto(c, "lock", "none", "none")
    BY <1>8 DEF StartRecovery
  <2>3. ClientTypes'
    BY <1>1, <1>4, <1>6, <2>1, <2>2 DEF ClientTypes, Goto, Stages
  <2>4. Others(c)
    BY <1>1, <1>3, <1>6, <2>1, <2>2 DEF Others, ClientTypes, Goto
  <2>5. StageOK(c)'
    BY <1>1, <1>3, <1>6, <2>1, <2>2 DEF StageOK, ClientTypes, Goto, Numbered
  <2>6. pc'[c] = "lock"
    BY <1>1, <2>2 DEF ClientTypes, Goto
  <2>7. QED BY <1>2, <1>6, <2>3, <2>4, <2>5, <2>6, LocalKeeps
<1>9. QED BY <1>7, <1>8

LEMMA AcquireLockKeeps ==
  ASSUME LaunchInv, NEW c \in Client, AcquireLock(c)
  PROVE  LaunchInv'
<1>1. ClientTypes /\ ServiceTypes /\ StageOK(c)
  BY TypesSplit DEF LaunchInv
<1>2. /\ pc[c] \in {"lock", "lockDispatch"} /\ UNCHANGED <<ledgerVars, cache, worldVars, memoryVars>>
      /\ lock' = [lock EXCEPT ![home[c]] = c]
  BY DEF AcquireLock
<1>3. lock' \in [Machine -> Client \cup {Absent}] /\ cache' \in [Machine -> Seq(Attempt) \cup {Absent}]
  BY <1>1, <1>2 DEF ServiceTypes, ClientTypes
<1>4. UNCHANGED <<turn, parent, receipt, report>>
  BY <1>2 DEF memoryVars
<1>5. CASE pc[c] = "lock"
  <2>1. BeginLoad(c, "observe")
    BY <1>5 DEF AcquireLock
  <2>2. ClientTypes' /\ Others(c) /\ StageOK(c)' /\ pc'[c] = "load"
    BY <1>1, <1>3, <1>4, <1>5, <2>1, BeginLoadIsLocal DEF ClientTypes
  <2>3. QED BY <1>2, <1>3, <2>2, LocalKeeps
<1>6. CASE pc[c] = "lockDispatch"
  <2>1. Goto(c, "save", "none", "none") /\ view' = view
    BY <1>6 DEF AcquireLock
  <2>2. ClientTypes'
    BY <1>1, <1>3, <1>4, <2>1 DEF ClientTypes, Goto, Stages
  <2>3. Others(c) /\ pc'[c] = "save"
    BY <1>1, <1>4, <2>1 DEF Others, ClientTypes, Goto
  <2>4. StageOK(c)'
    BY <1>1, <1>4, <1>6, <2>1 DEF StageOK, ClientTypes, Goto, Numbered
  <2>5. QED BY <1>2, <1>3, <2>2, <2>3, <2>4, LocalKeeps
<1>7. QED BY <1>2, <1>5, <1>6

LEMMA AbandonKeeps ==
  ASSUME LaunchInv, NEW c \in Client, Abandon(c)
  PROVE  LaunchInv'
<1>1. ClientTypes /\ ServiceTypes /\ Fail(c)
  BY TypesSplit DEF LaunchInv, Abandon
<1>2. ClientTypes' /\ Others(c) /\ StageOK(c)' /\ pc'[c] = "idle"
  BY <1>1, FailIsLocal
<1>3. ServiceTypes'
  BY <1>1 DEF ServiceTypes, Abandon
<1>4. ledger' = ledger /\ calls' = calls /\ won' = won \ {c}
  BY DEF Abandon
<1>5. QED BY <1>2, <1>3, <1>4, QuietKeeps

----------------------------------------------------------------------------
(* Loading the ledger *)

LEMMA ReadKeeps ==
  ASSUME LaunchInv, NEW c \in Client, pc[c] = "load",
         NEW next \in {"prepared", "orphans", "dispatch", "response", "loaded"},
         NEW seen \in Seq(Attempt), Len(seen) <= MaxAttempts, Read(c, next, seen),
         next \in {"dispatch", "response"} => seen # <<>>
  PROVE  LaunchInv'
<1>1. ClientTypes /\ ServiceTypes /\ StageOK(c)
  BY TypesSplit DEF LaunchInv
<1>2. /\ io' = [io EXCEPT ![c] = next] /\ view' = [view EXCEPT ![c] = seen]
      /\ UNCHANGED <<ledgerVars, cache, lock, worldVars, turn, parent, receipt, report, pc, goal>>
  BY DEF Read, localVars, memoryVars
<1>3. ClientTypes'
  BY <1>1, <1>2 DEF ClientTypes
<1>4. Others(c)
  BY <1>1, <1>2 DEF Others, ClientTypes
<1>5. StageOK(c)'
  BY <1>1, <1>2 DEF StageOK, ClientTypes, Numbered, Number
<1>6. cache' \in [Machine -> Seq(Attempt) \cup {Absent}]
  BY <1>1, <1>2 DEF ServiceTypes
<1>7. QED BY <1>2, <1>3, <1>4, <1>5, <1>6, LocalKeeps

LEMMA LoadFailsKeeps ==
  ASSUME LaunchInv, NEW c \in Client, pc[c] = "load", LoadFails(c)
  PROVE  LaunchInv'
<1>1. UNCHANGED <<ledgerVars, cache, worldVars>> /\ (Refused(c) \/ Fail(c))
  BY DEF LoadFails
<1>2. cache' \in [Machine -> Seq(Attempt) \cup {Absent}]
  BY <1>1, TypesSplit DEF LaunchInv, ServiceTypes
<1>3. QED BY <1>1, <1>2, FailKeeps, RefusedKeeps

LEMMA LoadKeeps ==
  ASSUME LaunchInv, NEW c \in Client, LoadStep(c)
  PROVE  LaunchInv'
<1> DEFINE v == view[c]
<1>1. ClientTypes /\ ServiceTypes /\ StageOK(c)
  BY TypesSplit DEF LaunchInv
<1>2. pc[c] = "load"
  BY DEF LoadStep, LoadUnavailable, LoadPrepared, LoadOrphans, LoadClaim, LoadResponse, Reads
<1>3. v \in Seq(Attempt) /\ Len(v) \in 0..MaxAttempts /\ (io[c] \in {"dispatch", "response"} => v # <<>>)
  BY <1>1, LaunchAssumption DEF ClientTypes, StageOK
<1>4. \A k \in Keys : ledger[k] # Absent => ledger[k] \in Attempt
  BY <1>1 DEF ServiceTypes
<1>5. CASE LoadUnavailable(c)
  BY <1>2, <1>5, LoadFailsKeeps DEF LoadUnavailable
<1>6. CASE LoadPrepared(c)
  <2> DEFINE n == Len(v) + 1
             next == Append(v, ledger[<<"prepared", n>>])
  <2>1. CASE n > MaxAttempts
    BY <1>2, <1>3, <1>6, <2>1, ReadKeeps DEF LoadPrepared
  <2>2. CASE n <= MaxAttempts /\ ledger[<<"prepared", n>>] = Absent
    <3>1. Read(c, "orphans", v)
      BY <1>3, <1>6, <2>2, LaunchAssumption DEF LoadPrepared
    <3>2. QED BY <1>2, <1>3, <3>1, ReadKeeps
  <2>3. CASE n <= MaxAttempts /\ ledger[<<"prepared", n>>] # Absent
    <3>1. ledger[<<"prepared", n>>] \in Attempt
      BY <1>3, <1>4, <2>3, KeysAreTyped
    <3>2. next \in Seq(Attempt) /\ Len(next) = n /\ next # <<>>
      BY <1>3, <3>1, AppendProperties
    <3>3. Read(c, "dispatch", next) \/ LoadFails(c)
      BY <1>3, <1>6, <2>3, LaunchAssumption DEF LoadPrepared
    <3>4. QED BY <1>2, <2>3, <3>2, <3>3, ReadKeeps, LoadFailsKeeps
  <2>4. QED BY <1>3, <2>1, <2>2, <2>3, LaunchAssumption
<1>7. CASE LoadOrphans(c)
  <2>1. Read(c, "loaded", v) \/ LoadFails(c)
    BY <1>7 DEF LoadOrphans
  <2>2. QED BY <1>2, <1>3, <2>1, ReadKeeps, LoadFailsKeeps
<1>8. CASE LoadClaim(c)
  <2> DEFINE n == Len(v)
             next == [v EXCEPT ![n].state = "dispatched"]
  <2>1. n \in 1..Len(v) /\ v[n] \in Attempt
    BY <1>3, <1>8 DEF LoadClaim, Reads
  <2>2. [v[n] EXCEPT !.state = "dispatched"] \in Attempt
    BY <2>1 DEF Attempt, States
  <2>3. next \in Seq(Attempt) /\ Len(next) = Len(v) /\ next # <<>>
    BY <1>3, <2>1, <2>2, ExceptSeq
  <2>4. Read(c, "response", v) \/ Read(c, "response", next)
    BY <1>8 DEF LoadClaim
  <2>5. v # <<>> /\ Len(v) <= MaxAttempts
    BY <1>3, <1>8, LaunchAssumption DEF LoadClaim, Reads
  <2>6. CASE Read(c, "response", v)
    BY <1>2, <1>3, <2>5, <2>6, ReadKeeps
  <2>7. CASE Read(c, "response", next)
    <3>1. next \in Seq(Attempt) /\ Len(next) <= MaxAttempts /\ next # <<>>
      BY <2>3, <2>5
    <3> HIDE DEF next
    <3>2. QED BY <1>2, <2>7, <3>1, ReadKeeps
  <2>8. QED BY <2>4, <2>6, <2>7
<1>9. CASE LoadResponse(c)
  <2> DEFINE n == Len(v)
             found == ledger[<<"response", n>>]
             next == [v EXCEPT ![n] = found]
  <2>1. n \in 1..Len(v) /\ n \in 1..MaxAttempts
    BY <1>3, <1>9 DEF LoadResponse, Reads
  <2>2. found # Absent => next \in Seq(Attempt) /\ Len(next) = Len(v)
    BY <1>3, <1>4, <2>1, KeysAreTyped, ExceptSeq
  <2>3. Read(c, "prepared", v) \/ LoadFails(c) \/ (found # Absent /\ Read(c, "prepared", next))
    BY <1>9 DEF LoadResponse
  <2>4. QED BY <1>2, <1>3, <2>2, <2>3, ReadKeeps, LoadFailsKeeps
<1>10. QED BY <1>5, <1>6, <1>7, <1>8, <1>9 DEF LoadStep

----------------------------------------------------------------------------
(* Dispatch: up to the claim *)

\* The attempt a client dispatches.
LEMMA MineIsTyped ==
  ASSUME ClientTypes, NEW c \in Client, receipt[c] # <<>>
  PROVE  /\ Mine(c) \in Attempt /\ Mine(c).count \in 1..Target /\ Number(c) \in 1..Len(receipt[c])
         /\ Mine(c) = receipt[c][Number(c)]
<1>1. receipt[c] \in Seq(Attempt)
  BY DEF ClientTypes
<1>2. Len(receipt[c]) \in 1..Len(receipt[c])
  BY <1>1, EmptySeq
<1>3. receipt[c][Len(receipt[c])] \in Attempt
  BY <1>1, <1>2, ElementOfSeq
<1>4. QED BY <1>2, <1>3 DEF Mine, Number, Last, Attempt

\* The receipt with another record of the attempt it dispatches.
LEMMA RevisedIsTyped ==
  ASSUME ClientTypes, NEW c \in Client, receipt[c] # <<>>, NEW a \in Attempt
  PROVE  /\ [receipt[c] EXCEPT ![Number(c)] = a] \in Seq(Attempt)
         /\ Len([receipt[c] EXCEPT ![Number(c)] = a]) = Len(receipt[c])
BY MineIsTyped, ExceptSeq DEF ClientTypes

LEMMA NumberedIsNonempty ==
  ASSUME ClientTypes, NEW c \in Client, Number(c) \in 1..MaxAttempts
  PROVE  receipt[c] # <<>>
BY EmptySeq DEF ClientTypes, Number

\* A PUT other than a claim is sent.
LEMMA PutKeeps ==
  ASSUME LaunchInv, NEW c \in Client, pc[c] \notin {"idle", "dispatch"},
         NEW key \in Keys, NEW obj \in Attempt, BeginPut(c, key, obj),
         key[1] \in {"plan", "prepared", "dispatch", "response"},
         Number(c) \in 1..MaxAttempts, UNCHANGED <<lock, memoryVars>>,
         cache' \in [Machine -> Seq(Attempt) \cup {Absent}], UNCHANGED worldVars
  PROVE  LaunchInv'
<1>1. ClientTypes /\ ServiceTypes /\ StageOK(c) /\ c \notin won
  BY TypesSplit DEF LaunchInv, HoldersAreAlone
<1>2. turn[c] \in Turns
  BY <1>1 DEF StageOK
<1>3. ClientTypes' /\ Others(c) /\ StageOK(c)' /\ pc'[c] = key[1]
  BY <1>1, BeginPutIsLocal
<1>4. ServiceTypes' /\ ledger' = ledger /\ won' = won /\ calls' = calls
  BY <1>1, <1>2, BeginPutIsTyped
<1>5. TypeOK'
  BY <1>3, <1>4, TypesSplit, PTL
<1>6. ~Holds(c)'
  BY <1>1, <1>3, <1>4 DEF Holds
<1>7. QED BY <1>1, <1>3, <1>4, <1>5, <1>6, ClientKeeps

LEMMA SaveKeeps ==
  ASSUME LaunchInv, NEW c \in Client, SavePrepared(c) \/ SaveRefused(c)
  PROVE  LaunchInv'
<1>1. ClientTypes /\ ServiceTypes /\ StageOK(c) /\ pc[c] = "save"
  BY TypesSplit DEF LaunchInv, SavePrepared, SaveRefused
<1>2. CASE SaveRefused(c)
  BY <1>1, <1>2, RefusedKeeps DEF SaveRefused
<1>3. CASE SavePrepared(c)
  <2>1. receipt[c] # <<>> /\ receipt[c] \in Seq(Attempt) /\ Number(c) \in Nat \ {0}
    BY <1>1, EmptySeq DEF StageOK, ClientTypes, Number
  <2>2. cache' \in [Machine -> Seq(Attempt) \cup {Absent}] /\ UNCHANGED worldVars
    BY <1>1, <1>3, <2>1 DEF SavePrepared, ServiceTypes
  <2>3. CASE Number(c) > MaxAttempts
    BY <1>1, <1>3, <2>2, <2>3, FailKeeps DEF SavePrepared
  <2>4. CASE ~(Number(c) > MaxAttempts)
    <3>1. BeginPut(c, PlanKey, Plan) /\ UNCHANGED <<lock, memoryVars>>
      BY <1>3, <2>4 DEF SavePrepared
    <3>2. PlanKey \in Keys /\ PlanKey[1] = "plan" /\ Plan \in Attempt
      BY KeysAreTyped, FreshIsAttempt, LaunchAssumption DEF PlanKey, Plan
    <3>3. Number(c) \in 1..MaxAttempts
      BY <2>1, <2>4, LaunchAssumption
    <3>4. QED BY <1>1, <2>2, <3>1, <3>2, <3>3, PutKeeps
  <2>5. QED BY <2>3, <2>4
<1>4. QED BY <1>2, <1>3

\* A load is begun by a client that may have changed its machine's cache.
LEMMA BeginLoadKeeps ==
  ASSUME LaunchInv, NEW c \in Client, pc[c] \notin {"idle", "dispatch"},
         NEW g \in {"prepare", "claim", "record", "observe"}, BeginLoad(c, g),
         Number(c) \in 1..MaxAttempts, UNCHANGED <<ledgerVars, lock, worldVars, memoryVars>>,
         cache' \in [Machine -> Seq(Attempt) \cup {Absent}]
  PROVE  LaunchInv'
<1>1. ClientTypes /\ StageOK(c)
  BY TypesSplit DEF LaunchInv
<1>2. UNCHANGED <<lock, turn, parent, receipt, report>>
  BY DEF memoryVars
<1>3. ClientTypes' /\ Others(c) /\ StageOK(c)' /\ pc'[c] = "load"
  BY <1>1, <1>2, BeginLoadIsLocal DEF ClientTypes
<1>4. QED BY <1>3, LocalKeeps

LEMMA PlanPublishedKeeps ==
  ASSUME LaunchInv, NEW c \in Client, PlanPublished(c)
  PROVE  LaunchInv'
<1>1. pc[c] = "plan" /\ StageOK(c) /\ ServiceTypes
  BY TypesSplit DEF LaunchInv, PlanPublished, Confirmed
<1>2. Number(c) \in 1..MaxAttempts
  BY <1>1 DEF StageOK, Numbered
<1>3. cache' \in [Machine -> Seq(Attempt) \cup {Absent}] /\ lock' = lock
  BY <1>1 DEF PlanPublished, ServiceTypes, localVars
<1>4. QED BY <1>1, <1>2, <1>3, BeginLoadKeeps DEF PlanPublished

LEMMA PrepareKeeps ==
  ASSUME LaunchInv, NEW c \in Client, Prepare(c) \/ PreparationConflicts(c)
  PROVE  LaunchInv'
<1>1. ClientTypes /\ ServiceTypes /\ StageOK(c)
  BY TypesSplit DEF LaunchInv
<1>2. CASE PreparationConflicts(c)
  BY <1>2, RefusedKeeps DEF PreparationConflicts
<1>3. CASE Prepare(c)
  <2>1. pc[c] = "load" /\ goal[c] = "prepare" /\ UNCHANGED <<cache, worldVars>>
    BY <1>3 DEF Prepare, Loaded, Reads
  <2>2. Number(c) \in 1..MaxAttempts
    BY <1>1, <2>1 DEF StageOK
  <2>3. cache' \in [Machine -> Seq(Attempt) \cup {Absent}]
    BY <1>1, <2>1 DEF ServiceTypes
  <2>4. CASE Agrees(c)
    <3>1. BeginPut(c, <<"prepared", Number(c)>>, Mine(c)) /\ UNCHANGED <<lock, memoryVars>>
      BY <1>3, <2>4 DEF Prepare
    <3>2. Mine(c) \in Attempt /\ <<"prepared", Number(c)>> \in Keys
      BY <1>1, <2>2, NumberedIsNonempty, MineIsTyped, KeysAreTyped
    <3>3. QED BY <2>1, <2>2, <2>3, <3>1, <3>2, PutKeeps
  <2>5. CASE ~Agrees(c)
    BY <1>3, <2>1, <2>5, RefusedKeeps DEF Prepare
  <2>6. QED BY <2>4, <2>5
<1>4. QED BY <1>2, <1>3

LEMMA SaveIntentKeeps ==
  ASSUME LaunchInv, NEW c \in Client, SaveIntent(c)
  PROVE  LaunchInv'
<1> DEFINE n == Number(c)
           dispatched == [receipt[c][n] EXCEPT !.state = "dispatched"]
           r == [receipt[c] EXCEPT ![n] = dispatched]
<1>1. ClientTypes /\ ServiceTypes /\ StageOK(c) /\ pc[c] = "prepared"
  BY TypesSplit DEF LaunchInv, SaveIntent, Confirmed
<1>2. n \in 1..MaxAttempts
  BY <1>1 DEF StageOK, Numbered
<1>3. receipt[c][n] \in Attempt
  BY <1>1, <1>2, NumberedIsNonempty, MineIsTyped
<1>4. dispatched \in Attempt
  BY <1>3 DEF Attempt, States
<1>5. r \in Seq(Attempt)
  BY <1>1, <1>2, <1>4, NumberedIsNonempty, RevisedIsTyped
<1>6. cache' = [cache EXCEPT ![home[c]] = r] /\ UNCHANGED <<ledgerVars, worldVars, lock, memoryVars>>
      /\ BeginLoad(c, "claim")
  BY DEF SaveIntent
<1>7. cache' \in [Machine -> Seq(Attempt) \cup {Absent}]
  BY <1>1, <1>5, <1>6 DEF ServiceTypes
<1>8. QED BY <1>1, <1>2, <1>6, <1>7, BeginLoadKeeps

LEMMA ClaimKeeps ==
  ASSUME LaunchInv, NEW c \in Client, SendClaim(c) \/ ClaimRefused(c) \/ ClaimUnconfirmed(c)
  PROVE  LaunchInv'
<1>1. ClientTypes /\ ServiceTypes /\ StageOK(c)
  BY TypesSplit DEF LaunchInv
<1>2. CASE SendClaim(c)
  <2>1. pc[c] = "load" /\ goal[c] = "claim" /\ UNCHANGED <<cache, lock, worldVars, memoryVars>>
    BY <1>2 DEF SendClaim, Loaded, Reads, localVars
  <2>2. Number(c) \in 1..MaxAttempts
    BY <1>1, <2>1 DEF StageOK
  <2>3. Fresh(Absent, Mine(c).count) \in Attempt /\ <<"dispatch", Number(c)>> \in Keys
    BY <1>1, <2>2, NumberedIsNonempty, MineIsTyped, KeysAreTyped, FreshIsAttempt
  <2>4. BeginPut(c, <<"dispatch", Number(c)>>, Fresh(Absent, Mine(c).count))
    BY <1>2 DEF SendClaim
  <2>5. cache' \in [Machine -> Seq(Attempt) \cup {Absent}]
    BY <1>1, <2>1 DEF ServiceTypes
  <2>6. QED BY <2>1, <2>2, <2>3, <2>4, <2>5, PutKeeps
<1>3. CASE ClaimRefused(c)
  BY <1>3, RefusedKeeps DEF ClaimRefused, Loaded, Reads
<1>4. CASE ClaimUnconfirmed(c)
  <2>1. Refused(c) /\ pc[c] = "dispatch" /\ won' = won \ {c} /\ UNCHANGED <<ledger, wire, cache, worldVars>>
    BY <1>4 DEF ClaimUnconfirmed
  <2>2. ClientTypes' /\ Others(c) /\ StageOK(c)' /\ pc'[c] \in {"idle", "lock"}
    BY <1>1, <2>1, RefusedIsLocal
  <2>3. ServiceTypes' /\ calls' = calls
    BY <1>1, <2>1 DEF ServiceTypes, worldVars
  <2>4. QED BY <2>1, <2>2, <2>3, QuietKeeps
<1>5. QED BY <1>2, <1>3, <1>4

LEMMA ClaimWonKeeps ==
  ASSUME LaunchInv, NEW c \in Client, ClaimWon(c)
  PROVE  LaunchInv'
<1>1. ClientTypes /\ ServiceTypes /\ StageOK(c) /\ pc[c] = "dispatch" /\ c \in won
  BY TypesSplit DEF LaunchInv, ClaimWon
<1>2. /\ won' = won \ {c} /\ Goto(c, "send", "none", "none")
      /\ UNCHANGED <<ledger, wire, cache, lock, worldVars, turn, parent, receipt, report, view>>
  BY DEF ClaimWon, localVars, memoryVars
<1>3. ClientTypes'
  BY <1>1, <1>2 DEF ClientTypes, Goto, Stages
<1>4. ServiceTypes' /\ calls' = calls
  BY <1>1, <1>2 DEF ServiceTypes, worldVars
<1>5. TypeOK'
  BY <1>3, <1>4, TypesSplit, PTL
<1>6. Others(c) /\ pc'[c] = "send"
  BY <1>1, <1>2 DEF ClientTypes, Goto, Others
<1>7. StageOK(c)'
  BY <1>1, <1>2 DEF ClientTypes, Goto, StageOK, Number, Numbered
<1>8. Holds(c) /\ Number(c)' = Number(c)
  BY <1>1, <1>2 DEF Holds, Number
<1>9. QED BY <1>2, <1>4, <1>5, <1>6, <1>7, <1>8, ClientKeeps

----------------------------------------------------------------------------
(* Dispatch: the one call, and what becomes of it *)

\* The permission is used up by the call: nobody else holds one for the attempt.
LEMMA CreateFleetKeeps ==
  ASSUME LaunchInv, NEW c \in Client, CreateFleet(c)
  PROVE  LaunchInv'
<1> DEFINE n == Number(c)
           sent == [by |-> c, turn |-> turn[c], attempt |-> n, count |-> Mine(c).count]
<1>1. ClientTypes /\ ServiceTypes /\ StageOK(c) /\ pc[c] = "send" /\ Holds(c)
  BY TypesSplit DEF LaunchInv, CreateFleet, Holds
<1>2. /\ calls' = calls \cup {sent} /\ Goto(c, "fleet", "none", "none")
      /\ UNCHANGED <<ledger, wire, won, cache, lock, home, answered, allocated, heard>>
      /\ UNCHANGED <<turn, parent, receipt, report, view>>
  BY DEF CreateFleet, ledgerVars, localVars, memoryVars
<1>3. n \in 1..MaxAttempts /\ turn[c] \in Turns
  BY <1>1 DEF StageOK, Numbered
<1>4. sent \in Calls
  BY <1>1, <1>3, NumberedIsNonempty, MineIsTyped DEF Calls
<1>5. ClientTypes'
  BY <1>1, <1>2 DEF ClientTypes, Goto, Stages
<1>6. ServiceTypes'
  BY <1>1, <1>2, <1>4 DEF ServiceTypes
<1>7. TypeOK'
  BY <1>5, <1>6, TypesSplit, PTL
<1>8. Others(c) /\ pc'[c] = "fleet"
  BY <1>1, <1>2 DEF ClientTypes, Goto, Others
<1>9. \A d \in Client : StageOK(d)'
  <2>1. StageOK(c)'
    BY <1>1, <1>2 DEF ClientTypes, Goto, StageOK, Number, Numbered
  <2>2. ASSUME NEW d \in Client, d # c PROVE StageOK(d)'
    BY <1>8, <2>2 DEF LaunchInv, Others, StageOK, Number
  <2>3. QED BY <2>1, <2>2
<1>10. ledger[<<"dispatch", n>>] # Absent /\ \A call \in calls : call.attempt # n
  BY <1>1 DEF LaunchInv, HoldersAreAlone
<1>11. ~Holds(c)' /\ c \notin won
  BY <1>1, <1>8 DEF Holds, LaunchInv, HoldersAreAlone
<1>12. ASSUME NEW d \in Client, d # c
       PROVE  (Holds(d)' => Holds(d) /\ Number(d) # n) /\ Number(d)' = Number(d)
              /\ (d \in won' => pc'[d] = "dispatch")
  <2>1. pc'[d] = pc[d] /\ won' = won /\ Number(d)' = Number(d)
    BY <1>2, <1>8, <1>12 DEF Others, Number
  <2>2. Holds(d) => Number(d) # n
    BY <1>1, <1>12 DEF LaunchInv, HoldersAreAlone
  <2>3. QED BY <2>1, <2>2 DEF Holds, LaunchInv, HoldersAreAlone
<1>13. HoldersAreAlone'
  <2>1. ASSUME NEW d \in Client, Holds(d)'
        PROVE  ledger'[<<"dispatch", Number(d)'>>] # Absent
               /\ \A call \in calls' : call.attempt # Number(d)'
    BY <1>2, <1>11, <1>12, <2>1 DEF LaunchInv, HoldersAreAlone
  <2>2. ASSUME NEW d \in Client, NEW e \in Client, Holds(d)', Holds(e)', Number(d)' = Number(e)'
        PROVE  d = e
    BY <1>11, <1>12, <2>2 DEF LaunchInv, HoldersAreAlone
  <2>3. \A d \in Client : d \in won' => pc'[d] = "dispatch"
    BY <1>2, <1>11, <1>12
  <2>4. QED BY <2>1, <2>2, <2>3 DEF HoldersAreAlone
<1>14. CallsAreClaimed'
  BY <1>2, <1>10 DEF LaunchInv, CallsAreClaimed
<1>15. QED BY <1>7, <1>9, <1>13, <1>14 DEF LaunchInv

\* Whatever is made of EC2's answer, or of its silence.
LEMMA ObservedKeeps ==
  ASSUME LaunchInv, NEW c \in Client, pc[c] \in {"send", "fleet"}, NEW a \in Attempt, Observed(c, a)
  PROVE  LaunchInv'
<1> DEFINE r == [receipt[c] EXCEPT ![Number(c)] = a]
<1>1. ClientTypes /\ ServiceTypes /\ StageOK(c) /\ c \notin won
  BY TypesSplit DEF LaunchInv, HoldersAreAlone
<1>2. Number(c) \in 1..MaxAttempts
  BY <1>1 DEF StageOK, Numbered
<1>3. r \in Seq(Attempt) /\ Len(r) = Len(receipt[c])
  BY <1>1, <1>2, NumberedIsNonempty, RevisedIsTyped
<1>4. /\ receipt' = [receipt EXCEPT ![c] = r] /\ BeginLoad(c, "record")
      /\ cache' = cache \/ cache' = [cache EXCEPT ![home[c]] = r]
      /\ heard' = [heard EXCEPT ![c] = Absent]
      /\ UNCHANGED <<ledger, wire, won, lock, calls, answered, allocated, home, turn, parent, report>>
  BY DEF Observed, ledgerVars
<1>5. /\ receipt' \in [Client -> Seq(Attempt)] /\ Len(receipt'[c]) = Len(receipt[c])
      /\ \A d \in Client : d # c => receipt'[d] = receipt[d]
      /\ lock' \in [Machine -> Client \cup {Absent}]
  BY <1>1, <1>3, <1>4 DEF ClientTypes
<1>6. ClientTypes' /\ Others(c) /\ StageOK(c)' /\ pc'[c] = "load"
  BY <1>1, <1>2, <1>4, <1>5, BeginLoadIsLocal
<1>7. cache' \in [Machine -> Seq(Attempt) \cup {Absent}] /\ heard' \in [Client -> Attempt \cup {Absent}]
  <2>1. cache' \in [Machine -> Seq(Attempt) \cup {Absent}]
    <3>1. cache \in [Machine -> Seq(Attempt) \cup {Absent}] /\ home[c] \in Machine
      BY <1>1 DEF ServiceTypes
    <3>2. CASE cache' = cache
      BY <3>1, <3>2
    <3>3. CASE cache' = [cache EXCEPT ![home[c]] = r]
      BY <1>3, <3>1, <3>3
    <3>4. QED BY <1>4, <3>2, <3>3
  <2>2. heard' \in [Client -> Attempt \cup {Absent}]
    BY <1>1, <1>4 DEF ServiceTypes
  <2>3. QED BY <2>1, <2>2
<1>8. ServiceTypes'
  BY <1>1, <1>4, <1>7 DEF ServiceTypes
<1>9. QED BY <1>1, <1>4, <1>6, <1>8, QuietKeeps

LEMMA FleetKeeps ==
  ASSUME LaunchInv, NEW c \in Client, FleetHeard(c) \/ FleetLost(c) \/ ExpiresAtSend(c)
  PROVE  LaunchInv'
<1>1. ClientTypes /\ ServiceTypes /\ StageOK(c) /\ pc[c] \in {"send", "fleet"}
  BY TypesSplit DEF LaunchInv, FleetHeard, FleetLost, ExpiresAtSend
<1>2. Mine(c) \in Attempt
  BY <1>1, NumberedIsNonempty, MineIsTyped DEF StageOK, Numbered
<1>3. Unknown(Mine(c)) \in Attempt
  BY <1>2 DEF Unknown, Attempt, States
<1>4. heard[c] # Absent => heard[c] \in Attempt
  BY <1>1 DEF ServiceTypes
<1>5. \E a \in Attempt : Observed(c, a)
  BY <1>3, <1>4 DEF FleetHeard, FleetLost, ExpiresAtSend
<1>6. QED BY <1>1, <1>5, ObservedKeeps

LEMMA RecordKeeps ==
  ASSUME LaunchInv, NEW c \in Client, RecordResponse(c) \/ ResponseRecorded(c) \/ PutUnconfirmed(c)
  PROVE  LaunchInv'
<1>1. ClientTypes /\ ServiceTypes /\ StageOK(c)
  BY TypesSplit DEF LaunchInv
<1>2. UNCHANGED <<cache, worldVars>>
  BY DEF RecordResponse, ResponseRecorded, PutUnconfirmed
<1>3. cache' \in [Machine -> Seq(Attempt) \cup {Absent}]
  BY <1>1, <1>2 DEF ServiceTypes
<1>4. CASE PutUnconfirmed(c)
  BY <1>3, <1>4, FailKeeps DEF PutUnconfirmed
<1>5. CASE RecordResponse(c)
  <2> DEFINE n == Number(c)
             found == Len(view[c]) >= n /\ view[c][n].state # "prepared"
  <2>1. pc[c] = "load" /\ goal[c] = "record"
    BY <1>5 DEF RecordResponse, Loaded, Reads
  <2>2. n \in 1..MaxAttempts
    BY <1>1, <2>1 DEF StageOK
  <2>3. Mine(c) \in Attempt /\ <<"response", n>> \in Keys
    BY <1>1, <2>2, NumberedIsNonempty, MineIsTyped, KeysAreTyped
  <2>4. CASE found
    <3>1. BeginPut(c, <<"response", n>>, Mine(c)) /\ UNCHANGED <<lock, memoryVars>>
      BY <1>5, <2>4 DEF RecordResponse
    <3>2. QED BY <1>2, <1>3, <2>1, <2>2, <2>3, <3>1, PutKeeps
  <2>5. CASE ~found
    BY <1>2, <1>3, <1>5, <2>1, <2>5, FailKeeps DEF RecordResponse
  <2>6. QED BY <2>4, <2>5
<1>6. CASE ResponseRecorded(c)
  <2>1. pc[c] = "response" /\ UNCHANGED <<ledgerVars, worldVars>>
    BY <1>6 DEF ResponseRecorded, Confirmed
  <2>2. Missed(Missing(receipt[c]), Number(c)) \in Reports
    BY <1>1, MissingIsCount DEF ClientTypes, Missed, Reports, Number
  <2>3. Return(c, Missed(Missing(receipt[c]), Number(c))) \/ Fail(c)
    BY <1>6 DEF ResponseRecorded
  <2>4. ClientTypes' /\ Others(c) /\ StageOK(c)' /\ pc'[c] = "idle"
    BY <1>1, <2>2, <2>3, ReturnIsLocal, FailIsLocal
  <2>5. QED BY <1>3, <2>1, <2>4, LocalKeeps
<1>7. QED BY <1>4, <1>5, <1>6

LEMMA DispatchKeeps ==
  ASSUME LaunchInv, NEW c \in Client, DispatchStep(c)
  PROVE  LaunchInv'
BY SaveKeeps, PlanPublishedKeeps, PrepareKeeps, SaveIntentKeeps, ClaimKeeps, ClaimWonKeeps,
   CreateFleetKeeps, FleetKeeps, RecordKeeps DEF DispatchStep

----------------------------------------------------------------------------
(* Recovery *)

\* An observed request: the machine may remember what was learnt.
LEMMA InspectedIsTyped ==
  ASSUME LaunchInv, NEW c \in Client, NEW seen \in SUBSET allocated, Inspected(c, seen)
  PROVE  /\ ServiceTypes' /\ UNCHANGED <<ledger, won, calls>>
         /\ Learnt(c, seen) \in Seq(Attempt) /\ Len(Learnt(c, seen)) \in 1..MaxAttempts
<1> DEFINE r == Learnt(c, seen)
<1>1. ClientTypes /\ ServiceTypes /\ StageOK(c)
  BY TypesSplit DEF LaunchInv
<1>2. r \in Seq(Attempt) /\ Len(r) = Len(view[c])
  BY <1>1, LearntIsTyped
<1>3. Len(r) \in 1..MaxAttempts
  <2>1. view[c] \in Seq(Attempt) /\ view[c] # <<>> /\ Len(view[c]) <= MaxAttempts
    BY <1>1 DEF Inspected, ClientTypes, StageOK
  <2>2. Len(view[c]) \in Nat \ {0}
    BY <2>1, EmptySeq
  <2>3. QED BY <1>2, <2>1, <2>2, LaunchAssumption
<1>4. cache' \in [Machine -> Seq(Attempt) \cup {Absent}]
  <2>1. cache \in [Machine -> Seq(Attempt) \cup {Absent}] /\ home[c] \in Machine
    BY <1>1 DEF ServiceTypes
  <2>2. cache' = cache \/ cache' = [cache EXCEPT ![home[c]] = r]
    BY DEF Inspected
  <2>3. CASE cache' = cache
    BY <2>1, <2>3
  <2>4. CASE cache' = [cache EXCEPT ![home[c]] = r]
    BY <1>2, <2>1, <2>4
  <2>5. QED BY <2>2, <2>3, <2>4
<1>5. UNCHANGED <<ledger, wire, won, home, calls, answered, allocated, heard>>
  BY DEF Inspected, ledgerVars, worldVars
<1>6. ServiceTypes'
  BY <1>1, <1>4, <1>5 DEF ServiceTypes
<1>7. QED BY <1>2, <1>3, <1>5, <1>6

LEMMA RetryGrantedKeeps ==
  ASSUME LaunchInv, NEW c \in Client, RetryGranted(c)
  PROVE  LaunchInv'
<1>1. PICK seen \in SUBSET allocated, s \in Stamps :
        /\ Inspected(c, seen) /\ Retries(c, Learnt(c, seen))
        /\ Authorize(c, Append(Learnt(c, seen), Fresh(s, Missing(Learnt(c, seen)))))
  BY DEF RetryGranted
<1> DEFINE r == Learnt(c, seen)
           next == Append(r, Fresh(s, Missing(r)))
<1>2. ClientTypes /\ ServiceTypes /\ StageOK(c) /\ pc[c] = "load" /\ c \notin won
  BY <1>1, TypesSplit DEF LaunchInv, Inspected, Loaded, Reads, HoldersAreAlone
<1>3. ServiceTypes' /\ UNCHANGED <<ledger, won, calls>> /\ r \in Seq(Attempt)
  BY <1>1, InspectedIsTyped
<1>4. Fresh(s, Missing(r)) \in Attempt
  BY <1>1, <1>3, MissingIsCount, FreshIsAttempt DEF Retries
<1>5. next \in Seq(Attempt) /\ next # <<>>
  BY <1>3, <1>4, AppendProperties
<1>6. /\ Goto(c, "lockDispatch", "none", "none") /\ receipt' = [receipt EXCEPT ![c] = next]
      /\ view' = [view EXCEPT ![c] = <<>>] /\ lock' = [lock EXCEPT ![home[c]] = Absent]
      /\ UNCHANGED <<turn, parent, report>>
  BY <1>1 DEF Authorize
<1>7. receipt' \in [Client -> Seq(Attempt)] /\ receipt'[c] = next
  BY <1>2, <1>5, <1>6 DEF ClientTypes
<1>8. view' \in [Client -> Seq(Attempt)] /\ view'[c] = <<>> /\ lock' \in [Machine -> Client \cup {Absent}]
  BY <1>2, <1>6 DEF ClientTypes, ServiceTypes
<1>9. ClientTypes'
  BY <1>2, <1>6, <1>7, <1>8 DEF ClientTypes, Goto, Stages
<1>10. Others(c) /\ pc'[c] = "lockDispatch" /\ io'[c] = "none" /\ turn'[c] = turn[c]
  BY <1>2, <1>6 DEF ClientTypes, Goto, Others
<1>11. StageOK(c)'
  BY <1>2, <1>5, <1>7, <1>8, <1>10, LaunchAssumption DEF StageOK, Numbered
<1>12. QED BY <1>2, <1>3, <1>9, <1>10, <1>11, QuietKeeps

\* A command that only observes the request returns what it saw.
LEMMA ReportedKeeps ==
  ASSUME LaunchInv, NEW c \in Client, Reported(c) \/ InspectionFails(c)
  PROVE  LaunchInv'
<1>1. PICK seen \in SUBSET allocated :
        Inspected(c, seen) /\ (Fail(c) \/ Return(c, Outcome(Learnt(c, seen))))
  BY DEF Reported, InspectionFails
<1>2. ClientTypes /\ ServiceTypes /\ StageOK(c) /\ pc[c] = "load" /\ c \notin won
  BY <1>1, TypesSplit DEF LaunchInv, Inspected, Loaded, Reads, HoldersAreAlone
<1>3. ServiceTypes' /\ UNCHANGED <<ledger, won, calls>> /\ Learnt(c, seen) \in Seq(Attempt)
  BY <1>1, InspectedIsTyped
<1>4. Outcome(Learnt(c, seen)) \in Reports
  BY <1>3, MissingIsCount DEF Outcome, Missed, Nil, Reports
<1>5. ClientTypes' /\ Others(c) /\ StageOK(c)' /\ pc'[c] = "idle"
  BY <1>1, <1>2, <1>4, ReturnIsLocal, FailIsLocal
<1>6. QED BY <1>2, <1>3, <1>5, QuietKeeps

LEMMA ObserveKeeps ==
  ASSUME LaunchInv, NEW c \in Client, Observe(c)
  PROVE  LaunchInv'
<1>1. CASE NothingPrepared(c) \/ ReceiptConflicts(c)
  <2>1. Fail(c) /\ pc[c] = "load" /\ UNCHANGED <<ledgerVars, cache, worldVars>>
    BY <1>1 DEF NothingPrepared, ReceiptConflicts, Loaded, Reads
  <2>2. cache' \in [Machine -> Seq(Attempt) \cup {Absent}]
    BY <2>1, TypesSplit DEF LaunchInv, ServiceTypes
  <2>3. QED BY <2>1, <2>2, FailKeeps
<1>2. CASE InspectionFails(c) \/ Reported(c)
  BY <1>2, ReportedKeeps
<1>3. CASE RetryGranted(c)
  BY <1>3, RetryGrantedKeeps
<1>4. QED BY <1>1, <1>2, <1>3 DEF Observe

----------------------------------------------------------------------------
(* The services and the machines *)

\* What no step of the services or of a machine's disk touches.
LEMMA ClientsRest ==
  ASSUME LaunchInv, UNCHANGED <<lock, memoryVars, stageVars>>
  PROVE  /\ ClientTypes' /\ \A c \in Client : StageOK(c)' /\ Number(c)' = Number(c)
         /\ pc' = pc
<1>1. UNCHANGED <<lock, turn, parent, receipt, report, pc, io, goal, view>>
  BY DEF memoryVars, stageVars
<1>2. ClientTypes'
  BY <1>1, TypesSplit DEF LaunchInv, ClientTypes
<1>3. \A c \in Client : StageOK(c)' /\ Number(c)' = Number(c)
  BY <1>1 DEF LaunchInv, StageOK, Number
<1>4. QED BY <1>1, <1>2, <1>3

LEMMA RestKeeps ==
  ASSUME LaunchInv, UNCHANGED <<ledger, won, calls, lock, memoryVars, stageVars>>, ServiceTypes'
  PROVE  LaunchInv'
<1>1. ClientTypes' /\ (\A c \in Client : StageOK(c)' /\ Number(c)' = Number(c)) /\ pc' = pc
  BY ClientsRest
<1>2. TypeOK'
  BY <1>1, TypesSplit, PTL
<1>3. HoldersAreAlone' /\ CallsAreClaimed'
  BY <1>1 DEF LaunchInv, HoldersAreAlone, CallsAreClaimed, Holds
<1>4. QED BY <1>1, <1>2, <1>3 DEF LaunchInv

LEMMA LoseCacheKeeps ==
  ASSUME LaunchInv, NEW m \in Machine, LoseCache(m)
  PROVE  LaunchInv'
<1>1. ServiceTypes'
  BY TypesSplit DEF LaunchInv, ServiceTypes, LoseCache, ledgerVars, worldVars
<1>2. QED BY <1>1, RestKeeps DEF LoseCache, ledgerVars, worldVars

\* EC2 answers the client that still waits for this call, with one of the
\* attempt's possible records.
LEMMA LaunchKeeps ==
  ASSUME LaunchInv, NEW call \in calls, NEW k \in 0..Target, Launch(call, k)
  PROVE  LaunchInv'
<1> DEFINE new == {[call |-> call, index |-> i] : i \in 1..k}
           c == call.by
<1>1. ClientTypes /\ ServiceTypes /\ call \in Calls
  BY TypesSplit DEF LaunchInv, ServiceTypes
<1>2. new \subseteq Workers
  BY <1>1, LaunchAssumption DEF Workers
<1>3. /\ answered' = answered \cup {call} /\ allocated' = allocated \cup new
      /\ UNCHANGED <<ledger, wire, won, cache, lock, home, calls, memoryVars, stageVars>>
  BY DEF Launch, ledgerVars, localVars
<1>4. heard' \in [Client -> Attempt \cup {Absent}]
  <2>1. CASE turn[c] = call.turn /\ pc[c] = "fleet"
    <3>1. c \in Client /\ StageOK(c)
      BY <1>1 DEF Calls, LaunchInv
    <3>2. Mine(c) \in Attempt
      BY <1>1, <2>1, <3>1, NumberedIsNonempty, MineIsTyped DEF StageOK, Numbered
    <3>3. PICK a \in Answers(Mine(c), new) : heard' = [heard EXCEPT ![c] = a]
      BY <2>1 DEF Launch
    <3>4. \/ a = [Mine(c) EXCEPT !.state = "complete", !.ids = new, !.fleet = TRUE]
          \/ \E some \in SUBSET new : a = [Mine(c) EXCEPT !.state = "unknown", !.ids = some, !.fleet = TRUE]
          \/ a = [Mine(c) EXCEPT !.state = "unknown"]
          \/ a = [Mine(c) EXCEPT !.state = "rejected"]
      BY <3>3 DEF Answers
    <3>5. a \in Attempt
      BY <1>2, <3>2, <3>4 DEF Attempt, States
    <3>6. QED BY <1>1, <3>1, <3>3, <3>5 DEF ServiceTypes
  <2>2. CASE ~(turn[c] = call.turn /\ pc[c] = "fleet")
    BY <1>1, <2>2 DEF Launch, ServiceTypes
  <2>3. QED BY <2>1, <2>2
<1>5. ServiceTypes'
  BY <1>1, <1>2, <1>3, <1>4 DEF ServiceTypes
<1>6. QED BY <1>3, <1>5, RestKeeps

\* A claim is stored: until then no call of its attempt existed and nobody held
\* its permission, so the one client that is told of it holds it alone.
LEMMA PutArrivesKeeps ==
  ASSUME LaunchInv, NEW m \in wire, PutArrives(m)
  PROVE  LaunchInv'
<1> DEFINE told == {c \in Client : ClaimOf(m, c)}
<1>1. ClientTypes /\ ServiceTypes
  BY TypesSplit DEF LaunchInv
<1>2. m.key \in Keys /\ m.obj \in Attempt /\ m.obj # Absent
  BY <1>1, AbsentIsNoRecord DEF ServiceTypes
<1>3. /\ ledger[m.key] = Absent /\ ledger' = [ledger EXCEPT ![m.key] = m.obj]
      /\ wire' \subseteq wire /\ won' = won \cup told
      /\ UNCHANGED <<cache, lock, home, calls, answered, allocated, heard, memoryVars, stageVars>>
  BY DEF PutArrives, localVars, worldVars
<1>4. ServiceTypes'
  BY <1>1, <1>2, <1>3 DEF ServiceTypes
<1>5. ClientTypes' /\ (\A c \in Client : StageOK(c)' /\ Number(c)' = Number(c)) /\ pc' = pc
  BY <1>3, ClientsRest
<1>a. TypeOK'
  BY <1>4, <1>5, TypesSplit, PTL
<1>6. \A k \in Keys : ledger[k] # Absent => ledger'[k] # Absent
  BY <1>1, <1>2, <1>3 DEF ServiceTypes
<1>7. ledger'[m.key] # Absent
  BY <1>1, <1>2, <1>3 DEF ServiceTypes
<1>8. \A c \in told : pc[c] = "dispatch" /\ m.key = <<"dispatch", Number(c)>> /\ m.by = c
  BY DEF ClaimOf, Key
<1>9. \A c \in Client : Holds(c) => <<"dispatch", Number(c)>> \in Keys
  BY KeysAreTyped DEF LaunchInv, StageOK, Holds, Numbered
<1>10. \A call \in calls : <<"dispatch", call.attempt>> \in Keys
  BY <1>1, KeysAreTyped DEF ServiceTypes, Calls
<1>11. CallsAreClaimed'
  BY <1>3, <1>6, <1>10 DEF LaunchInv, CallsAreClaimed
<1>12. \A c \in Client : Holds(c)' => Holds(c) \/ c \in told
  BY <1>3, <1>5 DEF Holds
<1>13. ASSUME NEW c \in Client, Holds(c)'
       PROVE  ledger'[<<"dispatch", Number(c)>>] # Absent /\ \A call \in calls : call.attempt # Number(c)
  <2>1. CASE Holds(c)
    BY <1>6, <1>9, <2>1 DEF LaunchInv, HoldersAreAlone
  <2>2. CASE c \in told
    BY <1>3, <1>7, <1>8, <2>2 DEF LaunchInv, CallsAreClaimed
  <2>3. QED BY <1>12, <1>13, <2>1, <2>2
<1>14. ASSUME NEW c \in Client, NEW d \in Client, Holds(c)', Holds(d)', Number(c) = Number(d)
       PROVE  c = d
  <2>1. CASE Holds(c) /\ Holds(d)
    BY <1>14, <2>1 DEF LaunchInv, HoldersAreAlone
  <2>2. CASE c \in told /\ d \in told
    BY <1>8, <2>2
  <2>3. CASE Holds(c) /\ d \in told
    BY <1>3, <1>8, <1>14, <2>3 DEF LaunchInv, HoldersAreAlone
  <2>4. CASE c \in told /\ Holds(d)
    BY <1>3, <1>8, <1>14, <2>4 DEF LaunchInv, HoldersAreAlone
  <2>5. QED BY <1>12, <1>14, <2>1, <2>2, <2>3, <2>4
<1>15. HoldersAreAlone'
  <2>1. \A c \in Client : c \in won' => pc'[c] = "dispatch"
    BY <1>3, <1>5, <1>8 DEF LaunchInv, HoldersAreAlone
  <2>2. QED BY <1>3, <1>5, <1>13, <1>14, <2>1 DEF HoldersAreAlone
<1>16. QED BY <1>5, <1>a, <1>11, <1>15 DEF LaunchInv

LEMMA NextKeeps == LaunchInv /\ [Next]_vars => LaunchInv'
<1> SUFFICES ASSUME LaunchInv, [Next]_vars PROVE LaunchInv'
  OBVIOUS
<1>1. ASSUME NEW c \in Client, StartUp(c) \/ \E n \in 0..MaxAttempts : StartRecovery(c, n)
      PROVE  LaunchInv'
  BY <1>1, StartKeeps
<1>2. ASSUME NEW c \in Client, Progress(c) PROVE LaunchInv'
  BY <1>2, AcquireLockKeeps, LoadKeeps, DispatchKeeps, ObserveKeeps DEF Progress
<1>3. ASSUME NEW c \in Client, Abandon(c) PROVE LaunchInv'
  BY <1>3, AbandonKeeps
<1>4. ASSUME NEW m \in Machine, LoseCache(m) PROVE LaunchInv'
  BY <1>4, LoseCacheKeeps
<1>5. ASSUME NEW m \in wire, PutArrives(m) PROVE LaunchInv'
  BY <1>5, PutArrivesKeeps
<1>6. ASSUME NEW call \in calls, NEW k \in 0..Target, Launch(call, k) PROVE LaunchInv'
  BY <1>6, LaunchKeeps
<1>7. CASE UNCHANGED vars
  <2>1. UNCHANGED <<ledger, won, calls, lock, memoryVars, stageVars>>
        /\ UNCHANGED <<wire, home, cache, answered, allocated, heard>>
    BY <1>7 DEF vars, ledgerVars, localVars, worldVars
  <2>2. ServiceTypes'
    BY <2>1, TypesSplit DEF LaunchInv, ServiceTypes
  <2>3. QED BY <2>1, <2>2, RestKeeps
<1>8. QED BY <1>1, <1>2, <1>3, <1>4, <1>5, <1>6, <1>7 DEF Next

\* Clients only ever send PUT requests: the ledger itself moves when one arrives.
LEMMA ClientLeavesLedger ==
  ASSUME NEW c \in Client, Progress(c)
  PROVE  ledger' = ledger
<1>1. CASE AcquireLock(c)
  BY <1>1 DEF AcquireLock, ledgerVars
<1>2. CASE LoadStep(c)
  BY <1>2 DEF LoadStep, LoadUnavailable, LoadPrepared, LoadOrphans, LoadClaim, LoadResponse,
              LoadFails, Read, ledgerVars
<1>3. CASE DispatchStep(c)
  <2>1. CASE SavePrepared(c) \/ SaveRefused(c) \/ PlanPublished(c) \/ Prepare(c) \/ PreparationConflicts(c)
    BY <2>1 DEF SavePrepared, SaveRefused, PlanPublished, Prepare, PreparationConflicts, BeginPut, ledgerVars
  <2>2. CASE SaveIntent(c) \/ SendClaim(c) \/ ClaimRefused(c) \/ ClaimUnconfirmed(c) \/ ClaimWon(c)
    BY <2>2 DEF SaveIntent, SendClaim, ClaimRefused, ClaimUnconfirmed, ClaimWon, BeginPut, ledgerVars
  <2>3. CASE CreateFleet(c) \/ FleetHeard(c) \/ FleetLost(c) \/ ExpiresAtSend(c)
    BY <2>3 DEF CreateFleet, FleetHeard, FleetLost, ExpiresAtSend, Observed, ledgerVars
  <2>4. CASE RecordResponse(c) \/ ResponseRecorded(c) \/ PutUnconfirmed(c)
    BY <2>4 DEF RecordResponse, ResponseRecorded, PutUnconfirmed, BeginPut, ledgerVars
  <2>5. QED BY <1>3, <2>1, <2>2, <2>3, <2>4 DEF DispatchStep
<1>4. CASE Observe(c)
  BY <1>4 DEF Observe, NothingPrepared, InspectionFails, ReceiptConflicts, Reported, RetryGranted,
              Inspected, ledgerVars
<1>5. QED BY <1>1, <1>2, <1>3, <1>4 DEF Progress

----------------------------------------------------------------------------
(* Theorems *)

\* The invariant behind the others: a client about to call CreateFleet holds the
\* one permission of its attempt, whose claim is in the shared ledger, and every
\* call ever sent had one (Dispatch in attempt.go, Claim in launch_ledger.go).
THEOREM LaunchInvariant == Spec => []LaunchInv
<1>1. QED BY InitIsGood, NextKeeps, PTL DEF Spec

\* Every variable keeps its type: a retry is only ever built for at least one
\* and at most the planned number of instances, and no attempt beyond
\* MaxLaunchAttempts reaches the ledger.
THEOREM LaunchTypesAreCorrect == Spec => []TypeOK
<1>1. LaunchInv => TypeOK
  BY DEF LaunchInv
<1>2. QED BY <1>1, LaunchInvariant, PTL

\* For any number of clients, machines and retries, and whatever is lost,
\* delayed or killed, no attempt of a request is sent to EC2 twice: a claim is
\* never released, and never won by reading it back (putImmutable, Claim).
THEOREM NoAttemptIsSentTwice == Spec => []AtMostOneSend
<1>1. LaunchInv => AtMostOneSend
  <2> SUFFICES ASSUME LaunchInv, NEW n \in 1..MaxAttempts PROVE Cardinality(CallsOf(n)) <= 1
    BY DEF AtMostOneSend
  <2>1. \A x, y \in CallsOf(n) : x = y
    BY DEF LaunchInv, CallsAreClaimed, CallsOf
  <2>2. CASE CallsOf(n) = {}
    BY <2>2, FS_EmptySet
  <2>3. CASE CallsOf(n) # {}
    <3>1. PICK x : CallsOf(n) = {x}
      BY <2>1, <2>3
    <3>2. Cardinality(CallsOf(n)) = 1
      BY <3>1, FS_Singleton
    <3>3. QED BY <3>2
  <2>4. QED BY <2>2, <2>3
<1>2. QED BY <1>1, LaunchInvariant, PTL

\* The shared ledger only ever grows: no client, and no PUT however late, ever
\* replaces or removes a plan, an attempt, a claim or a response (putImmutable).
THEOREM LedgerIsImmutable == Spec => RecordsAreImmutable
<1> DEFINE Kept == \A k \in Keys : ledger[k] # Absent => ledger'[k] = ledger[k]
<1>1. LaunchInv /\ [Next]_vars => [Kept]_vars
  <2> SUFFICES ASSUME LaunchInv, Next PROVE Kept
    BY DEF vars
  <2>1. ledger \in [Keys -> Attempt \cup {Absent}] /\ wire \subseteq [by : Client, turn : Turns, key : Keys, obj : Attempt]
    BY DEF LaunchInv, TypeOK
  <2>2. ASSUME NEW m \in wire, PutArrives(m) PROVE Kept
    BY <2>1, <2>2 DEF PutArrives
  <2>3. ASSUME ledger' = ledger PROVE Kept
    BY <2>3
  <2>4. ASSUME NEW c \in Client, Progress(c) PROVE ledger' = ledger
    BY <2>4, ClientLeavesLedger
  <2>5. ASSUME NEW c \in Client, StartUp(c) \/ Abandon(c) \/ \E n \in 0..MaxAttempts : StartRecovery(c, n)
        PROVE  ledger' = ledger
    BY <2>5 DEF StartUp, Abandon, StartRecovery, Start, ledgerVars
  <2>6. ASSUME NEW m \in Machine, LoseCache(m) PROVE ledger' = ledger
    BY <2>6 DEF LoseCache, ledgerVars
  <2>7. ASSUME NEW call \in calls, NEW k \in 0..Target, Launch(call, k) PROVE ledger' = ledger
    BY <2>7 DEF Launch, ledgerVars
  <2>8. QED BY <2>2, <2>3, <2>4, <2>5, <2>6, <2>7 DEF Next
<1>2. QED BY <1>1, LaunchInvariant, PTL DEF Spec, RecordsAreImmutable

----------------------------------------------------------------------------
(* What is known of an allocation, and by whom *)

\* What the workers of the attempts before the n-th leave to ask for.
Prior(n) == {w \in allocated : w.call.attempt < n}
Owed(n)  == Target - Cardinality(Prior(n))

\* Every attempt before the n-th is closed by complete evidence in the ledger.
Closed(n) ==
  /\ n - 1 <= MaxAttempts
  /\ \A j \in 1..(n - 1) : ledger[<<"response", j>>] # Absent /\ Settled(ledger[<<"response", j>>])

\* What a record says of the n-th attempt: the truth, and no worker of another.
Honest(a, n) == IsTrue(a, n) /\ a.ids \subseteq WorkersOf(n)

Pending(a) == a.state = "prepared" /\ a.ids = {}

\* What every record under a key may be relied upon for.
Warranted(key, obj) ==
  /\ key[1] = "prepared" => Pending(obj)
  /\ key[1] = "dispatch" => Closed(key[2]) /\ obj.count = Owed(key[2])
  /\ key[1] = "response" => Honest(obj, key[2])

RecordsAreWarranted ==
  /\ \A k \in Keys : ledger[k] # Absent => Warranted(k, ledger[k])
  /\ \A m \in wire : Warranted(m.key, m.obj)

CachesAreHonest ==
  \A m \in Machine : cache[m] # Absent =>
    \A n \in 1..Len(cache[m]) : Honest(cache[m][n], n)

\* The client has an answer for its attempt and records it.
Answering(c) == pc[c] = "response" \/ (pc[c] = "load" /\ goal[c] = "record")

ViewOK(c) ==
  \A n \in 1..Len(view[c]) :
    /\ Honest(view[c][n], n)
    /\ Settled(view[c][n]) => view[c][n] = ledger[<<"response", n>>]

ReceiptOK(c) ==
  /\ pc[c] \in {"idle", "lock"} => receipt[c] = <<>>
  /\ receipt[c] # <<>> =>
       /\ Closed(Number(c))
       /\ \A n \in 1..(Number(c) - 1) : receipt[c][n] = ledger[<<"response", n>>]
       /\ Honest(Mine(c), Number(c))
       /\ Answering(c) \/ (Pending(Mine(c)) /\ Mine(c).count = Owed(Number(c)))

HeardOK(c) == heard[c] # Absent => pc[c] = "fleet" /\ Honest(heard[c], Number(c))

ReportOK(c) ==
  report[c].bounded => Closed(report[c].upto + 1) /\ report[c].missing = Owed(report[c].upto + 1)

ClientOK(c) == ViewOK(c) /\ ReceiptOK(c) /\ HeardOK(c) /\ ReportOK(c)

\* A call of the client's current command is the one it waits for, or waited for.
CallOK(call) ==
  /\ Closed(call.attempt) /\ call.count = Owed(call.attempt)
  /\ call.turn <= turn[call.by]
  /\ call.turn = turn[call.by] =>
       \/ pc[call.by] = "idle" \/ Answering(call.by)
       \/ pc[call.by] = "fleet" /\ call.attempt = Number(call.by)

CapacityInv ==
  /\ RecordsAreWarranted
  /\ CachesAreHonest
  /\ \A c \in Client : ClientOK(c)
  /\ \A call \in calls : CallOK(call)
  /\ \A w \in allocated : w.call \in answered
  /\ NeverOverAllocated

Sound == LaunchInv /\ CapacityInv

----------------------------------------------------------------------------
(* What a closed history says *)

LEMMA PriorIsCounted ==
  ASSUME TypeOK, NEW n \in Nat
  PROVE  IsFiniteSet(allocated) /\ IsFiniteSet(Prior(n)) /\ Cardinality(Prior(n)) \in Nat /\ Owed(n) \in Int
<1>1. allocated \subseteq Workers /\ Prior(n) \subseteq allocated
  BY DEF TypeOK, Prior
<1>2. IsFiniteSet(allocated) /\ IsFiniteSet(Prior(n))
  BY <1>1, WorkersAreFinite, FS_Subset
<1>3. Cardinality(Prior(n)) \in Nat
  BY <1>2, FS_CardinalityType
<1>4. QED BY <1>2, <1>3, LaunchAssumption DEF Owed

\* The workers of an attempt before a closed point are those its response lists.
LEMMA ClosedIsTrue ==
  ASSUME Sound, NEW n \in Nat \ {0}, Closed(n), NEW j \in 1..(n - 1)
  PROVE  /\ j \in 1..MaxAttempts /\ ledger[<<"response", j>>] \in Attempt
         /\ Settled(ledger[<<"response", j>>]) /\ Honest(ledger[<<"response", j>>], j)
         /\ ledger[<<"response", j>>].ids = WorkersOf(j)
         /\ CallsOf(j) # {} /\ CallsOf(j) \subseteq answered
<1>1. j \in 1..MaxAttempts
  BY LaunchAssumption DEF Closed
<1>2. <<"response", j>> \in Keys
  BY <1>1, KeysAreTyped
<1>3. ledger[<<"response", j>>] # Absent /\ Settled(ledger[<<"response", j>>])
  BY DEF Closed
<1>4. ledger[<<"response", j>>] \in Attempt
  BY <1>2, <1>3 DEF Sound, LaunchInv, TypeOK
<1>5. Warranted(<<"response", j>>, ledger[<<"response", j>>])
  BY <1>2, <1>3 DEF Sound, CapacityInv, RecordsAreWarranted
<1>6. Honest(ledger[<<"response", j>>], j)
  BY <1>5 DEF Warranted
<1>7. QED BY <1>1, <1>3, <1>4, <1>6 DEF Honest, IsTrue

\* An attempt EC2 was asked for and has not answered is the latest of all.
LEMMA OpenIsLatest ==
  ASSUME Sound, NEW n \in 1..MaxAttempts, CallsOf(n) = {} \/ ~(CallsOf(n) \subseteq answered),
         NEW j \in Nat \ {0}, Closed(j)
  PROVE  j <= n
<1>1. CASE ~(j <= n)
  <2>1. n \in 1..(j - 1)
    BY <1>1, LaunchAssumption
  <2>2. QED BY <2>1, ClosedIsTrue
<1>2. QED BY <1>1

\* All workers of the request belong to attempts before one that is not answered.
LEMMA OpenOwnsNothing ==
  ASSUME Sound, NEW n \in 1..MaxAttempts, CallsOf(n) = {} \/ ~(CallsOf(n) \subseteq answered)
  PROVE  allocated = Prior(n) /\ WorkersOf(n) = {}
<1>1. ASSUME NEW w \in allocated PROVE w.call.attempt < n
  <2>1. w.call \in answered /\ w.call \in calls /\ w.call \in Calls
    BY DEF Sound, LaunchInv, TypeOK, CapacityInv
  <2>2. w.call.attempt \in 1..MaxAttempts /\ Closed(w.call.attempt)
    BY <2>1 DEF Calls, Sound, CapacityInv, CallOK
  <2>3. w.call.attempt <= n
    BY <2>2, OpenIsLatest, LaunchAssumption
  <2>4. w.call.attempt # n
    <3>1. CASE w.call.attempt = n
      <4>1. \A x \in CallsOf(n) : x = w.call
        BY <2>1, <3>1 DEF Sound, LaunchInv, CallsAreClaimed, CallsOf
      <4>2. w.call \in CallsOf(n)
        BY <2>1, <3>1 DEF CallsOf
      <4>3. QED BY <2>1, <4>1, <4>2
    <3>2. QED BY <3>1
  <2>5. QED BY <2>2, <2>3, <2>4, LaunchAssumption
<1>2. allocated = Prior(n)
  BY <1>1 DEF Prior
<1>3. WorkersOf(n) = {}
  BY <1>1 DEF WorkersOf
<1>4. QED BY <1>2, <1>3

----------------------------------------------------------------------------
(* What the steps of the world preserve *)

\* What was settled stays settled, and what was true stays true.
Stable ==
  /\ \A n \in 1..MaxAttempts :
       ledger[<<"response", n>>] # Absent => ledger'[<<"response", n>>] = ledger[<<"response", n>>]
  /\ \A n \in Nat \ {0} : Closed(n) => Closed(n)' /\ Owed(n)' = Owed(n)
  /\ \A a \in Attempt, n \in Nat \ {0} : Honest(a, n) => Honest(a, n)'

Steady == UNCHANGED <<ledger, calls, answered, allocated>>

LEMMA SteadyIsStable == ASSUME Steady PROVE Stable
<1>1. UNCHANGED <<ledger, calls, answered, allocated>>
  BY DEF Steady
<1>2. \A n \in Nat \ {0} : Closed(n) => Closed(n)' /\ Owed(n)' = Owed(n)
  BY <1>1 DEF Closed, Owed, Prior
<1>3. \A a \in Attempt, n \in Nat \ {0} : Honest(a, n) => Honest(a, n)'
  BY <1>1 DEF Honest, IsTrue, WorkersOf, CallsOf
<1>4. QED BY <1>1, <1>2, <1>3 DEF Stable

LEMMA ClosedStays ==
  ASSUME NEW n \in Nat \ {0}, Closed(n),
         \A j \in 1..MaxAttempts : ledger[<<"response", j>>] # Absent
                                     => ledger'[<<"response", j>>] = ledger[<<"response", j>>]
  PROVE  Closed(n)'
<1>1. \A j \in 1..(n - 1) : j \in 1..MaxAttempts
  BY LaunchAssumption DEF Closed
<1>2. QED BY <1>1 DEF Closed

LEMMA PutIsStable ==
  ASSUME Sound, NEW m \in wire, PutArrives(m)
  PROVE  Stable
<1>1. /\ ledger[m.key] = Absent /\ ledger' = [ledger EXCEPT ![m.key] = m.obj]
      /\ UNCHANGED <<calls, answered, allocated>>
  BY DEF PutArrives, worldVars
<1>2. \A n \in 1..MaxAttempts :
        ledger[<<"response", n>>] # Absent => ledger'[<<"response", n>>] = ledger[<<"response", n>>]
  BY <1>1, KeysAreTyped DEF Sound, LaunchInv, TypeOK
<1>3. \A n \in Nat \ {0} : Closed(n) => Closed(n)' /\ Owed(n)' = Owed(n)
  <2>1. \A n \in Nat \ {0} : Owed(n)' = Owed(n)
    BY <1>1 DEF Owed, Prior
  <2>2. QED BY <1>2, <2>1, ClosedStays
<1>4. \A a \in Attempt, n \in Nat \ {0} : Honest(a, n) => Honest(a, n)'
  BY <1>1 DEF Honest, IsTrue, WorkersOf, CallsOf
<1>5. QED BY <1>2, <1>3, <1>4 DEF Stable

\* A call is only sent for an attempt that had none, and none that is settled.
LEMMA CreateFleetIsStable ==
  ASSUME Sound, NEW c \in Client, CreateFleet(c)
  PROVE  Stable
<1> DEFINE call == [by |-> c, turn |-> turn[c], attempt |-> Number(c), count |-> Mine(c).count]
<1>1. calls' = calls \cup {call} /\ UNCHANGED <<ledger, answered, allocated>>
  BY DEF CreateFleet, ledgerVars
<1>2. CallsOf(Number(c)) = {}
  BY DEF Sound, LaunchInv, HoldersAreAlone, Holds, CreateFleet, CallsOf
<1>3. \A n \in Nat \ {0} : Closed(n) => Closed(n)' /\ Owed(n)' = Owed(n)
  BY <1>1 DEF Closed, Owed, Prior
<1>4. ASSUME NEW a \in Attempt, NEW n \in Nat \ {0}, Honest(a, n) PROVE Honest(a, n)'
  <2>1. WorkersOf(n)' = WorkersOf(n)
    BY <1>1 DEF WorkersOf
  <2>2. CASE Settled(a)
    <3>1. CallsOf(n) # {}
      BY <1>4, <2>2 DEF Honest, IsTrue
    <3>2. n # Number(c)
      BY <1>2, <3>1
    <3>3. CallsOf(n)' = CallsOf(n)
      BY <1>1, <3>2 DEF CallsOf
    <3>4. QED BY <1>1, <1>4, <2>1, <3>3 DEF Honest, IsTrue
  <2>3. CASE ~Settled(a)
    BY <1>4, <2>1, <2>3 DEF Honest, IsTrue
  <2>4. QED BY <2>2, <2>3
<1>5. QED BY <1>1, <1>3, <1>4 DEF Stable

\* EC2 only ever allocates for a call of an attempt that is not settled.
LEMMA LaunchIsStable ==
  ASSUME Sound, NEW call \in calls, NEW k \in 0..Target, Launch(call, k)
  PROVE  Stable
<1> DEFINE new == {[call |-> call, index |-> i] : i \in 1..k}
<1>1. /\ answered' = answered \cup {call} /\ allocated' = allocated \cup new
      /\ UNCHANGED <<ledger, calls>> /\ call \notin answered
  BY DEF Launch, ledgerVars
<1>2. call.attempt \in 1..MaxAttempts
  BY DEF Sound, LaunchInv, TypeOK, Calls
<1>3. ~(CallsOf(call.attempt) \subseteq answered)
  BY <1>1 DEF CallsOf
<1>4. \A w \in new : w.call.attempt = call.attempt
  OBVIOUS
<1>5. ASSUME NEW n \in Nat \ {0}, Closed(n) PROVE Closed(n)' /\ Owed(n)' = Owed(n)
  <2>1. Closed(n)'
    BY <1>1, <1>5 DEF Closed
  <2>2. n <= call.attempt
    BY <1>2, <1>3, <1>5, OpenIsLatest
  <2>3. Prior(n)' = Prior(n)
    BY <1>1, <1>2, <1>4, <2>2 DEF Prior
  <2>4. QED BY <2>1, <2>3 DEF Owed
<1>6. ASSUME NEW a \in Attempt, NEW n \in Nat \ {0}, Honest(a, n) PROVE Honest(a, n)'
  <2>1. WorkersOf(n) \subseteq WorkersOf(n)' /\ CallsOf(n)' = CallsOf(n)
    BY <1>1 DEF WorkersOf, CallsOf
  <2>2. CASE Settled(a)
    <3>1. CallsOf(n) \subseteq answered
      BY <1>6, <2>2 DEF Honest, IsTrue
    <3>2. n # call.attempt
      BY <1>3, <3>1
    <3>3. WorkersOf(n)' = WorkersOf(n)
      BY <1>1, <1>4, <3>2 DEF WorkersOf
    <3>4. QED BY <1>1, <1>6, <2>1, <3>3 DEF Honest, IsTrue
  <2>3. CASE ~Settled(a)
    BY <1>6, <2>1, <2>3 DEF Honest, IsTrue
  <2>4. QED BY <2>2, <2>3
<1>7. QED BY <1>1, <1>5, <1>6 DEF Stable

----------------------------------------------------------------------------
(* A step of one client that sends no call *)

\* What the step may not touch: the other clients, and the services.
Elsewhere(c) ==
  /\ Others(c) /\ Steady
  /\ \A d \in Client : d # c => report'[d] = report[d] /\ heard'[d] = heard[d]

\* What it may write: a record that is warranted, a receipt that is honest.
WiresWarranted == \A m \in wire' : m \in wire \/ Warranted(m.key, m.obj)
CachesKept ==
  \A m \in Machine : cache'[m] = cache[m]
    \/ (cache'[m] \in Seq(Attempt) /\ \A n \in 1..Len(cache'[m]) : Honest(cache'[m][n], n))

\* The attempts read so far are still what was read.
LEMMA ViewStays ==
  ASSUME Sound, Stable, NEW c \in Client, NEW seen \in Seq(Attempt), Len(seen) <= MaxAttempts,
         \A n \in 1..Len(seen) :
           Honest(seen[n], n) /\ (Settled(seen[n]) => seen[n] = ledger[<<"response", n>>]),
         view'[c] = seen
  PROVE  ViewOK(c)'
<1> SUFFICES ASSUME NEW n \in 1..Len(seen)
             PROVE  Honest(view[c][n], n)' /\ (Settled(view[c][n])' => view'[c][n] = ledger'[<<"response", n>>])
  BY DEF ViewOK
<1>1. n \in 1..MaxAttempts /\ n \in Nat \ {0} /\ seen[n] \in Attempt
  BY LaunchAssumption
<1>2. PICK a \in Attempt : a = seen[n]
  BY <1>1
<1>3. Honest(a, n)'
  BY <1>1, <1>2 DEF Stable
<1>4. Settled(a) => a = ledger'[<<"response", n>>]
  BY <1>1, <1>2, AbsentIsNoRecord DEF Stable
<1>5. view'[c][n] = a
  BY <1>2
<1>6. Settled(view[c][n])' <=> Settled(a)
  BY <1>5 DEF Settled
<1>7. QED BY <1>3, <1>4, <1>5, <1>6

\* A receipt that the client keeps is still backed by the ledger.
LEMMA ReceiptStays ==
  ASSUME Sound, Stable, NEW c \in Client, receipt'[c] = receipt[c],
         Answering(c) => Answering(c)', pc'[c] \in {"idle", "lock"} => receipt[c] = <<>>
  PROVE  ReceiptOK(c)'
<1> DEFINE n == Number(c)
<1>1. ClientOK(c) /\ ClientTypes
  BY TypesSplit DEF Sound, LaunchInv, CapacityInv
<1>2. CASE receipt[c] = <<>>
  BY <1>2 DEF ReceiptOK
<1>3. CASE receipt[c] # <<>>
  <2>1. n \in Nat \ {0} /\ Mine(c) \in Attempt /\ Number(c)' = n /\ Mine(c)' = Mine(c)
    BY <1>1, <1>3, MineIsTyped, EmptySeq DEF Number, ClientTypes, Mine
  <2>2. /\ Closed(n) /\ Honest(Mine(c), n)
        /\ \A j \in 1..(n - 1) : receipt[c][j] = ledger[<<"response", j>>]
        /\ Answering(c) \/ (Pending(Mine(c)) /\ Mine(c).count = Owed(n))
    BY <1>1, <1>3 DEF ClientOK, ReceiptOK
  <2>3. Closed(n)' /\ Owed(n)' = Owed(n)
    BY <2>1, <2>2 DEF Stable
  <2>4. \A j \in 1..(n - 1) : receipt'[c][j] = ledger'[<<"response", j>>]
    <3>1. \A j \in 1..(n - 1) : j \in 1..MaxAttempts /\ ledger[<<"response", j>>] # Absent
      BY <2>1, <2>2, ClosedIsTrue, AbsentIsNoRecord
    <3>2. QED BY <2>2, <3>1 DEF Stable
  <2>5. PICK a \in Attempt : a = Mine(c)
    BY <2>1
  <2>6. Honest(a, n)'
    BY <2>1, <2>2, <2>5 DEF Stable
  <2>7. Answering(c)' \/ (Pending(Mine(c))' /\ Mine(c)'.count = Owed(n)')
    BY <2>1, <2>2, <2>3 DEF Pending
  <2>8. QED BY <1>3, <2>1, <2>3, <2>4, <2>5, <2>6, <2>7 DEF ReceiptOK
<1>4. QED BY <1>2, <1>3

\* A true count stays true.
LEMMA ReportStays ==
  ASSUME Stable, NEW c \in Client, NEW result \in Reports, report'[c] = result,
         result.bounded => Closed(result.upto + 1) /\ result.missing = Owed(result.upto + 1)
  PROVE  ReportOK(c)'
<1>1. result.upto + 1 \in Nat \ {0}
  BY DEF Reports
<1>2. CASE result.bounded
  <2>1. PICK n \in Nat \ {0} : n = result.upto + 1
    BY <1>1
  <2>2. Closed(n)' /\ Owed(n)' = Owed(n)
    BY <1>2, <2>1 DEF Stable
  <2>3. QED BY <1>2, <2>1, <2>2 DEF ReportOK
<1>3. CASE ~result.bounded
  BY <1>3 DEF ReportOK
<1>4. QED BY <1>2, <1>3

\* A call asked for what was owed, and that does not change.
LEMMA CallStays ==
  ASSUME Sound, Stable, NEW call \in calls
  PROVE  /\ call \in Calls /\ call.by \in Client /\ CallOK(call)
         /\ Closed(call.attempt)' /\ call.count = Owed(call.attempt)'
<1>1. call \in Calls /\ CallOK(call)
  BY DEF Sound, LaunchInv, TypeOK, CapacityInv
<1>2. call.attempt \in Nat \ {0} /\ call.by \in Client
  BY <1>1, LaunchAssumption DEF Calls
<1>3. QED BY <1>1, <1>2 DEF Stable, CallOK

\* A client whose part of the state did not change is as good as before.
LEMMA ClientRests ==
  ASSUME Sound, TypeOK', Stable, NEW d \in Client,
         pc'[d] = pc[d], goal'[d] = goal[d], receipt'[d] = receipt[d], view'[d] = view[d],
         report'[d] = report[d], heard'[d] = heard[d]
  PROVE  ClientOK(d)'
<1>1. ClientOK(d) /\ TypeOK /\ StageOK(d)
  BY DEF Sound, LaunchInv, CapacityInv
<1>2. /\ view[d] \in Seq(Attempt) /\ Len(view[d]) <= MaxAttempts
      /\ heard[d] \in Attempt \cup {Absent} /\ report[d] \in Reports
  BY <1>1 DEF TypeOK, StageOK, Reports
<1>3. Number(d)' = Number(d) /\ Answering(d)' = Answering(d)
  BY DEF Number, Answering
<1>4. ViewOK(d)'
  BY <1>1, <1>2, ViewStays DEF ClientOK, ViewOK
<1>5. ReceiptOK(d)'
  BY <1>1, <1>3, ReceiptStays DEF ClientOK, ReceiptOK
<1>6. HeardOK(d)'
  <2>1. CASE heard[d] # Absent
    <3>1. pc[d] = "fleet" /\ Honest(heard[d], Number(d)) /\ Number(d) \in Nat \ {0}
      BY <1>1, <2>1, LaunchAssumption DEF ClientOK, HeardOK, StageOK, Numbered
    <3>2. PICK a \in Attempt : a = heard[d]
      BY <1>2, <2>1
    <3>3. Honest(a, Number(d))'
      BY <1>3, <3>1, <3>2 DEF Stable
    <3>4. QED BY <3>1, <3>2, <3>3 DEF HeardOK
  <2>2. CASE heard[d] = Absent
    BY <2>2 DEF HeardOK
  <2>3. QED BY <2>1, <2>2
<1>7. ReportOK(d)'
  BY <1>1, <1>2, ReportStays DEF ClientOK, ReportOK
<1>8. QED BY <1>4, <1>5, <1>6, <1>7 DEF ClientOK

\* Records that were warranted still are.
LEMMA WarrantsStay ==
  ASSUME Sound, Stable
  PROVE  \A k \in Keys, a \in Attempt : Warranted(k, a) => Warranted(k, a)'
<1> SUFFICES ASSUME NEW k \in Keys, NEW a \in Attempt, Warranted(k, a) PROVE Warranted(k, a)'
  OBVIOUS
<1>1. CASE k = PlanKey
  BY <1>1 DEF Warranted, PlanKey
<1>2. CASE k # PlanKey
  <2>1. k[2] \in Nat \ {0}
    BY <1>2, LaunchAssumption DEF Keys
  <2>2. QED BY <2>1 DEF Warranted, Stable, Pending
<1>3. QED BY <1>1, <1>2

\* Caches, too.
LEMMA CachesStay ==
  ASSUME Sound, TypeOK', Stable,
         \A m \in Machine : cache'[m] = cache[m] \/ cache'[m] = Absent
           \/ (cache'[m] \in Seq(Attempt) /\ \A n \in 1..Len(cache'[m]) : Honest(cache'[m][n], n))
  PROVE  CachesAreHonest'
<1> SUFFICES ASSUME NEW m \in Machine, cache'[m] # Absent, NEW n \in 1..Len(cache'[m])
             PROVE  Honest(cache[m][n], n)'
  BY DEF CachesAreHonest
<1>1. cache'[m] \in Seq(Attempt)
  BY DEF TypeOK
<1>2. cache'[m][n] \in Attempt /\ n \in Nat \ {0}
  BY <1>1
<1>3. Honest(cache'[m][n], n)
  BY DEF Sound, CapacityInv, CachesAreHonest
<1>4. PICK a \in Attempt : a = cache'[m][n]
  BY <1>2
<1>5. Honest(a, n)'
  BY <1>2, <1>3, <1>4 DEF Stable
<1>6. QED BY <1>4, <1>5

LEMMA RecordsStay ==
  ASSUME Sound, TypeOK', Stable, ledger' = ledger, WiresWarranted
  PROVE  RecordsAreWarranted'
<1>1. ASSUME NEW k \in Keys, ledger'[k] # Absent PROVE Warranted(k, ledger[k])'
  <2>1. ledger[k] \in Attempt /\ Warranted(k, ledger[k]) /\ ledger'[k] = ledger[k]
    BY <1>1 DEF TypeOK, Sound, LaunchInv, CapacityInv, RecordsAreWarranted
  <2>2. PICK a \in Attempt : a = ledger[k]
    BY <2>1
  <2>3. Warranted(k, a)'
    BY <2>1, <2>2, WarrantsStay
  <2>4. QED BY <2>1, <2>2, <2>3
<1>2. ASSUME NEW m \in wire' PROVE Warranted(m.key, m.obj)'
  <2>1. m.key \in Keys /\ m.obj \in Attempt
    BY DEF TypeOK
  <2>2. Warranted(m.key, m.obj)
    BY DEF WiresWarranted, Sound, CapacityInv, RecordsAreWarranted
  <2>3. QED BY <2>1, <2>2, WarrantsStay
<1>3. QED BY <1>1, <1>2 DEF RecordsAreWarranted

LEMMA ClientKeepsCapacity ==
  ASSUME Sound, TypeOK', NEW c \in Client, Elsewhere(c), WiresWarranted, CachesKept, ClientOK(c)',
         \A call \in calls : call.by = c => CallOK(call)'
  PROVE  CapacityInv'
<1>1. Stable /\ UNCHANGED <<ledger, calls, answered, allocated>>
  BY SteadyIsStable DEF Elsewhere, Steady
<1>2. TypeOK
  BY DEF Sound, LaunchInv
<1>3. RecordsAreWarranted'
  BY <1>1, RecordsStay
<1>4. CachesAreHonest'
  BY <1>1, CachesStay DEF CachesKept
<1>5. \A d \in Client : ClientOK(d)'
  BY <1>1, ClientRests DEF Elsewhere, Others
<1>6. ASSUME NEW call \in calls, call.by # c PROVE CallOK(call)'
  <2>1. call.by \in Client /\ CallOK(call) /\ Closed(call.attempt)' /\ call.count = Owed(call.attempt)'
    BY <1>1, CallStays
  <2>2. /\ pc'[call.by] = pc[call.by] /\ goal'[call.by] = goal[call.by]
        /\ turn'[call.by] = turn[call.by] /\ receipt'[call.by] = receipt[call.by]
    BY <1>6, <2>1 DEF Elsewhere, Others
  <2>3. QED BY <2>1, <2>2 DEF CallOK, Answering, Number
<1>7. (\A w \in allocated' : w.call \in answered') /\ NeverOverAllocated'
  BY <1>1 DEF Sound, CapacityInv, NeverOverAllocated
<1>8. QED BY <1>1, <1>3, <1>4, <1>5, <1>6, <1>7 DEF CapacityInv

----------------------------------------------------------------------------
(* How a client's command moves on *)

LEMMA FreshViewIsOK == ASSUME NEW c \in Client, view'[c] = <<>> PROVE ViewOK(c)'
BY DEF ViewOK

\* Nobody hears an answer it does not wait for.
LEMMA OnlyWaitersHear ==
  ASSUME Sound, NEW c \in Client, pc[c] # "fleet"
  PROVE  heard[c] = Absent
BY DEF Sound, CapacityInv, ClientOK, HeardOK

\* The command goes on with the receipt it has.
LEMMA MoveKeeps ==
  ASSUME Sound, TypeOK', NEW c \in Client, Others(c), Steady, WiresWarranted, CachesKept,
         UNCHANGED <<report, receipt, heard, turn>>,
         pc[c] \notin {"idle", "fleet"}, pc'[c] \notin {"idle", "lock"},
         Answering(c) => Answering(c)', ViewOK(c)'
  PROVE  CapacityInv'
<1>1. Elsewhere(c) /\ heard'[c] = Absent /\ Stable
  BY OnlyWaitersHear, SteadyIsStable DEF Elsewhere
<1>2. ClientOK(c) /\ TypeOK /\ ClientTypes
  BY TypesSplit DEF Sound, LaunchInv, CapacityInv
<1>4. ReceiptOK(c)'
  BY <1>1, ReceiptStays
<1>5. HeardOK(c)'
  BY <1>1 DEF HeardOK
<1>6. ReportOK(c)'
  BY <1>1, <1>2, ReportStays DEF ClientOK, ReportOK, ClientTypes
<1>7. ASSUME NEW call \in calls, call.by = c PROVE CallOK(call)'
  BY <1>1, <1>7, CallStays DEF CallOK
<1>8. QED BY <1>1, <1>4, <1>5, <1>6, <1>7, ClientKeepsCapacity DEF ClientOK

\* The command returns, with a count only if that is true.
LEMMA ReturnKeeps ==
  ASSUME Sound, TypeOK', NEW c \in Client, NEW result \in Reports, Return(c, result),
         result.bounded => Closed(result.upto + 1) /\ result.missing = Owed(result.upto + 1),
         Steady, WiresWarranted, CachesKept, heard'[c] = Absent,
         \A d \in Client : d # c => heard'[d] = heard[d]
  PROVE  CapacityInv'
<1>1. ClientTypes /\ Stable /\ TypeOK
  BY TypesSplit, SteadyIsStable DEF Sound, LaunchInv
<1>2. Others(c)
  BY <1>1, ReturnIsLocal
<1>3. /\ pc'[c] = "idle" /\ view'[c] = <<>> /\ receipt'[c] = <<>> /\ turn' = turn
      /\ report' = [report EXCEPT ![c] = result]
  BY <1>1 DEF Return, Goto, ClientTypes
<1>4. report'[c] = result /\ \A d \in Client : d # c => report'[d] = report[d]
  BY <1>1, <1>3 DEF ClientTypes
<1>5. ReportOK(c)'
  BY <1>1, <1>4, ReportStays
<1>6. ClientOK(c)'
  BY <1>3, <1>5, FreshViewIsOK DEF ClientOK, ReceiptOK, HeardOK
<1>7. ASSUME NEW call \in calls, call.by = c PROVE CallOK(call)'
  BY <1>1, <1>3, <1>7, CallStays DEF CallOK
<1>8. QED BY <1>2, <1>4, <1>6, <1>7, ClientKeepsCapacity DEF Elsewhere

LEMMA FailKeepsCapacity ==
  ASSUME Sound, TypeOK', NEW c \in Client, Fail(c), pc[c] # "fleet", CachesKept,
         UNCHANGED <<ledgerVars, worldVars>>
  PROVE  CapacityInv'
<1>1. Nil \in Reports /\ ~Nil.bounded /\ Return(c, Nil)
  BY DEF Nil, Reports, Fail
<1>2. Steady /\ WiresWarranted /\ heard'[c] = Absent /\ heard' = heard
  BY OnlyWaitersHear DEF Steady, WiresWarranted, ledgerVars, worldVars
<1>3. QED BY <1>1, <1>2, ReturnKeeps

\* Dispatch was refused before anything was sent.
LEMMA RefusedKeepsCapacity ==
  ASSUME Sound, TypeOK', NEW c \in Client, Refused(c), pc[c] \notin {"idle", "fleet"}, ~Answering(c),
         UNCHANGED <<ledger, wire, cache, worldVars>>
  PROVE  CapacityInv'
<1>1. ClientTypes /\ ServiceTypes /\ StageOK(c) /\ TypeOK /\ heard'[c] = Absent /\ heard' = heard
  BY TypesSplit, OnlyWaitersHear DEF Sound, LaunchInv, worldVars
<1>2. Steady /\ WiresWarranted /\ CachesKept
  BY DEF Steady, WiresWarranted, CachesKept, worldVars
<1>3. CASE Len(receipt[c]) = 1
  <2>1. Nil \in Reports /\ ~Nil.bounded /\ Return(c, Nil)
    BY <1>3 DEF Nil, Reports, Refused, Fail
  <2>2. QED BY <1>1, <1>2, <2>1, ReturnKeeps
<1>4. CASE Len(receipt[c]) # 1
  <2>1. Others(c)
    BY <1>1, RefusedIsLocal
  <2>2. pc'[c] = "lock" /\ view'[c] = <<>> /\ receipt'[c] = <<>> /\ turn' = turn /\ report' = report
    BY <1>1, <1>4 DEF Refused, Goto, ClientTypes
  <2>3. ReportOK(c)'
    BY <1>1, <1>2, <2>2, SteadyIsStable, ReportStays DEF Sound, CapacityInv, ClientOK, ReportOK, ClientTypes
  <2>4. ClientOK(c)'
    BY <1>1, <2>2, <2>3, FreshViewIsOK DEF ClientOK, ReceiptOK, HeardOK
  <2>5. ASSUME NEW call \in calls, call.by = c PROVE CallOK(call)'
    BY <1>2, <2>2, <2>5, SteadyIsStable, CallStays DEF CallOK
  <2>6. QED BY <1>1, <1>2, <2>1, <2>2, <2>4, <2>5, ClientKeepsCapacity DEF Elsewhere
<1>5. QED BY <1>3, <1>4

----------------------------------------------------------------------------
(* Starting a command, and ending it *)

LEMMA StartKeepsCapacity ==
  ASSUME Sound, TypeOK', NEW c \in Client, StartUp(c) \/ \E n \in 0..MaxAttempts : StartRecovery(c, n)
  PROVE  CapacityInv'
<1>1. ClientTypes /\ TypeOK /\ ClientOK(c) /\ StageOK(c)
  BY TypesSplit DEF Sound, LaunchInv, CapacityInv
<1>2. /\ pc[c] = "idle" /\ turn' = [turn EXCEPT ![c] = @ + 1] /\ report' = [report EXCEPT ![c] = Nil]
      /\ UNCHANGED <<ledgerVars, localVars, worldVars, view>>
  BY DEF StartUp, StartRecovery, Start
<1>3. /\ Steady /\ Stable /\ WiresWarranted /\ CachesKept /\ heard' = heard /\ heard'[c] = Absent
      /\ turn'[c] = turn[c] + 1 /\ turn[c] \in Int
  <2>1. Steady /\ WiresWarranted /\ CachesKept /\ heard' = heard
    BY <1>2 DEF Steady, WiresWarranted, CachesKept, ledgerVars, localVars, worldVars
  <2>2. turn'[c] = turn[c] + 1 /\ turn[c] \in Int
    BY <1>1, <1>2, LaunchAssumption DEF ClientTypes, Turns
  <2>3. QED BY <1>2, <2>1, <2>2, SteadyIsStable, OnlyWaitersHear
<1>4. Elsewhere(c)
  <2>1. Others(c)
    BY <1>1, <1>2 DEF StartUp, StartRecovery, Goto, Others, ClientTypes
  <2>2. QED BY <1>1, <1>2, <1>3, <2>1 DEF Elsewhere, ClientTypes
<1>5. ASSUME NEW call \in calls, call.by = c PROVE CallOK(call)'
  <2>1. call \in Calls /\ CallOK(call) /\ Closed(call.attempt)' /\ call.count = Owed(call.attempt)'
    BY <1>3, CallStays
  <2>2. call.turn \in Int
    BY <2>1, LaunchAssumption DEF Calls, Turns
  <2>3. call.turn <= turn'[call.by] /\ call.turn # turn'[call.by]
    BY <1>3, <1>5, <2>1, <2>2 DEF CallOK
  <2>4. QED BY <2>1, <2>3 DEF CallOK
<1>6. ViewOK(c)' /\ ReportOK(c)' /\ HeardOK(c)'
  <2>1. view'[c] = view[c] /\ view[c] \in Seq(Attempt) /\ Len(view[c]) <= MaxAttempts
    BY <1>1, <1>2 DEF ClientTypes, StageOK
  <2>2. ViewOK(c)'
    BY <1>1, <1>3, <2>1, ViewStays DEF ClientOK, ViewOK
  <2>3. report'[c] = Nil
    BY <1>1, <1>2 DEF ClientTypes
  <2>4. QED BY <1>3, <2>2, <2>3 DEF ReportOK, HeardOK, Nil
<1>7. ReceiptOK(c)'
  <2>1. CASE StartUp(c)
    <3> DEFINE a == Fresh(Absent, Target)
    <3>1. receipt'[c] = <<a>> /\ a \in Attempt /\ pc'[c] = "lockDispatch"
      BY <1>1, <2>1, FreshIsAttempt, LaunchAssumption DEF StartUp, Goto, ClientTypes
    <3>2. Number(c)' = 1 /\ Mine(c)' = a
      BY <3>1 DEF Number, Mine, Last
    <3>3. Closed(1)'
      BY LaunchAssumption DEF Closed
    <3>4. Prior(1)' = {}
      <4>1. allocated' \subseteq Workers
        BY DEF TypeOK
      <4>2. \A w \in Workers : w.call.attempt \in 1..MaxAttempts
        BY DEF Workers, Calls
      <4>3. \A w \in Workers : ~(w.call.attempt < 1)
        BY <4>2, LaunchAssumption
      <4>4. QED BY <4>1, <4>3 DEF Prior
    <3>5. Owed(1)' = Target
      BY <3>4, FS_EmptySet, LaunchAssumption DEF Owed
    <3>6. Pending(a) /\ a.count = Target /\ ~Settled(a)
      BY DEF Fresh, Pending, Settled
    <3>7. Honest(Mine(c), Number(c))'
      BY <3>2, <3>6 DEF Honest, IsTrue, Pending, Settled
    <3>8. QED BY <3>1, <3>2, <3>3, <3>5, <3>6, <3>7 DEF ReceiptOK, Pending
  <2>2. ASSUME NEW n \in 0..MaxAttempts, StartRecovery(c, n) PROVE ReceiptOK(c)'
    <3>1. receipt'[c] = <<>>
      BY <1>1, <1>2, <2>2 DEF StartRecovery, ClientOK, ReceiptOK
    <3>2. QED BY <3>1 DEF ReceiptOK
  <2>3. QED BY <2>1, <2>2
<1>8. QED BY <1>3, <1>4, <1>5, <1>6, <1>7, ClientKeepsCapacity DEF ClientOK

LEMMA AcquireLockKeepsCapacity ==
  ASSUME Sound, TypeOK', NEW c \in Client, AcquireLock(c)
  PROVE  CapacityInv'
<1>1. ClientTypes /\ ServiceTypes /\ StageOK(c) /\ ClientOK(c)
  BY TypesSplit DEF Sound, LaunchInv, CapacityInv
<1>2. /\ pc[c] \in {"lock", "lockDispatch"} /\ UNCHANGED <<ledger, wire, cache, worldVars>>
      /\ UNCHANGED <<turn, parent, receipt, report, heard>>
  BY DEF AcquireLock, ledgerVars, memoryVars, worldVars
<1>3. Steady /\ WiresWarranted /\ CachesKept /\ ~Answering(c)
  BY <1>2 DEF Steady, WiresWarranted, CachesKept, worldVars, Answering
<1>4. pc'[c] \in {"load", "save"} /\ Others(c) /\ (view'[c] = <<>> \/ view'[c] = view[c])
  <2>1. CASE pc[c] = "lock"
    BY <1>1, <1>2, <2>1 DEF AcquireLock, BeginLoad, Goto, ClientTypes, Others
  <2>2. CASE pc[c] # "lock"
    BY <1>1, <1>2, <2>2 DEF AcquireLock, Goto, ClientTypes, Others
  <2>3. QED BY <2>1, <2>2
<1>5. ViewOK(c)'
  BY <1>1, <1>3, <1>4, FreshViewIsOK, ViewStays, SteadyIsStable DEF ClientTypes, StageOK, ClientOK, ViewOK
<1>6. QED BY <1>2, <1>3, <1>4, <1>5, MoveKeeps

LEMMA AbandonKeepsCapacity ==
  ASSUME Sound, TypeOK', NEW c \in Client, Abandon(c)
  PROVE  CapacityInv'
<1>1. Nil \in Reports /\ ~Nil.bounded /\ Return(c, Nil)
  BY DEF Nil, Reports, Fail, Abandon
<1>2. /\ UNCHANGED <<ledger, wire, cache, calls, answered, allocated>>
      /\ heard' = [heard EXCEPT ![c] = Absent] /\ heard \in [Client -> Attempt \cup {Absent}]
  BY DEF Abandon, Sound, LaunchInv, TypeOK
<1>3. Steady /\ WiresWarranted /\ CachesKept
  BY <1>2 DEF Steady, WiresWarranted, CachesKept
<1>4. QED BY <1>1, <1>2, <1>3, ReturnKeeps

----------------------------------------------------------------------------
(* Loading the ledger *)

\* A record that settles nothing is true if its workers are.
LEMMA OpenIsHonest ==
  ASSUME NEW a, ~Settled(a), NEW n, a.ids \subseteq WorkersOf(n)
  PROVE  Honest(a, n)
BY DEF Honest, IsTrue

LEMMA PendingIsHonest ==
  ASSUME NEW a, Pending(a), NEW n
  PROVE  Honest(a, n) /\ ~Settled(a)
BY DEF Honest, IsTrue, Pending, Settled

\* One entry of a sequence is replaced.
LEMMA OneReplaced ==
  ASSUME NEW v \in Seq(Attempt), NEW n \in 1..Len(v), NEW b \in Attempt
  PROVE  /\ [v EXCEPT ![n] = b] \in Seq(Attempt) /\ Len([v EXCEPT ![n] = b]) = Len(v)
         /\ [v EXCEPT ![n] = b][n] = b
         /\ \A i \in 1..Len(v) : i # n => [v EXCEPT ![n] = b][i] = v[i]
<1>1. DOMAIN v = 1..Len(v)
  OBVIOUS
<1>2. [v EXCEPT ![n] = b] \in Seq(Attempt) /\ Len([v EXCEPT ![n] = b]) = Len(v)
  BY ExceptSeq
<1>3. QED BY <1>1, <1>2

LEMMA ReadKeepsCapacity ==
  ASSUME Sound, TypeOK', NEW c \in Client, pc[c] = "load", NEW next, NEW seen \in Seq(Attempt),
         Len(seen) <= MaxAttempts, Read(c, next, seen),
         \A n \in 1..Len(seen) :
           Honest(seen[n], n) /\ (Settled(seen[n]) => seen[n] = ledger[<<"response", n>>])
  PROVE  CapacityInv'
<1>1. ClientTypes
  BY TypesSplit DEF Sound, LaunchInv
<1>2. /\ view' = [view EXCEPT ![c] = seen] /\ io' = [io EXCEPT ![c] = next]
      /\ UNCHANGED <<ledger, wire, cache, calls, answered, allocated, heard, turn, receipt, report, pc, goal>>
  BY DEF Read, ledgerVars, localVars, memoryVars, worldVars
<1>3. Others(c) /\ view'[c] = seen
  BY <1>1, <1>2 DEF Others, ClientTypes
<1>4. Steady /\ WiresWarranted /\ CachesKept
  BY <1>2 DEF Steady, WiresWarranted, CachesKept
<1>5. ViewOK(c)'
  BY <1>3, <1>4, ViewStays, SteadyIsStable
<1>6. Answering(c) => Answering(c)'
  BY <1>2 DEF Answering
<1>7. QED BY <1>2, <1>3, <1>4, <1>5, <1>6, MoveKeeps

LEMMA LoadFailsKeepsCapacity ==
  ASSUME Sound, TypeOK', NEW c \in Client, pc[c] = "load", LoadFails(c)
  PROVE  CapacityInv'
<1>1. UNCHANGED <<ledgerVars, cache, worldVars>>
  BY DEF LoadFails
<1>2. CASE goal[c] = "claim"
  BY <1>1, <1>2, RefusedKeepsCapacity DEF LoadFails, Answering, ledgerVars
<1>3. CASE goal[c] # "claim"
  BY <1>1, <1>3, FailKeepsCapacity DEF LoadFails, CachesKept
<1>4. QED BY <1>2, <1>3

LEMMA LoadKeepsCapacity ==
  ASSUME Sound, TypeOK', NEW c \in Client, LoadStep(c)
  PROVE  CapacityInv'
<1> DEFINE v == view[c]
           Good(w) == \A n \in 1..Len(w) :
                        Honest(w[n], n) /\ (Settled(w[n]) => w[n] = ledger[<<"response", n>>])
<1>1. ClientTypes /\ ServiceTypes /\ StageOK(c)
  BY TypesSplit DEF Sound, LaunchInv
<1>2. pc[c] = "load"
  BY DEF LoadStep, LoadUnavailable, LoadPrepared, LoadOrphans, LoadClaim, LoadResponse, Reads
<1>3. v \in Seq(Attempt) /\ Len(v) \in 0..MaxAttempts /\ (io[c] \in {"dispatch", "response"} => v # <<>>)
  BY <1>1, LaunchAssumption DEF ClientTypes, StageOK
<1>4. \A k \in Keys : ledger[k] # Absent => ledger[k] \in Attempt /\ Warranted(k, ledger[k])
  BY <1>1 DEF ServiceTypes, Sound, CapacityInv, RecordsAreWarranted
<1>a. Good(v)
  BY DEF Sound, CapacityInv, ClientOK, ViewOK
<1>5. CASE LoadUnavailable(c)
  BY <1>2, <1>5, LoadFailsKeepsCapacity DEF LoadUnavailable
<1>6. CASE LoadPrepared(c)
  <2> DEFINE n == Len(v) + 1
             found == ledger[<<"prepared", n>>]
             next == Append(v, found)
  <2>1. CASE n > MaxAttempts
    BY <1>2, <1>3, <1>a, <1>6, <2>1, ReadKeepsCapacity DEF LoadPrepared
  <2>2. CASE n <= MaxAttempts /\ found = Absent
    <3>1. Read(c, "orphans", v)
      BY <1>3, <1>6, <2>2, LaunchAssumption DEF LoadPrepared
    <3>2. QED BY <1>2, <1>3, <1>a, <3>1, ReadKeepsCapacity
  <2>3. CASE n <= MaxAttempts /\ found # Absent
    <3>1. found \in Attempt /\ Warranted(<<"prepared", n>>, found)
      BY <1>3, <1>4, <2>3, KeysAreTyped
    <3>2. Pending(found)
      BY <3>1 DEF Warranted
    <3>3. next \in Seq(Attempt) /\ Len(next) = n /\ next[n] = found /\ \A i \in 1..Len(v) : next[i] = v[i]
      BY <1>3, <3>1, AppendProperties
    <3>4. Good(next)
      <4> SUFFICES ASSUME NEW i \in 1..n
                   PROVE  Honest(next[i], i) /\ (Settled(next[i]) => next[i] = ledger[<<"response", i>>])
        BY <3>3
      <4>1. CASE i = n
        BY <3>2, <3>3, <4>1, PendingIsHonest
      <4>2. CASE i # n
        <5>1. i \in 1..Len(v)
          BY <1>3, <4>2
        <5>2. QED BY <1>a, <3>3, <5>1
      <4>3. QED BY <4>1, <4>2
    <3>5. Read(c, "dispatch", next) \/ LoadFails(c)
      BY <1>3, <1>6, <2>3, LaunchAssumption DEF LoadPrepared
    <3>6. QED BY <1>2, <2>3, <3>3, <3>4, <3>5, ReadKeepsCapacity, LoadFailsKeepsCapacity
  <2>4. QED BY <1>3, <2>1, <2>2, <2>3, LaunchAssumption
<1>7. CASE LoadOrphans(c)
  <2>1. Read(c, "loaded", v) \/ LoadFails(c)
    BY <1>7 DEF LoadOrphans
  <2>2. QED BY <1>2, <1>3, <1>a, <2>1, ReadKeepsCapacity, LoadFailsKeepsCapacity
<1>8. CASE LoadClaim(c)
  <2> DEFINE n == Len(v)
             b == [v[n] EXCEPT !.state = "dispatched"]
             next == [v EXCEPT ![n].state = "dispatched"]
  <2>1. n \in 1..Len(v) /\ v[n] \in Attempt
    BY <1>3, <1>8 DEF LoadClaim, Reads
  <2>2. b \in Attempt /\ b.ids = v[n].ids /\ b.state = "dispatched"
    BY <2>1 DEF Attempt, States
  <2>3. next = [v EXCEPT ![n] = b]
    OBVIOUS
  <2>4. /\ next \in Seq(Attempt) /\ Len(next) = Len(v)
        /\ next[n] = b /\ \A i \in 1..Len(v) : i # n => next[i] = v[i]
    BY <1>3, <2>1, <2>2, <2>3, OneReplaced
  <2>5. Honest(b, n) /\ ~Settled(b)
    <3>1. b.ids \subseteq WorkersOf(n)
      BY <1>a, <2>1, <2>2 DEF Honest
    <3>2. ~Settled(b)
      BY <2>2 DEF Settled
    <3>3. QED BY <3>1, <3>2, OpenIsHonest
  <2>6. Good(next)
    BY <1>a, <2>4, <2>5
  <2>7. Read(c, "response", v) \/ Read(c, "response", next)
    BY <1>8 DEF LoadClaim
  <2>8. Len(v) <= MaxAttempts
    BY <1>3, LaunchAssumption
  <2>9. CASE Read(c, "response", v)
    BY <1>2, <1>3, <1>a, <2>8, <2>9, ReadKeepsCapacity
  <2>10. CASE Read(c, "response", next)
    <3>1. next \in Seq(Attempt) /\ Len(next) <= MaxAttempts
      BY <2>4, <2>8
    <3>2. \A i \in 1..Len(next) :
            Honest(next[i], i) /\ (Settled(next[i]) => next[i] = ledger[<<"response", i>>])
      BY <2>6
    <3> HIDE DEF next
    <3>3. QED BY <1>2, <2>10, <3>1, <3>2, ReadKeepsCapacity
  <2>11. QED BY <2>7, <2>9, <2>10
<1>9. CASE LoadResponse(c)
  <2> DEFINE n == Len(v)
             found == ledger[<<"response", n>>]
             next == [v EXCEPT ![n] = found]
  <2>1. n \in 1..Len(v) /\ n \in 1..MaxAttempts
    BY <1>3, <1>9 DEF LoadResponse, Reads
  <2>2. ASSUME found # Absent PROVE next \in Seq(Attempt) /\ Len(next) = Len(v) /\ Good(next)
    <3>1. found \in Attempt /\ Warranted(<<"response", n>>, found)
      BY <1>4, <2>1, <2>2, KeysAreTyped
    <3>2. Honest(found, n)
      BY <3>1 DEF Warranted
    <3>3. /\ next \in Seq(Attempt) /\ Len(next) = Len(v)
          /\ next[n] = found /\ \A i \in 1..Len(v) : i # n => next[i] = v[i]
      BY <1>3, <2>1, <3>1, OneReplaced
    <3>4. QED BY <1>a, <3>2, <3>3
  <2>3. Read(c, "prepared", v) \/ LoadFails(c) \/ (found # Absent /\ Read(c, "prepared", next))
    BY <1>9 DEF LoadResponse
  <2>4. CASE Read(c, "prepared", v) \/ LoadFails(c)
    BY <1>2, <1>3, <1>a, <2>4, ReadKeepsCapacity, LoadFailsKeepsCapacity
  <2>5. CASE found # Absent /\ Read(c, "prepared", next)
    <3> HIDE DEF next
    <3>1. next \in Seq(Attempt) /\ Len(next) <= MaxAttempts /\ Good(next)
      BY <1>3, <2>2, <2>5
    <3>2. QED BY <1>2, <2>5, <3>1, ReadKeepsCapacity
  <2>6. QED BY <2>3, <2>4, <2>5
<1>10. QED BY <1>5, <1>6, <1>7, <1>8, <1>9 DEF LoadStep

----------------------------------------------------------------------------
(* Dispatch *)

LEMMA ReceiptIsHonest ==
  ASSUME Sound, NEW c \in Client, receipt[c] # <<>>
  PROVE  \A n \in 1..Len(receipt[c]) : Honest(receipt[c][n], n)
<1>1. ClientTypes /\ receipt[c] \in Seq(Attempt)
  BY TypesSplit DEF Sound, LaunchInv, ClientTypes
<1>2. Number(c) \in Nat \ {0} /\ Mine(c) = receipt[c][Number(c)] /\ Number(c) = Len(receipt[c])
  BY <1>1, MineIsTyped, EmptySeq DEF Number
<1>3. Closed(Number(c)) /\ Honest(Mine(c), Number(c))
      /\ \A j \in 1..(Number(c) - 1) : receipt[c][j] = ledger[<<"response", j>>]
  BY DEF Sound, CapacityInv, ClientOK, ReceiptOK
<1>4. \A j \in 1..(Number(c) - 1) : Honest(receipt[c][j], j)
  BY <1>2, <1>3, ClosedIsTrue
<1>5. \A n \in 1..Len(receipt[c]) : n \in 1..(Number(c) - 1) \/ n = Number(c)
  BY <1>2
<1>6. QED BY <1>2, <1>3, <1>4, <1>5

\* Another record of the attempt a client dispatches.
LEMMA RevisedIsHonest ==
  ASSUME Sound, NEW c \in Client, receipt[c] # <<>>, NEW a \in Attempt, Honest(a, Number(c))
  PROVE  LET r == [receipt[c] EXCEPT ![Number(c)] = a]
         IN  r \in Seq(Attempt) /\ \A n \in 1..Len(r) : Honest(r[n], n)
<1> DEFINE r == [receipt[c] EXCEPT ![Number(c)] = a]
<1>1. ClientTypes /\ receipt[c] \in Seq(Attempt)
  BY TypesSplit DEF Sound, LaunchInv, ClientTypes
<1>2. r \in Seq(Attempt) /\ Len(r) = Len(receipt[c])
  BY <1>1, RevisedIsTyped
<1>3. \A n \in 1..Len(r) : r[n] = IF n = Number(c) THEN a ELSE receipt[c][n]
  BY <1>1, <1>2
<1>4. QED BY <1>2, <1>3, ReceiptIsHonest

\* The attempt a client may still ask for, and what is owed for it.
LEMMA MineIsWarranted ==
  ASSUME Sound, NEW c \in Client, receipt[c] # <<>>, ~Answering(c)
  PROVE  /\ Closed(Number(c)) /\ Pending(Mine(c)) /\ Mine(c).count = Owed(Number(c))
         /\ Mine(c) \in Attempt /\ Number(c) \in Nat \ {0}
<1>1. ClientTypes /\ receipt[c] \in Seq(Attempt)
  BY TypesSplit DEF Sound, LaunchInv, ClientTypes
<1>2. QED BY <1>1, MineIsTyped, EmptySeq DEF Sound, CapacityInv, ClientOK, ReceiptOK, Number

LEMMA CacheOneKept ==
  ASSUME Sound, NEW c \in Client, NEW r \in Seq(Attempt), \A n \in 1..Len(r) : Honest(r[n], n),
         cache' = cache \/ cache' = [cache EXCEPT ![home[c]] = r]
  PROVE  CachesKept
BY DEF CachesKept, Sound, LaunchInv, TypeOK

LEMMA PutKeepsCapacity ==
  ASSUME Sound, TypeOK', NEW c \in Client, pc[c] \notin {"idle", "fleet"},
         NEW key \in Keys, NEW obj \in Attempt, BeginPut(c, key, obj), Warranted(key, obj),
         key[1] \in {"plan", "prepared", "dispatch", "response"}, Answering(c) => key[1] = "response",
         UNCHANGED <<memoryVars, worldVars>>, CachesKept
  PROVE  CapacityInv'
<1>1. ClientTypes
  BY TypesSplit DEF Sound, LaunchInv
<1>2. /\ pc'[c] = key[1] /\ view'[c] = <<>>
      /\ UNCHANGED <<ledger, calls, answered, allocated, heard, turn, receipt, report>>
  BY <1>1 DEF BeginPut, Goto, ClientTypes, memoryVars, worldVars, ledgerVars
<1>3. Others(c)
  BY <1>1 DEF BeginPut, Goto, ClientTypes, memoryVars, Others
<1>4. WiresWarranted
  BY DEF BeginPut, WiresWarranted
<1>5. Steady /\ ViewOK(c)' /\ (Answering(c) => Answering(c)')
  BY <1>2, FreshViewIsOK DEF Steady, Answering
<1>6. QED BY <1>2, <1>3, <1>4, <1>5, MoveKeeps

LEMMA BeginLoadKeepsCapacity ==
  ASSUME Sound, TypeOK', NEW c \in Client, pc[c] \notin {"idle", "fleet"}, ~Answering(c),
         NEW g, BeginLoad(c, g), UNCHANGED <<ledgerVars, worldVars, memoryVars>>, CachesKept
  PROVE  CapacityInv'
<1>1. ClientTypes
  BY TypesSplit DEF Sound, LaunchInv
<1>2. /\ pc'[c] = "load" /\ view'[c] = <<>>
      /\ UNCHANGED <<ledger, wire, calls, answered, allocated, heard, turn, receipt, report>>
  BY <1>1 DEF BeginLoad, Goto, ClientTypes, memoryVars, worldVars, ledgerVars
<1>3. Others(c)
  BY <1>1 DEF BeginLoad, Goto, ClientTypes, memoryVars, Others
<1>4. Steady /\ ViewOK(c)' /\ WiresWarranted
  BY <1>2, FreshViewIsOK DEF Steady, WiresWarranted
<1>5. QED BY <1>2, <1>3, <1>4, MoveKeeps

LEMMA PrepareKeepsCapacity ==
  ASSUME Sound, TypeOK', NEW c \in Client,
         SavePrepared(c) \/ SaveRefused(c) \/ PlanPublished(c) \/ Prepare(c) \/ PreparationConflicts(c)
  PROVE  CapacityInv'
<1>1. ClientTypes /\ ServiceTypes /\ StageOK(c)
  BY TypesSplit DEF Sound, LaunchInv
<1>2. CASE SavePrepared(c)
  <2>1. pc[c] = "save" /\ receipt[c] # <<>> /\ receipt[c] \in Seq(Attempt) /\ ~Answering(c)
    BY <1>1, <1>2 DEF SavePrepared, StageOK, ClientTypes, Answering
  <2>2. cache' = [cache EXCEPT ![home[c]] = receipt[c]] /\ UNCHANGED worldVars
    BY <1>2 DEF SavePrepared
  <2>3. CachesKept
    BY <2>1, <2>2, ReceiptIsHonest, CacheOneKept
  <2>4. CASE Number(c) > MaxAttempts
    BY <1>2, <2>1, <2>2, <2>3, <2>4, FailKeepsCapacity DEF SavePrepared
  <2>5. CASE ~(Number(c) > MaxAttempts)
    <3>1. BeginPut(c, PlanKey, Plan) /\ UNCHANGED memoryVars
      BY <1>2, <2>5 DEF SavePrepared
    <3>2. PlanKey \in Keys /\ PlanKey[1] = "plan" /\ Plan \in Attempt /\ Warranted(PlanKey, Plan)
      BY KeysAreTyped, FreshIsAttempt, LaunchAssumption DEF PlanKey, Plan, Warranted
    <3>3. QED BY <2>1, <2>2, <2>3, <3>1, <3>2, PutKeepsCapacity
  <2>6. QED BY <2>4, <2>5
<1>3. CASE SaveRefused(c) \/ PreparationConflicts(c)
  BY <1>3, RefusedKeepsCapacity DEF SaveRefused, PreparationConflicts, Answering, ledgerVars
<1>4. CASE PlanPublished(c)
  BY <1>4, BeginLoadKeepsCapacity DEF PlanPublished, Confirmed, Answering, localVars, CachesKept
<1>5. CASE Prepare(c)
  <2>1. pc[c] = "load" /\ goal[c] = "prepare" /\ UNCHANGED <<cache, worldVars>> /\ ~Answering(c)
    BY <1>5 DEF Prepare, Loaded, Reads, Answering
  <2>2. Number(c) \in 1..MaxAttempts /\ receipt[c] # <<>>
    BY <1>1, <2>1, NumberedIsNonempty DEF StageOK
  <2>3. CASE Agrees(c)
    <3>1. BeginPut(c, <<"prepared", Number(c)>>, Mine(c)) /\ UNCHANGED memoryVars
      BY <1>5, <2>3 DEF Prepare
    <3>2. Mine(c) \in Attempt /\ Pending(Mine(c)) /\ <<"prepared", Number(c)>> \in Keys
      BY <2>1, <2>2, MineIsWarranted, KeysAreTyped
    <3>3. Warranted(<<"prepared", Number(c)>>, Mine(c)) /\ CachesKept
      BY <2>1, <3>2 DEF Warranted, CachesKept
    <3>4. QED BY <2>1, <3>1, <3>2, <3>3, PutKeepsCapacity
  <2>4. CASE ~Agrees(c)
    BY <1>5, <2>1, <2>4, RefusedKeepsCapacity DEF Prepare, ledgerVars
  <2>5. QED BY <2>3, <2>4
<1>6. QED BY <1>2, <1>3, <1>4, <1>5

LEMMA ClaimKeepsCapacity ==
  ASSUME Sound, TypeOK', NEW c \in Client,
         SaveIntent(c) \/ SendClaim(c) \/ ClaimRefused(c) \/ ClaimUnconfirmed(c) \/ ClaimWon(c)
  PROVE  CapacityInv'
<1>1. ClientTypes /\ ServiceTypes /\ StageOK(c)
  BY TypesSplit DEF Sound, LaunchInv
<1>2. CASE SaveIntent(c)
  <2> DEFINE a == [receipt[c][Number(c)] EXCEPT !.state = "dispatched"]
             r == [receipt[c] EXCEPT ![Number(c)] = a]
  <2>1. pc[c] = "prepared" /\ Number(c) \in 1..MaxAttempts /\ ~Answering(c)
    BY <1>1, <1>2 DEF SaveIntent, Confirmed, StageOK, Numbered, Answering
  <2>2. receipt[c] # <<>> /\ Mine(c) \in Attempt /\ Pending(Mine(c)) /\ Mine(c) = receipt[c][Number(c)]
    BY <1>1, <2>1, NumberedIsNonempty, MineIsWarranted, MineIsTyped
  <2>3. a \in Attempt /\ a.ids = {} /\ a.state = "dispatched"
    BY <2>2 DEF Attempt, States, Pending
  <2>4. Honest(a, Number(c))
    BY <2>3, OpenIsHonest DEF Settled
  <2>5. r \in Seq(Attempt) /\ \A n \in 1..Len(r) : Honest(r[n], n)
    BY <2>2, <2>3, <2>4, RevisedIsHonest
  <2>6. cache' = [cache EXCEPT ![home[c]] = r] /\ UNCHANGED <<ledgerVars, worldVars, memoryVars>>
        /\ BeginLoad(c, "claim")
    BY <1>2 DEF SaveIntent
  <2>7. CachesKept
    BY <2>5, <2>6, CacheOneKept
  <2>8. QED BY <2>1, <2>6, <2>7, BeginLoadKeepsCapacity
<1>3. CASE SendClaim(c)
  <2> DEFINE a == Fresh(Absent, Mine(c).count)
  <2>1. pc[c] = "load" /\ goal[c] = "claim" /\ UNCHANGED <<cache, worldVars, memoryVars>> /\ ~Answering(c)
    BY <1>3 DEF SendClaim, Loaded, Reads, Answering, localVars
  <2>2. Number(c) \in 1..MaxAttempts /\ receipt[c] # <<>>
    BY <1>1, <2>1, NumberedIsNonempty DEF StageOK
  <2>3. Closed(Number(c)) /\ Mine(c).count = Owed(Number(c)) /\ Mine(c).count \in 1..Target
    BY <1>1, <2>1, <2>2, MineIsWarranted, MineIsTyped
  <2>4. a \in Attempt /\ a.count = Mine(c).count /\ <<"dispatch", Number(c)>> \in Keys
    BY <2>2, <2>3, FreshIsAttempt, KeysAreTyped DEF Fresh
  <2>5. Warranted(<<"dispatch", Number(c)>>, a) /\ CachesKept
    BY <2>1, <2>3, <2>4 DEF Warranted, CachesKept
  <2>6. BeginPut(c, <<"dispatch", Number(c)>>, a)
    BY <1>3 DEF SendClaim
  <2>7. QED BY <2>1, <2>4, <2>5, <2>6, PutKeepsCapacity
<1>4. CASE ClaimRefused(c) \/ ClaimUnconfirmed(c)
  BY <1>4, RefusedKeepsCapacity DEF ClaimRefused, ClaimUnconfirmed, Loaded, Reads, Answering, ledgerVars
<1>5. CASE ClaimWon(c)
  <2>1. /\ pc[c] = "dispatch" /\ pc'[c] = "send" /\ view' = view /\ Others(c) /\ ~Answering(c)
        /\ UNCHANGED <<ledger, wire, cache, calls, answered, allocated, heard, turn, receipt, report>>
    BY <1>1, <1>5 DEF ClaimWon, Goto, ClientTypes, Others, localVars, worldVars, memoryVars, Answering
  <2>2. Steady /\ WiresWarranted /\ CachesKept
    BY <2>1 DEF Steady, WiresWarranted, CachesKept
  <2>3. ViewOK(c)'
    BY <1>1, <2>1, <2>2, ViewStays, SteadyIsStable DEF ClientTypes, StageOK, Sound, CapacityInv, ClientOK, ViewOK
  <2>4. QED BY <2>1, <2>2, <2>3, MoveKeeps
<1>6. QED BY <1>2, <1>3, <1>4, <1>5

\* What a client makes of EC2's answer, or of silence.
LEMMA ObservedKeepsCapacity ==
  ASSUME Sound, TypeOK', NEW c \in Client, pc[c] \in {"fleet", "send"},
         NEW a \in Attempt, Honest(a, Number(c)), Observed(c, a)
  PROVE  CapacityInv'
<1> DEFINE n == Number(c)
           r == [receipt[c] EXCEPT ![n] = a]
<1>1. ClientTypes /\ ServiceTypes /\ StageOK(c) /\ ClientOK(c)
  BY TypesSplit DEF Sound, LaunchInv, CapacityInv
<1>2. n \in 1..MaxAttempts /\ receipt[c] # <<>> /\ receipt[c] \in Seq(Attempt) /\ n = Len(receipt[c])
  BY <1>1, NumberedIsNonempty DEF StageOK, Numbered, ClientTypes, Number
<1>3. r \in Seq(Attempt) /\ \A i \in 1..Len(r) : Honest(r[i], i)
  BY <1>2, RevisedIsHonest
<1>4. Len(r) = n /\ r[n] = a /\ \A i \in 1..n : i # n => r[i] = receipt[c][i]
  BY <1>2, OneReplaced
<1>5. /\ receipt' = [receipt EXCEPT ![c] = r] /\ (cache' = cache \/ cache' = [cache EXCEPT ![home[c]] = r])
      /\ BeginLoad(c, "record") /\ heard' = [heard EXCEPT ![c] = Absent]
      /\ UNCHANGED <<ledger, wire, calls, answered, allocated, turn, report>>
  BY DEF Observed, ledgerVars
<1>6. /\ receipt'[c] = r /\ heard'[c] = Absent /\ pc'[c] = "load" /\ goal'[c] = "record" /\ view'[c] = <<>>
      /\ \A d \in Client : d # c => heard'[d] = heard[d]
  BY <1>1, <1>5 DEF BeginLoad, Goto, ClientTypes, ServiceTypes
<1>7. Others(c)
  BY <1>1, <1>5 DEF BeginLoad, Goto, ClientTypes, Others
<1>8. Steady /\ Stable /\ WiresWarranted /\ CachesKept /\ Elsewhere(c) /\ Answering(c)'
  <2>1. Steady /\ WiresWarranted
    BY <1>5 DEF Steady, WiresWarranted
  <2>2. CachesKept
    BY <1>3, <1>5, CacheOneKept
  <2>3. QED BY <1>5, <1>6, <1>7, <2>1, <2>2, SteadyIsStable DEF Elsewhere, Answering
<1>9. ReceiptOK(c)'
  <2>1. Number(c)' = n /\ Mine(c)' = a
    BY <1>4, <1>6 DEF Number, Mine, Last
  <2>2. Closed(n) /\ \A j \in 1..(n - 1) : receipt[c][j] = ledger[<<"response", j>>]
    BY <1>1, <1>2 DEF ClientOK, ReceiptOK
  <2>3. n \in Nat \ {0}
    BY <1>2, LaunchAssumption
  <2>4. Closed(n)'
    BY <1>8, <2>1, <2>2, <2>3 DEF Stable
  <2>5. Honest(a, n)'
    BY <1>8, <2>1, <2>3 DEF Stable
  <2>6. \A j \in 1..(n - 1) : receipt'[c][j] = ledger'[<<"response", j>>]
    <3>1. \A j \in 1..(n - 1) : j \in 1..n /\ j # n
      BY <2>3
    <3>2. QED BY <1>4, <1>5, <1>6, <2>2, <3>1
  <2>7. QED BY <1>6, <1>8, <2>1, <2>4, <2>5, <2>6 DEF ReceiptOK
<1>10. ReportOK(c)'
  BY <1>1, <1>5, <1>8, ReportStays DEF ClientOK, ReportOK, ClientTypes
<1>11. ClientOK(c)'
  BY <1>6, <1>9, <1>10, FreshViewIsOK DEF ClientOK, HeardOK
<1>12. ASSUME NEW call \in calls, call.by = c PROVE CallOK(call)'
  BY <1>5, <1>8, <1>12, CallStays DEF CallOK
<1>13. QED BY <1>8, <1>11, <1>12, ClientKeepsCapacity

LEMMA AnswerKeepsCapacity ==
  ASSUME Sound, TypeOK', NEW c \in Client, FleetHeard(c) \/ FleetLost(c) \/ ExpiresAtSend(c)
  PROVE  CapacityInv'
<1>1. ClientTypes /\ ServiceTypes /\ StageOK(c) /\ pc[c] \in {"fleet", "send"}
  BY TypesSplit DEF Sound, LaunchInv, FleetHeard, FleetLost, ExpiresAtSend
<1>2. CASE FleetHeard(c)
  <2>1. heard[c] \in Attempt /\ Honest(heard[c], Number(c))
    BY <1>1, <1>2 DEF FleetHeard, ServiceTypes, Sound, CapacityInv, ClientOK, HeardOK
  <2>2. QED BY <1>1, <1>2, <2>1, ObservedKeepsCapacity DEF FleetHeard
<1>3. CASE FleetLost(c) \/ ExpiresAtSend(c)
  <2>1. receipt[c] # <<>> /\ ~Answering(c)
    BY <1>1, NumberedIsNonempty DEF StageOK, Numbered, Answering
  <2>2. Mine(c) \in Attempt /\ Pending(Mine(c))
    BY <2>1, MineIsWarranted
  <2>3. Unknown(Mine(c)) \in Attempt /\ ~Settled(Unknown(Mine(c))) /\ Unknown(Mine(c)).ids = {}
    BY <2>2 DEF Unknown, Attempt, States, Pending, Settled
  <2>4. Honest(Unknown(Mine(c)), Number(c))
    BY <2>3, OpenIsHonest
  <2>5. QED BY <1>1, <1>3, <2>3, <2>4, ObservedKeepsCapacity DEF FleetLost, ExpiresAtSend
<1>4. QED BY <1>2, <1>3

\* What a receipt of settled responses leaves to ask for is what is owed.
LEMMA MissingIsOwed ==
  ASSUME Sound, NEW r \in Seq(Attempt), Closed(Len(r) + 1),
         \A n \in 1..Len(r) : r[n] = ledger[<<"response", n>>]
  PROVE  Missing(r) = Owed(Len(r) + 1)
<1> DEFINE k == Len(r) + 1
<1>1. k \in Nat \ {0} /\ DOMAIN r = 1..(k - 1) /\ 1..(k - 1) = 1..Len(r)
  OBVIOUS
<1>2. \A n \in 1..(k - 1) : r[n].ids = WorkersOf(n)
  BY <1>1, ClosedIsTrue
<1>3. Ids(r) = Prior(k)
  <2>1. ASSUME NEW w \in Ids(r) PROVE w \in Prior(k)
    <3>1. PICK n \in 1..(k - 1) : w \in r[n].ids
      BY <1>1 DEF Ids
    <3>2. w \in allocated /\ w.call.attempt = n
      BY <1>2, <3>1 DEF WorkersOf
    <3>3. n < k
      BY <1>1
    <3>4. QED BY <3>2, <3>3 DEF Prior
  <2>2. ASSUME NEW w \in Prior(k) PROVE w \in Ids(r)
    <3>1. w \in allocated /\ w \in Workers /\ w.call.attempt < k
      BY DEF Prior, Sound, LaunchInv, TypeOK
    <3>2. w.call.attempt \in 1..MaxAttempts
      BY <3>1 DEF Workers, Calls
    <3>3. w.call.attempt \in 1..(k - 1)
      BY <1>1, <3>1, <3>2, LaunchAssumption
    <3>4. w \in r[w.call.attempt].ids
      BY <1>2, <3>1, <3>3 DEF WorkersOf
    <3>5. QED BY <1>1, <3>3, <3>4 DEF Ids
  <2>3. QED BY <2>1, <2>2
<1>4. QED BY <1>3 DEF Missing, Owed

LEMMA ResponseKeepsCapacity ==
  ASSUME Sound, TypeOK', NEW c \in Client, RecordResponse(c) \/ ResponseRecorded(c) \/ PutUnconfirmed(c)
  PROVE  CapacityInv'
<1> DEFINE n == Number(c)
<1>1. ClientTypes /\ ServiceTypes /\ StageOK(c) /\ ClientOK(c)
  BY TypesSplit DEF Sound, LaunchInv, CapacityInv
<1>2. CASE RecordResponse(c)
  <2>1. pc[c] = "load" /\ goal[c] = "record" /\ UNCHANGED <<cache, worldVars>> /\ CachesKept
    BY <1>2 DEF RecordResponse, Loaded, Reads, CachesKept
  <2>2. n \in 1..MaxAttempts /\ receipt[c] # <<>>
    BY <1>1, <2>1, NumberedIsNonempty DEF StageOK
  <2>3. Mine(c) \in Attempt /\ Honest(Mine(c), n) /\ <<"response", n>> \in Keys
    BY <1>1, <2>2, MineIsTyped, KeysAreTyped DEF ClientOK, ReceiptOK
  <2>4. Warranted(<<"response", n>>, Mine(c))
    BY <2>3 DEF Warranted
  <2>5. \/ BeginPut(c, <<"response", n>>, Mine(c)) /\ UNCHANGED memoryVars
        \/ Fail(c) /\ UNCHANGED ledgerVars
    BY <1>2 DEF RecordResponse
  <2>6. CASE BeginPut(c, <<"response", n>>, Mine(c)) /\ UNCHANGED memoryVars
    BY <2>1, <2>3, <2>4, <2>6, PutKeepsCapacity
  <2>7. CASE Fail(c) /\ UNCHANGED ledgerVars
    BY <2>1, <2>7, FailKeepsCapacity
  <2>8. QED BY <2>5, <2>6, <2>7
<1>3. CASE ResponseRecorded(c)
  <2>1. pc[c] = "response" /\ ledger[<<"response", n>>] = Mine(c) /\ UNCHANGED <<ledgerVars, cache, worldVars>>
    BY <1>3 DEF ResponseRecorded, Confirmed, Key, Body
  <2>2. n \in 1..MaxAttempts /\ receipt[c] # <<>> /\ receipt[c] \in Seq(Attempt) /\ n = Len(receipt[c])
    BY <1>1, <2>1, NumberedIsNonempty DEF StageOK, Numbered, ClientTypes, Number
  <2>3. CachesKept /\ Steady /\ WiresWarranted /\ heard' = heard /\ heard[c] = Absent
    BY <2>1, OnlyWaitersHear DEF CachesKept, Steady, WiresWarranted, ledgerVars, worldVars
  <2>4. CASE Fail(c)
    BY <2>1, <2>3, <2>4, FailKeepsCapacity
  <2>5. CASE Settled(Mine(c)) /\ Return(c, Missed(Missing(receipt[c]), n))
    <3> DEFINE result == Missed(Missing(receipt[c]), n)
    <3>1. Mine(c) \in Attempt /\ Mine(c) = receipt[c][n]
      BY <1>1, <2>2, MineIsTyped
    <3>2. Closed(n) /\ \A j \in 1..(n - 1) : receipt[c][j] = ledger[<<"response", j>>]
      BY <1>1, <2>2 DEF ClientOK, ReceiptOK
    <3>3. \A j \in 1..n : j \in 1..(n - 1) \/ j = n
      BY <2>2, LaunchAssumption
    <3>4. Closed(n + 1)
      <4>1. n \in Nat /\ n <= MaxAttempts /\ (n + 1) - 1 = n
        BY <2>2, LaunchAssumption
      <4>2. \A j \in 1..n : ledger[<<"response", j>>] # Absent /\ Settled(ledger[<<"response", j>>])
        BY <2>1, <2>5, <3>1, <3>2, <3>3, AbsentIsNoRecord DEF Closed
      <4>3. QED BY <4>1, <4>2 DEF Closed
    <3>5. \A j \in 1..n : receipt[c][j] = ledger[<<"response", j>>]
      BY <2>1, <3>1, <3>2, <3>3
    <3>6. Missing(receipt[c]) = Owed(n + 1)
      BY <2>2, <3>4, <3>5, MissingIsOwed
    <3>7. result \in Reports /\ result.upto = n /\ result.missing = Missing(receipt[c])
      BY <2>2, MissingIsCount, LaunchAssumption DEF Missed, Reports
    <3>8. QED BY <2>3, <2>5, <3>4, <3>6, <3>7, ReturnKeeps
  <2>6. QED BY <1>3, <2>4, <2>5 DEF ResponseRecorded
<1>4. CASE PutUnconfirmed(c)
  BY <1>4, FailKeepsCapacity DEF PutUnconfirmed, CachesKept
<1>5. QED BY <1>2, <1>3, <1>4

----------------------------------------------------------------------------
(* Recovery *)

\* Merging what the cache knows settles nothing, and changes nothing settled.
LEMMA MergedIsHonest ==
  ASSUME Sound, NEW r \in Seq(Attempt), NEW m \in Machine, \A n \in 1..Len(r) : Honest(r[n], n)
  PROVE  \A n \in 1..Len(r) :
           /\ Honest(Merged(r, m)[n], n)
           /\ Settled(Merged(r, m)[n]) => Merged(r, m)[n] = r[n]
<1> SUFFICES ASSUME NEW n \in 1..Len(r)
             PROVE  /\ Honest(Merged(r, m)[n], n)
                    /\ Settled(Merged(r, m)[n]) => Merged(r, m)[n] = r[n]
  OBVIOUS
<1>1. ServiceTypes /\ r[n] \in Attempt /\ n \in DOMAIN r
  BY TypesSplit DEF Sound, LaunchInv
<1> DEFINE b == [r[n] EXCEPT !.state = "unknown", !.ids = @ \cup cache[m][n].ids,
                             !.fleet = @ \/ cache[m][n].fleet]
<1>2. CASE cache[m] # Absent /\ n \in DOMAIN cache[m]
  <2>1. cache[m] \in Seq(Attempt) /\ n \in 1..Len(cache[m])
    BY <1>1, <1>2 DEF ServiceTypes
  <2>2. Honest(cache[m][n], n)
    BY <1>2, <2>1 DEF Sound, CapacityInv, CachesAreHonest
  <2>3. b.state = "unknown" /\ b.ids = r[n].ids \cup cache[m][n].ids
    BY <1>1 DEF Attempt
  <2>4. Honest(b, n) /\ ~Settled(b)
    <3>1. b.ids \subseteq WorkersOf(n)
      BY <2>2, <2>3 DEF Honest
    <3>2. ~Settled(b)
      BY <2>3 DEF Settled
    <3>3. QED BY <3>1, <3>2, OpenIsHonest
  <2>5. Merged(r, m)[n] = b \/ Merged(r, m)[n] = r[n]
    BY <1>1 DEF Merged
  <2>6. QED BY <2>4, <2>5
<1>3. CASE ~(cache[m] # Absent /\ n \in DOMAIN cache[m])
  BY <1>1, <1>3 DEF Merged
<1>4. QED BY <1>2, <1>3

\* So does adding what EC2 shows.
LEMMA SightedIsHonest ==
  ASSUME NEW r \in Seq(Attempt), NEW seen \in SUBSET allocated, \A n \in 1..Len(r) : Honest(r[n], n)
  PROVE  \A n \in 1..Len(r) :
           /\ Honest(Sighted(r, seen)[n], n)
           /\ Settled(Sighted(r, seen)[n]) => Sighted(r, seen)[n] = r[n]
<1> SUFFICES ASSUME NEW n \in 1..Len(r)
             PROVE  /\ Honest(Sighted(r, seen)[n], n)
                    /\ Settled(Sighted(r, seen)[n]) => Sighted(r, seen)[n] = r[n]
  OBVIOUS
<1> DEFINE new == {w \in seen : w.call.attempt = n} \ r[n].ids
           b == [r[n] EXCEPT !.state = "unknown", !.ids = @ \cup new]
<1>1. r[n] \in Attempt /\ n \in DOMAIN r
  OBVIOUS
<1>2. b.state = "unknown" /\ b.ids = r[n].ids \cup new
  BY <1>1 DEF Attempt
<1>3. b.ids \subseteq WorkersOf(n) /\ ~Settled(b)
  BY <1>2 DEF Honest, WorkersOf, Settled
<1>4. Honest(b, n) /\ ~Settled(b)
  BY <1>3, OpenIsHonest
<1>5. Sighted(r, seen)[n] = r[n] \/ Sighted(r, seen)[n] = b
  BY <1>1 DEF Sighted
<1>6. QED BY <1>4, <1>5

LEMMA LearntIsHonest ==
  ASSUME Sound, NEW c \in Client, NEW seen \in SUBSET allocated
  PROVE  /\ Learnt(c, seen) \in Seq(Attempt) /\ Len(Learnt(c, seen)) <= MaxAttempts
         /\ \A n \in 1..Len(Learnt(c, seen)) :
              /\ Honest(Learnt(c, seen)[n], n)
              /\ Settled(Learnt(c, seen)[n]) => Learnt(c, seen)[n] = ledger[<<"response", n>>]
<1> DEFINE v == view[c]
           known == Merged(v, home[c])
<1>1. ClientTypes /\ ServiceTypes /\ StageOK(c)
  BY TypesSplit DEF Sound, LaunchInv
<1>2. v \in Seq(Attempt) /\ Len(v) <= MaxAttempts /\ home[c] \in Machine
  BY <1>1 DEF ClientTypes, ServiceTypes, StageOK
<1>3. \A n \in 1..Len(v) : Honest(v[n], n) /\ (Settled(v[n]) => v[n] = ledger[<<"response", n>>])
  BY DEF Sound, CapacityInv, ClientOK, ViewOK
<1>4. known \in Seq(Attempt) /\ Len(known) = Len(v)
  BY <1>1, <1>2, MergedIsTyped
<1>5. \A n \in 1..Len(v) : Honest(known[n], n) /\ (Settled(known[n]) => known[n] = v[n])
  BY <1>2, <1>3, MergedIsHonest
<1>6. \A n \in 1..Len(known) :
        /\ Honest(Sighted(known, seen)[n], n)
        /\ Settled(Sighted(known, seen)[n]) => Sighted(known, seen)[n] = known[n]
  <2> HIDE DEF known
  <2>1. QED BY <1>4, <1>5, SightedIsHonest
<1>7. Learnt(c, seen) \in Seq(Attempt) /\ Len(Learnt(c, seen)) = Len(v)
  BY <1>1, LearntIsTyped
<1>8. Learnt(c, seen) = Sighted(known, seen)
  BY DEF Learnt
<1> HIDE DEF known
<1>9. QED BY <1>2, <1>3, <1>4, <1>5, <1>6, <1>7, <1>8

\* A bounded receipt as it was learnt closes every attempt it names.
LEMMA BoundedIsClosed ==
  ASSUME Sound, NEW c \in Client, NEW seen \in SUBSET allocated, Bounded(Learnt(c, seen))
  PROVE  LET r == Learnt(c, seen)
         IN  /\ Closed(Len(r) + 1) /\ Missing(r) = Owed(Len(r) + 1)
             /\ \A n \in 1..Len(r) : r[n] = ledger[<<"response", n>>]
<1> DEFINE r == Learnt(c, seen)
<1>1. /\ r \in Seq(Attempt) /\ Len(r) <= MaxAttempts
      /\ \A n \in 1..Len(r) : Settled(r[n]) => r[n] = ledger[<<"response", n>>]
  BY LearntIsHonest
<1>2. \A n \in 1..Len(r) : Settled(r[n]) /\ r[n] \in Attempt
  BY <1>1 DEF Bounded
<1>3. Closed(Len(r) + 1)
  <2>1. Len(r) \in Nat /\ (Len(r) + 1) - 1 = Len(r)
    BY <1>1
  <2>2. \A n \in 1..Len(r) : ledger[<<"response", n>>] # Absent /\ Settled(ledger[<<"response", n>>])
    BY <1>1, <1>2, AbsentIsNoRecord
  <2>3. QED BY <1>1, <2>1, <2>2 DEF Closed
<1>4. QED BY <1>1, <1>2, <1>3, MissingIsOwed

\* What Inspected leaves alone, and what it may write.
LEMMA InspectedIsHonest ==
  ASSUME Sound, NEW c \in Client, NEW seen \in SUBSET allocated, Inspected(c, seen)
  PROVE  /\ Steady /\ WiresWarranted /\ CachesKept /\ heard' = heard /\ heard[c] = Absent
         /\ pc[c] = "load" /\ ~Answering(c) /\ UNCHANGED <<ledgerVars, worldVars>>
<1>1. pc[c] = "load" /\ ~Answering(c) /\ UNCHANGED <<ledgerVars, worldVars>>
  BY DEF Inspected, Loaded, Reads, Answering
<1>2. Steady /\ WiresWarranted /\ heard' = heard /\ heard[c] = Absent
  BY <1>1, OnlyWaitersHear DEF Steady, WiresWarranted, ledgerVars, worldVars
<1>3. CachesKept
  <2>1. cache' = cache \/ cache' = [cache EXCEPT ![home[c]] = Learnt(c, seen)]
    BY DEF Inspected
  <2>2. QED BY <2>1, LearntIsHonest, CacheOneKept
<1>4. QED BY <1>1, <1>2, <1>3

LEMMA RetryGrantedKeepsCapacity ==
  ASSUME Sound, TypeOK', NEW c \in Client, RetryGranted(c)
  PROVE  CapacityInv'
<1>1. PICK seen \in SUBSET allocated, s \in Stamps :
        /\ Inspected(c, seen) /\ Retries(c, Learnt(c, seen))
        /\ Authorize(c, Append(Learnt(c, seen), Fresh(s, Missing(Learnt(c, seen)))))
  BY DEF RetryGranted
<1> DEFINE r == Learnt(c, seen)
           k == Len(r) + 1
           a == Fresh(s, Missing(r))
           next == Append(r, a)
<1>2. ClientTypes /\ ServiceTypes /\ ClientOK(c)
  BY TypesSplit DEF Sound, LaunchInv, CapacityInv
<1>3. /\ Steady /\ WiresWarranted /\ CachesKept /\ heard' = heard /\ heard[c] = Absent
      /\ pc[c] = "load" /\ ~Answering(c)
  BY <1>1, InspectedIsHonest
<1>4. r \in Seq(Attempt) /\ k \in Nat \ {0}
  BY LearntIsHonest
<1>5. Closed(k) /\ Missing(r) = Owed(k) /\ \A n \in 1..Len(r) : r[n] = ledger[<<"response", n>>]
  BY <1>1, BoundedIsClosed DEF Retries
<1>6. a \in Attempt /\ Pending(a) /\ a.count = Missing(r)
  BY <1>1, <1>4, MissingIsCount, FreshIsAttempt DEF Retries, Fresh, Pending
<1>7. next \in Seq(Attempt) /\ Len(next) = k /\ next[k] = a /\ \A n \in 1..Len(r) : next[n] = r[n]
  BY <1>4, <1>6, AppendProperties
<1>8. /\ Goto(c, "lockDispatch", "none", "none") /\ receipt' = [receipt EXCEPT ![c] = next]
      /\ view' = [view EXCEPT ![c] = <<>>] /\ UNCHANGED <<turn, report>>
  BY <1>1 DEF Authorize
<1>9. receipt'[c] = next /\ view'[c] = <<>> /\ pc'[c] = "lockDispatch"
  BY <1>2, <1>8 DEF ClientTypes, Goto
<1>10. Others(c)
  BY <1>2, <1>8 DEF ClientTypes, Goto, Others
<1>11. ReceiptOK(c)'
  <2> HIDE DEF next, a
  <2>1. Number(c)' = k /\ Mine(c)' = a
    BY <1>7, <1>9 DEF Number, Mine, Last
  <2>2. PICK n \in Nat \ {0} : n = k
    BY <1>4
  <2>3. Closed(n)' /\ Owed(n)' = Owed(n)
    BY <1>3, <1>5, <2>2, SteadyIsStable DEF Stable
  <2>4. PICK b \in Attempt : b = a
    BY <1>6
  <2>5. Honest(b, n)' /\ Pending(b)' /\ b.count = Owed(n)
    <3>1. Pending(b) /\ b.count = Owed(n)
      BY <1>5, <1>6, <2>2, <2>4
    <3>2. Honest(b, n)
      BY <3>1, PendingIsHonest
    <3>3. QED BY <1>3, <3>1, <3>2, SteadyIsStable DEF Stable, Pending
  <2>6. \A j \in 1..(n - 1) : receipt'[c][j] = ledger'[<<"response", j>>]
    <3>1. n - 1 = Len(r) /\ ledger' = ledger
      BY <1>3, <1>4, <2>2 DEF Steady
    <3>2. QED BY <1>5, <1>7, <1>9, <3>1
  <2>7. Mine(c)' = b /\ Number(c)' = n
    BY <2>1, <2>2, <2>4
  <2>8. Pending(Mine(c))' /\ Mine(c)'.count = Owed(Number(c))'
    BY <2>3, <2>5, <2>7 DEF Pending
  <2>9. QED BY <1>9, <2>3, <2>5, <2>6, <2>7, <2>8 DEF ReceiptOK
<1>12. ClientOK(c)'
  <2>1. ReportOK(c)'
    BY <1>2, <1>3, <1>8, SteadyIsStable, ReportStays DEF ClientOK, ReportOK, ClientTypes
  <2>2. QED BY <1>3, <1>9, <1>11, <2>1, FreshViewIsOK DEF ClientOK, HeardOK
<1>13. ASSUME NEW call \in calls, call.by = c PROVE CallOK(call)'
  BY <1>3, <1>8, <1>13, SteadyIsStable, CallStays DEF CallOK
<1>14. QED BY <1>3, <1>8, <1>10, <1>12, <1>13, ClientKeepsCapacity DEF Elsewhere

LEMMA ObserveKeepsCapacity ==
  ASSUME Sound, TypeOK', NEW c \in Client, Observe(c)
  PROVE  CapacityInv'
<1>1. CASE NothingPrepared(c) \/ ReceiptConflicts(c)
  BY <1>1, FailKeepsCapacity DEF NothingPrepared, ReceiptConflicts, Loaded, Reads, CachesKept
<1>2. CASE InspectionFails(c) \/ Reported(c)
  <2>1. PICK seen \in SUBSET allocated :
          Inspected(c, seen) /\ (Fail(c) \/ Return(c, Outcome(Learnt(c, seen))))
    BY <1>2 DEF Reported, InspectionFails
  <2> DEFINE r == Learnt(c, seen)
             result == Outcome(r)
  <2>2. /\ Steady /\ WiresWarranted /\ CachesKept /\ heard' = heard /\ heard[c] = Absent
        /\ pc[c] = "load" /\ UNCHANGED <<ledgerVars, worldVars>>
    BY <2>1, InspectedIsHonest
  <2>3. CASE Fail(c)
    BY <2>2, <2>3, FailKeepsCapacity
  <2>4. CASE Return(c, result)
    <3>1. r \in Seq(Attempt) /\ Len(r) \in Nat
      BY LearntIsHonest
    <3>2. result \in Reports
      BY <3>1, MissingIsCount DEF Outcome, Missed, Nil, Reports
    <3>3. result.bounded => Closed(result.upto + 1) /\ result.missing = Owed(result.upto + 1)
      <4>1. CASE Bounded(r)
        BY <4>1, BoundedIsClosed DEF Outcome, Missed
      <4>2. CASE ~Bounded(r)
        BY <4>2 DEF Outcome, Nil
      <4>3. QED BY <4>1, <4>2
    <3>4. QED BY <2>2, <2>4, <3>2, <3>3, ReturnKeeps
  <2>5. QED BY <2>1, <2>3, <2>4
<1>3. CASE RetryGranted(c)
  BY <1>3, RetryGrantedKeepsCapacity
<1>4. QED BY <1>1, <1>2, <1>3 DEF Observe

----------------------------------------------------------------------------
(* The services and the machines *)

\* The call of a client's current command is the one it now waits for.
LEMMA CreateFleetKeepsCapacity ==
  ASSUME Sound, TypeOK', NEW c \in Client, CreateFleet(c)
  PROVE  CapacityInv'
<1> DEFINE new == [by |-> c, turn |-> turn[c], attempt |-> Number(c), count |-> Mine(c).count]
<1>1. ClientTypes /\ ServiceTypes /\ StageOK(c) /\ ClientOK(c) /\ Stable
  BY TypesSplit, CreateFleetIsStable DEF Sound, LaunchInv, CapacityInv
<1>2. /\ pc[c] = "send" /\ calls' = calls \cup {new} /\ Goto(c, "fleet", "none", "none")
      /\ UNCHANGED <<ledger, wire, cache, answered, allocated, heard, turn, receipt, report, view>>
  BY DEF CreateFleet, ledgerVars, localVars, memoryVars
<1>3. ~Answering(c) /\ Number(c) \in 1..MaxAttempts /\ receipt[c] # <<>> /\ heard'[c] = Absent
  BY <1>1, <1>2, NumberedIsNonempty, OnlyWaitersHear DEF Answering, StageOK, Numbered
<1>4. Closed(Number(c)) /\ Mine(c).count = Owed(Number(c)) /\ Number(c) \in Nat \ {0}
  BY <1>3, MineIsWarranted
<1>5. pc'[c] = "fleet" /\ Number(c)' = Number(c) /\ Mine(c)' = Mine(c)
  BY <1>1, <1>2 DEF Goto, ClientTypes, Number, Mine
<1>6. RecordsAreWarranted' /\ CachesAreHonest'
  BY <1>1, <1>2, RecordsStay, CachesStay DEF WiresWarranted
<1>7. ASSUME NEW d \in Client PROVE ClientOK(d)'
  <2>1. CASE d = c
    <3>1. ViewOK(c)'
      BY <1>1, <1>2, ViewStays DEF ClientTypes, StageOK, ClientOK, ViewOK
    <3>2. ReceiptOK(c)'
      BY <1>1, <1>2, <1>3, <1>5, ReceiptStays
    <3>3. ReportOK(c)'
      BY <1>1, <1>2, ReportStays DEF ClientOK, ReportOK, ClientTypes
    <3>4. QED BY <1>3, <2>1, <3>1, <3>2, <3>3 DEF ClientOK, HeardOK
  <2>2. CASE d # c
    <3>1. pc'[d] = pc[d] /\ goal'[d] = goal[d]
      BY <1>1, <1>2, <2>2 DEF Goto, ClientTypes
    <3>2. QED BY <1>1, <1>2, <3>1, ClientRests
  <2>3. QED BY <2>1, <2>2
<1>8. ASSUME NEW call \in calls' PROVE CallOK(call)'
  <2>1. CASE call \in calls
    <3>1. call \in Calls /\ call.by \in Client /\ CallOK(call) /\ Closed(call.attempt)' /\ call.count = Owed(call.attempt)'
      BY <1>1, <2>1, CallStays
    <3>2. CASE call.by = c
      <4>1. call.turn # turn[c]
        BY <1>2, <1>3, <3>1, <3>2 DEF CallOK
      <4>2. QED BY <1>2, <3>1, <3>2, <4>1 DEF CallOK
    <3>3. CASE call.by # c
      <4>1. pc'[call.by] = pc[call.by] /\ goal'[call.by] = goal[call.by] /\ Number(call.by)' = Number(call.by)
        BY <1>1, <1>2, <3>1, <3>3 DEF Goto, ClientTypes, Number
      <4>2. QED BY <1>2, <3>1, <4>1 DEF CallOK, Answering
    <3>4. QED BY <3>2, <3>3
  <2>2. CASE call = new
    <3>1. turn[c] <= turn[c] /\ turn'[c] = turn[c]
      <4>1. turn[c] \in Turns \cup {0} /\ turn'[c] = turn[c]
        BY <1>1, <1>2 DEF ClientTypes
      <4>2. turn[c] \in Int
        BY <4>1, LaunchAssumption DEF Turns
      <4>3. QED BY <4>1, <4>2
    <3>2. /\ call.by = c /\ call.turn = turn[c] /\ call.attempt = Number(c) /\ call.count = Mine(c).count
      BY <2>2
    <3>3. Closed(call.attempt)' /\ call.count = Owed(call.attempt)'
      <4>1. PICK n \in Nat \ {0} : n = Number(c)
        BY <1>4
      <4>2. Closed(n)' /\ Owed(n)' = Owed(n)
        BY <1>1, <1>4, <4>1 DEF Stable
      <4>3. call.attempt = n /\ call.count = Owed(n)
        BY <1>4, <3>2, <4>1
      <4>4. QED BY <4>2, <4>3
    <3>4. call.turn <= turn'[call.by] /\ pc'[call.by] = "fleet" /\ call.attempt = Number(call.by)'
      BY <1>5, <3>1, <3>2
    <3>5. QED BY <3>3, <3>4 DEF CallOK
  <2>3. QED BY <1>2, <2>1, <2>2
<1>9. (\A w \in allocated' : w.call \in answered') /\ NeverOverAllocated'
  BY <1>2 DEF Sound, CapacityInv, NeverOverAllocated
<1>10. QED BY <1>6, <1>7, <1>8, <1>9 DEF CapacityInv

\* A step that no client takes part in.
LEMMA ClientsRestKeep ==
  ASSUME Sound, TypeOK', Stable, UNCHANGED <<heard, calls, memoryVars, stageVars>>
  PROVE  (\A c \in Client : ClientOK(c)') /\ (\A call \in calls' : CallOK(call)')
<1>1. UNCHANGED <<heard, calls, turn, receipt, report, pc, goal, view>>
  BY DEF memoryVars, stageVars
<1>2. \A c \in Client : ClientOK(c)'
  BY <1>1, ClientRests
<1>3. ASSUME NEW call \in calls PROVE CallOK(call)'
  BY <1>1, CallStays DEF CallOK, Answering, Number
<1>4. QED BY <1>1, <1>2, <1>3

LEMMA PutArrivesKeepsCapacity ==
  ASSUME Sound, TypeOK', NEW m \in wire, PutArrives(m)
  PROVE  CapacityInv'
<1>1. /\ ledger' = [ledger EXCEPT ![m.key] = m.obj] /\ wire' \subseteq wire
      /\ UNCHANGED <<cache, heard, calls, answered, allocated, memoryVars, stageVars>>
  BY DEF PutArrives, localVars, worldVars
<1>2. Stable /\ ServiceTypes
  BY PutIsStable, TypesSplit DEF Sound, LaunchInv
<1>3. m.key \in Keys /\ m.obj \in Attempt /\ Warranted(m.key, m.obj)
  BY <1>2 DEF ServiceTypes, Sound, CapacityInv, RecordsAreWarranted
<1>4. RecordsAreWarranted'
  <2>1. ASSUME NEW k \in Keys, ledger'[k] # Absent PROVE Warranted(k, ledger[k])'
    <3>1. ledger'[k] \in Attempt /\ Warranted(k, ledger'[k])
      BY <1>1, <1>2, <1>3, <2>1 DEF ServiceTypes, Sound, CapacityInv, RecordsAreWarranted
    <3>2. PICK a \in Attempt : a = ledger'[k]
      BY <3>1
    <3>3. Warranted(k, a)'
      BY <1>2, <3>1, <3>2, WarrantsStay
    <3>4. QED BY <3>2, <3>3
  <2>2. ASSUME NEW x \in wire' PROVE Warranted(x.key, x.obj)'
    <3>1. x.key \in Keys /\ x.obj \in Attempt /\ Warranted(x.key, x.obj)
      BY <1>1, <1>2 DEF ServiceTypes, Sound, CapacityInv, RecordsAreWarranted
    <3>2. QED BY <1>2, <3>1, WarrantsStay
  <2>3. QED BY <2>1, <2>2 DEF RecordsAreWarranted
<1>5. CachesAreHonest'
  BY <1>1, <1>2, CachesStay
<1>6. (\A c \in Client : ClientOK(c)') /\ (\A call \in calls' : CallOK(call)')
  BY <1>1, <1>2, ClientsRestKeep
<1>7. (\A w \in allocated' : w.call \in answered') /\ NeverOverAllocated'
  BY <1>1 DEF Sound, CapacityInv, NeverOverAllocated
<1>8. QED BY <1>4, <1>5, <1>6, <1>7 DEF CapacityInv

LEMMA LoseCacheKeepsCapacity ==
  ASSUME Sound, TypeOK', NEW m \in Machine, LoseCache(m)
  PROVE  CapacityInv'
<1>1. /\ cache' = [cache EXCEPT ![m] = Absent] /\ cache \in [Machine -> Seq(Attempt) \cup {Absent}]
      /\ UNCHANGED <<ledger, wire, heard, calls, answered, allocated, memoryVars, stageVars>>
  BY DEF LoseCache, ledgerVars, worldVars, Sound, LaunchInv, TypeOK
<1>2. Stable /\ WiresWarranted
  BY <1>1, SteadyIsStable DEF Steady, WiresWarranted
<1>3. RecordsAreWarranted' /\ CachesAreHonest'
  BY <1>1, <1>2, RecordsStay, CachesStay
<1>4. (\A c \in Client : ClientOK(c)') /\ (\A call \in calls' : CallOK(call)')
  BY <1>1, <1>2, ClientsRestKeep
<1>5. (\A w \in allocated' : w.call \in answered') /\ NeverOverAllocated'
  BY <1>1 DEF Sound, CapacityInv, NeverOverAllocated
<1>6. QED BY <1>3, <1>4, <1>5 DEF CapacityInv

LEMMA StutterKeepsCapacity ==
  ASSUME Sound, TypeOK', UNCHANGED vars
  PROVE  CapacityInv'
<1>1. UNCHANGED <<ledger, wire, cache, heard, calls, answered, allocated, memoryVars, stageVars>>
  BY DEF vars, ledgerVars, localVars, worldVars
<1>2. Stable /\ WiresWarranted
  BY <1>1, SteadyIsStable DEF Steady, WiresWarranted
<1>3. RecordsAreWarranted' /\ CachesAreHonest'
  BY <1>1, <1>2, RecordsStay, CachesStay
<1>4. (\A c \in Client : ClientOK(c)') /\ (\A call \in calls' : CallOK(call)')
  BY <1>1, <1>2, ClientsRestKeep
<1>5. (\A w \in allocated' : w.call \in answered') /\ NeverOverAllocated'
  BY <1>1 DEF Sound, CapacityInv, NeverOverAllocated
<1>6. QED BY <1>3, <1>4, <1>5 DEF CapacityInv

\* An allocation fits into what was owed: nothing was allocated since the call
\* was made, for its own attempt or for a later one.
LEMMA LaunchFits ==
  ASSUME Sound, NEW call \in calls, NEW k \in 0..Target, Launch(call, k)
  PROVE  NeverOverAllocated'
<1> DEFINE new == {[call |-> call, index |-> i] : i \in 1..k}
           n == call.attempt
           f == [i \in 1..k |-> [call |-> call, index |-> i]]
<1>1. call \notin answered /\ k <= call.count /\ allocated' = allocated \cup new
  BY DEF Launch
<1>2. TypeOK /\ call \in Calls /\ call.count = Owed(n)
  BY DEF Sound, LaunchInv, TypeOK, CapacityInv, CallOK
<1>3. n \in 1..MaxAttempts /\ n \in Nat /\ call.count \in Int /\ k \in Nat
  BY <1>2, LaunchAssumption DEF Calls
<1>4. ~(CallsOf(n) \subseteq answered)
  BY <1>1 DEF CallsOf
<1>5. allocated = Prior(n)
  BY <1>3, <1>4, OpenOwnsNothing
<1>6. IsFiniteSet(allocated) /\ Cardinality(allocated) \in Nat /\ call.count = Target - Cardinality(allocated)
  BY <1>2, <1>3, <1>5, PriorIsCounted DEF Owed
<1>7. IsFiniteSet(1..k) /\ Cardinality(1..k) = k
  <2>1. 0 \in Int /\ 1 \in Int
    OBVIOUS
  <2>2. IsFiniteSet(1..k) /\ Cardinality(1..k) = (IF 1 > k THEN 0 ELSE k - 1 + 1)
    BY <1>3, <2>1, FS_Interval
  <2>3. QED BY <1>3, <2>2
<1>8. f \in Surjection(1..k, new)
  BY DEF Surjection
<1>9. IsFiniteSet(new) /\ Cardinality(new) <= k
  BY <1>7, <1>8, FS_Surjection
<1>10. Cardinality(allocated \cup new)
         = Cardinality(allocated) + Cardinality(new) - Cardinality(allocated \cap new)
  BY <1>6, <1>9, FS_Union
<1>11. Cardinality(new) \in Nat /\ Cardinality(allocated \cap new) \in Nat
  BY <1>6, <1>9, FS_CardinalityType, FS_Subset
<1>12. Cardinality(allocated \cup new) <= Target
  BY <1>1, <1>3, <1>6, <1>9, <1>10, <1>11, LaunchAssumption
<1>13. QED BY <1>1, <1>12 DEF NeverOverAllocated

\* EC2 processes a call, and answers the client that still waits for it: every
\* answer that bounds the allocation is the truth.
LEMMA LaunchKeepsCapacity ==
  ASSUME Sound, TypeOK', NEW call \in calls, NEW k \in 0..Target, Launch(call, k)
  PROVE  CapacityInv'
<1> DEFINE new == {[call |-> call, index |-> i] : i \in 1..k}
           c == call.by
           n == call.attempt
<1>1. /\ call \notin answered /\ answered' = answered \cup {call} /\ allocated' = allocated \cup new
      /\ UNCHANGED <<ledger, wire, cache, calls, memoryVars, stageVars>>
  BY DEF Launch, ledgerVars, localVars
<1>2. UNCHANGED <<turn, receipt, report, pc, goal, view>>
  BY <1>1 DEF memoryVars, stageVars
<1>3. ClientTypes /\ ServiceTypes /\ Stable /\ call \in Calls /\ CallOK(call) /\ c \in Client
  BY LaunchIsStable, CallStays, TypesSplit DEF Sound, LaunchInv
<1>4. RecordsAreWarranted' /\ CachesAreHonest'
  BY <1>1, <1>3, RecordsStay, CachesStay DEF WiresWarranted
<1>5. ASSUME NEW other \in calls PROVE CallOK(other)'
  BY <1>2, <1>3, CallStays DEF CallOK, Answering, Number
<1>6. ASSUME NEW d \in Client, heard'[d] = heard[d] PROVE ClientOK(d)'
  BY <1>2, <1>3, <1>6, ClientRests
<1>7. ASSUME NEW d \in Client, heard'[d] # heard[d] PROVE ClientOK(d)'
  <2>1. turn[c] = call.turn /\ pc[c] = "fleet"
    BY <1>7 DEF Launch
  <2>2. PICK a \in Answers(Mine(c), new) : heard' = [heard EXCEPT ![c] = a]
    BY <2>1 DEF Launch
  <2>3. d = c /\ heard'[c] = a
    BY <1>3, <1>7, <2>2 DEF ServiceTypes
  <2>4. StageOK(c) /\ ~Answering(c) /\ receipt[c] # <<>>
    BY <1>3, <2>1, NumberedIsNonempty DEF Sound, LaunchInv, StageOK, Numbered, Answering
  <2>5. Mine(c) \in Attempt /\ Pending(Mine(c)) /\ Number(c) = n
    BY <1>3, <2>1, <2>4, MineIsWarranted DEF CallOK
  <2>6. n \in 1..MaxAttempts /\ ~(CallsOf(n) \subseteq answered)
    BY <1>1, <1>3 DEF Calls, CallsOf
  <2>7. WorkersOf(n)' = new
    <3>1. WorkersOf(n) = {}
      BY <2>6, OpenOwnsNothing
    <3>2. \A w \in new : w.call.attempt = n
      OBVIOUS
    <3>3. QED BY <1>1, <3>1, <3>2 DEF WorkersOf
  <2>8. CallsOf(n)' # {} /\ CallsOf(n)' \subseteq answered'
    <3>1. \A x \in calls : x.attempt = n => x = call
      BY DEF Sound, LaunchInv, CallsAreClaimed
    <3>2. QED BY <1>1, <3>1 DEF CallsOf
  <2>9. /\ a.ids \subseteq new
        /\ a.state \in {"complete", "rejected"} => a.ids = new
    <3> HIDE DEF new
    <3>1. \/ a = [Mine(c) EXCEPT !.state = "complete", !.ids = new, !.fleet = TRUE]
          \/ \E some \in SUBSET new : a = [Mine(c) EXCEPT !.state = "unknown", !.ids = some, !.fleet = TRUE]
          \/ a = [Mine(c) EXCEPT !.state = "unknown"]
          \/ a = [Mine(c) EXCEPT !.state = "rejected"] /\ new = {}
      BY <2>2 DEF Answers
    <3>2. QED BY <2>5, <3>1 DEF Attempt, Pending
  <2>10. Honest(a, n)'
    <3> HIDE DEF new
    <3>1. QED BY <2>7, <2>8, <2>9 DEF Honest, IsTrue, Settled
  <2>11. Number(c)' = n
    BY <1>2, <2>5 DEF Number
  <2>12. HeardOK(c)'
    BY <1>2, <2>1, <2>3, <2>10, <2>11 DEF HeardOK
  <2>13. ViewOK(c)' /\ ReportOK(c)'
    <3>1. ClientOK(c)
      BY <1>3 DEF Sound, CapacityInv
    <3>2. ViewOK(c)'
      BY <1>2, <1>3, <2>4, <3>1, ViewStays DEF ClientTypes, StageOK, ClientOK, ViewOK
    <3>3. QED BY <1>2, <1>3, <3>1, <3>2, ReportStays DEF ClientOK, ReportOK, ClientTypes
  <2>14. ReceiptOK(c)'
    BY <1>2, <1>3, <2>1, ReceiptStays DEF Answering
  <2>15. QED BY <2>3, <2>12, <2>13, <2>14 DEF ClientOK
<1>8. \A w \in allocated' : w.call \in answered'
  BY <1>1 DEF Sound, CapacityInv
<1>9. NeverOverAllocated'
  BY LaunchFits
<1>10. QED BY <1>1, <1>4, <1>5, <1>6, <1>7, <1>8, <1>9 DEF CapacityInv

----------------------------------------------------------------------------
(* The invariant *)

LEMMA InitIsWithinCapacity == Init => CapacityInv
<1> SUFFICES ASSUME Init PROVE CapacityInv
  OBVIOUS
<1>1. RecordsAreWarranted /\ CachesAreHonest
  BY DEF Init, RecordsAreWarranted, CachesAreHonest
<1>2. \A c \in Client : ClientOK(c)
  BY DEF Init, ClientOK, ViewOK, ReceiptOK, HeardOK, ReportOK, Nil
<1>3. NeverOverAllocated
  BY FS_EmptySet, LaunchAssumption DEF Init, NeverOverAllocated
<1>4. QED BY <1>1, <1>2, <1>3 DEF Init, CapacityInv

LEMMA NextKeepsCapacity == LaunchInv /\ CapacityInv /\ [Next]_vars => CapacityInv'
<1> SUFFICES ASSUME LaunchInv, CapacityInv, [Next]_vars PROVE CapacityInv'
  OBVIOUS
<1>1. Sound
  BY DEF Sound
<1>2. TypeOK'
  BY NextKeeps DEF LaunchInv
<1>3. ASSUME NEW c \in Client, StartUp(c) \/ \E n \in 0..MaxAttempts : StartRecovery(c, n)
      PROVE  CapacityInv'
  BY <1>1, <1>2, <1>3, StartKeepsCapacity
<1>4. ASSUME NEW c \in Client, Progress(c) PROVE CapacityInv'
  <2>1. CASE DispatchStep(c)
    BY <1>1, <1>2, <2>1, PrepareKeepsCapacity, ClaimKeepsCapacity, CreateFleetKeepsCapacity,
       AnswerKeepsCapacity, ResponseKeepsCapacity DEF DispatchStep
  <2>2. QED BY <1>1, <1>2, <1>4, <2>1, AcquireLockKeepsCapacity, LoadKeepsCapacity,
               ObserveKeepsCapacity DEF Progress
<1>5. ASSUME NEW c \in Client, Abandon(c) PROVE CapacityInv'
  BY <1>1, <1>2, <1>5, AbandonKeepsCapacity
<1>6. ASSUME NEW m \in Machine, LoseCache(m) PROVE CapacityInv'
  BY <1>1, <1>2, <1>6, LoseCacheKeepsCapacity
<1>7. ASSUME NEW m \in wire, PutArrives(m) PROVE CapacityInv'
  BY <1>1, <1>2, <1>7, PutArrivesKeepsCapacity
<1>8. ASSUME NEW call \in calls, NEW k \in 0..Target, Launch(call, k) PROVE CapacityInv'
  BY <1>1, <1>2, <1>8, LaunchKeepsCapacity
<1>9. CASE UNCHANGED vars
  BY <1>1, <1>2, <1>9, StutterKeepsCapacity
<1>10. QED BY <1>3, <1>4, <1>5, <1>6, <1>7, <1>8, <1>9 DEF Next

----------------------------------------------------------------------------
(* One capacity request *)

\* Attempts are claimed one after the other.
InOrder == \E k \in 0..MaxAttempts : Claimed = 1..k

\* Only four kinds of steps concern the abstract request.
LEMMA ClientIsSteady ==
  ASSUME NEW c \in Client, Progress(c), ~CreateFleet(c)
  PROVE  Steady
<1>1. ledger' = ledger
  BY ClientLeavesLedger
<1>2. UNCHANGED <<calls, answered, allocated>>
  <2>1. CASE AcquireLock(c)
    BY <2>1 DEF AcquireLock, worldVars
  <2>2. CASE LoadStep(c)
    BY <2>2 DEF LoadStep, LoadUnavailable, LoadPrepared, LoadOrphans, LoadClaim, LoadResponse,
                LoadFails, Read, worldVars
  <2>3. CASE DispatchStep(c)
    <3>1. CASE SavePrepared(c) \/ SaveRefused(c) \/ PlanPublished(c) \/ Prepare(c) \/ PreparationConflicts(c)
      BY <3>1 DEF SavePrepared, SaveRefused, PlanPublished, Prepare, PreparationConflicts, worldVars
    <3>2. CASE SaveIntent(c) \/ SendClaim(c) \/ ClaimRefused(c) \/ ClaimUnconfirmed(c) \/ ClaimWon(c)
      BY <3>2 DEF SaveIntent, SendClaim, ClaimRefused, ClaimUnconfirmed, ClaimWon, worldVars
    <3>3. CASE FleetHeard(c) \/ FleetLost(c) \/ ExpiresAtSend(c)
      BY <3>3 DEF FleetHeard, FleetLost, ExpiresAtSend, Observed
    <3>4. CASE RecordResponse(c) \/ ResponseRecorded(c) \/ PutUnconfirmed(c)
      BY <3>4 DEF RecordResponse, ResponseRecorded, PutUnconfirmed, worldVars
    <3>5. QED BY <2>3, <3>1, <3>2, <3>3, <3>4 DEF DispatchStep
  <2>4. CASE Observe(c)
    BY <2>4 DEF Observe, NothingPrepared, InspectionFails, ReceiptConflicts, Reported, RetryGranted,
                Inspected, worldVars
  <2>5. QED BY <2>1, <2>2, <2>3, <2>4 DEF Progress
<1>3. QED BY <1>1, <1>2 DEF Steady

LEMMA StepsThatMatter ==
  ASSUME [Next]_vars
  PROVE  \/ Steady
         \/ \E c \in Client : CreateFleet(c)
         \/ \E m \in wire : PutArrives(m)
         \/ \E call \in calls, k \in 0..Target : Launch(call, k)
<1>1. ASSUME NEW c \in Client, Progress(c) PROVE Steady \/ CreateFleet(c)
  BY <1>1, ClientIsSteady
<1>2. ASSUME NEW c \in Client, StartUp(c) \/ Abandon(c) \/ \E n \in 0..MaxAttempts : StartRecovery(c, n)
      PROVE  Steady
  BY <1>2 DEF StartUp, Abandon, StartRecovery, Start, ledgerVars, worldVars, Steady
<1>3. ASSUME NEW m \in Machine, LoseCache(m) PROVE Steady
  BY <1>3 DEF LoseCache, ledgerVars, worldVars, Steady
<1>4. CASE UNCHANGED vars
  BY <1>4 DEF vars, ledgerVars, worldVars, Steady
<1>5. QED BY <1>1, <1>2, <1>3, <1>4 DEF Next

LEMMA CountUpTo ==
  ASSUME NEW k \in Nat
  PROVE  Cardinality(1..k) = k
<1>1. 0 \in Int /\ 1 \in Int
  OBVIOUS
<1>2. Cardinality(1..k) = (IF 1 > k THEN 0 ELSE k - 1 + 1)
  BY <1>1, FS_Interval
<1>3. QED BY <1>2

\* A settled attempt is claimed; one that is not over is the latest claimed.
LEMMA SettledIsClaimed ==
  ASSUME Sound, NEW n \in 1..MaxAttempts,
         ledger[<<"response", n>>] # Absent, Settled(ledger[<<"response", n>>])
  PROVE  CallsOf(n) # {} /\ CallsOf(n) \subseteq answered /\ n \in Claimed
<1>1. Warranted(<<"response", n>>, ledger[<<"response", n>>])
  BY KeysAreTyped DEF Sound, CapacityInv, RecordsAreWarranted
<1>2. CallsOf(n) # {} /\ CallsOf(n) \subseteq answered
  BY <1>1 DEF Warranted, Honest, IsTrue
<1>3. n \in Claimed
  BY <1>2 DEF Sound, LaunchInv, CallsAreClaimed, CallsOf, Claimed
<1>4. QED BY <1>2, <1>3

LEMMA ClaimedIsClosed ==
  ASSUME Sound, NEW n \in Claimed
  PROVE  n \in 1..MaxAttempts /\ n \in Nat \ {0} /\ Closed(n)
<1>1. n \in 1..MaxAttempts /\ ledger[<<"dispatch", n>>] # Absent /\ <<"dispatch", n>> \in Keys
  BY KeysAreTyped DEF Claimed
<1>2. Warranted(<<"dispatch", n>>, ledger[<<"dispatch", n>>])
  BY <1>1 DEF Sound, CapacityInv, RecordsAreWarranted
<1>3. QED BY <1>1, <1>2, LaunchAssumption DEF Warranted

LEMMA OpenIsLatestClaimed ==
  ASSUME Sound, NEW k \in 0..MaxAttempts, Claimed = 1..k, NEW n \in Claimed,
         CallsOf(n) = {} \/ ~(CallsOf(n) \subseteq answered)
  PROVE  n = k
<1>1. n \in 1..k /\ k \in Nat /\ k \in Claimed /\ n \in 1..MaxAttempts
  BY ClaimedIsClosed, LaunchAssumption
<1>2. k <= n
  BY <1>1, ClaimedIsClosed, OpenIsLatest
<1>3. QED BY <1>1, <1>2

\* Both specifications count the same way.
LEMMA SameCardinality == ASSUME NEW S PROVE Request!Cardinality(S) = Cardinality(S)
BY DEF Request!Cardinality, Cardinality

\* EC2 is asked: the latest attempt was granted and not sent.
LEMMA CreateFleetIsSend ==
  ASSUME Sound, NEW k \in 0..MaxAttempts, Claimed = 1..k, NEW c \in Client, CreateFleet(c)
  PROVE  Claimed' = Claimed /\ Request!Send
<1> DEFINE n == Number(c)
           call == [by |-> c, turn |-> turn[c], attempt |-> n, count |-> Mine(c).count]
<1>1. calls' = calls \cup {call} /\ UNCHANGED <<ledger, answered, allocated>> /\ pc[c] = "send"
  BY DEF CreateFleet, ledgerVars
<1>2. n \in 1..MaxAttempts /\ n \in Claimed /\ CallsOf(n) = {}
  BY <1>1 DEF Sound, LaunchInv, HoldersAreAlone, Holds, CallsOf, Claimed, StageOK, Numbered
<1>3. n = k /\ k # 0 /\ k \in Nat
  BY <1>2, OpenIsLatestClaimed, LaunchAssumption
<1>4. Claimed' = Claimed /\ Cardinality(Claimed) = k
  BY <1>1, <1>3, CountUpTo DEF Claimed
<1>5. ~(ledger[<<"response", k>>] # Absent /\ Settled(ledger[<<"response", k>>]))
  BY <1>2, <1>3, SettledIsClaimed
<1>6. Phase = "granted"
  BY <1>2, <1>3, <1>4, <1>5 DEF Phase
<1>7. CallsOf(k)' # {} /\ ~(CallsOf(k)' \subseteq answered')
  <2>1. call \in CallsOf(k)' /\ call \notin CallsOf(n)
    BY <1>1, <1>2, <1>3 DEF CallsOf
  <2>2. call \notin answered
    BY <2>1 DEF Sound, LaunchInv, TypeOK, CallsOf
  <2>3. QED BY <1>1, <2>1, <2>2
<1>8. Phase' = "sent"
  BY <1>1, <1>3, <1>4, <1>5, <1>7 DEF Phase, Settled
<1>9. QED BY <1>1, <1>4, <1>6, <1>8 DEF Request!Send

\* EC2 allocates: the latest attempt was sent and not filled.
LEMMA LaunchIsFill ==
  ASSUME Sound, TypeOK', NEW k \in 0..MaxAttempts, Claimed = 1..k,
         NEW call \in calls, NEW i \in 0..Target, Launch(call, i)
  PROVE  Claimed' = Claimed /\ Request!Fill
<1> DEFINE n == call.attempt
<1>1. /\ call \notin answered /\ answered' = answered \cup {call} /\ allocated \subseteq allocated'
      /\ UNCHANGED <<ledger, calls>>
  BY DEF Launch, ledgerVars
<1>2. n \in 1..MaxAttempts /\ n \in Claimed /\ ~(CallsOf(n) \subseteq answered) /\ CallsOf(n) = {call}
  BY <1>1 DEF Sound, LaunchInv, TypeOK, Calls, CallsAreClaimed, CallsOf, Claimed
<1>3. n = k /\ k # 0 /\ k \in Nat
  BY <1>2, OpenIsLatestClaimed, LaunchAssumption
<1>4. Claimed' = Claimed /\ Cardinality(Claimed) = k
  BY <1>1, <1>3, CountUpTo DEF Claimed
<1>5. ~(ledger[<<"response", k>>] # Absent /\ Settled(ledger[<<"response", k>>]))
  BY <1>2, <1>3, SettledIsClaimed
<1>6. Phase = "sent"
  BY <1>2, <1>3, <1>4, <1>5 DEF Phase
<1>7. CallsOf(k)' = {call} /\ call \in answered'
  BY <1>1, <1>2, <1>3 DEF CallsOf
<1>8. Phase' = "filled"
  BY <1>1, <1>3, <1>4, <1>5, <1>7 DEF Phase, Settled
<1>9. Cardinality(allocated') <= Target /\ allocated' \in SUBSET Workers
  BY LaunchFits DEF NeverOverAllocated, TypeOK
<1>10. QED BY <1>1, <1>4, <1>6, <1>8, <1>9, SameCardinality DEF Request!Fill

\* A claim is stored: a new attempt is granted, and something is still owed.
LEMMA ClaimIsGrant ==
  ASSUME Sound, NEW k \in 0..MaxAttempts, Claimed = 1..k, NEW m \in wire, PutArrives(m),
         NEW n \in 1..MaxAttempts, m.key = <<"dispatch", n>>
  PROVE  InOrder' /\ Request!Grant
<1>1. /\ ledger[m.key] = Absent /\ ledger' = [ledger EXCEPT ![m.key] = m.obj]
      /\ UNCHANGED <<calls, answered, allocated>>
  BY DEF PutArrives, worldVars
<1>2. TypeOK /\ m.obj \in Attempt /\ m.obj # Absent /\ Warranted(m.key, m.obj)
  BY AbsentIsNoRecord DEF Sound, LaunchInv, TypeOK, CapacityInv, RecordsAreWarranted
<1>3. Closed(n) /\ m.obj.count = Owed(n) /\ n \in Nat \ {0} /\ n \notin Claimed
  BY <1>1, <1>2, LaunchAssumption DEF Warranted, Claimed
<1>4. \A j \in 1..(n - 1) : j \in Claimed
  BY <1>3, ClosedIsTrue, SettledIsClaimed, AbsentIsNoRecord
<1>5. n = k + 1 /\ k \in Nat
  <2>1. k \in Nat /\ k < n
    BY <1>3, LaunchAssumption
  <2>2. CASE n - 1 > k
    <3>1. n - 1 \in 1..(n - 1)
      BY <1>3, <2>1, <2>2
    <3>2. n - 1 \in 1..k
      BY <1>4, <3>1
    <3>3. QED BY <2>1, <2>2, <3>2
  <2>3. QED BY <1>3, <2>1, <2>2
<1>6. \A j \in 1..MaxAttempts : <<"dispatch", j>> \in Keys /\ <<"response", j>> \in Keys
  BY KeysAreTyped
<1>7. Claimed' = 1..n
  <2>1. ASSUME NEW j \in 1..MaxAttempts
        PROVE  ledger'[<<"dispatch", j>>] # Absent <=> (j = n \/ ledger[<<"dispatch", j>>] # Absent)
    <3>1. <<"dispatch", j>> \in Keys
      BY <1>6
    <3>2. CASE j = n
      BY <1>1, <1>2, <3>1, <3>2 DEF TypeOK
    <3>3. CASE j # n
      <4>1. <<"dispatch", j>> # m.key
        BY <3>3
      <4>2. ledger'[<<"dispatch", j>>] = ledger[<<"dispatch", j>>]
        BY <1>1, <1>2, <3>1, <4>1 DEF TypeOK
      <4>3. QED BY <3>3, <4>2
    <3>4. QED BY <3>2, <3>3
  <2>2. Claimed' = Claimed \cup {n}
    BY <2>1 DEF Claimed
  <2>3. (1..k) \cup {n} = 1..n
    BY <1>5
  <2>4. QED BY <2>2, <2>3
<1>8. Cardinality(Claimed) = k /\ Cardinality(Claimed)' = k + 1 /\ Cardinality(Claimed)' = n
  BY <1>5, <1>7, CountUpTo
<1>9. Phase = "closed"
  <2>1. CASE k = 0
    BY <1>8, <2>1 DEF Phase
  <2>2. CASE k # 0
    <3>1. k \in 1..(n - 1)
      BY <1>5, <2>2
    <3>2. ledger[<<"response", k>>] # Absent /\ Settled(ledger[<<"response", k>>])
      BY <1>3, <3>1 DEF Closed
    <3>3. QED BY <1>8, <2>2, <3>2 DEF Phase
  <2>3. QED BY <2>1, <2>2
<1>10. CallsOf(n) = {} /\ CallsOf(n)' = {}
  BY <1>1, <1>3 DEF Sound, LaunchInv, CallsAreClaimed, CallsOf, Claimed
<1>11. ~(ledger'[<<"response", n>>] # Absent /\ Settled(ledger'[<<"response", n>>]))
  <2>1. ledger'[<<"response", n>>] = ledger[<<"response", n>>]
    BY <1>1, <1>2, <1>6 DEF TypeOK
  <2>2. QED BY <1>3, <2>1, SettledIsClaimed
<1>12. Phase' = "granted"
  BY <1>3, <1>8, <1>10, <1>11 DEF Phase, Settled
<1>13. Cardinality(allocated) < Target
  <2>1. allocated = Prior(n)
    BY <1>10, OpenOwnsNothing
  <2>2. Cardinality(allocated) \in Nat /\ m.obj.count = Target - Cardinality(allocated)
    BY <1>2, <1>3, <2>1, PriorIsCounted DEF Owed
  <2>3. m.obj.count \in 1..Target
    BY <1>2 DEF Attempt
  <2>4. QED BY <2>2, <2>3, LaunchAssumption
<1>14. n \in 0..MaxAttempts
  BY LaunchAssumption
<1>15. QED BY <1>1, <1>7, <1>8, <1>9, <1>12, <1>13, <1>14, SameCardinality DEF Request!Grant, InOrder

\* Any other record leaves the request as it is, or closes its latest attempt.
LEMMA RecordIsClose ==
  ASSUME Sound, NEW k \in 0..MaxAttempts, Claimed = 1..k, NEW m \in wire, PutArrives(m),
         \A n \in 1..MaxAttempts : m.key # <<"dispatch", n>>
  PROVE  Claimed' = Claimed /\ (Request!Close \/ UNCHANGED Request!vars)
<1>1. /\ ledger[m.key] = Absent /\ ledger' = [ledger EXCEPT ![m.key] = m.obj]
      /\ UNCHANGED <<calls, answered, allocated>>
  BY DEF PutArrives, worldVars
<1>2. TypeOK /\ m.obj \in Attempt /\ m.obj # Absent /\ Warranted(m.key, m.obj)
  BY AbsentIsNoRecord DEF Sound, LaunchInv, TypeOK, CapacityInv, RecordsAreWarranted
<1>3. k \in Nat /\ \A j \in 1..MaxAttempts : <<"dispatch", j>> \in Keys /\ <<"response", j>> \in Keys
  BY KeysAreTyped, LaunchAssumption
<1>4. Claimed' = Claimed
  <2>1. \A j \in 1..MaxAttempts : ledger'[<<"dispatch", j>>] = ledger[<<"dispatch", j>>]
    BY <1>1, <1>2, <1>3 DEF TypeOK
  <2>2. QED BY <2>1 DEF Claimed
<1>5. Cardinality(Claimed) = k /\ Cardinality(Claimed)' = k
  BY <1>3, <1>4, CountUpTo
<1>6. CallsOf(k)' = CallsOf(k)
  BY <1>1 DEF CallsOf
<1>7. CASE k # 0 /\ m.key = <<"response", k>> /\ Settled(m.obj)
  <2>1. CallsOf(k) # {} /\ CallsOf(k) \subseteq answered
    BY <1>2, <1>7 DEF Warranted, Honest, IsTrue
  <2>2. Phase = "filled"
    BY <1>1, <1>5, <1>7, <2>1 DEF Phase
  <2>3. ledger'[<<"response", k>>] = m.obj
    BY <1>1, <1>2, <1>7 DEF TypeOK
  <2>4. Phase' = "closed"
    BY <1>2, <1>5, <1>7, <2>3 DEF Phase, Settled
  <2>5. QED BY <1>1, <1>4, <1>5, <2>2, <2>4 DEF Request!Close
<1>8. CASE ~(k # 0 /\ m.key = <<"response", k>> /\ Settled(m.obj))
  <2>1. CASE k = 0
    <3>1. Phase = "closed" /\ Phase' = "closed"
      BY <1>5, <2>1 DEF Phase
    <3>2. QED BY <1>1, <1>5, <3>1, <1>4 DEF Request!vars
  <2>2. CASE k # 0
    <3> DEFINE closes == ledger[<<"response", k>>] # Absent /\ Settled(ledger[<<"response", k>>])
    <3>1. <<"response", k>> \in Keys
      <4>1. k \in 1..MaxAttempts
        BY <1>3, <2>2, LaunchAssumption
      <4>2. QED BY <1>3, <4>1
    <3>2. closes' <=> closes
      <4>1. CASE m.key = <<"response", k>>
        <5>1. ledger'[<<"response", k>>] = m.obj /\ ~Settled(m.obj) /\ ledger[<<"response", k>>] = Absent
          BY <1>1, <1>2, <1>8, <2>2, <3>1, <4>1 DEF TypeOK
        <5>2. QED BY <5>1 DEF Settled
      <4>2. CASE m.key # <<"response", k>>
        <5>1. ledger'[<<"response", k>>] = ledger[<<"response", k>>]
          BY <1>1, <1>2, <3>1, <4>2 DEF TypeOK
        <5>2. QED BY <5>1 DEF Settled
      <4>3. QED BY <4>1, <4>2
    <3>3. /\ Phase = IF closes THEN "closed" ELSE IF CallsOf(k) = {} THEN "granted"
                     ELSE IF CallsOf(k) \subseteq answered THEN "filled" ELSE "sent"
          /\ Phase' = IF closes' THEN "closed" ELSE IF CallsOf(k)' = {} THEN "granted"
                      ELSE IF CallsOf(k)' \subseteq answered' THEN "filled" ELSE "sent"
      BY <1>5, <2>2 DEF Phase, Settled
    <3>4. Phase' = Phase
      <4> HIDE DEF closes
      <4>1. QED BY <1>1, <1>6, <3>2, <3>3
    <3>5. QED BY <1>1, <1>4, <1>5, <3>4 DEF Request!vars
  <2>3. QED BY <2>1, <2>2
<1>9. QED BY <1>7, <1>8

LEMMA StepIsRefined ==
  ASSUME Sound, TypeOK', InOrder, [Next]_vars
  PROVE  InOrder' /\ [Request!Next]_(Request!vars)
<1>1. PICK k \in 0..MaxAttempts : Claimed = 1..k
  BY DEF InOrder
<1>2. CASE Steady
  <2>1. Claimed' = Claimed /\ Phase' = Phase
    BY <1>2 DEF Steady, Claimed, Phase, CallsOf, Settled
  <2>2. QED BY <1>1, <1>2, <2>1 DEF Steady, InOrder, Request!vars
<1>3. ASSUME NEW c \in Client, CreateFleet(c) PROVE InOrder' /\ Request!Next
  BY <1>1, <1>3, CreateFleetIsSend DEF InOrder, Request!Next
<1>4. ASSUME NEW call \in calls, NEW i \in 0..Target, Launch(call, i) PROVE InOrder' /\ Request!Next
  BY <1>1, <1>4, LaunchIsFill DEF InOrder, Request!Next
<1>5. ASSUME NEW m \in wire, PutArrives(m) PROVE InOrder' /\ [Request!Next]_(Request!vars)
  <2>1. CASE \E n \in 1..MaxAttempts : m.key = <<"dispatch", n>>
    BY <1>1, <1>5, <2>1, ClaimIsGrant DEF Request!Next
  <2>2. CASE ~\E n \in 1..MaxAttempts : m.key = <<"dispatch", n>>
    <3>1. Claimed' = Claimed /\ (Request!Close \/ UNCHANGED Request!vars)
      BY <1>1, <1>5, <2>2, RecordIsClose
    <3>2. QED BY <1>1, <3>1 DEF InOrder, Request!Next
  <2>3. QED BY <2>1, <2>2
<1>6. QED BY <1>2, <1>3, <1>4, <1>5, StepsThatMatter

LEMMA InitIsRefined == Init => InOrder /\ Request!Init
<1> SUFFICES ASSUME Init PROVE InOrder /\ Request!Init
  OBVIOUS
<1>1. \A n \in 1..MaxAttempts : ledger[<<"dispatch", n>>] = Absent
  BY KeysAreTyped DEF Init
<1>2. Claimed = {}
  BY <1>1 DEF Claimed
<1>3. Claimed = 1..0 /\ 0 \in 0..MaxAttempts /\ Cardinality(Claimed) = 0
  BY <1>2, FS_EmptySet, LaunchAssumption
<1>4. QED BY <1>3 DEF InOrder, Request!Init, Phase, Init

----------------------------------------------------------------------------
(* Theorems *)

\* The invariant behind the others: a client dispatches an attempt only on a
\* history the shared ledger has closed with complete evidence, and with the
\* count that history leaves (RetryMissing and MissingCapacity in
\* batch_recovery.go, Claim in launch_ledger.go).
THEOREM CapacityInvariant == Spec => [](LaunchInv /\ CapacityInv /\ InOrder)
<1>1. Init => LaunchInv /\ CapacityInv /\ InOrder
  BY InitIsGood, InitIsWithinCapacity, InitIsRefined
<1>2. LaunchInv /\ CapacityInv /\ InOrder /\ [Next]_vars => (LaunchInv /\ CapacityInv /\ InOrder)'
  <2> SUFFICES ASSUME LaunchInv, CapacityInv, InOrder, [Next]_vars
               PROVE  (LaunchInv /\ CapacityInv /\ InOrder)'
    OBVIOUS
  <2>1. Sound /\ LaunchInv' /\ TypeOK'
    BY NextKeeps DEF Sound, LaunchInv
  <2>2. QED BY <2>1, NextKeepsCapacity, StepIsRefined
<1>3. QED BY <1>1, <1>2, PTL DEF Spec

\* No request ever owns more workers than its plan asks for, for any number of
\* clients, machines and attempts: no retry of missing capacity races an
\* allocation that may still arrive (MissingCapacity counts a bounded history).
THEOREM RequestsAreNeverOverAllocated == Spec => []NeverOverAllocated
<1>1. CapacityInv => NeverOverAllocated
  BY DEF CapacityInv
<1>2. QED BY <1>1, CapacityInvariant, PTL

\* Whatever the ledger, a cache or a report says of an allocation is true: a
\* settled response lists exactly what EC2 allocated and ever will, a count of
\* missing workers is the right one, and a receipt_conflict is never raised by
\* the protocol itself (NormalizeFleetResponse, cachedIdentityConflict).
THEOREM LaunchRecordsAreTrue == Spec => []RecordsAreTrue
<1>1. LaunchInv /\ CapacityInv => RecordsAreTrue
  <2> SUFFICES ASSUME LaunchInv, CapacityInv PROVE RecordsAreTrue
    OBVIOUS
  <2>1. TypeOK
    BY DEF LaunchInv
  <2>2. ASSUME NEW n \in 1..MaxAttempts, ledger[<<"response", n>>] # Absent
        PROVE  Honest(ledger[<<"response", n>>], n)
    <3>1. Warranted(<<"response", n>>, ledger[<<"response", n>>])
      BY <2>2, KeysAreTyped DEF CapacityInv, RecordsAreWarranted
    <3>2. QED BY <3>1 DEF Warranted
  <2>3. ASSUME NEW m \in Machine, NEW n \in 1..MaxAttempts, cache[m] # Absent, n \in DOMAIN cache[m]
        PROVE  Honest(cache[m][n], n)
    <3>1. cache[m] \in Seq(Attempt)
      BY <2>1, <2>3 DEF TypeOK
    <3>2. n \in 1..Len(cache[m])
      BY <2>3, <3>1
    <3>3. QED BY <2>3, <3>2 DEF CapacityInv, CachesAreHonest
  <2>4. ResponsesAreTrue
    BY <2>2, <2>3 DEF ResponsesAreTrue, Honest
  <2>5. CachesAgree
    BY <2>2, <2>3 DEF CachesAgree, Honest, IsTrue
  <2>6. MissingCountIsTrue
    <3> SUFFICES ASSUME NEW c \in Client, report[c].bounded
                 PROVE  report[c].missing
                          = Target - Cardinality({w \in allocated : w.call.attempt <= report[c].upto})
      BY DEF MissingCountIsTrue
    <3>1. report[c].missing = Owed(report[c].upto + 1) /\ report[c].upto \in Nat
      BY <2>1 DEF CapacityInv, ClientOK, ReportOK, TypeOK
    <3>2. \A w \in allocated : w.call.attempt \in Int
      BY <2>1, LaunchAssumption DEF TypeOK, Workers, Calls
    <3>3. Prior(report[c].upto + 1) = {w \in allocated : w.call.attempt <= report[c].upto}
      BY <3>1, <3>2 DEF Prior
    <3>4. QED BY <3>1, <3>3 DEF Owed
  <2>7. QED BY <2>1, <2>4, <2>5, <2>6 DEF RecordsAreTrue
<1>2. QED BY <1>1, CapacityInvariant, PTL

\* Clients, caches, lost and late messages and the shared ledger together
\* behave as one capacity request, granted, sent, filled and closed one attempt
\* after the other.
THEOREM ProtocolIsOneRequest == Spec => ImplementsCapacityRequest
<1>1. Init => Request!Init
  BY InitIsRefined
<1>2. /\ LaunchInv /\ CapacityInv /\ InOrder
      /\ (LaunchInv /\ CapacityInv /\ InOrder)'
      /\ [Next]_vars
      => [Request!Next]_(Request!vars)
  BY StepIsRefined DEF Sound, LaunchInv
<1>3. QED BY <1>1, <1>2, CapacityInvariant, PTL DEF Spec, ImplementsCapacityRequest, Request!Spec
=============================================================================
