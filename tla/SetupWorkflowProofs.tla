------------------------- MODULE SetupWorkflowProofs -------------------------
(***************************************************************************)
(* Proofs about SetupWorkflow, for any number of runs and of killed runs:  *)
(* the journal is true, and AWS changes only as approved and recorded.     *)
(*                                                                         *)
(* A run that is not idle holds the lock, so all others are idle, and from *)
(* its load on it has the journal in memory.  A killed run frees its lock  *)
(* while its tool may still work or wait; but then the journal says that   *)
(* change is pending, so that no run begins another, and who changes the   *)
(* state first overtakes what the others planned.  SetupInv says so of     *)
(* every step, and is inductive.                                           *)
(***************************************************************************)
EXTENDS SetupWorkflow, TLAPS

Steps == {"idle", "load", "local", "profiles", "prepare", "inputs", "bootstrap", "migrate", "verify remote",
          "spot", "foundation", "reconcile", "plan", "approve", "begin", "copy", "dispatch", "complete",
          "configure", "verify", "enable", "enable inputs", "health", "finish"}

TypesOK == TypeOK /\ pc \in [Runs -> Steps] /\ enabling \in [Runs -> BOOLEAN]

\* What the journal says of changes that were begun, and of cleanup.
JournalOrdered ==
  /\ journal.pending = "foundation" => "foundation" \notin journal.completed /\ disk.tfvars = "off"
  /\ \/ "schedule" \in journal.completed \/ "healthy" \in journal.completed \/ journal.pending = "schedule"
     => "foundation" \in journal.completed
  /\ journal.pending = "schedule" => "verified" \in journal.completed /\ journal.enable = "yes"
  /\ "migrating" \in orphans => aws.key = "empty" /\ disk.copy # "none"

JournalInv == JournalIsTrue /\ JournalOrdered

\* The change shows in AWS.
Made(change) == Achieved(IF change = "migrating" THEN "migrated" ELSE change)

\* The steps from the plan of a change to its completion.
Begins  == {"plan", "approve", "begin", "copy", "dispatch", "complete"}
Applies == {"copy", "dispatch", "complete"}

StepOK(step, change, allowed) ==
  /\ step \in {"reconcile", "enable", "enable inputs"} => "foundation" \in journal.completed
  /\ step \in {"configure", "verify"} => journal.mode = "connect" \/ "foundation" \in journal.completed
  /\ step \in {"enable", "enable inputs"} => "verified" \in journal.completed
  /\ step = "enable inputs" => journal.enable = "yes"
  /\ step \in Begins =>
       /\ change \in Mutations
       /\ change = "foundation" => "foundation" \notin journal.completed
       /\ change = "schedule" => {"foundation", "verified"} \subseteq journal.completed /\ journal.enable = "yes"
  /\ step \in {"begin"} \cup Applies => change \in allowed
  /\ step \in Applies => journal.pending = change
  /\ step = "dispatch" /\ change = "migrating" => disk.copy # "none"
  /\ step = "complete" => orphans \subseteq {"spot_role"} /\ Made(change)

RunOK(r) ==
  /\ pc[r] # "idle" <=> lock = r
  /\ pc[r] \notin {"idle", "load"} => mem[r] = journal
  /\ StepOK(pc[r], doing[r], approved[r])

SetupInv == TypesOK /\ JournalInv /\ \A r \in Runs : RunOK(r)

----------------------------------------------------------------------------
(* Journals, and what a step may do to them *)

\* JournalIsTrue without its types.
Truth ==
  /\ \A phase \in journal.completed : Achieved(phase)
  /\ aws.bucket /\ "bootstrap" \notin journal.completed => journal.pending = "bootstrap"
  /\ aws.key = "present" /\ "migrated" \notin journal.completed => journal.pending = "migrating"
  /\ aws.foundation # "none" /\ "foundation" \notin journal.completed => journal.pending = "foundation"
  /\ aws.enabled /\ "schedule" \notin journal.completed => journal.pending = "schedule"
  /\ \A tool \in orphans \ {"spot_role"} : journal.pending = tool
  /\ aws.key = "present" => disk.copy # "none"

LEMMA TruthIsJournal == JournalIsTrue <=> TypeOK /\ Truth
BY DEF JournalIsTrue, Truth

LEMMA JournalsAreTyped ==
  ASSUME NEW j \in Journals
  PROVE  /\ j.completed \subseteq Phases /\ j.pending \in Mutations \cup {"none"}
         /\ j.mode \in {"new", "connect"} /\ j.enable \in {"unset", "yes", "no"}
         /\ j.operator \in BOOLEAN
BY DEF Journals

\* Changes of a field that the invariant does not read.
LEMMA OtherFields ==
  ASSUME NEW j \in Journals, NEW b \in BOOLEAN, NEW c \in BOOLEAN
  PROVE  \A k \in {[j EXCEPT !.written = b], [j EXCEPT !.operator = b],
                   [j EXCEPT !.operator = b, !.stale = c], [j EXCEPT !.after = b]} :
           /\ k \in Journals /\ k.completed = j.completed /\ k.pending = j.pending
           /\ k.mode = j.mode /\ k.enable = j.enable
BY DEF Journals

LEMMA Answers ==
  ASSUME NEW j \in Journals, NEW e \in {"unset", "yes", "no"}
  PROVE  /\ [j EXCEPT !.enable = e] \in Journals /\ [j EXCEPT !.enable = e].enable = e
         /\ [j EXCEPT !.enable = e].completed = j.completed
         /\ [j EXCEPT !.enable = e].pending = j.pending /\ [j EXCEPT !.enable = e].mode = j.mode
BY DEF Journals

LEMMA BegunIs ==
  ASSUME NEW j \in Journals, NEW change \in Mutations
  PROVE  /\ Begun(j, change) \in Journals /\ Begun(j, change).pending = change
         /\ Begun(j, change).completed = j.completed /\ Begun(j, change).mode = j.mode
         /\ Begun(j, change).enable = j.enable
BY DEF Journals, Begun

\* What is pending once a phase is completed.
Remaining(j, phase) ==
  IF j.pending = phase \/ (phase = "migrated" /\ j.pending = "migrating") THEN "none" ELSE j.pending

LEMMA CompletedIs ==
  ASSUME NEW j \in Journals, NEW phase \in Phases
  PROVE  /\ Completed(j, phase) \in Journals /\ Completed(j, phase).completed = j.completed \cup {phase}
         /\ Completed(j, phase).pending = Remaining(j, phase)
         /\ Completed(j, phase).mode = j.mode /\ Completed(j, phase).enable = j.enable
BY DEF Journals, Completed, Remaining

\* Who is not idle holds the lock and has the journal in memory.
LEMMA HolderIsAlone ==
  ASSUME SetupInv, NEW r \in Runs, pc[r] # "idle"
  PROVE  /\ lock = r /\ \A s \in Runs \ {r} : pc[s] = "idle"
         /\ pc[r] # "load" => mem[r] = journal
         /\ mem[r] \in Journals /\ journal \in Journals
         /\ StepOK(pc[r], doing[r], approved[r])
BY DEF SetupInv, RunOK, TypesOK, TypeOK

\* A step of the lock's holder that leaves it at work.
LEMMA HolderMoves ==
  ASSUME SetupInv, NEW r \in Runs, pc[r] # "idle", NEW step \in Steps, step # "idle",
         Goto(r, step), lock' = lock, TypeOK', enabling' \in [Runs -> BOOLEAN], JournalInv',
         step # "load" => mem'[r] = journal', StepOK(step, doing[r], approved[r])'
  PROVE  SetupInv'
<1>1. pc' \in [Runs -> Steps] /\ pc'[r] = step /\ \A s \in Runs \ {r} : pc'[s] = "idle"
  BY HolderIsAlone DEF SetupInv, TypesOK, Goto
<1>2. RunOK(r)'
  BY <1>1, HolderIsAlone DEF RunOK
<1>3. \A s \in Runs \ {r} : RunOK(s)'
  BY <1>1, HolderIsAlone DEF RunOK, StepOK, Begins, Applies
<1>4. QED BY <1>1, <1>2, <1>3 DEF SetupInv, TypesOK

LEMMA HolderLeaves ==
  ASSUME SetupInv, NEW r \in Runs, pc[r] # "idle", Leave(r), TypeOK', JournalInv'
  PROVE  SetupInv'
<1>1. pc' \in [Runs -> Steps] /\ \A s \in Runs : pc'[s] = "idle"
  <2>1. pc' = [pc EXCEPT ![r] = "idle"] /\ pc \in [Runs -> Steps] /\ "idle" \in Steps
    BY DEF Leave, Goto, SetupInv, TypesOK, Steps
  <2>2. \A s \in Runs \ {r} : pc[s] = "idle"
    BY HolderIsAlone
  <2>3. pc' \in [Runs -> Steps] /\ pc'[r] = "idle" /\ \A s \in Runs \ {r} : pc'[s] = pc[s]
    BY <2>1
  <2>4. QED BY <2>2, <2>3
<1>2. lock' = Nobody /\ enabling' \in [Runs -> BOOLEAN]
  BY HolderIsAlone DEF SetupInv, TypesOK, Leave
<1>3. \A s \in Runs : RunOK(s)'
  BY <1>1, <1>2, SetupAssumption DEF RunOK, StepOK, Begins, Applies
<1>4. QED BY <1>1, <1>2, <1>3 DEF SetupInv, TypesOK

\* The truth of the journal depends on nothing else.
LEMMA JournalStays ==
  ASSUME SetupInv, TypeOK', UNCHANGED <<aws, disk, orphans>>,
         journal'.completed = journal.completed, journal'.pending = journal.pending,
         journal.pending = "schedule" => journal'.enable = journal.enable
  PROVE  JournalInv'
<1>1. Truth'
  BY TruthIsJournal DEF SetupInv, JournalInv, Truth, Achieved
<1>2. JournalOrdered'
  BY DEF SetupInv, JournalInv, JournalOrdered
<1>3. QED BY <1>1, <1>2, TruthIsJournal DEF JournalInv, JournalIsTrue, Truth
\* Moves that touch neither AWS, nor the workspace, nor the journal.
LEMMA QuietMove ==
  ASSUME SetupInv, NEW r \in Runs, pc[r] \notin {"idle", "load"}, NEW step \in Steps, step # "idle",
         Goto(r, step), Keep, UNCHANGED <<aws, disk, lock, fresh, orphans, working, crashes>>,
         doing' \in [Runs -> Mutations \cup {"none"}], approved' \in [Runs -> SUBSET Mutations],
         enabling' \in [Runs -> BOOLEAN], StepOK(step, doing[r], approved[r])'
  PROVE  SetupInv'
<1>1. TypeOK'
  BY DEF SetupInv, TypesOK, TypeOK, Keep
<1>2. JournalInv'
  BY <1>1, JournalStays DEF Keep
<1>3. mem'[r] = journal'
  BY HolderIsAlone DEF Keep
<1>4. QED BY <1>1, <1>2, <1>3, HolderMoves

LEMMA SaveIsTyped ==
  ASSUME SetupInv, NEW r \in Runs, NEW j \in Journals, Save(r, j),
         UNCHANGED <<aws, disk, lock, doing, approved, fresh, orphans, working, crashes>>
  PROVE  TypeOK' /\ mem'[r] = journal' /\ journal' = j
BY DEF SetupInv, TypesOK, TypeOK, Save

\* Moves that only save the journal.
LEMMA SaveMove ==
  ASSUME SetupInv, NEW r \in Runs, pc[r] # "idle", NEW step \in Steps, step # "idle",
         Goto(r, step), Stay, UNCHANGED <<aws, disk, fresh, orphans, working, crashes>>,
         NEW j \in Journals, Save(r, j), TypeOK' => JournalInv', StepOK(step, doing[r], approved[r])'
  PROVE  SetupInv'
<1>1. TypeOK' /\ mem'[r] = journal'
  BY SaveIsTyped DEF Stay
<1>2. enabling' \in [Runs -> BOOLEAN] /\ lock' = lock
  BY DEF SetupInv, TypesOK, Stay
<1>3. QED BY <1>1, <1>2, HolderMoves

----------------------------------------------------------------------------
(* Local preparation *)

LEMMA StartKeeps == ASSUME SetupInv, NEW r \in Runs, Start(r) PROVE SetupInv'
<1>1. /\ pc[r] = "idle" /\ lock = Nobody /\ lock' = r /\ pc' = [pc EXCEPT ![r] = "load"]
      /\ UNCHANGED <<aws, disk, journal, mem, doing, enabling, approved, fresh, orphans, working, crashes>>
  BY DEF Start, At, Goto, tools
<1>2. TypeOK'
  BY <1>1 DEF SetupInv, TypesOK, TypeOK
<1>3. JournalInv'
  BY <1>1, <1>2, JournalStays
<1>4. \A s \in Runs : pc[s] = "idle"
  BY <1>1, SetupAssumption DEF SetupInv, RunOK
<1>5. pc' \in [Runs -> Steps] /\ pc'[r] = "load" /\ \A s \in Runs \ {r} : pc'[s] = "idle"
  BY <1>1, <1>4 DEF SetupInv, TypesOK, Steps
<1>6. \A s \in Runs : RunOK(s)'
  BY <1>1, <1>5 DEF RunOK, StepOK, Begins, Applies
<1>7. QED BY <1>1, <1>2, <1>3, <1>5, <1>6 DEF SetupInv, TypesOK

LEMMA LoadKeeps == ASSUME SetupInv, NEW r \in Runs, Load(r) PROVE SetupInv'
<1>1. /\ pc[r] = "load" /\ mem' = [mem EXCEPT ![r] = journal] /\ Goto(r, "local") /\ Stay
      /\ UNCHANGED <<aws, disk, journal, fresh, orphans, working, crashes>>
  BY DEF Load, At, tools
<1>2. Save(r, journal) /\ journal \in Journals
  BY <1>1, HolderIsAlone DEF Save
<1>3. TypeOK' => JournalInv'
  BY <1>1, JournalStays
<1>4. StepOK("local", doing[r], approved[r])'
  BY DEF StepOK, Begins, Applies
<1>5. QED BY <1>1, <1>2, <1>3, <1>4, SaveMove DEF Steps

LEMMA ChooseKeeps == ASSUME SetupInv, NEW r \in Runs, Choose(r) PROVE SetupInv'
<1>1. /\ pc[r] = "load" /\ Save(r, [journal EXCEPT !.written = TRUE]) /\ Goto(r, "local") /\ Stay
      /\ UNCHANGED <<aws, disk, fresh, orphans, working, crashes>>
  BY DEF Choose, At, tools
<1>2. PICK j \in Journals : /\ j = [journal EXCEPT !.written = TRUE] /\ j.completed = journal.completed
                           /\ j.pending = journal.pending /\ j.enable = journal.enable
  BY <1>1, HolderIsAlone, OtherFields
<1>3. Save(r, j) /\ journal' = j
  BY <1>1, <1>2 DEF Save
<1>4. TypeOK' => JournalInv'
  BY <1>1, <1>2, <1>3, JournalStays
<1>5. StepOK("local", doing[r], approved[r])'
  BY DEF StepOK, Begins, Applies
<1>6. QED BY <1>1, <1>3, <1>4, <1>5, SaveMove DEF Steps

LEMMA CheckLocalKeeps == ASSUME SetupInv, NEW r \in Runs, CheckLocal(r) PROVE SetupInv'
<1>1. pc[r] = "local" /\ Goto(r, "profiles") /\ Keep /\ Stay /\ UNCHANGED <<aws, disk, fresh, orphans, working, crashes>>
  BY DEF CheckLocal, At, tools
<1>2. StepOK("profiles", doing[r], approved[r])'
  BY DEF StepOK, Begins, Applies
<1>3. QED BY <1>1, <1>2, QuietMove DEF Steps, Stay, SetupInv, TypesOK, TypeOK
LEMMA ProfilesKeeps == ASSUME SetupInv, NEW r \in Runs, Profiles(r) PROVE SetupInv'
<1>1. pc[r] = "profiles" /\ Goto(r, "prepare") /\ Stay /\ UNCHANGED <<aws, disk, fresh, orphans, working, crashes>>
  BY DEF Profiles, At, tools
<1>2. StepOK("prepare", doing[r], approved[r])'
  BY DEF StepOK, Begins, Applies
<1>3. CASE Keep
  BY <1>1, <1>2, <1>3, QuietMove DEF Steps, Stay, SetupInv, TypesOK, TypeOK
<1>4. CASE Save(r, [mem[r] EXCEPT !.operator = TRUE, !.stale = Done(r, "prepared")])
  <2>1. mem[r] = journal /\ journal \in Journals
    BY <1>1, HolderIsAlone
  <2>2. Done(r, "prepared") \in BOOLEAN
    BY DEF Done
  <2>3. PICK j \in Journals : /\ j = [journal EXCEPT !.operator = TRUE, !.stale = Done(r, "prepared")]
                             /\ j.completed = journal.completed /\ j.pending = journal.pending
                             /\ j.enable = journal.enable
    BY <2>1, <2>2, OtherFields
  <2>4. Save(r, j) /\ journal' = j
    BY <1>4, <2>1, <2>3 DEF Save
  <2>5. TypeOK' => JournalInv'
    BY <1>1, <2>3, <2>4, JournalStays
  <2>6. QED BY <1>1, <1>2, <2>4, <2>5, SaveMove DEF Steps
<1>5. QED BY <1>3, <1>4 DEF Profiles

\* A completed stage that holds in AWS; what it clears is not worked on.
LEMMA CompletionIsTrue ==
  ASSUME SetupInv, TypeOK', NEW phase \in Phases, Achieved(phase), UNCHANGED <<aws, disk, orphans>>,
         journal'.completed = journal.completed \cup {phase}, journal'.enable = journal.enable,
         journal'.pending = Remaining(journal, phase),
         orphans \subseteq {"spot_role"} \/ Remaining(journal, phase) = journal.pending,
         phase \in {"schedule", "healthy"} => "foundation" \in journal.completed
  PROVE  JournalInv'
<1>1. Truth /\ JournalOrdered
  BY TruthIsJournal DEF SetupInv, JournalInv
<1>2. \A p \in journal'.completed : Achieved(p)'
  BY <1>1 DEF Truth, Achieved
<1>3. \A tool \in orphans' \ {"spot_role"} : journal'.pending = tool
  <2>1. CASE orphans \subseteq {"spot_role"}
    BY <2>1
  <2>2. CASE Remaining(journal, phase) = journal.pending
    BY <1>1, <2>2 DEF Truth
  <2>3. QED BY <2>1, <2>2
<1>4. Truth'
  <2>1. aws'.bucket /\ "bootstrap" \notin journal'.completed => journal'.pending = "bootstrap"
    BY <1>1 DEF Truth, Remaining
  <2>2. aws'.key = "present" /\ "migrated" \notin journal'.completed => journal'.pending = "migrating"
    BY <1>1 DEF Truth, Phases, Remaining
  <2>3. aws'.foundation # "none" /\ "foundation" \notin journal'.completed => journal'.pending = "foundation"
    BY <1>1 DEF Truth, Remaining
  <2>4. aws'.enabled /\ "schedule" \notin journal'.completed => journal'.pending = "schedule"
    BY <1>1 DEF Truth, Remaining
  <2>5. aws'.key = "present" => disk'.copy # "none"
    BY <1>1 DEF Truth, Remaining
  <2>6. QED BY <1>2, <1>3, <2>1, <2>2, <2>3, <2>4, <2>5 DEF Truth
<1>5. JournalOrdered'
  BY <1>1 DEF JournalOrdered, Remaining
<1>6. QED BY <1>4, <1>5, TruthIsJournal DEF JournalInv, JournalIsTrue, Truth

\* The phases that are not a change of AWS.
Milestones == {"prepared", "published", "verified", "healthy", "finished"}

LEMMA MilestoneIs ==
  ASSUME NEW j \in Journals, NEW phase \in Milestones
  PROVE  /\ Completed(j, phase) \in Journals /\ Completed(j, phase).completed = j.completed \cup {phase}
         /\ Completed(j, phase).pending = j.pending
         /\ Completed(j, phase).mode = j.mode /\ Completed(j, phase).enable = j.enable
<1>1. phase \in Phases /\ phase # "migrated" /\ phase # j.pending
  BY JournalsAreTyped DEF Milestones, Phases, Mutations
<1>2. QED BY <1>1, CompletedIs DEF Remaining

LEMMA MilestoneIsTrue ==
  ASSUME SetupInv, TypeOK', NEW phase \in Milestones, UNCHANGED <<aws, disk, orphans>>,
         phase = "healthy" => aws.enabled, journal'.pending = journal.pending,
         journal.pending = "schedule" => journal'.enable = journal.enable,
         journal'.completed = journal.completed \cup {phase}
  PROVE  JournalInv'
<1>1. Truth /\ JournalOrdered
  BY TruthIsJournal DEF SetupInv, JournalInv
<1>2. Achieved(phase)
  BY DEF Achieved, Milestones
<1>3. \A p \in journal'.completed : Achieved(p)'
  BY <1>1, <1>2 DEF Truth, Achieved
<1>4. phase \notin {"bootstrap", "migrated", "foundation", "schedule"}
  BY DEF Milestones
<1>5. Truth'
  BY <1>1, <1>3, <1>4 DEF Truth
<1>6. phase = "healthy" => "foundation" \in journal.completed
  BY <1>1 DEF Truth, JournalOrdered
<1>7. JournalOrdered'
  BY <1>1, <1>4, <1>6 DEF JournalOrdered
<1>8. QED BY <1>5, <1>7, TruthIsJournal DEF JournalInv, JournalIsTrue, Truth

LEMMA PrepareKeeps == ASSUME SetupInv, NEW r \in Runs, Prepare(r) PROVE SetupInv'
<1>1. /\ pc[r] = "prepare" /\ Stay /\ UNCHANGED <<aws, disk, fresh, orphans, working, crashes>>
      /\ Goto(r, IF mem[r].mode = "new" THEN "inputs" ELSE "configure")
  BY DEF Prepare, At, tools
<1>2. PICK step \in {"inputs", "configure"} : /\ Goto(r, step) /\ (step = "configure" => journal.mode = "connect")
  BY <1>1, HolderIsAlone, JournalsAreTyped
<1>3. mem[r] = journal /\ journal \in Journals
  BY <1>1, HolderIsAlone
<1>4. ASSUME journal'.mode = journal.mode PROVE StepOK(step, doing[r], approved[r])'
  BY <1>2, <1>4 DEF StepOK, Begins, Applies
<1>5. CASE Done(r, "prepared")
  <2>1. Keep
    BY <1>5 DEF Prepare
  <2>2. QED BY <1>1, <1>2, <1>4, <2>1, QuietMove DEF Steps, Stay, Keep, SetupInv, TypesOK, TypeOK
<1>6. CASE ~Done(r, "prepared")
  <2>1. PICK op \in {journal.operator, journal.mode = "connect"} :
          Save(r, Completed([journal EXCEPT !.operator = op], "prepared"))
    BY <1>3, <1>6 DEF Prepare
  <2>2. op \in BOOLEAN
    BY <1>3, JournalsAreTyped
  <2>3. PICK k \in Journals : /\ k = [journal EXCEPT !.operator = op] /\ k.completed = journal.completed
                             /\ k.pending = journal.pending /\ k.enable = journal.enable /\ k.mode = journal.mode
    BY <1>3, <2>2, OtherFields
  <2>4. PICK j \in Journals : /\ j = Completed(k, "prepared") /\ j.completed = journal.completed \cup {"prepared"}
                             /\ j.pending = journal.pending /\ j.enable = journal.enable /\ j.mode = journal.mode
    <3>1. "prepared" \in Milestones
      BY DEF Milestones
    <3>2. /\ Completed(k, "prepared") \in Journals
          /\ Completed(k, "prepared").completed = k.completed \cup {"prepared"}
          /\ Completed(k, "prepared").pending = k.pending
          /\ Completed(k, "prepared").mode = k.mode /\ Completed(k, "prepared").enable = k.enable
      BY <3>1, MilestoneIs
    <3>3. QED BY <2>3, <3>2
  <2>5. Save(r, j) /\ journal' = j
    BY <2>1, <2>3, <2>4 DEF Save
  <2>6. "prepared" \in Milestones /\ "prepared" # "healthy"
    BY DEF Milestones
  <2>7. TypeOK' => JournalInv'
    BY <1>1, <2>4, <2>5, <2>6, MilestoneIsTrue
  <2>8. StepOK(step, doing[r], approved[r])' /\ step \in Steps /\ step # "idle" /\ pc[r] # "idle"
    BY <1>1, <1>2, <1>4, <2>4, <2>5 DEF Steps
  <2>9. QED BY <1>1, <1>2, <2>5, <2>7, <2>8, SaveMove
<1>7. QED BY <1>5, <1>6

\* The schedule may be on in the inputs only when no foundation is pending.
LEMMA InputsKeep ==
  ASSUME SetupInv, TypeOK', NEW v \in {"on", "off"}, disk' = [disk EXCEPT !.tfvars = v],
         UNCHANGED <<aws, journal, orphans>>, journal.pending = "foundation" => v = "off"
  PROVE  JournalInv'
<1>1. disk'.copy = disk.copy /\ disk'.tfvars = v /\ disk'.local = disk.local
  BY DEF SetupInv, TypesOK, TypeOK
<1>2. Truth /\ JournalOrdered
  BY TruthIsJournal DEF SetupInv, JournalInv
<1>3. Truth' /\ JournalOrdered'
  BY <1>1, <1>2 DEF Truth, JournalOrdered, Achieved
<1>4. QED BY <1>3, TruthIsJournal DEF JournalInv, JournalIsTrue, Truth

LEMMA WriteInputsKeeps == ASSUME SetupInv, NEW r \in Runs, WriteInputs(r) PROVE SetupInv'
<1>1. /\ pc[r] = "inputs" /\ Goto(r, "bootstrap") /\ Keep /\ Stay /\ UNCHANGED <<aws, fresh, orphans, working, crashes>>
  BY DEF WriteInputs, At, tools
<1>2. mem[r] = journal /\ journal \in Journals
  BY <1>1, HolderIsAlone
<1>3. PICK v \in {"on", "off"} : /\ disk' = [disk EXCEPT !.tfvars = v]
                               /\ v = (IF "schedule" \in journal.completed \/ journal.pending = "schedule"
                                       THEN "on" ELSE "off")
  BY <1>2 DEF WriteInputs, Done
<1>4. TypeOK'
  BY <1>1, <1>3 DEF SetupInv, TypesOK, TypeOK, Keep, Stay
<1>5. journal.pending = "foundation" => v = "off"
  BY <1>3 DEF SetupInv, JournalInv, JournalOrdered
<1>6. JournalInv'
  BY <1>1, <1>3, <1>4, <1>5, InputsKeep DEF Keep
<1>7. StepOK("bootstrap", doing[r], approved[r])'
  BY DEF StepOK, Begins, Applies
<1>8. QED BY <1>1, <1>2, <1>4, <1>6, <1>7, HolderMoves DEF Keep, Stay, Steps, SetupInv, TypesOK
----------------------------------------------------------------------------
(* The stages, up to their change of AWS *)

\* A stage turns to a change of AWS.
LEMMA Turning ==
  ASSUME SetupInv, NEW r \in Runs, pc[r] \notin {"idle", "load"}, NEW step \in {"plan", "approve"},
         Goto(r, step), Keep, UNCHANGED <<aws, disk, lock, approved, fresh, orphans, working, crashes>>,
         NEW change \in Mutations, doing' = [doing EXCEPT ![r] = change], enabling' \in [Runs -> BOOLEAN],
         change = "foundation" => "foundation" \notin journal.completed,
         change = "schedule" => {"foundation", "verified"} \subseteq journal.completed /\ journal.enable = "yes"
  PROVE  SetupInv'
<1>1. doing' \in [Runs -> Mutations \cup {"none"}] /\ doing'[r] = change
  BY DEF SetupInv, TypesOK, TypeOK
<1>2. approved' \in [Runs -> SUBSET Mutations] /\ journal' = journal
  BY DEF SetupInv, TypesOK, TypeOK, Keep
<1>3. StepOK(step, doing[r], approved[r])'
  BY <1>1, <1>2 DEF StepOK, Begins, Applies
<1>4. step \in Steps /\ step # "idle"
  BY DEF Steps
<1>5. QED BY <1>1, <1>2, <1>3, <1>4, QuietMove

LEMMA BootstrapKeeps == ASSUME SetupInv, NEW r \in Runs, Bootstrap(r) PROVE SetupInv'
<1>1. pc[r] = "bootstrap" /\ Keep /\ UNCHANGED <<aws, disk, lock, enabling, approved, fresh, orphans, working, crashes>>
  BY DEF Bootstrap, At, tools
<1>2. CASE Goto(r, "migrate") /\ UNCHANGED doing
  <2>1. StepOK("migrate", doing[r], approved[r])'
    BY DEF StepOK, Begins, Applies
  <2>2. QED BY <1>1, <1>2, <2>1, QuietMove DEF Steps, SetupInv, TypesOK, TypeOK
<1>3. CASE Change(r, "bootstrap")
  BY <1>1, <1>3, Turning DEF Change, Mutations, SetupInv, TypesOK
<1>4. QED BY <1>2, <1>3 DEF Bootstrap

LEMMA MigrateKeeps == ASSUME SetupInv, NEW r \in Runs, Migrate(r) PROVE SetupInv'
<1>1. pc[r] = "migrate" /\ Keep /\ UNCHANGED <<aws, disk, lock, enabling, approved, fresh, orphans, working, crashes>>
  BY DEF Migrate, At, tools
<1>2. CASE Goto(r, "verify remote") /\ UNCHANGED doing
  <2>1. StepOK("verify remote", doing[r], approved[r])'
    BY DEF StepOK, Begins, Applies
  <2>2. QED BY <1>1, <1>2, <2>1, QuietMove DEF Steps, SetupInv, TypesOK, TypeOK
<1>3. CASE Goto(r, "approve") /\ doing' = [doing EXCEPT ![r] = "migrating"]
  BY <1>1, <1>3, Turning DEF Mutations, SetupInv, TypesOK
<1>4. QED BY <1>2, <1>3 DEF Migrate

\* A stage whose change of AWS is known to be there.
LEMMA StageIsDone ==
  ASSUME SetupInv, NEW r \in Runs, pc[r] \notin {"idle", "load"}, NEW step \in Steps, step # "idle", Goto(r, step),
         UNCHANGED <<lock, doing, enabling, approved, aws, disk, fresh, orphans, working, crashes>>,
         NEW phase \in {"bootstrap", "migrated", "spot_role", "foundation", "schedule"},
         Save(r, Completed(mem[r], phase)), Achieved(phase),
         orphans \subseteq {"spot_role"} \/ Remaining(journal, phase) = journal.pending,
         phase = "schedule" => "foundation" \in journal.completed,
         \/ step \in {"migrate", "verify remote", "spot", "foundation"}
         \/ step = "reconcile" /\ phase = "foundation"
         \/ step = "configure" /\ phase = "schedule"
  PROVE  SetupInv'
<1>1. mem[r] = journal /\ journal \in Journals /\ phase \in Phases
  BY HolderIsAlone DEF Phases
<1>2. PICK j \in Journals :
        /\ j = Completed(journal, phase) /\ j.completed = journal.completed \cup {phase}
        /\ j.pending = Remaining(journal, phase) /\ j.enable = journal.enable
  BY <1>1, CompletedIs
<1>3. Save(r, j) /\ journal' = j
  BY <1>1, <1>2 DEF Save
<1>5. TypeOK' => JournalInv'
  BY <1>1, <1>2, <1>3, CompletionIsTrue
<1>6. StepOK(step, doing[r], approved[r])'
  BY <1>2, <1>3 DEF StepOK, Begins, Applies
<1>7. QED BY <1>3, <1>5, <1>6, SaveMove DEF Stay

LEMMA VerifyRemoteKeeps == ASSUME SetupInv, NEW r \in Runs, VerifyRemote(r) PROVE SetupInv'
<1>1. /\ pc[r] = "verify remote" /\ aws.key = "present"
      /\ Goto(r, "spot") /\ Stay /\ UNCHANGED <<aws, disk, fresh, orphans, working, crashes>>
  BY DEF VerifyRemote, At, tools
<1>2. CASE Keep
  <2>1. StepOK("spot", doing[r], approved[r])'
    BY DEF StepOK, Begins, Applies
  <2>2. QED BY <1>1, <1>2, <2>1, QuietMove DEF Steps, Stay, SetupInv, TypesOK, TypeOK
<1>3. CASE Save(r, Completed(mem[r], "migrated"))
  <2>1. Achieved("migrated")
    BY <1>1 DEF Achieved
  <2>2. orphans \subseteq {"spot_role"} \/ Remaining(journal, "migrated") = journal.pending
    <3>1. "migrating" \notin orphans /\ \A tool \in orphans \ {"spot_role"} : journal.pending = tool
      BY <1>1, TruthIsJournal DEF SetupInv, JournalInv, JournalOrdered, Truth
    <3>2. journal.pending # "migrated"
      BY <1>1, HolderIsAlone, JournalsAreTyped DEF Mutations
    <3>3. QED BY <3>1, <3>2 DEF Remaining
  <2>3. QED BY <1>1, <1>3, <2>1, <2>2, StageIsDone DEF Steps, Stay
<1>4. QED BY <1>2, <1>3 DEF VerifyRemote

LEMMA SpotKeeps == ASSUME SetupInv, NEW r \in Runs, Spot(r) PROVE SetupInv'
<1>1. pc[r] = "spot" /\ UNCHANGED <<aws, disk, lock, enabling, approved, fresh, orphans, working, crashes>>
  BY DEF Spot, At, tools
<1>2. CASE Keep /\ Goto(r, "foundation") /\ UNCHANGED doing
  <2>1. StepOK("foundation", doing[r], approved[r])'
    BY DEF StepOK, Begins, Applies
  <2>2. QED BY <1>1, <1>2, <2>1, QuietMove DEF Steps, SetupInv, TypesOK, TypeOK
<1>3. CASE aws.role /\ Save(r, Completed(mem[r], "spot_role")) /\ Goto(r, "foundation") /\ UNCHANGED doing
  <2>1. Achieved("spot_role")
    BY <1>3 DEF Achieved
  <2>2. orphans \subseteq {"spot_role"} \/ Remaining(journal, "spot_role") = journal.pending
    BY TruthIsJournal DEF SetupInv, JournalInv, Truth, Remaining
  <2>3. QED BY <1>1, <1>3, <2>1, <2>2, StageIsDone DEF Steps
<1>4. CASE Goto(r, "approve") /\ doing' = [doing EXCEPT ![r] = "spot_role"] /\ Keep
  BY <1>1, <1>4, Turning DEF Mutations, SetupInv, TypesOK
<1>5. QED BY <1>2, <1>3, <1>4 DEF Spot

LEMMA FoundationKeeps == ASSUME SetupInv, NEW r \in Runs, Foundation(r) PROVE SetupInv'
<1>1. pc[r] = "foundation" /\ Keep /\ UNCHANGED <<aws, disk, lock, enabling, approved, fresh, orphans, working, crashes>>
  BY DEF Foundation, At, tools
<1>2. mem[r] = journal
  BY <1>1, HolderIsAlone
<1>3. CASE Done(r, "foundation") /\ Goto(r, "reconcile") /\ UNCHANGED doing
  <2>1. StepOK("reconcile", doing[r], approved[r])'
    BY <1>1, <1>2, <1>3 DEF StepOK, Begins, Applies, Done, Keep
  <2>2. QED BY <1>1, <1>3, <2>1, QuietMove DEF Steps, SetupInv, TypesOK, TypeOK
<1>4. CASE ~Done(r, "foundation") /\ Change(r, "foundation")
  <2>1. "foundation" \notin journal.completed
    BY <1>2, <1>4 DEF Done
  <2>2. QED BY <1>1, <1>4, <2>1, Turning DEF Change, Mutations, SetupInv, TypesOK
<1>5. QED BY <1>3, <1>4 DEF Foundation

LEMMA ReconcileKeeps == ASSUME SetupInv, NEW r \in Runs, Reconcile(r) PROVE SetupInv'
<1>1. pc[r] = "reconcile" /\ Keep /\ UNCHANGED <<aws, disk, lock, enabling, approved, fresh, orphans, working, crashes>>
  BY DEF Reconcile, At, tools
<1>2. mem[r] = journal /\ "foundation" \in journal.completed
  BY <1>1, HolderIsAlone DEF StepOK
<1>3. CASE Goto(r, "configure") /\ UNCHANGED doing
  <2>1. StepOK("configure", doing[r], approved[r])'
    BY <1>1, <1>2 DEF StepOK, Begins, Applies, Keep
  <2>2. QED BY <1>1, <1>3, <2>1, QuietMove DEF Steps, SetupInv, TypesOK, TypeOK
<1>4. CASE Done(r, "verified") /\ mem[r].enable = "yes" /\ Change(r, "schedule")
  <2>1. {"foundation", "verified"} \subseteq journal.completed /\ journal.enable = "yes"
    BY <1>2, <1>4 DEF Done
  <2>2. QED BY <1>1, <1>4, <2>1, Turning DEF Change, Mutations, SetupInv, TypesOK
<1>5. QED BY <1>3, <1>4 DEF Reconcile
----------------------------------------------------------------------------
(* A change of AWS *)

LEMMA PlanKeeps == ASSUME SetupInv, NEW r \in Runs, Plan(r) PROVE SetupInv'
<1>1. /\ pc[r] = "plan" /\ Goto(r, "approve") /\ Keep /\ Stay /\ fresh' = [fresh EXCEPT ![r] = TRUE]
      /\ UNCHANGED <<aws, disk, orphans, working, crashes>>
  BY DEF Plan, At
<1>2. TypeOK'
  BY <1>1 DEF SetupInv, TypesOK, TypeOK, Keep, Stay
<1>3. JournalInv'
  BY <1>1, <1>2, JournalStays DEF Keep
<1>4. StepOK("approve", doing[r], approved[r])' /\ mem'[r] = journal'
  BY <1>1, HolderIsAlone DEF StepOK, Begins, Applies, Keep, Stay
<1>5. QED BY <1>1, <1>2, <1>3, <1>4, HolderMoves DEF Steps, Stay, SetupInv, TypesOK

LEMMA ApproveKeeps == ASSUME SetupInv, NEW r \in Runs, Approve(r) PROVE SetupInv'
<1>1. /\ pc[r] = "approve" /\ Goto(r, "begin") /\ Keep /\ approved' = [approved EXCEPT ![r] = @ \cup {doing[r]}]
      /\ UNCHANGED <<aws, disk, lock, doing, enabling, fresh, orphans, working, crashes>>
  BY DEF Approve, At, tools
<1>2. doing[r] \in Mutations /\ StepOK("approve", doing[r], approved[r])
  BY <1>1, HolderIsAlone DEF StepOK, Begins
<1>3. approved' \in [Runs -> SUBSET Mutations] /\ doing[r] \in approved'[r]
  BY <1>1, <1>2 DEF SetupInv, TypesOK, TypeOK
<1>4. StepOK("begin", doing[r], approved[r])'
  BY <1>1, <1>2, <1>3 DEF StepOK, Begins, Applies, Keep
<1>5. QED BY <1>1, <1>3, <1>4, QuietMove DEF Steps, SetupInv, TypesOK, TypeOK

\* Nothing else is pending, so no tool works on anything else.
LEMMA BeginKeeps == ASSUME SetupInv, NEW r \in Runs, Begin(r) PROVE SetupInv'
<1>1. /\ pc[r] = "begin" /\ MayBegin(r) /\ Save(r, Begun(mem[r], doing[r])) /\ Stay
      /\ Goto(r, IF doing[r] = "migrating" THEN "copy" ELSE "dispatch")
      /\ UNCHANGED <<aws, disk, fresh, orphans, working, crashes>>
  BY DEF Begin, At, tools
<1>2. /\ mem[r] = journal /\ journal \in Journals
      /\ doing[r] \in Mutations /\ doing[r] \in approved[r]
      /\ doing[r] = "foundation" => "foundation" \notin journal.completed
      /\ doing[r] = "schedule" => {"foundation", "verified"} \subseteq journal.completed /\ journal.enable = "yes"
  BY <1>1, HolderIsAlone DEF StepOK, Begins
<1>3. journal.pending \in {"none", doing[r]} /\ (doing[r] = "foundation" => disk.tfvars = "off")
  BY <1>1, <1>2 DEF MayBegin, Reviewed
<1>4. PICK j \in Journals : /\ j = Begun(journal, doing[r]) /\ j.pending = doing[r]
                           /\ j.completed = journal.completed /\ j.enable = journal.enable
  BY <1>2, BegunIs
<1>5. Save(r, j) /\ journal' = j
  BY <1>1, <1>2, <1>4 DEF Save
<1>6. Truth /\ JournalOrdered
  BY TruthIsJournal DEF SetupInv, JournalInv
<1>7. Truth'
  <2>1. \A p \in journal'.completed : Achieved(p)'
    BY <1>1, <1>4, <1>5, <1>6 DEF Truth, Achieved
  <2>2. \A tool \in orphans' \ {"spot_role"} : journal'.pending = tool
    <3>1. \A tool \in orphans \ {"spot_role"} : tool \in Mutations /\ journal.pending = tool
      BY <1>6 DEF Truth, SetupInv, TypesOK, TypeOK
    <3>2. QED BY <1>1, <1>3, <1>4, <1>5, <3>1 DEF Mutations
  <2>3. QED BY <1>1, <1>3, <1>4, <1>5, <1>6, <2>1, <2>2 DEF Truth
<1>8. JournalOrdered'
  BY <1>1, <1>2, <1>3, <1>4, <1>5, <1>6 DEF JournalOrdered
<1>9. TypeOK' => JournalInv'
  BY <1>7, <1>8, TruthIsJournal DEF JournalInv, JournalIsTrue, Truth
<1>10. PICK step \in {"copy", "dispatch"} : Goto(r, step) /\ (doing[r] = "migrating" => step = "copy")
  BY <1>1
<1>11. StepOK(step, doing[r], approved[r])'
  BY <1>1, <1>2, <1>4, <1>5, <1>10 DEF StepOK, Begins, Applies, Stay
<1>12. pc[r] # "idle" /\ step \in Steps /\ step # "idle"
  BY <1>1 DEF Steps
<1>13. QED BY <1>1, <1>5, <1>9, <1>10, <1>11, <1>12, SaveMove

LEMMA CopyIsTrue ==
  ASSUME SetupInv, TypeOK', NEW c \in {"part", "whole"}, disk' = [disk EXCEPT !.copy = c],
         UNCHANGED <<aws, journal, orphans>>
  PROVE  JournalInv'
<1>1. disk'.copy = c /\ disk'.tfvars = disk.tfvars
  BY DEF SetupInv, TypesOK, TypeOK
<1>2. Truth /\ JournalOrdered
  BY TruthIsJournal DEF SetupInv, JournalInv
<1>3. Truth' /\ JournalOrdered'
  BY <1>1, <1>2 DEF Truth, JournalOrdered, Achieved
<1>4. QED BY <1>3, TruthIsJournal DEF JournalInv, JournalIsTrue, Truth

LEMMA CopyKeeps == ASSUME SetupInv, NEW r \in Runs, Copy(r) PROVE SetupInv'
<1>1. /\ pc[r] = "copy" /\ Goto(r, "dispatch") /\ Keep /\ Stay
      /\ UNCHANGED <<aws, fresh, orphans, working, crashes>>
  BY DEF Copy, At, tools
<1>2. PICK c \in {"part", "whole"} : disk' = [disk EXCEPT !.copy = c]
  <2>1. disk.copy \in {"none", "part", "whole"}
    BY DEF SetupInv, TypesOK, TypeOK
  <2>2. disk' = [disk EXCEPT !.copy = IF disk.copy = "none" THEN "whole" ELSE disk.copy]
    BY DEF Copy
  <2>3. QED BY <2>1, <2>2
<1>3. TypeOK' /\ disk'.copy = c
  BY <1>1, <1>2 DEF SetupInv, TypesOK, TypeOK, Keep, Stay
<1>4. JournalInv'
  BY <1>1, <1>2, <1>3, CopyIsTrue DEF Keep
<1>5. StepOK("dispatch", doing[r], approved[r])' /\ mem'[r] = journal'
  BY <1>1, <1>3, HolderIsAlone DEF StepOK, Begins, Applies, Keep, Stay
<1>6. QED BY <1>1, <1>3, <1>4, <1>5, HolderMoves DEF Steps, Stay, SetupInv, TypesOK

\* What a tool may make of a change that is pending (or of the service role,
\* which nothing else depends on), whether its run still waits for it or not.
Recorded(change) ==
  /\ change \in Mutations /\ (change = "spot_role" \/ journal.pending = change)
  /\ change = "migrating" => disk.copy # "none"

LEMMA ToolsKeepTypes ==
  ASSUME TypeOK, NEW change \in Mutations, Whole(change) \/ Some(change)
  PROVE  /\ aws' \in [bucket : BOOLEAN, key : {"empty", "present"}, role : BOOLEAN,
                       foundation : {"none", "partial", "full"}, state : BOOLEAN, enabled : BOOLEAN]
         /\ disk' \in [local : BOOLEAN, copy : {"none", "part", "whole"}, tfvars : {"absent", "off", "on"}]
         /\ disk'.copy = disk.copy /\ disk'.tfvars = disk.tfvars
<1>1. CASE change = "bootstrap"
  BY <1>1 DEF TypeOK, Whole, Some
<1>2. CASE change = "migrating"
  BY <1>2 DEF TypeOK, Whole, Some
<1>3. CASE change = "spot_role"
  BY <1>3 DEF TypeOK, Whole, Some
<1>4. CASE change = "foundation"
  <2>1. CASE Whole(change)
    <3> DEFINE on == (disk.tfvars = "on")
    <3>1. UNCHANGED disk /\ aws' = [aws EXCEPT !.foundation = "full", !.state = TRUE, !.enabled = on]
      BY <1>4, <2>1 DEF Whole
    <3>2. on \in BOOLEAN
      OBVIOUS
    <3> HIDE DEF on
    <3>3. QED BY <3>1, <3>2 DEF TypeOK
  <2>2. CASE Some(change)
    BY <1>4, <2>2 DEF TypeOK, Some
  <2>3. QED BY <2>1, <2>2
<1>5. CASE change = "schedule"
  BY <1>5 DEF TypeOK, Whole, Some
<1>6. QED BY <1>1, <1>2, <1>3, <1>4, <1>5 DEF Mutations
LEMMA ToolsKeepTruth ==
  ASSUME SetupInv, NEW change, Recorded(change), Whole(change) \/ Some(change), journal' = journal,
         orphans' \subseteq orphans, change = "migrating" => "migrating" \notin orphans'
  PROVE  /\ Truth' /\ JournalOrdered'
         /\ Whole(change) => Made(change)'
         /\ aws'.enabled /\ ~aws.enabled => "verified" \in journal.completed /\ journal.enable = "yes"
<1>1. Truth /\ JournalOrdered /\ TypeOK
  BY TruthIsJournal DEF SetupInv, JournalInv, TypesOK
<1>2. change \in Mutations /\ disk'.copy = disk.copy /\ disk'.tfvars = disk.tfvars
  BY <1>1, ToolsKeepTypes DEF Recorded
<1>3. JournalOrdered'
  <2>1. change # "migrating" => aws'.key = aws.key
    <3>1. CASE Whole(change)
      BY <1>1, <1>2, <3>1 DEF Mutations, TypeOK, Whole
    <3>2. CASE Some(change)
      BY <1>1, <3>2 DEF TypeOK, Some
    <3>3. QED BY <3>1, <3>2
  <2>2. QED BY <1>1, <1>2, <2>1 DEF JournalOrdered
<1>4. CASE change = "bootstrap"
  <2>1. /\ aws'.key = aws.key /\ aws'.role = aws.role /\ aws'.foundation = aws.foundation
        /\ aws'.state = aws.state /\ aws'.enabled = aws.enabled /\ (aws.bucket => aws'.bucket)
        /\ Whole(change) => aws'.bucket
    BY <1>1, <1>4 DEF TypeOK, Whole, Some
  <2>2. \A p : Achieved(p) => Achieved(p)'
    BY <2>1 DEF Achieved
  <2>3. Truth'
    BY <1>1, <1>2, <1>4, <2>1, <2>2 DEF Truth, Recorded
  <2>4. QED BY <1>3, <1>4, <2>1, <2>3 DEF Made, Achieved
<1>5. CASE change = "migrating"
  <2>1. /\ aws'.bucket = aws.bucket /\ aws'.role = aws.role /\ aws'.foundation = aws.foundation
        /\ aws'.state = aws.state /\ aws'.enabled = aws.enabled /\ (aws.key = "present" => aws'.key = "present")
        /\ Whole(change) => aws'.key = "present"
    BY <1>1, <1>5 DEF TypeOK, Whole, Some
  <2>2. \A p : Achieved(p) => Achieved(p)'
    BY <2>1 DEF Achieved
  <2>3. Truth'
    BY <1>1, <1>2, <1>5, <2>1, <2>2 DEF Truth, Recorded
  <2>4. QED BY <1>3, <1>5, <2>1, <2>3 DEF Made, Achieved
<1>6. CASE change = "spot_role"
  <2>1. /\ aws'.bucket = aws.bucket /\ aws'.key = aws.key /\ aws'.foundation = aws.foundation
        /\ aws'.state = aws.state /\ aws'.enabled = aws.enabled /\ (aws.role => aws'.role)
        /\ Whole(change) => aws'.role
    BY <1>1, <1>6 DEF TypeOK, Whole, Some
  <2>2. \A p : Achieved(p) => Achieved(p)'
    BY <2>1 DEF Achieved
  <2>3. Truth'
    BY <1>1, <1>2, <1>6, <2>1, <2>2 DEF Truth
  <2>4. QED BY <1>3, <1>6, <2>1, <2>3 DEF Made, Achieved
<1>7. CASE change = "foundation"
  <2>1. /\ journal.pending = "foundation" /\ disk.tfvars = "off" /\ "foundation" \notin journal.completed
        /\ "schedule" \notin journal.completed /\ "healthy" \notin journal.completed
    BY <1>1, <1>7 DEF Recorded, JournalOrdered
  <2>2. aws.enabled = FALSE
    BY <1>1, <2>1 DEF Truth, TypeOK
  <2>3. /\ aws'.bucket = aws.bucket /\ aws'.key = aws.key /\ aws'.role = aws.role
        /\ Whole(change) => aws'.foundation = "full" /\ aws'.state
    BY <1>1, <1>7 DEF TypeOK, Whole, Some
  <2>4. aws'.enabled = FALSE
    BY <1>1, <1>7, <2>1, <2>2 DEF TypeOK, Whole, Some
  <2>5. \A p \in journal'.completed : Achieved(p)'
    BY <1>1, <2>1, <2>3 DEF Truth, Achieved
  <2>6. Truth'
    BY <1>1, <1>2, <2>1, <2>3, <2>4, <2>5 DEF Truth
  <2>7. QED BY <1>3, <1>7, <2>3, <2>4, <2>6 DEF Made, Achieved
<1>8. CASE change = "schedule"
  <2>1. /\ aws'.bucket = aws.bucket /\ aws'.key = aws.key /\ aws'.role = aws.role /\ aws'.state = aws.state
        /\ aws'.foundation = aws.foundation /\ (aws.enabled => aws'.enabled) /\ (Whole(change) => aws'.enabled)
    BY <1>1, <1>8 DEF TypeOK, Whole, Some
  <2>2. \A p : Achieved(p) => Achieved(p)'
    BY <2>1 DEF Achieved
  <2>3. journal.pending = "schedule" /\ "verified" \in journal.completed /\ journal.enable = "yes"
    BY <1>1, <1>8 DEF Recorded, JournalOrdered
  <2>4. Truth'
    BY <1>1, <1>2, <2>1, <2>2, <2>3 DEF Truth
  <2>5. QED BY <1>3, <1>8, <2>1, <2>3, <2>4 DEF Made, Achieved
<1>9. QED BY <1>2, <1>4, <1>5, <1>6, <1>7, <1>8 DEF Mutations

\* What a run at the point of dispatch has on record.
LEMMA DispatchIsRecorded ==
  ASSUME SetupInv, NEW r \in Runs, pc[r] = "dispatch"
  PROVE  /\ lock = r /\ Recorded(doing[r]) /\ journal.pending = doing[r] /\ doing[r] \in approved[r]
         /\ mem[r] = journal
<1>1. StepOK("dispatch", doing[r], approved[r]) /\ lock = r /\ mem[r] = journal
  BY HolderIsAlone
<1>2. QED BY <1>1 DEF StepOK, Begins, Applies, Recorded

\* Of the changes a tool may be left with, only the role contends with nothing.
LEMMA Contending ==
  ASSUME NEW change \in Mutations
  PROVE  /\ change # "spot_role" => Contends(change, change)
         /\ \A tool : ~Contends("spot_role", tool)
BY DEF Contends, Mutations

LEMMA OvertakesWhat ==
  ASSUME SetupInv, NEW change, Recorded(change), Overtakes(change)
  PROVE  /\ fresh' \in [Runs -> BOOLEAN] /\ orphans' \subseteq orphans
         /\ orphans' \subseteq Mutations /\ working' \subseteq orphans'
         /\ change # "spot_role" => orphans' \subseteq {"spot_role"}
<1>1. change \in Mutations /\ orphans \subseteq Mutations /\ working \subseteq orphans
  BY DEF Recorded, SetupInv, TypesOK, TypeOK
<1>2. fresh' \in [Runs -> BOOLEAN] /\ orphans' \subseteq orphans /\ working' \subseteq orphans'
  BY <1>1 DEF Overtakes, SetupInv, TypesOK, TypeOK
<1>3. ASSUME change # "spot_role" PROVE orphans' \subseteq {"spot_role"}
  <2>1. \A tool \in orphans \ {"spot_role"} : tool = change
    BY <1>3, TruthIsJournal DEF SetupInv, JournalInv, Truth, Recorded
  <2>2. Contends(change, change)
    BY <1>1, <1>3, Contending
  <2>3. QED BY <2>1, <2>2 DEF Overtakes
<1>4. QED BY <1>1, <1>2, <1>3

LEMMA DispatchKeeps == ASSUME SetupInv, NEW r \in Runs, Dispatch(r) PROVE SetupInv'
<1>1. /\ pc[r] = "dispatch" /\ Whole(doing[r]) /\ Overtakes(doing[r])
      /\ Goto(r, "complete") /\ Keep /\ Stay /\ UNCHANGED crashes
  BY DEF Dispatch, At
<1>2. Recorded(doing[r]) /\ journal.pending = doing[r] /\ doing[r] \in Mutations /\ mem[r] = journal
  BY <1>1, DispatchIsRecorded DEF Recorded
<1>3. /\ fresh' \in [Runs -> BOOLEAN] /\ orphans' \subseteq orphans /\ orphans' \subseteq Mutations
      /\ working' \subseteq orphans' /\ (doing[r] # "spot_role" => orphans' \subseteq {"spot_role"})
  BY <1>1, <1>2, OvertakesWhat
<1>4. orphans' \subseteq {"spot_role"}
  <2>1. \A tool \in orphans \ {"spot_role"} : journal.pending = tool
    BY TruthIsJournal DEF SetupInv, JournalInv, Truth
  <2>2. QED BY <1>2, <1>3, <2>1
<1>5. TypeOK'
  BY <1>1, <1>2, <1>3, ToolsKeepTypes DEF SetupInv, TypesOK, TypeOK, Keep, Stay
<1>6. Truth' /\ JournalOrdered' /\ Made(doing[r])'
  <2>1. PICK change : change = doing[r]
    OBVIOUS
  <2>2. change = "migrating" => "migrating" \notin orphans'
    BY <1>4
  <2>3. Truth' /\ JournalOrdered' /\ Made(change)'
    BY <1>1, <1>2, <1>3, <2>1, <2>2, ToolsKeepTruth DEF Keep
  <2>4. doing' = doing
    BY <1>1 DEF Stay
  <2>5. QED BY <2>1, <2>3, <2>4 DEF Made
<1>7. JournalInv'
  BY <1>5, <1>6, TruthIsJournal DEF JournalInv, JournalIsTrue, Truth
<1>8. StepOK("complete", doing[r], approved[r])' /\ mem'[r] = journal'
  <2>1. StepOK("dispatch", doing[r], approved[r])
    BY <1>1, HolderIsAlone
  <2>2. QED BY <1>1, <1>2, <1>4, <1>6, <2>1 DEF StepOK, Begins, Applies, Keep, Stay
<1>9. QED BY <1>1, <1>5, <1>7, <1>8, HolderMoves DEF Steps, Stay, SetupInv, TypesOK

LEMMA LeaveIsTyped ==
  ASSUME SetupInv, NEW r \in Runs, Leave(r)
  PROVE  /\ lock' \in Runs \cup {Nobody} /\ doing' \in [Runs -> Mutations \cup {"none"}]
         /\ approved' \in [Runs -> SUBSET Mutations]
BY DEF SetupInv, TypesOK, TypeOK, Leave

LEMMA CopyFailsKeeps == ASSUME SetupInv, NEW r \in Runs, CopyFails(r) PROVE SetupInv'
<1>1. pc[r] = "copy" /\ Leave(r) /\ Keep /\ UNCHANGED <<aws, fresh, orphans, working, crashes>>
  BY DEF CopyFails, At, tools
<1>2. PICK c \in {"part", "whole"} : disk' = [disk EXCEPT !.copy = c]
  BY DEF CopyFails
<1>3. TypeOK'
  BY <1>1, <1>2, LeaveIsTyped DEF SetupInv, TypesOK, TypeOK, Keep
<1>4. JournalInv'
  BY <1>1, <1>2, <1>3, CopyIsTrue DEF Keep
<1>5. QED BY <1>1, <1>3, <1>4, HolderLeaves

LEMMA DispatchFailsKeeps == ASSUME SetupInv, NEW r \in Runs, DispatchFails(r) PROVE SetupInv'
<1>1. pc[r] = "dispatch" /\ Leave(r) /\ Keep /\ UNCHANGED crashes
  BY DEF DispatchFails, At
<1>2. Recorded(doing[r]) /\ doing[r] \in Mutations
  BY <1>1, DispatchIsRecorded DEF Recorded
<1>3. CASE (Whole(doing[r]) \/ Some(doing[r])) /\ Overtakes(doing[r])
  <2>1. /\ fresh' \in [Runs -> BOOLEAN] /\ orphans' \subseteq orphans /\ orphans' \subseteq Mutations
        /\ working' \subseteq orphans' /\ (doing[r] = "migrating" => "migrating" \notin orphans')
    BY <1>2, <1>3, OvertakesWhat
  <2>2. TypeOK'
    BY <1>1, <1>2, <1>3, <2>1, ToolsKeepTypes, LeaveIsTyped DEF SetupInv, TypesOK, TypeOK, Keep
  <2>3. Truth' /\ JournalOrdered'
    BY <1>1, <1>2, <1>3, <2>1, ToolsKeepTruth DEF Keep
  <2>4. JournalInv'
    BY <2>2, <2>3, TruthIsJournal DEF JournalInv, JournalIsTrue, Truth
  <2>5. QED BY <1>1, <2>2, <2>4, HolderLeaves
<1>4. CASE UNCHANGED <<aws, disk, fresh, orphans, working>>
  <2>1. TypeOK'
    BY <1>1, <1>4, LeaveIsTyped DEF SetupInv, TypesOK, TypeOK, Keep
  <2>2. JournalInv'
    BY <1>1, <1>4, <2>1, JournalStays DEF Keep
  <2>3. QED BY <1>1, <2>1, <2>2, HolderLeaves
<1>5. QED BY <1>3, <1>4 DEF DispatchFails

LEMMA CompleteKeeps == ASSUME SetupInv, NEW r \in Runs, Complete(r) PROVE SetupInv'
<1>1. /\ pc[r] = "complete" /\ Stay /\ UNCHANGED <<aws, disk, fresh, orphans, working, crashes>>
      /\ Goto(r, CASE doing[r] = "bootstrap"  -> "migrate"
                   [] doing[r] = "migrating"  -> "verify remote"
                   [] doing[r] = "spot_role"  -> "foundation"
                   [] doing[r] = "foundation" -> "reconcile"
                   [] OTHER -> "configure")
  BY DEF Complete, At, tools
<1>2. /\ doing[r] \in Mutations /\ orphans \subseteq {"spot_role"} /\ Made(doing[r])
      /\ doing[r] = "schedule" => "foundation" \in journal.completed
  BY <1>1, HolderIsAlone DEF StepOK, Begins, Applies
<1>3. CASE doing[r] = "migrating"
  <2>1. Goto(r, "verify remote") /\ Keep
    BY <1>1, <1>3 DEF Complete
  <2>2. StepOK("verify remote", doing[r], approved[r])'
    BY DEF StepOK, Begins, Applies
  <2>3. QED BY <1>1, <2>1, <2>2, QuietMove DEF Steps, Stay, SetupInv, TypesOK, TypeOK
<1>4. CASE doing[r] # "migrating"
  <2>1. PICK phase \in {"bootstrap", "migrated", "spot_role", "foundation", "schedule"} : phase = doing[r] /\ phase # "migrated"
    BY <1>2, <1>4 DEF Mutations
  <2>2. Save(r, Completed(mem[r], phase)) /\ Achieved(phase)
    BY <1>2, <1>4, <2>1 DEF Complete, Made
  <2>3. PICK step \in Steps : /\ Goto(r, step) /\ step # "idle"
                             /\ \/ step \in {"migrate", "verify remote", "spot", "foundation"}
                                \/ step = "reconcile" /\ phase = "foundation"
                                \/ step = "configure" /\ phase = "schedule"
    <3>1. CASE phase = "bootstrap"
      BY <1>1, <2>1, <3>1 DEF Steps
    <3>2. CASE phase = "spot_role"
      BY <1>1, <2>1, <3>2 DEF Steps
    <3>3. CASE phase = "foundation"
      BY <1>1, <2>1, <3>3 DEF Steps
    <3>4. CASE phase = "schedule"
      BY <1>1, <2>1, <3>4 DEF Steps
    <3>5. QED BY <2>1, <3>1, <3>2, <3>3, <3>4
  <2>4. QED BY <1>1, <1>2, <2>1, <2>2, <2>3, StageIsDone DEF Stay
<1>5. QED BY <1>3, <1>4
----------------------------------------------------------------------------
(* After the foundation *)

\* A milestone is recorded, with what the handoff makes of a refusal.
LEMMA MilestoneMove ==
  ASSUME SetupInv, NEW r \in Runs, pc[r] \notin {"idle", "load"}, NEW step \in Steps, step # "idle", Goto(r, step),
         Stay, UNCHANGED <<aws, disk, fresh, orphans, working, crashes>>, NEW phase \in Milestones,
         phase = "healthy" => aws.enabled, Save(r, Completed(mem[r], phase)),
         journal'.mode = journal.mode /\ journal'.completed = journal.completed \cup {phase}
           => StepOK(step, doing[r], approved[r])'
  PROVE  SetupInv'
<1>1. mem[r] = journal /\ journal \in Journals
  BY HolderIsAlone
<1>2. PICK j \in Journals : /\ j = Completed(journal, phase) /\ j.completed = journal.completed \cup {phase}
                           /\ j.pending = journal.pending /\ j.mode = journal.mode /\ j.enable = journal.enable
  BY <1>1, MilestoneIs
<1>3. Save(r, j) /\ journal' = j
  BY <1>1, <1>2 DEF Save
<1>4. TypeOK' => JournalInv'
  BY <1>2, <1>3, MilestoneIsTrue
<1>5. QED BY <1>2, <1>3, <1>4, SaveMove

LEMMA ConfigureKeeps == ASSUME SetupInv, NEW r \in Runs, Configure(r) PROVE SetupInv'
<1>1. /\ pc[r] = "configure" /\ Save(r, Completed(mem[r], "published")) /\ Stay
      /\ Goto(r, IF enabling[r] THEN "health" ELSE "verify") /\ UNCHANGED <<aws, disk, fresh, orphans, working, crashes>>
  BY DEF Configure, At, tools
<1>2. journal.mode = "connect" \/ "foundation" \in journal.completed
  BY <1>1, HolderIsAlone DEF StepOK
<1>3. PICK step \in {"health", "verify"} : Goto(r, step)
  BY <1>1
<1>4. /\ step \in Steps /\ step # "idle" /\ "published" \in Milestones
      /\ journal'.mode = journal.mode /\ journal'.completed = journal.completed \cup {"published"}
           => StepOK(step, doing[r], approved[r])'
  BY <1>2 DEF StepOK, Begins, Applies, Steps, Milestones
<1>5. QED BY <1>1, <1>3, <1>4, MilestoneMove

LEMMA VerifyKeeps == ASSUME SetupInv, NEW r \in Runs, Verify(r) PROVE SetupInv'
<1>1. /\ pc[r] = "verify" /\ Save(r, Completed(mem[r], "verified")) /\ Stay
      /\ Goto(r, IF mem[r].mode = "connect" THEN "finish" ELSE "enable") /\ UNCHANGED <<aws, disk, fresh, orphans, working, crashes>>
  BY DEF Verify, At, tools
<1>2. mem[r] = journal /\ (journal.mode = "connect" \/ "foundation" \in journal.completed)
  BY <1>1, HolderIsAlone DEF StepOK
<1>3. PICK step \in {"finish", "enable"} : Goto(r, step) /\ (step = "enable" => journal.mode # "connect")
  BY <1>1, <1>2
<1>4. /\ step \in Steps /\ step # "idle" /\ "verified" \in Milestones
      /\ journal'.mode = journal.mode /\ journal'.completed = journal.completed \cup {"verified"}
           => StepOK(step, doing[r], approved[r])'
  BY <1>2, <1>3 DEF StepOK, Begins, Applies, Steps, Milestones
<1>5. QED BY <1>1, <1>3, <1>4, MilestoneMove

\* While nothing was answered no schedule is pending.
LEMMA AskKeeps == ASSUME SetupInv, NEW r \in Runs, Ask(r) PROVE SetupInv'
<1>1. pc[r] = "enable" /\ pc' = pc /\ Stay /\ UNCHANGED <<aws, disk, fresh, orphans, working, crashes>>
  BY DEF Ask, At, tools
<1>2. mem[r] = journal /\ journal \in Journals /\ StepOK("enable", doing[r], approved[r])
  BY <1>1, HolderIsAlone
<1>3. journal.enable = "unset" /\ \E answer \in {"yes", "no"} : Save(r, [journal EXCEPT !.enable = answer])
  BY <1>2 DEF Ask
<1>4. PICK answer \in {"yes", "no"} : Save(r, [journal EXCEPT !.enable = answer])
  BY <1>3
<1>5. PICK j \in Journals : /\ j = [journal EXCEPT !.enable = answer] /\ j.completed = journal.completed
                           /\ j.pending = journal.pending
  <2> DEFINE j == [journal EXCEPT !.enable = answer]
  <2>1. journal \in Journals /\ answer \in {"unset", "yes", "no"}
    BY <1>2
  <2>2. j \in Journals /\ j.completed = journal.completed /\ j.pending = journal.pending
    BY <2>1, Answers
  <2> HIDE DEF j
  <2>3. \E t \in Journals : t = j /\ t.completed = journal.completed /\ t.pending = journal.pending
    BY <2>2
  <2>4. QED BY <2>3 DEF j
<1>6. Save(r, j) /\ journal' = j
  BY <1>4, <1>5 DEF Save
<1>7. journal.pending # "schedule"
  BY <1>3 DEF SetupInv, JournalInv, JournalOrdered
<1>8. TypeOK' => JournalInv'
  BY <1>1, <1>5, <1>6, <1>7, JournalStays
<1>9. StepOK("enable", doing[r], approved[r])'
  BY <1>2, <1>5, <1>6 DEF StepOK, Begins, Applies
<1>10. Goto(r, "enable")
  BY <1>1 DEF Goto, SetupInv, TypesOK
<1>11. QED BY <1>1, <1>6, <1>8, <1>9, <1>10, SaveMove DEF Steps

LEMMA EnableKeeps == ASSUME SetupInv, NEW r \in Runs, Enable(r) PROVE SetupInv'
<1>1. pc[r] = "enable" /\ UNCHANGED <<aws, disk, lock, doing, enabling, approved, fresh, orphans, working, crashes>>
  BY DEF Enable, At, tools
<1>2. mem[r] = journal /\ journal \in Journals /\ StepOK("enable", doing[r], approved[r])
  BY <1>1, HolderIsAlone
<1>3. ASSUME NEW step \in {"finish", "health"}, Goto(r, step), Keep PROVE SetupInv'
  <2>1. StepOK(step, doing[r], approved[r])'
    BY DEF StepOK, Begins, Applies
  <2>2. step \in Steps /\ step # "idle"
    BY DEF Steps
  <2>3. QED BY <1>1, <1>3, <2>1, <2>2, QuietMove DEF SetupInv, TypesOK, TypeOK
<1>4. CASE mem[r].enable = "yes" /\ Save(r, [mem[r] EXCEPT !.after = TRUE]) /\ Goto(r, "enable inputs")
  <2>1. PICK j \in Journals : /\ j = [journal EXCEPT !.after = TRUE] /\ j.completed = journal.completed
                             /\ j.pending = journal.pending /\ j.enable = journal.enable
    BY <1>2, OtherFields
  <2>2. Save(r, j) /\ journal' = j
    BY <1>2, <1>4, <2>1 DEF Save
  <2>3. TypeOK' => JournalInv'
    BY <1>1, <2>1, <2>2, JournalStays
  <2>4. StepOK("enable inputs", doing[r], approved[r])'
    BY <1>2, <1>4, <2>1, <2>2 DEF StepOK, Begins, Applies
  <2>5. QED BY <1>1, <1>4, <2>2, <2>3, <2>4, SaveMove DEF Steps, Stay
<1>5. QED BY <1>3, <1>4 DEF Enable

LEMMA EnableInputsKeeps == ASSUME SetupInv, NEW r \in Runs, EnableInputs(r) PROVE SetupInv'
<1>1. /\ pc[r] = "enable inputs" /\ disk' = [disk EXCEPT !.tfvars = "on"] /\ Keep
      /\ enabling' = [enabling EXCEPT ![r] = TRUE] /\ Goto(r, "plan") /\ doing' = [doing EXCEPT ![r] = "schedule"]
      /\ UNCHANGED <<aws, lock, approved, fresh, orphans, working, crashes>>
  BY DEF EnableInputs, At, Change, tools
<1>2. /\ mem[r] = journal /\ {"foundation", "verified"} \subseteq journal.completed /\ journal.enable = "yes"
  BY <1>1, HolderIsAlone DEF StepOK
<1>3. doing' \in [Runs -> Mutations \cup {"none"}] /\ doing'[r] = "schedule" /\ enabling' \in [Runs -> BOOLEAN]
  BY <1>1 DEF SetupInv, TypesOK, TypeOK, Mutations
<1>4. TypeOK'
  BY <1>1, <1>3 DEF SetupInv, TypesOK, TypeOK, Keep
<1>5. journal.pending # "foundation"
  BY <1>2 DEF SetupInv, JournalInv, JournalOrdered
<1>6. JournalInv'
  BY <1>1, <1>4, <1>5, InputsKeep DEF Keep
<1>7. StepOK("plan", doing[r], approved[r])' /\ mem'[r] = journal'
  BY <1>1, <1>2, <1>3 DEF StepOK, Begins, Applies, Keep, Mutations
<1>8. QED BY <1>1, <1>3, <1>4, <1>6, <1>7, HolderMoves DEF Steps

LEMMA HealthKeeps == ASSUME SetupInv, NEW r \in Runs, Health(r) PROVE SetupInv'
<1>1. /\ pc[r] = "health" /\ aws.enabled /\ Save(r, Completed(mem[r], "healthy")) /\ Goto(r, "finish") /\ Stay
      /\ UNCHANGED <<aws, disk, fresh, orphans, working, crashes>>
  BY DEF Health, At, tools
<1>2. "finish" \in Steps /\ "healthy" \in Milestones /\ StepOK("finish", doing[r], approved[r])'
  BY DEF StepOK, Begins, Applies, Steps, Milestones
<1>3. QED BY <1>1, <1>2, MilestoneMove

LEMMA FinishKeeps == ASSUME SetupInv, NEW r \in Runs, Finish(r) PROVE SetupInv'
<1>1. /\ pc[r] = "finish" /\ Leave(r) /\ UNCHANGED <<aws, disk, fresh, orphans, working, crashes>>
      /\ Save(r, Completed([mem[r] EXCEPT !.enable = IF @ = "no" THEN "unset" ELSE @], "finished"))
  BY DEF Finish, At, tools
<1>2. mem[r] = journal /\ journal \in Journals
  BY <1>1, HolderIsAlone
<1>3. PICK e \in {"unset", "yes", "no"} : /\ e = (IF journal.enable = "no" THEN "unset" ELSE journal.enable)
                                         /\ (journal.enable = "yes" => e = journal.enable)
  BY <1>2, JournalsAreTyped
<1>4. PICK k \in Journals : /\ k = [journal EXCEPT !.enable = e] /\ k.completed = journal.completed
                           /\ k.pending = journal.pending /\ k.enable = e
  <2>1. /\ [journal EXCEPT !.enable = e] \in Journals /\ [journal EXCEPT !.enable = e].enable = e
        /\ [journal EXCEPT !.enable = e].completed = journal.completed
        /\ [journal EXCEPT !.enable = e].pending = journal.pending
    BY <1>2 DEF Journals
  <2>2. QED BY <2>1
<1>5. "finished" \in Milestones /\ "finished" # "healthy"
  BY DEF Milestones
<1>6. PICK j \in Journals : /\ j = Completed(k, "finished") /\ j.completed = journal.completed \cup {"finished"}
                           /\ j.pending = journal.pending /\ j.enable = e
  <2>1. /\ Completed(k, "finished") \in Journals
        /\ Completed(k, "finished").completed = k.completed \cup {"finished"}
        /\ Completed(k, "finished").pending = k.pending /\ Completed(k, "finished").enable = k.enable
    BY <1>5, MilestoneIs
  <2>2. QED BY <1>4, <2>1
<1>7. Save(r, j) /\ journal' = j /\ mem' = [mem EXCEPT ![r] = j]
  BY <1>1, <1>2, <1>3, <1>4, <1>6 DEF Save
<1>8. TypeOK'
  BY <1>1, <1>7, LeaveIsTyped DEF SetupInv, TypesOK, TypeOK
<1>9. journal.pending = "schedule" => journal'.enable = journal.enable
  BY <1>3, <1>6, <1>7 DEF SetupInv, JournalInv, JournalOrdered
<1>10. JournalInv'
  BY <1>1, <1>5, <1>6, <1>7, <1>8, <1>9, MilestoneIsTrue
<1>11. QED BY <1>1, <1>8, <1>10, HolderLeaves

----------------------------------------------------------------------------
(* Failures *)

LEMMA StopKeeps == ASSUME SetupInv, NEW r \in Runs, Stop(r) PROVE SetupInv'
<1>1. pc[r] # "idle" /\ Leave(r) /\ Keep /\ UNCHANGED <<aws, disk, fresh, orphans, working, crashes>>
  BY DEF Stop, tools
<1>2. TypeOK'
  BY <1>1, LeaveIsTyped DEF SetupInv, TypesOK, TypeOK, Keep
<1>3. JournalInv'
  BY <1>1, <1>2, JournalStays DEF Keep
<1>4. QED BY <1>1, <1>2, <1>3, HolderLeaves

\* The tool of a killed run works on what the journal has pending, if it can.
LEMMA CrashKeeps == ASSUME SetupInv, NEW r \in Runs, Crash(r) PROVE SetupInv'
<1>1. /\ pc[r] = "dispatch" /\ crashes < MaxCrashes /\ crashes' = crashes + 1
      /\ Leave(r) /\ Keep /\ UNCHANGED <<aws, disk, fresh>>
  BY DEF Crash
<1>2. \/ UNCHANGED <<orphans, working>>
      \/ /\ Current(r) /\ orphans' = orphans \cup {doing[r]} /\ working' \in {working, working \cup {doing[r]}}
  BY DEF Crash
<1>3. Recorded(doing[r]) /\ journal.pending = doing[r] /\ doing[r] \in Mutations
  BY <1>1, DispatchIsRecorded DEF Recorded
<1>4. crashes' \in 0..MaxCrashes
  BY <1>1, SetupAssumption DEF SetupInv, TypesOK, TypeOK
<1>5. /\ orphans' \subseteq Mutations /\ working' \subseteq orphans' /\ orphans' \subseteq orphans \cup {doing[r]}
      /\ "migrating" \in orphans' => "migrating" \in orphans \/ (aws.key = "empty" /\ doing[r] = "migrating")
  BY <1>2, <1>3 DEF SetupInv, TypesOK, TypeOK, Current
<1>6. TypeOK'
  BY <1>1, <1>3, <1>4, <1>5, LeaveIsTyped DEF SetupInv, TypesOK, TypeOK, Keep
<1>7. Truth /\ JournalOrdered
  BY TruthIsJournal DEF SetupInv, JournalInv
<1>8. \A tool \in orphans' \ {"spot_role"} : journal'.pending = tool
  BY <1>1, <1>3, <1>5, <1>7 DEF Truth, Keep
<1>9. Truth'
  BY <1>1, <1>7, <1>8 DEF Truth, Achieved, Keep
<1>10. JournalOrdered'
  BY <1>1, <1>3, <1>5, <1>7 DEF JournalOrdered, Recorded, Keep
<1>11. JournalInv'
  BY <1>6, <1>9, <1>10, TruthIsJournal DEF JournalInv, JournalIsTrue, Truth
<1>12. QED BY <1>1, <1>6, <1>11, HolderLeaves

\* A tool that outlived its run.
LEMMA OrphanIsRecorded == ASSUME SetupInv, NEW tool \in orphans PROVE Recorded(tool)
BY TruthIsJournal DEF SetupInv, JournalInv, TypesOK, TypeOK, Truth, JournalOrdered, Recorded

\* Fewer tools, or tools that take or release a lock, and nothing else.
LEMMA IdleOrphans ==
  ASSUME SetupInv, UNCHANGED <<aws, disk, journal, program, fresh, crashes>>,
         orphans' \subseteq orphans, working' \subseteq orphans'
  PROVE  SetupInv'
<1>1. UNCHANGED <<aws, disk, journal, lock, pc, mem, doing, enabling, approved, fresh, crashes>>
  BY DEF program
<1>2. TypesOK'
  BY <1>1 DEF SetupInv, TypesOK, TypeOK
<1>3. Truth /\ JournalOrdered
  BY TruthIsJournal DEF SetupInv, JournalInv
<1>4. Truth' /\ JournalOrdered'
  BY <1>1, <1>3 DEF Truth, JournalOrdered, Achieved
<1>5. JournalInv'
  BY <1>2, <1>4, TruthIsJournal DEF JournalInv, JournalIsTrue, Truth, TypesOK
<1>6. ASSUME NEW r \in Runs PROVE RunOK(r)'
  <2>1. RunOK(r)
    BY DEF SetupInv
  <2>2. Made(doing[r]) => Made(doing[r])'
    BY <1>1 DEF Made, Achieved
  <2>3. StepOK(pc[r], doing[r], approved[r])'
    BY <1>1, <2>1, <2>2 DEF RunOK, StepOK, Begins, Applies
  <2>4. QED BY <1>1, <2>1, <2>3 DEF RunOK
<1>7. QED BY <1>2, <1>5, <1>6 DEF SetupInv

LEMMA OrphanWaitsKeeps == ASSUME SetupInv, OrphanWorks \/ OrphanGivesUp PROVE SetupInv'
<1>1. UNCHANGED <<aws, disk, journal, program, fresh, crashes>>
  BY DEF OrphanWorks, OrphanGivesUp
<1>2. working \subseteq orphans
  BY DEF SetupInv, TypesOK, TypeOK
<1>3. orphans' \subseteq orphans /\ working' \subseteq orphans'
  <2>1. CASE OrphanWorks
    BY <1>2, <2>1 DEF OrphanWorks
  <2>2. CASE OrphanGivesUp
    BY <1>2, <2>2 DEF OrphanGivesUp
  <2>3. QED BY <2>1, <2>2
<1>4. QED BY <1>1, <1>3, IdleOrphans

LEMMA OrphanEndsKeeps == ASSUME SetupInv, OrphanEnds PROVE SetupInv'
<1>1. PICK tool \in working :
        /\ Whole(tool) \/ Some(tool)
        /\ fresh' = [r \in Runs |-> fresh[r] /\ ~Contends(doing[r], tool)]
        /\ orphans' = {t \in orphans : t # tool /\ ~Contends(t, tool)} /\ working' = working \ {tool}
        /\ UNCHANGED <<journal, lock, pc, mem, doing, enabling, approved, crashes>>
  BY DEF OrphanEnds, program
<1>2. Recorded(tool) /\ tool \in Mutations /\ tool \in orphans /\ working \subseteq orphans
  BY OrphanIsRecorded DEF Recorded, SetupInv, TypesOK, TypeOK
<1>3. orphans' \subseteq orphans /\ tool \notin orphans' /\ fresh' \in [Runs -> BOOLEAN]
  BY <1>1 DEF SetupInv, TypesOK, TypeOK
<1>4. working' \subseteq orphans'
  <2>1. ASSUME NEW t \in working', t \notin orphans' PROVE FALSE
    <3>1. t \in orphans /\ t # tool /\ t \in Mutations /\ Contends(t, tool)
      BY <1>1, <1>2, <2>1 DEF SetupInv, TypesOK, TypeOK
    <3>2. tool # "spot_role" /\ t # "spot_role"
      BY <3>1 DEF Contends
    <3>3. journal.pending = tool /\ journal.pending = t
      BY <1>2, <3>1, <3>2, OrphanIsRecorded DEF Recorded
    <3>4. QED BY <3>1, <3>3
  <2>2. QED BY <2>1
<1>5. TypeOK' /\ disk'.copy = disk.copy
  BY <1>1, <1>2, <1>3, <1>4, ToolsKeepTypes DEF SetupInv, TypesOK, TypeOK
<1>6. Truth' /\ JournalOrdered'
  BY <1>1, <1>2, <1>3, ToolsKeepTruth
<1>7. JournalInv'
  BY <1>5, <1>6, TruthIsJournal DEF JournalInv, JournalIsTrue, Truth
<1>8. ASSUME NEW r \in Runs PROVE RunOK(r)'
  <2>1. RunOK(r)
    BY DEF SetupInv
  <2>2. CASE pc[r] # "complete"
    BY <1>1, <1>5, <2>1, <2>2 DEF RunOK, StepOK, Begins, Applies
  <2>3. CASE pc[r] = "complete"
    <3>1. orphans \subseteq {"spot_role"} /\ Made(doing[r]) /\ tool = "spot_role"
      BY <1>2, <2>1, <2>3 DEF RunOK, StepOK
    <3>2. /\ aws'.bucket = aws.bucket /\ aws'.key = aws.key /\ aws'.foundation = aws.foundation
          /\ aws'.state = aws.state /\ aws'.enabled = aws.enabled /\ (aws.role => aws'.role)
      BY <1>1, <3>1 DEF SetupInv, TypesOK, TypeOK, Whole, Some
    <3>3. Made(doing[r])'
      BY <1>1, <3>1, <3>2 DEF Made, Achieved
    <3>4. QED BY <1>1, <1>3, <2>1, <2>3, <3>1, <3>3 DEF RunOK, StepOK, Begins, Applies
  <2>4. QED BY <2>2, <2>3
<1>9. QED BY <1>1, <1>3, <1>5, <1>7, <1>8 DEF SetupInv, TypesOK
----------------------------------------------------------------------------
(* The invariant is inductive *)

LEMMA InitIsGood == Init => SetupInv
<1> SUFFICES ASSUME Init PROVE SetupInv
  OBVIOUS
<1>1. /\ journal \in Journals /\ journal.completed = {} /\ journal.pending = "none"
  BY DEF Init
<1>2. TypeOK
  BY <1>1, SetupAssumption DEF Init, TypeOK
<1>3. TypesOK
  BY <1>2 DEF TypesOK, Init, Steps
<1>4. Truth /\ JournalOrdered
  BY <1>1 DEF Init, Truth, JournalOrdered
<1>5. \A r \in Runs : RunOK(r)
  BY SetupAssumption DEF Init, RunOK, StepOK, Begins, Applies
<1>6. QED BY <1>2, <1>3, <1>4, <1>5, TruthIsJournal DEF SetupInv, JournalInv

LEMMA NextKeeps == SetupInv /\ [Next]_vars => SetupInv'
<1> SUFFICES ASSUME SetupInv, [Next]_vars PROVE SetupInv'
  OBVIOUS
<1>1. CASE UNCHANGED vars
  <2>1. UNCHANGED <<aws, disk, journal, program, fresh, orphans, working, crashes>>
    BY <1>1 DEF vars, program, tools
  <2>2. working' \subseteq orphans'
    BY <2>1 DEF SetupInv, TypesOK, TypeOK
  <2>3. QED BY <2>1, <2>2, IdleOrphans
<1>2. ASSUME NEW r \in Runs, Step(r) PROVE SetupInv'
  BY <1>2, StartKeeps, LoadKeeps, ChooseKeeps, CheckLocalKeeps, ProfilesKeeps, PrepareKeeps, WriteInputsKeeps,
     BootstrapKeeps, MigrateKeeps, VerifyRemoteKeeps, SpotKeeps, FoundationKeeps, ReconcileKeeps, PlanKeeps,
     ApproveKeeps, BeginKeeps, CopyKeeps, CopyFailsKeeps, DispatchKeeps, DispatchFailsKeeps, CompleteKeeps, ConfigureKeeps,
     VerifyKeeps, AskKeeps, EnableKeeps, EnableInputsKeeps, HealthKeeps, FinishKeeps, StopKeeps, CrashKeeps DEF Step
<1>3. QED BY <1>1, <1>2, OrphanEndsKeeps, OrphanWaitsKeeps DEF Next

\* What OnlyApprovedChanges says of one step.
Approved ==
  /\ aws' # aws =>
       \/ \E tool \in working \ orphans' : tool = "spot_role" \/ journal.pending = tool
       \/ \E r \in Runs :
             /\ lock = r /\ pc[r] = "dispatch"
             /\ doing[r] \in approved[r] /\ journal.pending = doing[r]
  /\ aws'.enabled /\ ~aws.enabled => "verified" \in journal.completed /\ journal.enable = "yes"

\* Cleanup is enabled by the change that was asked for.
LEMMA OnlyScheduleEnables ==
  ASSUME SetupInv, NEW change, Recorded(change), Whole(change) \/ Some(change), aws'.enabled, ~aws.enabled
  PROVE  "verified" \in journal.completed /\ journal.enable = "yes"
<1>1. TypeOK /\ JournalOrdered
  BY DEF SetupInv, TypesOK, JournalInv
<1>2. CASE change = "foundation"
  <2>1. disk.tfvars = "off"
    BY <1>1, <1>2 DEF Recorded, JournalOrdered
  <2>2. aws'.enabled = FALSE \/ aws'.enabled = aws.enabled
    BY <1>1, <1>2, <2>1 DEF TypeOK, Whole, Some
  <2>3. QED BY <2>2
<1>3. CASE change \in {"bootstrap", "migrating", "spot_role"}
  <2>1. aws'.enabled = aws.enabled
    BY <1>1, <1>3 DEF TypeOK, Whole, Some
  <2>2. QED BY <2>1
<1>4. CASE change = "schedule"
  BY <1>1, <1>4 DEF Recorded, JournalOrdered
<1>5. QED BY <1>2, <1>3, <1>4 DEF Recorded, Mutations

LEMMA StepIsApproved == SetupInv /\ [Next]_vars => Approved
<1> SUFFICES ASSUME SetupInv, [Next]_vars PROVE Approved
  OBVIOUS
<1>1. CASE aws' = aws
  BY <1>1 DEF Approved
<1>2. CASE OrphanEnds
  <2>1. PICK tool \in working : /\ Whole(tool) \/ Some(tool)
                              /\ orphans' = {t \in orphans : t # tool /\ ~Contends(t, tool)}
    BY <1>2 DEF OrphanEnds
  <2>2. Recorded(tool) /\ tool \in working \ orphans'
    BY <2>1, OrphanIsRecorded DEF SetupInv, TypesOK, TypeOK
  <2>3. tool = "spot_role" \/ journal.pending = tool
    BY <2>2 DEF Recorded
  <2>4. aws'.enabled /\ ~aws.enabled => "verified" \in journal.completed /\ journal.enable = "yes"
    BY <2>1, <2>2, OnlyScheduleEnables
  <2>5. QED BY <2>2, <2>3, <2>4 DEF Approved
<1>3. ASSUME NEW r \in Runs, Dispatch(r) \/ DispatchFails(r), aws' # aws PROVE Approved
  <2>1. pc[r] = "dispatch" /\ (Whole(doing[r]) \/ Some(doing[r]))
    BY <1>3 DEF Dispatch, DispatchFails, At
  <2>2. lock = r /\ Recorded(doing[r]) /\ journal.pending = doing[r] /\ doing[r] \in approved[r]
    BY <2>1, DispatchIsRecorded
  <2>3. aws'.enabled /\ ~aws.enabled => "verified" \in journal.completed /\ journal.enable = "yes"
    BY <2>1, <2>2, OnlyScheduleEnables
  <2>4. QED BY <2>1, <2>2, <2>3 DEF Approved
<1>4. ASSUME NEW r \in Runs, Step(r), ~(Dispatch(r) \/ DispatchFails(r)) PROVE aws' = aws
  BY <1>4 DEF Step, Start, Load, Choose, CheckLocal, Profiles, Prepare, WriteInputs, Bootstrap, Migrate, VerifyRemote,
     Spot, Foundation, Reconcile, Plan, Approve, Begin, Copy, CopyFails, Complete, Configure, Verify, Ask, Enable,
     EnableInputs, Health, Finish, Stop, Crash
<1>5. OrphanWorks \/ OrphanGivesUp => aws' = aws
  BY DEF OrphanWorks, OrphanGivesUp
<1>6. QED BY <1>1, <1>2, <1>3, <1>4, <1>5 DEF Next, vars

----------------------------------------------------------------------------
(* Theorems *)

\* One run at a time works on the journal it has in memory; what every step of
\* it may rely on holds whatever was killed before and whatever tool still
\* runs (setup.lock, execute in workflow.go, begin and complete in engine.go).
THEOREM SetupIsConsistent == Spec => []SetupInv
<1>1. QED BY InitIsGood, NextKeeps, PTL DEF Spec

\* Whatever run was killed where and whoever resumed it, the journal tells the
\* truth about AWS: a completed stage holds, a change that shows and is not
\* completed is pending, as is what a tool left behind may still change, and no
\* state moves before a recovery copy is there, which a cp may have cut short.
THEOREM JournalTellsTheTruth == Spec => []JournalIsTrue
<1>1. SetupInv => JournalIsTrue
  BY DEF SetupInv, JournalInv
<1>2. QED BY <1>1, SetupIsConsistent, PTL

\* AWS changes only as approved in the run that holds the lock and recorded in
\* the journal, or through a tool whose run was killed then; cleanup is
\* enabled only after a verified foundation and a yes (apply, begin, execute).
THEOREM OnlyApprovedChangesAreMade == Spec => OnlyApprovedChanges
<1>1. SetupInv /\ [Next]_vars => [Approved]_vars
  BY StepIsApproved
<1>2. Spec => [][Approved]_vars
  BY <1>1, SetupIsConsistent, PTL DEF Spec
<1>3. QED BY <1>2 DEF OnlyApprovedChanges, Approved
=============================================================================
