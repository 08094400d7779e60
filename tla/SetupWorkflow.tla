---------------------------- MODULE SetupWorkflow ----------------------------
(***************************************************************************)
(* Guided setup (internal/setup): one run walks from local preparation to  *)
(* a bootstrapped state bucket, its migrated state, the foundation, its    *)
(* published configuration and, with consent, the cleanup schedule.  Every *)
(* change of AWS is planned, approved, recorded as pending in the journal, *)
(* dispatched and then recorded as completed; a run may end at any step    *)
(* and be resumed by another one.                                          *)
(*                                                                         *)
(* The transaction that publishes local files is ConfigTransaction; here   *)
(* it is one step.                                                         *)
(***************************************************************************)
EXTENDS Naturals, FiniteSets

CONSTANTS Runs,       \* processes that run setup on this journal
          Nobody,     \* no process holds setup.lock
          MaxCrashes  \* bound of the runs killed before they end

ASSUME SetupAssumption == Nobody \notin Runs /\ MaxCrashes \in Nat

Mutations == {"bootstrap", "migrating", "spot_role", "foundation", "schedule"}
Phases    == {"prepared", "bootstrap", "migrated", "spot_role", "foundation",
              "published", "verified", "schedule", "healthy", "finished"}

(* The fields of setup.json that decide something. `stale`: the recorded
   inputs no longer match their recorded digest. *)
Journals == [written : BOOLEAN, mode : {"new", "connect"}, completed : SUBSET Phases,
             pending : Mutations \cup {"none"}, enable : {"unset", "yes", "no"},
             after : BOOLEAN, operator : BOOLEAN, stale : BOOLEAN]

VARIABLES
    aws,      \* the state bucket, its bootstrap key, role, foundation, schedule
    disk,     \* the workspace: local state, its recovery copy, tfvars
    journal,  \* setup.json
    lock,     \* who holds setup.lock
    pc,       \* a run's step
    mem,      \* its journal in memory
    doing,    \* the mutation it plans or applies
    enabling, \* it came to the schedule by asking, not by reconciling
    fresh,    \* its plan has not been overtaken by another change
    orphans,  \* mutations left to tools that outlived their runs
    working,  \* those of them whose tool has its state's lock
    crashes,
    approved  \* history: mutations approved in this run

program == <<lock, pc, mem, doing, enabling, approved>>
tools   == <<fresh, orphans, working, crashes>>
vars    == <<aws, disk, journal, program, tools>>

Init ==
    /\ aws = [bucket |-> FALSE, key |-> "empty", role |-> FALSE, foundation |-> "none",
              state |-> FALSE, enabled |-> FALSE]
    /\ disk = [local |-> FALSE, copy |-> "none", tfvars |-> "absent"]
    /\ journal \in {j \in Journals :
           /\ j.completed = {} /\ j.pending = "none" /\ j.enable = "unset"
           /\ ~j.written /\ ~j.after /\ ~j.operator /\ ~j.stale}
    /\ lock = Nobody
    /\ pc = [r \in Runs |-> "idle"] /\ mem = [r \in Runs |-> journal]
    /\ doing = [r \in Runs |-> "none"] /\ enabling = [r \in Runs |-> FALSE]
    /\ approved = [r \in Runs |-> {}]
    /\ fresh = [r \in Runs |-> FALSE] /\ orphans = {} /\ working = {} /\ crashes = 0

-----------------------------------------------------------------------------
(* The parts steps are made of *)

Goto(r, step) == pc' = [pc EXCEPT ![r] = step]
At(r, step)   == pc[r] = step

(* save: one atomic write of the journal in memory. *)
Save(r, j) == mem' = [mem EXCEPT ![r] = j] /\ journal' = j
Keep       == UNCHANGED <<mem, journal>>
Done(r, phase) == phase \in mem[r].completed

Begun(j, phase) == [j EXCEPT !.pending = phase]
Completed(j, phase) ==
    [j EXCEPT !.completed = @ \cup {phase},
              !.pending = IF @ = phase \/ (phase = "migrated" /\ @ = "migrating")
                          THEN "none" ELSE @]

(* The run ends, for any reason; what it held in memory is gone. *)
Leave(r) ==
    /\ Goto(r, "idle")
    /\ lock' = IF lock = r THEN Nobody ELSE lock
    /\ doing' = [doing EXCEPT ![r] = "none"] /\ enabling' = [enabling EXCEPT ![r] = FALSE]
    /\ approved' = [approved EXCEPT ![r] = {}]

Stay == UNCHANGED <<lock, doing, enabling, approved>>

-----------------------------------------------------------------------------
(* Run, load and choose *)

(* For the runs' mutants: the lock is not taken. *)
StartUnlocked(r) ==
    /\ At(r, "idle")
    /\ Goto(r, "load")
    /\ UNCHANGED <<aws, disk, journal, lock, mem, doing, enabling, approved, tools>>

(* lockDirectory does not wait: who does not get the lock is refused. *)
Start(r) ==
    /\ At(r, "idle") /\ lock = Nobody
    /\ lock' = r
    /\ Goto(r, "load")
    /\ UNCHANGED <<aws, disk, journal, mem, doing, enabling, approved, tools>>

Load(r) ==
    /\ At(r, "load") /\ journal.written /\ ~journal.stale
    /\ mem' = [mem EXCEPT ![r] = journal]
    /\ Goto(r, "local") /\ Stay
    /\ UNCHANGED <<aws, disk, journal, tools>>

(* choose: the first run asks for the scope and writes the journal. *)
Choose(r) ==
    /\ At(r, "load") /\ ~journal.written
    /\ Save(r, [journal EXCEPT !.written = TRUE])
    /\ Goto(r, "local") /\ Stay
    /\ UNCHANGED <<aws, disk, tools>>

(* checkLocal, setupBundle: tools and bundle are those of the first run. *)
CheckLocal(r) ==
    /\ At(r, "local")
    /\ Goto(r, "profiles") /\ Keep /\ Stay
    /\ UNCHANGED <<aws, disk, tools>>

(* prepareProfiles. A source profile that has come to resolve to the operator
   is recorded at once, whether or not the inputs have their digest already. *)
Profiles(r) ==
    /\ At(r, "profiles")
    /\ \/ Keep
       \/ /\ mem[r].mode = "connect" /\ ~mem[r].operator
          /\ Save(r, [mem[r] EXCEPT !.operator = TRUE, !.stale = Done(r, "prepared")])
    /\ Goto(r, "prepare") /\ Stay
    /\ UNCHANGED <<aws, disk, tools>>

(* prepareKey, and the rest of prepare the first time; the digest is taken of
   the inputs as they are then. *)
Prepare(r) ==
    /\ At(r, "prepare")
    /\ IF Done(r, "prepared") THEN Keep
       ELSE \E op \in {mem[r].operator, mem[r].mode = "connect"} :
               Save(r, Completed([mem[r] EXCEPT !.operator = op], "prepared"))
    /\ Goto(r, IF mem[r].mode = "new" THEN "inputs" ELSE "configure") /\ Stay
    /\ UNCHANGED <<aws, disk, tools>>

(* writeInputs: whether the schedule is to be enabled is decided afresh. *)
WriteInputs(r) ==
    /\ At(r, "inputs")
    /\ disk' = [disk EXCEPT !.tfvars =
                  IF Done(r, "schedule") \/ mem[r].pending = "schedule" THEN "on" ELSE "off"]
    /\ Goto(r, "bootstrap") /\ Keep /\ Stay
    /\ UNCHANGED <<aws, tools>>

(* The changes of one state, whose lock every plan and apply takes: the role
   of the service is in neither of the two. *)
Contends(change, other) ==
    \E state \in {{"bootstrap", "migrating"}, {"foundation", "schedule"}} : {change, other} \subseteq state

StateUnlocked(change) == \A tool \in working : ~Contends(tool, change)

(* A change of a state overtakes what else was planned of it. *)
Overtakes(change) ==
    /\ fresh' = [r \in Runs |-> fresh[r] /\ ~Contends(doing[r], change)]
    /\ orphans' = {tool \in orphans : ~Contends(tool, change)}
    /\ working' = {tool \in working : ~Contends(tool, change)}

-----------------------------------------------------------------------------
(* The stages, up to their change of AWS *)

Change(r, phase) ==
    /\ Goto(r, "plan")
    /\ doing' = [doing EXCEPT ![r] = phase]

(* A bucket without local state, local state without a bucket, or a recorded
   attempt that left no bucket, needs a person. *)
Bootstrap(r) ==
    /\ At(r, "bootstrap")
    /\ \/ Done(r, "bootstrap") /\ Goto(r, "migrate") /\ UNCHANGED doing
       \/ /\ ~Done(r, "bootstrap")
          /\ aws.bucket = disk.local
          /\ ~(~aws.bucket /\ mem[r].pending = "bootstrap")
          /\ Change(r, "bootstrap")
    /\ Keep /\ UNCHANGED <<aws, disk, lock, enabling, approved, tools>>

(* The state moves to an empty key, from local state, or has moved already. *)
Migrate(r) ==
    /\ At(r, "migrate")
    /\ \/ /\ Done(r, "migrated") \/ aws.key = "present"
          /\ Goto(r, "verify remote") /\ UNCHANGED doing
       \/ /\ ~Done(r, "migrated") /\ aws.bucket /\ aws.key = "empty" /\ disk.local
          /\ Goto(r, "approve") /\ doing' = [doing EXCEPT ![r] = "migrating"]
    /\ Keep /\ UNCHANGED <<aws, disk, lock, enabling, approved, tools>>

(* verifyRemoteBootstrap plans without changes, under its state's lock. *)
VerifyRemote(r) ==
    /\ At(r, "verify remote")
    /\ aws.key = "present" /\ StateUnlocked("migrating")
    /\ IF Done(r, "migrated") THEN Keep ELSE Save(r, Completed(mem[r], "migrated"))
    /\ Goto(r, "spot") /\ Stay
    /\ UNCHANGED <<aws, disk, tools>>

Spot(r) ==
    /\ At(r, "spot")
    /\ \/ /\ aws.role
          /\ IF Done(r, "spot_role") THEN Keep ELSE Save(r, Completed(mem[r], "spot_role"))
          /\ Goto(r, "foundation") /\ UNCHANGED doing
       \/ /\ ~aws.role /\ ~Done(r, "spot_role")
          /\ Goto(r, "approve") /\ doing' = [doing EXCEPT ![r] = "spot_role"] /\ Keep
    /\ UNCHANGED <<aws, disk, lock, enabling, approved, tools>>

(* Remote state and recorded intent must agree before foundation is planned. *)
Foundation(r) ==
    /\ At(r, "foundation")
    /\ \/ Done(r, "foundation") /\ Goto(r, "reconcile") /\ UNCHANGED doing
       \/ /\ ~Done(r, "foundation")
          /\ aws.state = (mem[r].pending = "foundation")
          /\ Change(r, "foundation")
    /\ Keep /\ UNCHANGED <<aws, disk, lock, enabling, approved, tools>>

(* An interrupted enablement is finished before anything is exported. *)
Reconcile(r) ==
    /\ At(r, "reconcile")
    /\ \/ mem[r].pending # "schedule" /\ Goto(r, "configure") /\ UNCHANGED doing
       \/ /\ mem[r].pending = "schedule"
          /\ Done(r, "verified") /\ mem[r].enable = "yes" /\ mem[r].after
          /\ Change(r, "schedule")
    /\ Keep /\ UNCHANGED <<aws, disk, lock, enabling, approved, tools>>

-----------------------------------------------------------------------------
(* A change of AWS: apply, migrate, spot *)

(* verifyWorkspace, for the changes made by a plan *)
Reviewed(r) ==
    doing[r] \in {"bootstrap", "foundation", "schedule"} =>
        disk.tfvars = IF doing[r] = "schedule" THEN "on" ELSE "off"

(* plannedActions: nothing but the schedule may change with the schedule. *)
Acceptable(r) == doing[r] = "schedule" => aws.foundation = "full"

(* A plan is saved and shown; it needs the lock of its state. *)
Plan(r) ==
    /\ At(r, "plan") /\ StateUnlocked(doing[r])
    /\ Reviewed(r) /\ Acceptable(r)
    /\ Goto(r, "approve") /\ Keep /\ Stay /\ fresh' = [fresh EXCEPT ![r] = TRUE]
    /\ UNCHANGED <<aws, disk, orphans, working, crashes>>

Approve(r) ==
    /\ At(r, "approve")
    /\ approved' = [approved EXCEPT ![r] = @ \cup {doing[r]}]
    /\ Goto(r, "begin") /\ Keep
    /\ UNCHANGED <<aws, disk, lock, doing, enabling, tools>>

MayBegin(r) == Reviewed(r) /\ mem[r].pending \in {"none", doing[r]}

(* For the runs' mutants: the intent is recorded in memory only. *)
BeginInMemory(r) ==
    /\ At(r, "begin") /\ MayBegin(r)
    /\ mem' = [mem EXCEPT ![r] = Begun(mem[r], doing[r])]
    /\ Goto(r, IF doing[r] = "migrating" THEN "copy" ELSE "dispatch") /\ Stay
    /\ UNCHANGED <<aws, disk, journal, tools>>

Begin(r) ==
    /\ At(r, "begin") /\ MayBegin(r)
    /\ Save(r, Begun(mem[r], doing[r]))
    /\ Goto(r, IF doing[r] = "migrating" THEN "copy" ELSE "dispatch") /\ Stay
    /\ UNCHANGED <<aws, disk, tools>>

(* A recovery copy that exists is taken as it is, and put on disk before the
   state moves; else cp makes one. *)
Copy(r) ==
    /\ At(r, "copy") /\ disk.local
    /\ disk' = [disk EXCEPT !.copy = IF @ = "none" THEN "whole" ELSE @]
    /\ Goto(r, "dispatch") /\ Keep /\ Stay
    /\ UNCHANGED <<aws, tools>>

(* cp is cut short, by its timeout, an interrupt, the end of its run or a full
   disk, and leaves what it has written; or sync fails after it. *)
CopyFails(r) ==
    /\ At(r, "copy") /\ disk.local /\ disk.copy = "none"
    /\ \E left \in {"part", "whole"} : disk' = [disk EXCEPT !.copy = left]
    /\ Leave(r) /\ Keep
    /\ UNCHANGED <<aws, tools>>

(* What the tool makes of a change, all of it or some of it. *)
Whole(change) ==
    CASE change = "bootstrap"  -> aws' = [aws EXCEPT !.bucket = TRUE]
                                  /\ disk' = [disk EXCEPT !.local = TRUE]
      [] change = "migrating"  -> aws' = [aws EXCEPT !.key = "present"] /\ UNCHANGED disk
      [] change = "spot_role"  -> aws' = [aws EXCEPT !.role = TRUE] /\ UNCHANGED disk
      [] change = "foundation" -> aws' = [aws EXCEPT !.foundation = "full", !.state = TRUE,
                                                     !.enabled = (disk.tfvars = "on")]
                                  /\ UNCHANGED disk
      [] change = "schedule"   -> aws' = [aws EXCEPT !.enabled = TRUE] /\ UNCHANGED disk

Some(change) ==
    \/ UNCHANGED <<aws, disk>>
    \/ change = "bootstrap" /\ aws' = [aws EXCEPT !.bucket = TRUE] /\ UNCHANGED disk
    \/ change = "bootstrap" /\ disk' = [disk EXCEPT !.local = TRUE] /\ UNCHANGED aws
    \/ /\ change = "foundation" /\ aws.foundation # "full" /\ UNCHANGED disk
       /\ \E s \in {aws.state, TRUE} :
             aws' = [aws EXCEPT !.foundation = "partial", !.state = s]

(* The tool refuses a plan that was overtaken, and setup answers the tool's
   question only for a migration to an empty key. *)
Current(r) ==
    CASE doing[r] = "migrating" -> aws.key = "empty"
      [] doing[r] = "spot_role" -> TRUE
      [] OTHER -> fresh[r]

Able(r) == Current(r) /\ StateUnlocked(doing[r])

Dispatch(r) ==
    /\ At(r, "dispatch") /\ Able(r)
    /\ Whole(doing[r]) /\ Overtakes(doing[r])
    /\ Goto(r, "complete") /\ Keep /\ Stay
    /\ UNCHANGED crashes

(* apply_uncertain, an interrupt or a timeout: the tool is gone with the run. *)
DispatchFails(r) ==
    /\ At(r, "dispatch")
    /\ \/ Able(r) /\ (Whole(doing[r]) \/ Some(doing[r])) /\ Overtakes(doing[r])
       \/ UNCHANGED <<aws, disk, fresh, orphans, working>>
    /\ Leave(r) /\ Keep
    /\ UNCHANGED crashes

Complete(r) ==
    /\ At(r, "complete")
    /\ IF doing[r] = "migrating" THEN Keep           \* verified first
       ELSE Save(r, Completed(mem[r], doing[r]))
    /\ Goto(r, CASE doing[r] = "bootstrap"  -> "migrate"
                 [] doing[r] = "migrating"  -> "verify remote"
                 [] doing[r] = "spot_role"  -> "foundation"
                 [] doing[r] = "foundation" -> "reconcile"
                 [] OTHER -> "configure")
    /\ Stay /\ UNCHANGED <<aws, disk, tools>>

-----------------------------------------------------------------------------
(* After the foundation *)

Configure(r) ==
    /\ At(r, "configure")
    /\ Save(r, Completed(mem[r], "published"))
    /\ Goto(r, IF enabling[r] THEN "health" ELSE "verify") /\ Stay
    /\ UNCHANGED <<aws, disk, tools>>

Verify(r) ==
    /\ At(r, "verify")
    /\ mem[r].mode = "new" => aws.foundation = "full"
    /\ Save(r, Completed(mem[r], "verified"))
    /\ Goto(r, IF mem[r].mode = "connect" THEN "finish" ELSE "enable") /\ Stay
    /\ UNCHANGED <<aws, disk, tools>>

(* Cleanup is enabled only if the user says so, once per setup. *)
Ask(r) ==
    /\ At(r, "enable") /\ mem[r].enable = "unset"
    /\ \E answer \in {"yes", "no"} : Save(r, [mem[r] EXCEPT !.enable = answer])
    /\ UNCHANGED <<aws, disk, pc, tools>> /\ Stay

Enable(r) ==
    /\ At(r, "enable")
    /\ \/ mem[r].enable = "no" /\ Goto(r, "finish") /\ Keep /\ UNCHANGED <<disk, doing, enabling>>
       \/ /\ mem[r].enable = "yes" /\ Done(r, "schedule")
          /\ Goto(r, "health") /\ Keep /\ UNCHANGED <<disk, doing, enabling>>
       \/ /\ mem[r].enable = "yes" /\ ~Done(r, "schedule")
          /\ Save(r, [mem[r] EXCEPT !.after = TRUE])
          /\ Goto(r, "enable inputs") /\ UNCHANGED <<disk, doing, enabling>>
    /\ UNCHANGED <<aws, lock, approved, tools>>

EnableInputs(r) ==
    /\ At(r, "enable inputs")
    /\ disk' = [disk EXCEPT !.tfvars = "on"]
    /\ enabling' = [enabling EXCEPT ![r] = TRUE]
    /\ Change(r, "schedule") /\ Keep
    /\ UNCHANGED <<aws, lock, approved, tools>>

(* The loop ends when a scheduled run after enablement was healthy; until its
   timeout it only repeats. *)
Health(r) ==
    /\ At(r, "health") /\ aws.enabled
    /\ Save(r, Completed(mem[r], "healthy"))
    /\ Goto(r, "finish") /\ Stay
    /\ UNCHANGED <<aws, disk, tools>>

(* handoff: a refusal is forgotten, so that resuming offers it again. *)
Finish(r) ==
    /\ At(r, "finish")
    /\ Save(r, Completed([mem[r] EXCEPT !.enable = IF @ = "no" THEN "unset" ELSE @], "finished"))
    /\ Leave(r)
    /\ UNCHANGED <<aws, disk, tools>>

-----------------------------------------------------------------------------
(* Failures *)

(* Every check, question, save and call can end the run with an error; while
   the tool runs, that is DispatchFails. *)
Stop(r) ==
    /\ pc[r] \notin {"idle", "dispatch"}
    /\ Leave(r) /\ Keep
    /\ UNCHANGED <<aws, disk, tools>>

(* A killed run frees its lock at once; the tool it was waiting for is only
   asked to stop and may go on for a while, with its state's lock or still
   waiting for it (-lock-timeout). *)
Crash(r) ==
    /\ pc[r] = "dispatch" /\ crashes < MaxCrashes
    /\ crashes' = crashes + 1
    /\ \/ ~Current(r) /\ UNCHANGED <<orphans, working>>
       \/ /\ Current(r) /\ orphans' = orphans \cup {doing[r]}
          /\ \/ UNCHANGED working
             \/ StateUnlocked(doing[r]) /\ working' = working \cup {doing[r]}
    /\ Leave(r) /\ Keep
    /\ UNCHANGED <<aws, disk, fresh>>

(* Nobody answers the question of a migration that still waits. *)
OrphanWorks ==
    \E tool \in orphans \ {"migrating"} :
       /\ StateUnlocked(tool) /\ working' = working \cup {tool}
       /\ UNCHANGED <<aws, disk, journal, program, fresh, orphans, crashes>>

OrphanEnds ==
    \E tool \in working :
       /\ Whole(tool) \/ Some(tool)
       /\ fresh' = [r \in Runs |-> fresh[r] /\ ~Contends(doing[r], tool)]
       /\ orphans' = {t \in orphans : t # tool /\ ~Contends(t, tool)}
       /\ working' = working \ {tool}
       /\ UNCHANGED <<journal, program, crashes>>

(* A tool that did nothing; another one may still wait for the same change. *)
OrphanGivesUp ==
    \E tool \in orphans :
       /\ orphans' \in {orphans, orphans \ {tool}} /\ working' = working \ {tool}
       /\ UNCHANGED <<aws, disk, journal, program, fresh, crashes>>

Step(r) ==
    \/ Start(r) \/ Load(r) \/ Choose(r) \/ CheckLocal(r) \/ Profiles(r) \/ Prepare(r)
    \/ WriteInputs(r) \/ Bootstrap(r) \/ Migrate(r)
    \/ VerifyRemote(r) \/ Spot(r) \/ Foundation(r) \/ Reconcile(r)
    \/ Plan(r) \/ Approve(r) \/ Begin(r) \/ Copy(r) \/ CopyFails(r) \/ Dispatch(r) \/ DispatchFails(r)
    \/ Complete(r) \/ Configure(r) \/ Verify(r) \/ Ask(r) \/ Enable(r) \/ EnableInputs(r)
    \/ Health(r) \/ Finish(r) \/ Stop(r) \/ Crash(r)

Next == OrphanWorks \/ OrphanEnds \/ OrphanGivesUp \/ \E r \in Runs : Step(r)

Spec == Init /\ [][Next]_vars

-----------------------------------------------------------------------------
TypeOK ==
    /\ aws \in [bucket : BOOLEAN, key : {"empty", "present"}, role : BOOLEAN,
                foundation : {"none", "partial", "full"}, state : BOOLEAN, enabled : BOOLEAN]
    /\ disk \in [local : BOOLEAN, copy : {"none", "part", "whole"}, tfvars : {"absent", "off", "on"}]
    /\ journal \in Journals /\ mem \in [Runs -> Journals]
    /\ lock \in Runs \cup {Nobody} /\ fresh \in [Runs -> BOOLEAN]
    /\ orphans \subseteq Mutations /\ working \subseteq orphans
    /\ doing \in [Runs -> Mutations \cup {"none"}] /\ approved \in [Runs -> SUBSET Mutations]
    /\ crashes \in 0..MaxCrashes

Achieved(phase) ==
    CASE phase = "bootstrap"  -> aws.bucket
      [] phase = "migrated"   -> aws.key = "present"
      [] phase = "spot_role"  -> aws.role
      [] phase = "foundation" -> aws.foundation = "full" /\ aws.state
      [] phase \in {"schedule", "healthy"} -> aws.enabled
      [] OTHER -> TRUE

(* Whatever run was killed where, and whoever resumed it, the journal tells
   the truth: a completed stage holds in AWS, a change that AWS shows and that
   is not completed is recorded as pending, what a killed run's tool may still
   change is pending too, and the state has not left the disk before a recovery
   copy was there (begin, complete, migrate).  The copy need not be whole: one
   that a cp cut short has left is accepted (tofu.go:398). *)
JournalIsTrue ==
    /\ TypeOK
    /\ \A phase \in journal.completed : Achieved(phase)
    /\ aws.bucket /\ "bootstrap" \notin journal.completed => journal.pending = "bootstrap"
    /\ aws.key = "present" /\ "migrated" \notin journal.completed => journal.pending = "migrating"
    /\ aws.foundation # "none" /\ "foundation" \notin journal.completed
          => journal.pending = "foundation"
    /\ aws.enabled /\ "schedule" \notin journal.completed => journal.pending = "schedule"
    /\ \A tool \in orphans \ {"spot_role"} : journal.pending = tool
    /\ aws.key = "present" => disk.copy # "none"

(* AWS changes only while its run holds the lock, has had this very change
   approved and has it on record, or through a tool whose run was killed then
   and whose change is still on record; cleanup is enabled only after a verified
   foundation and a yes (apply, begin, execute). *)
OnlyApprovedChanges ==
    [][/\ aws' # aws =>
            \/ \E tool \in working \ orphans' : tool = "spot_role" \/ journal.pending = tool
            \/ \E r \in Runs :
                  /\ lock = r /\ pc[r] = "dispatch"
                  /\ doing[r] \in approved[r] /\ journal.pending = doing[r]
       /\ aws'.enabled /\ ~aws.enabled =>
            "verified" \in journal.completed /\ journal.enable = "yes"]_vars
=============================================================================
