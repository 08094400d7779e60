------------------------- MODULE ConfigTransaction -------------------------
(***************************************************************************)
(* How guided setup publishes local configuration (internal/setup): it     *)
(* reads the files, stages their new contents beside backups, records the  *)
(* approved change in the journal, checks every target, and replaces them  *)
(* one by one.  The user's editor writes the same files at any time, and   *)
(* the program may end at any step and be resumed.                         *)
(*                                                                         *)
(* A file's content is the latest of the user's edits that is in it and    *)
(* whether setup's settings are; every edit is a new content.              *)
(***************************************************************************)
EXTENDS Naturals, FiniteSets

CONSTANTS None,       \* no file
          Files,      \* the files written: config.toml, deployment.json, AWS config
          MaxEdits,   \* bound of the user's edits, the first included
          MaxCrashes  \* bound of the early ends of the program

ASSUME ConfigAssumption == None \notin Files /\ MaxEdits \in Nat \ {0} /\ MaxCrashes \in Nat

Content == [edit : 0..MaxEdits, ours : BOOLEAN]
Absent == [edit |-> 0, ours |-> FALSE]
Change == [before : Content, after : Content, backup : Content]
Empty == [f \in {} |-> Absent]

VARIABLES
    file,     \* the files
    txn,      \* the journal's transaction on disk: changes by path
    pc,       \* the program's step; "idle": not running
    left,     \* the files its loop has still to visit
    seen,     \* what configure read
    changes,  \* its changes in memory
    cur,      \* the file between two of its accesses
    code,     \* how it last ended
    (* history *)
    edits, crashes,
    raced,    \* cur was edited since it was last looked at
    target,   \* the files of the last recorded transaction
    written   \* those of them that were replaced, or found replaced

program == <<pc, left, seen, changes, cur, code>>
history == <<target, written>>
vars == <<file, txn, program, edits, crashes, raced, history>>

Init ==
    /\ file \in [Files -> {Absent, [edit |-> 1, ours |-> FALSE]}] /\ txn = Empty
    /\ pc = "idle" /\ left = {} /\ seen = file /\ changes = Empty /\ cur = None /\ code = ""
    /\ edits = 1 /\ crashes = 0 /\ raced = FALSE /\ target = {} /\ written = {}

user == <<edits, crashes>>

Turns(to, files) == pc' = to /\ left' = files
Stops(why) == pc' = "idle" /\ left' = {} /\ changes' = Empty /\ cur' = None /\ code' = why

(***************************************************************************)
(* The program                                                             *)
(***************************************************************************)
\* A recorded transaction comes first; what follows it is another Start.
Start ==
    /\ pc = "idle" /\ UNCHANGED <<file, txn, seen, cur, code, user, raced, history>>
    /\ IF txn # Empty THEN Turns("verify", DOMAIN txn) /\ changes' = txn
       ELSE Turns("read", Files) /\ UNCHANGED changes

Read(f) ==
    /\ pc = "read" /\ f \in left /\ seen' = [seen EXCEPT ![f] = file[f]]
    /\ left' = left \ {f} /\ UNCHANGED <<file, txn, pc, changes, cur, code, user, raced, history>>

\* patchTOML and profileSection: setup's settings in what was read.
Wanted(f) == [seen[f] EXCEPT !.ours = TRUE]

Staged(c, f, change) == [g \in DOMAIN c \cup {f} |-> IF g = f THEN change ELSE c[g]]

\* stageChanges: the digest of a file, then a copy of it.
Digest(f) ==
    /\ pc = "stage" /\ cur = None /\ f \in left
    /\ IF file[f] = Wanted(f) THEN left' = left \ {f} /\ UNCHANGED <<changes, cur, raced>>
       ELSE /\ changes' = Staged(changes, f, [before |-> file[f], after |-> Wanted(f), backup |-> Absent])
            /\ cur' = f /\ raced' = FALSE /\ UNCHANGED left
    /\ UNCHANGED <<file, txn, pc, seen, code, user, history>>

Backup(f) == file[f]

Copy ==
    /\ pc = "stage" /\ cur # None
    /\ changes' = [changes EXCEPT ![cur].backup = IF changes[cur].before = Absent THEN Absent ELSE Backup(cur)]
    /\ left' = left \ {cur} /\ cur' = None /\ UNCHANGED <<file, txn, pc, seen, code, user, raced, history>>

\* Mutant of Recorded: the transaction is saved only after it is published.
RecordedLater(c) == Empty

Recorded(c) == c

\* The preview was approved.
Record ==
    /\ pc = "stage" /\ left = {} /\ changes # Empty
    /\ txn' = Recorded(changes) /\ Turns("verify", DOMAIN changes) /\ target' = DOMAIN changes /\ written' = {}
    /\ UNCHANGED <<file, seen, changes, cur, code, user, raced>>

NothingToDo ==
    /\ pc = "stage" /\ left = {} /\ changes = Empty /\ Stops("unchanged")
    /\ UNCHANGED <<file, txn, seen, user, raced, history>>

\* Mutant of Expected: what an earlier run replaced is taken for an edit.
OnlyBefore(f) == file[f] = changes[f].before

Expected(f) == file[f] \in {changes[f].before, changes[f].after}

\* publishChanges: all targets are checked before any is replaced.
Verify(f) ==
    /\ pc = "verify" /\ f \in left /\ UNCHANGED <<file, txn, seen, user, raced, history>>
    /\ IF Expected(f) THEN left' = left \ {f} /\ UNCHANGED <<pc, changes, cur, code>>
       ELSE Stops("files_changed")

NextLoop ==
    /\ left = {} /\ UNCHANGED <<file, txn, seen, changes, cur, code, user, raced, history>>
    /\ \/ pc = "read" /\ Turns("stage", Files)
       \/ pc = "verify" /\ Turns("publish", DOMAIN changes)

\* Mutant of Untouched: each target is not compared again.
Unchecked(f) == TRUE

Untouched(f) == file[f] = changes[f].before

Check(f) ==
    /\ pc = "publish" /\ cur = None /\ f \in left /\ UNCHANGED <<file, txn, seen, user, target>>
    /\ IF file[f] = changes[f].after
       THEN left' = left \ {f} /\ written' = written \cup {f} /\ UNCHANGED <<pc, changes, cur, code, raced>>
       ELSE /\ UNCHANGED written
            /\ IF Untouched(f) THEN cur' = f /\ raced' = FALSE /\ UNCHANGED <<pc, left, changes, code>>
               ELSE Stops("files_changed") /\ UNCHANGED raced

\* atomicWrite: a synced temporary file is renamed over the target.
Replace ==
    /\ pc = "publish" /\ cur # None /\ file' = [file EXCEPT ![cur] = changes[cur].after]
    /\ left' = left \ {cur} /\ cur' = None /\ written' = written \cup {cur}
    /\ UNCHANGED <<txn, pc, seen, changes, code, user, raced, target>>

Clear ==
    /\ pc = "publish" /\ left = {} /\ txn' = Empty /\ Stops("published")
    /\ UNCHANGED <<file, seen, user, raced, history>>

Engine ==
    \/ \E f \in Files : Read(f) \/ Digest(f) \/ Verify(f) \/ Check(f)
    \/ Start \/ Copy \/ Record \/ NothingToDo \/ NextLoop \/ Replace \/ Clear

(***************************************************************************)
(* Others                                                                  *)
(***************************************************************************)
\* An error, a refusal, a signal or a crash.
Crash ==
    /\ pc # "idle" /\ crashes < MaxCrashes /\ crashes' = crashes + 1 /\ Stops("stopped")
    /\ UNCHANGED <<file, txn, seen, edits, raced, history>>

\* The user edits other settings of a file, or also takes setup's out.
Edit(f) ==
    /\ edits < MaxEdits /\ edits' = edits + 1 /\ raced' = (raced \/ cur = f)
    /\ \E keep \in {FALSE, file[f].ours} : file' = [file EXCEPT ![f] = [edit |-> edits + 1, ours |-> keep]]
    /\ UNCHANGED <<txn, program, crashes, history>>

Next == Engine \/ Crash \/ \E f \in Files : Edit(f)

Spec == Init /\ [][Next]_vars

\* The program goes on, and the user resumes it.
FairSpec == Spec /\ WF_vars(Engine)

(***************************************************************************)
(* Properties                                                              *)
(***************************************************************************)
TypeOK ==
    /\ file \in [Files -> Content] /\ seen \in [Files -> Content] /\ left \subseteq Files /\ cur \in Files \cup {None}
    /\ \A c \in {txn, changes} : DOMAIN c \subseteq Files /\ \A f \in DOMAIN c : c[f] \in Change
    /\ pc \in {"idle", "read", "stage", "verify", "publish"}
    /\ (pc = "publish" => changes = txn)

Replaces(f) == pc = "publish" /\ cur = f /\ cur' = None /\ pc' = "publish"

\* Whatever of the user's a replacement destroys is in a backup, unless it was
\* written between the last look at the file and its replacement.
OverwrittenIsBackedUp ==
    [][\A f \in Files : Replaces(f) => file[f] = Absent \/ changes[f].backup = file[f] \/ raced]_vars

\* A change of several files that was begun is finished, or is in the journal
\* for the next run to finish: files of two configurations are never left
\* without a trace.
MixedIsRecorded == TypeOK /\ (written = {} \/ written = target \/ DOMAIN txn = target)

\* Once the edits have stopped, every file gets its settings, or the recorded
\* transaction is refused because of an edit that is still there.
SettlesOrRefuses ==
    <>[](txn = Empty /\ \A f \in Files : file[f].ours)
    \/ <>[](\E f \in DOMAIN txn : file[f] \notin {txn[f].before, txn[f].after})
=============================================================================
