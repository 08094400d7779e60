----------------------- MODULE ConfigTransactionProofs -----------------------
(***************************************************************************)
(* Proofs about ConfigTransaction, for any files, edits and crashes: what  *)
(* a replacement destroys is in a backup, and a change of several files    *)
(* that was begun is finished or recorded.                                 *)
(*                                                                         *)
(* An edit is a new content, so a file that differs from what setup saw    *)
(* before a change never equals it again.  A change is therefore Safe once *)
(* its backup was taken: the backup is what was seen, or the file has      *)
(* moved on for good and the comparison before the replacement refuses it. *)
(***************************************************************************)
EXTENDS ConfigTransaction, TLAPS

IsChanges(c) == DOMAIN c \subseteq Files /\ c \in [DOMAIN c -> Change]

\* What was seen of a file is old, and setup's content differs from it.
Genuine(change) == change.before.edit <= edits /\ change.after.edit <= edits /\ change.before # change.after

Safe(change, f) == change.before = Absent \/ change.backup = change.before \/ file[f] # change.before

TypesOK ==
  /\ TypeOK
  /\ IsChanges(txn) /\ IsChanges(changes)
  /\ edits \in 1..MaxEdits /\ raced \in BOOLEAN
  /\ \A f \in Files : file[f].edit <= edits /\ seen[f].edit <= edits

ChangesAreSafe ==
  /\ \A f \in DOMAIN txn : Genuine(txn[f]) /\ Safe(txn[f], f)
  /\ \A f \in DOMAIN changes : Genuine(changes[f]) /\ (f = cur \/ Safe(changes[f], f))

\* Only a file being staged or replaced is current; a file about to be
\* replaced was found as setup saw it, unless it was edited since.
CurrentIsLeft ==
  /\ pc \notin {"stage", "publish"} => cur = None
  /\ cur # None => cur \in left /\ cur \in DOMAIN changes
  /\ pc = "publish" /\ cur # None /\ ~raced => file[cur] = changes[cur].before

\* The journal holds the transaction from its approval to its end.
JournalHoldsTarget ==
  /\ pc \in {"idle", "read"} => changes = Empty
  /\ pc \in {"read", "stage"} => txn = Empty
  /\ pc \in {"verify", "publish"} => changes = txn /\ txn # Empty /\ left \subseteq DOMAIN txn
  /\ txn # Empty => DOMAIN txn = target
  /\ txn = Empty => written = {} \/ written = target
  /\ written \subseteq target
  /\ pc = "publish" => DOMAIN changes \ left \subseteq written

ConfigInv == TypesOK /\ ChangesAreSafe /\ CurrentIsLeft /\ JournalHoldsTarget

----------------------------------------------------------------------------
(* Contents and changes *)

LEMMA ContentsAreTyped ==
  /\ Absent \in Content /\ \A e \in 0..MaxEdits, b \in BOOLEAN : [edit |-> e, ours |-> b] \in Content
  /\ \A c \in Content : c.edit \in 0..MaxEdits /\ c.ours \in BOOLEAN
  /\ \A x \in Change : x.before \in Content /\ x.after \in Content /\ x.backup \in Content
  /\ IsChanges(Empty) /\ DOMAIN Empty = {}
<1>1. Absent \in Content
  BY ConfigAssumption DEF Content, Absent
<1>2. DOMAIN Empty = {} /\ Empty \in [DOMAIN Empty -> Change]
  BY DEF Empty
<1>3. QED BY <1>1, <1>2 DEF Content, Change, IsChanges

\* Setup's settings are added to what was read, and nothing else is changed.
LEMMA WantedIsTyped ==
  ASSUME TypesOK, NEW f \in Files
  PROVE  Wanted(f) \in Content /\ Wanted(f).edit <= edits
<1>1. seen[f] \in Content /\ seen[f].edit <= edits
  BY DEF TypesOK, TypeOK
<1>2. \A r \in Content : [r EXCEPT !.ours = TRUE] \in Content /\ [r EXCEPT !.ours = TRUE].edit = r.edit
  BY DEF Content
<1>3. QED BY <1>1, <1>2 DEF Wanted

\* One more change among those staged.
LEMMA AddChange ==
  ASSUME NEW c, IsChanges(c), NEW f \in Files, NEW x \in Change
  PROVE  /\ IsChanges(Staged(c, f, x)) /\ DOMAIN Staged(c, f, x) = DOMAIN c \cup {f}
         /\ Staged(c, f, x)[f] = x
         /\ \A g \in DOMAIN c \ {f} : Staged(c, f, x)[g] = c[g]
BY DEF IsChanges, Staged

\* The copy of a file is recorded in its change.
LEMMA AddBackup ==
  ASSUME NEW c, IsChanges(c), NEW f \in DOMAIN c, NEW b \in Content
  PROVE  /\ IsChanges([c EXCEPT ![f].backup = b])
         /\ DOMAIN [c EXCEPT ![f].backup = b] = DOMAIN c
         /\ [c EXCEPT ![f].backup = b][f] = [before |-> c[f].before, after |-> c[f].after, backup |-> b]
         /\ \A g \in DOMAIN c \ {f} : [c EXCEPT ![f].backup = b][g] = c[g]
<1>1. c[f] \in Change
  BY DEF IsChanges
<1>2. [c[f] EXCEPT !.backup = b] = [before |-> c[f].before, after |-> c[f].after, backup |-> b]
  BY <1>1 DEF Change
<1>3. [before |-> c[f].before, after |-> c[f].after, backup |-> b] \in Change
  BY <1>1 DEF Change
<1>4. QED BY <1>2, <1>3 DEF IsChanges

----------------------------------------------------------------------------
(* The invariant is inductive *)

LEMMA InitIsGood == Init => ConfigInv
<1> SUFFICES ASSUME Init PROVE ConfigInv
  OBVIOUS
<1>1. \A f \in Files : file[f] \in Content /\ file[f].edit <= 1
  <2>1. [edit |-> 1, ours |-> FALSE] \in Content
    BY ConfigAssumption DEF Content
  <2>2. \A r \in {Absent, [edit |-> 1, ours |-> FALSE]} : r \in Content /\ r.edit <= 1
    <3>1. Absent.edit <= 1 /\ [edit |-> 1, ours |-> FALSE].edit <= 1
      BY DEF Absent
    <3>2. QED BY <2>1, <3>1, ContentsAreTyped, Zenon
  <2>3. QED BY <2>2 DEF Init
<1>2. file \in [Files -> Content]
  BY <1>1 DEF Init
<1>3. TypesOK
  <2>1. IsChanges(txn) /\ IsChanges(changes) /\ DOMAIN txn = {} /\ DOMAIN changes = {}
    BY ContentsAreTyped DEF Init
  <2>2. TypeOK
    BY <1>2, <2>1 DEF Init, TypeOK
  <2>3. edits = 1 /\ edits \in 1..MaxEdits /\ seen = file
    <3>1. 1 \in 1..MaxEdits
      BY ConfigAssumption
    <3>2. QED BY <3>1 DEF Init
  <2>4. raced \in BOOLEAN
    BY DEF Init
  <2>5. QED BY <1>1, <2>1, <2>2, <2>3, <2>4 DEF TypesOK
<1>4. QED BY <1>3, ContentsAreTyped DEF Init, ConfigInv, ChangesAreSafe, CurrentIsLeft, JournalHoldsTarget

\* However the program stops, its memory is lost and nothing else.
LEMMA StopKeeps ==
  ASSUME ConfigInv, NEW why, Stops(why), pc # "idle", edits' = edits, raced' = raced,
         UNCHANGED <<file, txn, seen, target, written>>
  PROVE  ConfigInv'
<1>1. pc' = "idle" /\ left' = {} /\ changes' = Empty /\ cur' = None
  BY DEF Stops
<1>2. IsChanges(changes') /\ DOMAIN changes' = {}
  BY <1>1, ContentsAreTyped
<1>3. TypesOK'
  BY <1>1, <1>2 DEF ConfigInv, TypesOK, TypeOK, IsChanges
<1>4. ChangesAreSafe'
  <2>1. \A g \in DOMAIN txn : Genuine(txn[g])' /\ Safe(txn[g], g)'
    BY DEF ConfigInv, ChangesAreSafe, Genuine, Safe
  <2>2. QED BY <1>2, <2>1 DEF ChangesAreSafe
<1>5. CurrentIsLeft' /\ JournalHoldsTarget'
  BY <1>1, <1>2 DEF ConfigInv, CurrentIsLeft, JournalHoldsTarget
<1>6. QED BY <1>3, <1>4, <1>5 DEF ConfigInv

LEMMA StartKeeps == ASSUME ConfigInv, Start PROVE ConfigInv'
<1>1. CASE txn # Empty
  <2>1. /\ changes' = txn /\ pc' = "verify" /\ left' = DOMAIN txn
        /\ UNCHANGED <<file, txn, seen, cur, edits, crashes, raced, target, written>>
    BY <1>1 DEF Start, Turns, user, history
  <2>2. TypesOK'
    BY <2>1 DEF ConfigInv, TypesOK, TypeOK, IsChanges
  <2>3. QED BY <1>1, <2>1, <2>2 DEF Start, ConfigInv, ChangesAreSafe, CurrentIsLeft, JournalHoldsTarget, Genuine, Safe
<1>2. CASE txn = Empty
  <2>1. /\ pc = "idle" /\ pc' = "read" /\ left' = Files
        /\ UNCHANGED <<file, txn, changes, seen, cur, edits, crashes, raced, target, written>>
    BY <1>2 DEF Start, Turns, user, history
  <2>2. TypesOK'
    BY <2>1 DEF ConfigInv, TypesOK, TypeOK, IsChanges
  <2>3. QED BY <1>2, <2>1, <2>2 DEF ConfigInv, ChangesAreSafe, CurrentIsLeft, JournalHoldsTarget, Genuine, Safe
<1>3. QED BY <1>1, <1>2

LEMMA ReadKeeps == ASSUME ConfigInv, NEW f \in Files, Read(f) PROVE ConfigInv'
<1>1. /\ pc = "read" /\ seen' = [seen EXCEPT ![f] = file[f]] /\ left' = left \ {f}
      /\ UNCHANGED <<file, txn, pc, changes, cur, edits, crashes, raced, target, written>>
  BY DEF Read, user, history
<1>2. seen' \in [Files -> Content] /\ \A g \in Files : seen'[g].edit <= edits
  BY <1>1 DEF ConfigInv, TypesOK, TypeOK
<1>3. TypesOK'
  BY <1>1, <1>2 DEF ConfigInv, TypesOK, TypeOK, IsChanges
<1>4. QED BY <1>1, <1>3 DEF ConfigInv, ChangesAreSafe, CurrentIsLeft, JournalHoldsTarget, Genuine, Safe

LEMMA DigestKeeps == ASSUME ConfigInv, NEW f \in Files, Digest(f) PROVE ConfigInv'
<1>1. /\ pc = "stage" /\ cur = None /\ f \in left
      /\ UNCHANGED <<file, txn, pc, seen, edits, crashes, target, written>>
  BY DEF Digest, user, history
<1>2. CASE file[f] = Wanted(f)
  <2>1. left' = left \ {f} /\ UNCHANGED <<changes, cur, raced>>
    BY <1>2 DEF Digest
  <2>2. TypesOK'
    BY <1>1, <2>1 DEF ConfigInv, TypesOK, TypeOK, IsChanges
  <2>3. QED BY <1>1, <2>1, <2>2 DEF ConfigInv, ChangesAreSafe, CurrentIsLeft, JournalHoldsTarget, Genuine, Safe
<1>3. CASE file[f] # Wanted(f)
  <2>1. file[f] \in Content /\ file[f].edit <= edits /\ Wanted(f) \in Content /\ Wanted(f).edit <= edits
    BY WantedIsTyped DEF ConfigInv, TypesOK, TypeOK
  <2>2. PICK x \in Change : x = [before |-> file[f], after |-> Wanted(f), backup |-> Absent]
    BY <2>1, ContentsAreTyped DEF Change
  <2>3. /\ changes' = Staged(changes, f, x) /\ cur' = f /\ raced' = FALSE /\ left' = left
        /\ x.before.edit <= edits /\ x.after.edit <= edits /\ x.before # x.after
    BY <1>3, <2>1, <2>2 DEF Digest
  <2>4. IsChanges(changes)
    BY DEF ConfigInv, TypesOK
  <2>5. /\ IsChanges(changes') /\ DOMAIN changes' = DOMAIN changes \cup {f}
        /\ changes'[f] = x /\ \A g \in DOMAIN changes \ {f} : changes'[g] = changes[g]
    <3>1. /\ IsChanges(Staged(changes, f, x)) /\ DOMAIN Staged(changes, f, x) = DOMAIN changes \cup {f}
          /\ Staged(changes, f, x)[f] = x
          /\ \A g \in DOMAIN changes \ {f} : Staged(changes, f, x)[g] = changes[g]
      BY <2>4, AddChange
    <3>2. QED BY <2>3, <3>1
  <2>6. TypesOK'
    BY <1>1, <2>3, <2>5 DEF ConfigInv, TypesOK, TypeOK, IsChanges
  <2>7. ChangesAreSafe'
    <3>1. \A g \in DOMAIN changes \ {f} : Genuine(changes[g])' /\ Safe(changes[g], g)'
      BY <1>1, <2>5, ConfigAssumption DEF ConfigInv, TypesOK, IsChanges, ChangesAreSafe, Genuine, Safe
    <3>2. Genuine(changes[f])'
      BY <1>1, <2>3, <2>5 DEF Genuine
    <3>3. \A g \in DOMAIN txn : Genuine(txn[g])' /\ Safe(txn[g], g)'
      BY <1>1 DEF ConfigInv, ChangesAreSafe, Genuine, Safe
    <3>4. QED BY <1>1, <2>3, <2>5, <3>1, <3>2, <3>3 DEF ChangesAreSafe
  <2>8. CurrentIsLeft' /\ JournalHoldsTarget'
    BY <1>1, <2>3, <2>5 DEF ConfigInv, CurrentIsLeft, JournalHoldsTarget
  <2>9. QED BY <2>6, <2>7, <2>8 DEF ConfigInv
<1>4. QED BY <1>2, <1>3

LEMMA CopyKeeps == ASSUME ConfigInv, Copy PROVE ConfigInv'
<1> DEFINE b == IF changes[cur].before = Absent THEN Absent ELSE file[cur]
<1>1. /\ pc = "stage" /\ cur # None /\ changes' = [changes EXCEPT ![cur].backup = b]
      /\ left' = left \ {cur} /\ cur' = None
      /\ UNCHANGED <<file, txn, pc, seen, edits, crashes, raced, target, written>>
  BY DEF Copy, Backup, user, history
<1>2. IsChanges(changes) /\ cur \in DOMAIN changes /\ cur \in Files /\ b \in Content
  BY <1>1, ContentsAreTyped DEF ConfigInv, TypesOK, TypeOK, CurrentIsLeft, IsChanges
<1>3. changes[cur].before = Absent \/ b = file[cur]
  OBVIOUS
<1> HIDE DEF b
<1>4. /\ IsChanges(changes') /\ DOMAIN changes' = DOMAIN changes
      /\ changes'[cur] = [before |-> changes[cur].before, after |-> changes[cur].after, backup |-> b]
      /\ \A g \in DOMAIN changes \ {cur} : changes'[g] = changes[g]
  BY <1>1, <1>2, AddBackup
<1>5. TypesOK'
  BY <1>1, <1>4 DEF ConfigInv, TypesOK, TypeOK, IsChanges
<1>6. ChangesAreSafe'
  <2>1. \A g \in DOMAIN changes \ {cur} : Genuine(changes[g])' /\ Safe(changes[g], g)'
    BY <1>1, <1>4 DEF ConfigInv, ChangesAreSafe, Genuine, Safe
  <2>2. PICK f \in DOMAIN changes : f = cur
    BY <1>2
  <2>3. /\ changes'[f].before = changes[f].before /\ changes'[f].after = changes[f].after
        /\ changes'[f].backup = b
    BY <1>4, <2>2
  <2>4. Genuine(changes[f])'
    BY <1>1, <2>3 DEF ConfigInv, ChangesAreSafe, Genuine
  <2>5. Safe(changes[f], f)'
    BY <1>1, <1>3, <2>2, <2>3 DEF Safe
  <2>6. \A g \in DOMAIN txn : Genuine(txn[g])' /\ Safe(txn[g], g)'
    BY <1>1 DEF ConfigInv, ChangesAreSafe, Genuine, Safe
  <2>7. QED BY <1>1, <1>4, <2>1, <2>2, <2>4, <2>5, <2>6 DEF ChangesAreSafe
<1>7. CurrentIsLeft' /\ JournalHoldsTarget'
  BY <1>1, <1>4 DEF ConfigInv, CurrentIsLeft, JournalHoldsTarget
<1>8. QED BY <1>5, <1>6, <1>7 DEF ConfigInv

LEMMA RecordKeeps == ASSUME ConfigInv, Record PROVE ConfigInv'
<1>1. /\ pc = "stage" /\ left = {} /\ changes # Empty /\ txn' = changes /\ pc' = "verify"
      /\ left' = DOMAIN changes /\ target' = DOMAIN changes /\ written' = {}
      /\ UNCHANGED <<file, seen, changes, cur, edits, crashes, raced>>
  BY DEF Record, Recorded, Turns, user
<1>2. cur = None
  BY <1>1 DEF ConfigInv, CurrentIsLeft
<1>3. TypesOK'
  BY <1>1 DEF ConfigInv, TypesOK, TypeOK, IsChanges
<1>4. \A f \in DOMAIN changes : f # cur
  BY <1>2, ConfigAssumption DEF ConfigInv, TypesOK, IsChanges
<1>5. ChangesAreSafe'
  BY <1>1, <1>4 DEF ConfigInv, ChangesAreSafe, Genuine, Safe
<1>6. CurrentIsLeft' /\ JournalHoldsTarget'
  BY <1>1, <1>2 DEF ConfigInv, CurrentIsLeft, JournalHoldsTarget
<1>7. QED BY <1>3, <1>5, <1>6 DEF ConfigInv
LEMMA NothingToDoKeeps == ASSUME ConfigInv, NothingToDo PROVE ConfigInv'
BY StopKeeps DEF NothingToDo, user, history

LEMMA VerifyKeeps == ASSUME ConfigInv, NEW f \in Files, Verify(f) PROVE ConfigInv'
<1>1. pc = "verify" /\ UNCHANGED <<file, txn, seen, edits, crashes, raced, target, written>>
  BY DEF Verify, user, history
<1>2. CASE Expected(f)
  <2>1. left' = left \ {f} /\ UNCHANGED <<pc, changes, cur>>
    BY <1>2 DEF Verify
  <2>2. TypesOK'
    BY <1>1, <2>1 DEF ConfigInv, TypesOK, TypeOK, IsChanges
  <2>3. QED BY <1>1, <2>1, <2>2 DEF ConfigInv, ChangesAreSafe, CurrentIsLeft, JournalHoldsTarget, Genuine, Safe
<1>3. CASE ~Expected(f)
  BY <1>1, <1>3, StopKeeps DEF Verify
<1>4. QED BY <1>2, <1>3

LEMMA NextLoopKeeps == ASSUME ConfigInv, NextLoop PROVE ConfigInv'
<1>1. left = {} /\ UNCHANGED <<file, txn, seen, changes, cur, edits, crashes, raced, target, written>>
  BY DEF NextLoop, user, history
<1>2. \/ pc = "read" /\ pc' = "stage" /\ left' = Files
      \/ pc = "verify" /\ pc' = "publish" /\ left' = DOMAIN changes
  BY DEF NextLoop, Turns
<1>3. TypesOK'
  BY <1>1, <1>2 DEF ConfigInv, TypesOK, TypeOK, IsChanges, JournalHoldsTarget
<1>4. CurrentIsLeft' /\ JournalHoldsTarget'
  BY <1>1, <1>2 DEF ConfigInv, CurrentIsLeft, JournalHoldsTarget
<1>5. ChangesAreSafe'
  BY <1>1 DEF ConfigInv, ChangesAreSafe, Genuine, Safe
<1>6. QED BY <1>3, <1>4, <1>5 DEF ConfigInv

LEMMA CheckKeeps == ASSUME ConfigInv, NEW f \in Files, Check(f) PROVE ConfigInv'
<1>1. /\ pc = "publish" /\ cur = None /\ f \in left
      /\ UNCHANGED <<file, txn, seen, edits, crashes, target>>
  BY DEF Check, user
<1>2. changes = txn /\ txn # Empty /\ DOMAIN txn = target
  BY <1>1 DEF ConfigInv, JournalHoldsTarget
<1>3. CASE file[f] = changes[f].after
  <2>1. left' = left \ {f} /\ written' = written \cup {f} /\ UNCHANGED <<pc, changes, cur, raced>>
    BY <1>3 DEF Check
  <2>2. TypesOK'
    BY <1>1, <2>1 DEF ConfigInv, TypesOK, TypeOK, IsChanges
  <2>3. QED BY <1>1, <1>2, <2>1, <2>2 DEF ConfigInv, ChangesAreSafe, CurrentIsLeft, JournalHoldsTarget, Genuine, Safe
<1>4. CASE file[f] # changes[f].after /\ Untouched(f)
  <2>1. cur' = f /\ raced' = FALSE /\ UNCHANGED <<pc, left, changes, written>> /\ file[f] = changes[f].before
    BY <1>4 DEF Check, Untouched
  <2>2. TypesOK'
    BY <1>1, <2>1 DEF ConfigInv, TypesOK, TypeOK, IsChanges
  <2>3. ChangesAreSafe'
    BY <1>1, <1>2, <2>1 DEF ConfigInv, ChangesAreSafe, Genuine, Safe
  <2>4. CurrentIsLeft' /\ JournalHoldsTarget'
    BY <1>1, <1>2, <2>1 DEF ConfigInv, CurrentIsLeft, JournalHoldsTarget
  <2>5. QED BY <2>2, <2>3, <2>4 DEF ConfigInv
<1>5. CASE file[f] # changes[f].after /\ ~Untouched(f)
  BY <1>1, <1>5, StopKeeps DEF Check, history
<1>6. QED BY <1>3, <1>4, <1>5
LEMMA ReplaceKeeps == ASSUME ConfigInv, Replace PROVE ConfigInv'
<1>1. /\ pc = "publish" /\ cur # None /\ file' = [file EXCEPT ![cur] = changes[cur].after]
      /\ left' = left \ {cur} /\ cur' = None /\ written' = written \cup {cur}
      /\ UNCHANGED <<txn, pc, seen, changes, edits, crashes, raced, target>>
  BY DEF Replace, user
<1>2. /\ changes = txn /\ txn # Empty /\ DOMAIN txn = target
      /\ cur \in left /\ cur \in DOMAIN changes /\ cur \in Files
  BY <1>1 DEF ConfigInv, JournalHoldsTarget, CurrentIsLeft, TypesOK, TypeOK
<1>3. changes[cur].after \in Content /\ changes[cur].after.edit <= edits /\ changes[cur].after # changes[cur].before
  BY <1>2, ConfigAssumption, ContentsAreTyped DEF ConfigInv, TypesOK, IsChanges, ChangesAreSafe, Genuine
<1>4. /\ file' \in [Files -> Content] /\ file'[cur] = changes[cur].after
      /\ \A g \in Files \ {cur} : file'[g] = file[g]
  BY <1>1, <1>2, <1>3 DEF ConfigInv, TypesOK, TypeOK
<1>5. TypesOK'
  BY <1>1, <1>2, <1>3, <1>4 DEF ConfigInv, TypesOK, TypeOK, IsChanges
<1>6. ChangesAreSafe'
  <2>1. ASSUME NEW g \in DOMAIN txn PROVE Genuine(txn[g])' /\ Safe(txn[g], g)'
    <3>1. Genuine(txn[g]) /\ Safe(txn[g], g) /\ g \in Files
      BY DEF ConfigInv, ChangesAreSafe, TypesOK, IsChanges
    <3>2. CASE g = cur
      BY <1>1, <1>2, <1>3, <1>4, <3>1, <3>2 DEF Genuine, Safe
    <3>3. CASE g # cur
      BY <1>1, <1>4, <3>1, <3>3 DEF Genuine, Safe
    <3>4. QED BY <3>2, <3>3
  <2>2. QED BY <1>1, <1>2, <2>1 DEF ChangesAreSafe
<1>7. CurrentIsLeft' /\ JournalHoldsTarget'
  BY <1>1, <1>2 DEF ConfigInv, CurrentIsLeft, JournalHoldsTarget
<1>8. QED BY <1>5, <1>6, <1>7 DEF ConfigInv

\* A transaction is over only when every file of it was replaced.
LEMMA ClearKeeps == ASSUME ConfigInv, Clear PROVE ConfigInv'
<1>1. /\ pc = "publish" /\ left = {} /\ txn' = Empty
      /\ pc' = "idle" /\ left' = {} /\ changes' = Empty /\ cur' = None
      /\ UNCHANGED <<file, seen, edits, crashes, raced, target, written>>
  BY DEF Clear, Stops, user, history
<1>2. written = target
  BY <1>1 DEF ConfigInv, JournalHoldsTarget
<1>3. IsChanges(changes') /\ IsChanges(txn') /\ DOMAIN changes' = {} /\ DOMAIN txn' = {}
  BY <1>1, ContentsAreTyped
<1>4. TypesOK'
  BY <1>1, <1>3 DEF ConfigInv, TypesOK, TypeOK
<1>5. QED BY <1>1, <1>2, <1>3, <1>4 DEF ConfigInv, ChangesAreSafe, CurrentIsLeft, JournalHoldsTarget

LEMMA CrashKeeps == ASSUME ConfigInv, Crash PROVE ConfigInv'
BY StopKeeps DEF Crash, history

\* A file that is edited no longer equals anything seen of it before.
LEMMA EditKeeps == ASSUME ConfigInv, NEW f \in Files, Edit(f) PROVE ConfigInv'
<1>1. /\ edits < MaxEdits /\ edits' = edits + 1 /\ raced' = (raced \/ cur = f)
      /\ UNCHANGED <<txn, pc, left, seen, changes, cur, crashes, target, written>>
  BY DEF Edit, program, history
<1>2. PICK keep \in {FALSE, file[f].ours} : file' = [file EXCEPT ![f] = [edit |-> edits + 1, ours |-> keep]]
  BY DEF Edit
<1>3. keep \in BOOLEAN /\ edits \in Nat /\ edits + 1 \in 0..MaxEdits
  <2>1. file[f] \in Content /\ edits \in 1..MaxEdits
    BY DEF ConfigInv, TypesOK, TypeOK
  <2>2. file[f].ours \in BOOLEAN
    BY <2>1, ContentsAreTyped
  <2>3. keep = FALSE \/ keep = file[f].ours
    OBVIOUS
  <2>4. keep \in BOOLEAN
    BY <2>2, <2>3, Zenon
  <2>5. edits \in Nat /\ edits + 1 \in 0..MaxEdits
    BY <1>1, <2>1, ConfigAssumption
  <2>6. QED BY <2>4, <2>5
<1>4. PICK new \in Content : new = [edit |-> edits + 1, ours |-> keep] /\ new.edit = edits + 1
  BY <1>3, ContentsAreTyped
<1>5. file' \in [Files -> Content] /\ file'[f] = new /\ \A g \in Files \ {f} : file'[g] = file[g]
  BY <1>2, <1>4 DEF ConfigInv, TypesOK, TypeOK
<1>6. \A c \in Content : c.edit <= edits => c.edit <= edits' /\ c # new
  <2>1. \A c \in Content : c.edit \in Nat
    BY ContentsAreTyped
  <2>2. \A e \in Nat : e <= edits => e <= edits + 1 /\ e # edits + 1
    BY <1>3
  <2>3. QED BY <1>1, <1>4, <2>1, <2>2
<1>7. TypesOK'
  <2>1. edits' \in 1..MaxEdits /\ raced' \in BOOLEAN
    BY <1>1, ConfigAssumption DEF ConfigInv, TypesOK
  <2>2. \A g \in Files : file'[g].edit <= edits' /\ seen'[g].edit <= edits'
    BY <1>1, <1>4, <1>3, <1>5, <1>6 DEF ConfigInv, TypesOK, TypeOK
  <2>3. QED BY <1>1, <1>5, <2>1, <2>2 DEF ConfigInv, TypesOK, TypeOK, IsChanges
<1>8. \A x \in Change, g \in Files : Genuine(x) => Genuine(x)' /\ (Safe(x, g) => Safe(x, g)')
  BY <1>5, <1>6, ContentsAreTyped DEF Genuine, Safe
<1>9. ChangesAreSafe'
  <2>1. ASSUME NEW g \in DOMAIN txn PROVE Genuine(txn[g])' /\ Safe(txn[g], g)'
    <3>1. Genuine(txn[g]) /\ Safe(txn[g], g) /\ g \in Files /\ txn[g] \in Change
      BY DEF ConfigInv, ChangesAreSafe, TypesOK, IsChanges
    <3>2. QED BY <1>1, <1>8, <3>1 DEF Genuine, Safe
  <2>2. ASSUME NEW g \in DOMAIN changes PROVE Genuine(changes[g])' /\ (g = cur \/ Safe(changes[g], g)')
    <3>1. Genuine(changes[g]) /\ (g = cur \/ Safe(changes[g], g)) /\ g \in Files /\ changes[g] \in Change
      BY DEF ConfigInv, ChangesAreSafe, TypesOK, IsChanges
    <3>2. QED BY <1>1, <1>8, <3>1 DEF Genuine, Safe
  <2>3. QED BY <1>1, <2>1, <2>2 DEF ChangesAreSafe
<1>10. CurrentIsLeft'
  <2>1. pc = "publish" /\ cur # None /\ ~raced' => file'[cur] = changes[cur].before
    BY <1>1, <1>5, ConfigAssumption DEF ConfigInv, CurrentIsLeft, TypesOK, TypeOK
  <2>2. QED BY <1>1, <2>1 DEF ConfigInv, CurrentIsLeft
<1>11. JournalHoldsTarget'
  BY <1>1 DEF ConfigInv, JournalHoldsTarget
<1>12. QED BY <1>7, <1>9, <1>10, <1>11 DEF ConfigInv
LEMMA NextKeeps == ConfigInv /\ [Next]_vars => ConfigInv'
<1> SUFFICES ASSUME ConfigInv, [Next]_vars PROVE ConfigInv'
  OBVIOUS
<1>1. CASE UNCHANGED vars
  BY <1>1 DEF vars, program, history, ConfigInv, TypesOK, TypeOK, IsChanges, ChangesAreSafe, CurrentIsLeft,
       JournalHoldsTarget, Genuine, Safe
<1>2. CASE Engine
  BY <1>2, ReadKeeps, DigestKeeps, VerifyKeeps, CheckKeeps, StartKeeps, CopyKeeps, RecordKeeps, NextLoopKeeps,
     ReplaceKeeps, ClearKeeps, NothingToDoKeeps DEF Engine
<1>3. QED BY <1>1, <1>2, CrashKeeps, EditKeeps DEF Next

\* Only Replace replaces a file, and only one that is safe to replace.
LEMMA ReplacementIsSafe ==
  ASSUME ConfigInv, [Next]_vars, NEW f \in Files, Replaces(f)
  PROVE  file[f] = Absent \/ changes[f].backup = file[f] \/ raced
<1>1. pc = "publish" /\ cur = f /\ cur # None /\ changes = txn /\ f \in DOMAIN txn
  BY ConfigAssumption DEF Replaces, ConfigInv, CurrentIsLeft, JournalHoldsTarget
<1>2. Safe(txn[f], f)
  BY <1>1 DEF ConfigInv, ChangesAreSafe
<1>3. ~raced => file[f] = changes[f].before
  BY <1>1 DEF ConfigInv, CurrentIsLeft
<1>4. QED BY <1>1, <1>2, <1>3 DEF Safe

----------------------------------------------------------------------------
(* Theorems *)

\* The journal, the memory of the program, the files and the file being
\* visited agree after every step of setup and of the user's editor, wherever
\* the program was stopped and resumed (publish in engine.go, stageChanges and
\* publishChanges in files.go).
THEOREM TransactionIsConsistent == Spec => []ConfigInv
<1>1. QED BY InitIsGood, NextKeeps, PTL DEF Spec

\* A change of several files that was begun is finished, or is in the journal
\* for the next run to finish.
THEOREM MixedFilesAreRecorded == Spec => []MixedIsRecorded
<1>1. ConfigInv => MixedIsRecorded
  BY DEF ConfigInv, TypesOK, JournalHoldsTarget, MixedIsRecorded
<1>2. QED BY <1>1, TransactionIsConsistent, PTL

\* What publication destroys of the user's is in a backup, unless it was
\* written between the comparison of a file and its replacement: the backup
\* made while staging is of the content compared, or the comparison fails.
THEOREM WhatIsOverwrittenIsBackedUp == Spec => OverwrittenIsBackedUp
<1>1. ConfigInv /\ [Next]_vars =>
        [\A f \in Files : Replaces(f) => file[f] = Absent \/ changes[f].backup = file[f] \/ raced]_vars
  BY ReplacementIsSafe
<1>2. QED BY <1>1, TransactionIsConsistent, PTL DEF Spec, OverwrittenIsBackedUp
=============================================================================
