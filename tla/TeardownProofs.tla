--------------------------- MODULE TeardownProofs ---------------------------
(***************************************************************************)
(* Proofs about Teardown, for any number of workers, goroutines, polls and *)
(* changes by others, and any selectors: only what was selected, agreed to *)
(* and seen to match is terminated, and the outcome is true.               *)
(*                                                                         *)
(* A goroutine acts only while the command executes, for a candidate of    *)
(* the frozen selection (JobOK); the selection says why each candidate is  *)
(* one (SelectionOK).  What EC2 has finished it does not take back, so a   *)
(* verdict once true stays true, and with it the exit code (ExitOK).       *)
(*                                                                         *)
(* And about AccessProxy, the other command that must give up what AWS     *)
(* keeps for it: a session does not outlive the command that opened it,    *)
(* for any times that fit into the supervisor's patience (ClockInv).       *)
(***************************************************************************)
EXTENDS Teardown, AccessProxy, FiniteSetTheorems, TLAPS

Ahead  == {"idle", "queued", "look", "call", "watch"}   \* no call was made yet
Acting == {"look", "call", "again", "watch", "poll", "disk"}
All    == {"all", "all --yes"}
Choosing == {"scan", "resolve", "confirm"}

\* Where worker w's part of the command stands, and what it claims.
JobOK(w, j) ==
    /\ j.status \in {"termination_observed", "already_terminated"} => machine[w].vm \in Gone
    /\ j.deletion = "deleted" => ~machine[w].disk
    /\ j.status = "termination_requested" => w \in wire \/ machine[w].vm # "running"
    /\ j.stage = "watch" => machine[w].vm # "running"
    /\ j.status = "termination_not_requested" => sent[w] = 0
    /\ j.stage \in Ahead => j.status = "termination_not_requested"
    /\ j.stage = "again" => j.status = "termination_unknown" /\ sent[w] = 1
    /\ j.stage \in Acting => phase = "execute" /\ w \in candidates
    /\ phase \in Choosing => j.stage \in {"idle", "queued"}
    /\ j.stage \in {"call", "again"} => seen[w] # "foreign" /\ (w \in tagged => seen[w] = "in")

NothingSent == \A w \in Workers : sent[w] = 0

\* Why the candidates are candidates, and what was agreed to.
SelectionOK ==
    /\ phase = "resolve" => ask.kind = "targets"
    /\ phase = "scan" => ask.kind # "targets"
    /\ phase = "confirm" => ask.kind \in All
    /\ phase \in Choosing => NothingSent /\ ~approved
    /\ ask.kind \in All /\ phase = "execute" => approved
    /\ ask.kind = "group" => candidates \subseteq tagged
    /\ ask.kind = "targets" =>
         /\ Name \in left => candidates \subseteq ask.targets
         /\ \A w \in candidates \ ask.targets : w \in tagged /\ rivals = {w}

\* What the exit code stands for.
ExitOK ==
    /\ exit # -1 <=> phase = "done"
    /\ exit = 0 => \/ NothingSent /\ ask.kind = "all" /\ ~approved
                   \/ \A w \in candidates : machine[w].vm \in Gone /\ ~machine[w].disk
    /\ exit = 3 => \E w \in candidates : ~machine[w].disk

TeardownInv ==
    /\ TypeOK /\ seen \in [Workers -> {"in", "out", "foreign"}]
    /\ \A w \in Workers : JobOK(w, job[w])
    /\ SelectionOK /\ ExitOK

----------------------------------------------------------------------------
(* EC2 and other people *)

\* What is finished stays so, and no request is made up.
LEMMA WorldMoves ==
  ASSUME TeardownInv, UNCHANGED <<phase, plan, job, exit, history>>, ended' \in BOOLEAN,
         machine' \in [Workers -> Machine], wire' \subseteq wire, moves' \in 0 .. MaxMoves,
         \A w \in Workers : /\ machine[w].vm \in Gone => machine'[w].vm \in Gone
                            /\ machine[w].vm # "running" => machine'[w].vm # "running"
                            /\ w \in wire \ wire' => machine'[w].vm # "running"
                            /\ ~machine[w].disk => ~machine'[w].disk
  PROVE  TeardownInv'
<1> USE DEF plan, history
<1>1. TypeOK'
  BY DEF TeardownInv, TypeOK
<1>2. ASSUME NEW w \in Workers PROVE JobOK(w, job[w])'
  <2>1. PICK j \in Job : j = job[w] /\ JobOK(w, j)
    BY DEF TeardownInv, TypeOK
  <2>2. JobOK(w, j)'
    BY <2>1 DEF JobOK
  <2>3. QED BY <2>1, <2>2
<1>3. SelectionOK'
  BY DEF TeardownInv, SelectionOK, NothingSent
<1>4. ExitOK'
  BY DEF TeardownInv, TypeOK, ExitOK, NothingSent
<1>5. QED BY <1>1, <1>2, <1>3, <1>4 DEF TeardownInv

LEMMA MachineMoves ==
  ASSUME TeardownInv, UNCHANGED <<phase, plan, job, ended, exit, history>>, wire' \subseteq wire,
         moves' \in 0 .. MaxMoves, NEW w \in Workers, NEW y \in Machine, machine' = [machine EXCEPT ![w] = y],
         machine[w].vm \in Gone => y.vm \in Gone, ~machine[w].disk => ~y.disk,
         machine[w].vm # "running" => y.vm # "running",
         wire' = wire \/ (wire' = wire \ {w} /\ y.vm # "running")
  PROVE  TeardownInv'
<1>1. machine \in [Workers -> Machine] /\ ended' \in BOOLEAN
  BY DEF TeardownInv, TypeOK
<1>2. machine' \in [Workers -> Machine] /\ \A v \in Workers : machine'[v] = IF v = w THEN y ELSE machine[v]
  BY <1>1
<1>3. ASSUME NEW v \in Workers
      PROVE  /\ machine[v].vm \in Gone => machine'[v].vm \in Gone
             /\ machine[v].vm # "running" => machine'[v].vm # "running"
             /\ v \in wire \ wire' => machine'[v].vm # "running"
             /\ ~machine[v].disk => ~machine'[v].disk
  BY <1>2
<1>4. QED BY <1>1, <1>2, <1>3, WorldMoves

LEMMA EnvironmentKeeps == ASSUME TeardownInv, Environment PROVE TeardownInv'
<1>1. UNCHANGED <<phase, plan, job, ended, exit, history>>
  BY DEF Environment
<1>2. PICK w \in Workers : \/ \E t \in {"in", "out", "foreign"} : Retag(w, t)
                           \/ FlipKeep(w) \/ TerminatedByOthers(w) \/ Obey(w) \/ Fade(w)
  BY DEF Environment
<1>3. PICK x \in Machine : x = machine[w]
  BY DEF TeardownInv, TypeOK
<1>4. machine \in [Workers -> Machine] /\ moves \in 0 .. MaxMoves /\ (moves > 0 => moves - 1 \in 0 .. MaxMoves)
  <2>1. machine \in [Workers -> Machine] /\ moves \in 0 .. MaxMoves
    BY DEF TeardownInv, TypeOK
  <2>2. MaxMoves \in Nat
    BY TeardownAssumption
  <2>3. QED BY <2>1, <2>2
<1>5. x = [vm |-> x.vm, tag |-> x.tag, keep |-> x.keep, disk |-> x.disk, mapped |-> x.mapped]
      /\ x.vm \in {"running", "shutting-down", "terminated", "forgotten"}
  BY DEF Machine, Gone
<1>6. ASSUME NEW t \in {"in", "out", "foreign"}, Retag(w, t) PROVE TeardownInv'
  <2> DEFINE y == [x EXCEPT !.tag = t]
  <2>1. y \in Machine /\ y.vm = x.vm /\ y.disk = x.disk
    BY DEF Machine
  <2>2. machine' = [machine EXCEPT ![w] = y] /\ moves' = moves - 1 /\ moves > 0 /\ wire' = wire
    BY <1>3, <1>4, <1>6 DEF Retag
  <2>3. QED BY <1>1, <1>3, <1>4, <2>1, <2>2, MachineMoves
<1>7. ASSUME FlipKeep(w) PROVE TeardownInv'
  <2>1. PICK b \in BOOLEAN : b = ~x.keep
    OBVIOUS
  <2> DEFINE y == [x EXCEPT !.keep = b]
  <2>2. y \in Machine /\ y.vm = x.vm /\ y.disk = x.disk
    BY DEF Machine
  <2>3. machine' = [machine EXCEPT ![w] = y] /\ moves' = moves - 1 /\ moves > 0 /\ wire' = wire
    BY <1>3, <1>4, <1>7, <2>1 DEF FlipKeep
  <2>4. QED BY <1>1, <1>3, <1>4, <2>2, <2>3, MachineMoves
<1>8. ASSUME NEW v \in {"shutting-down", "terminated", "forgotten"}, x.vm \in Gone => v \in Gone,
             NEW m \in BOOLEAN, machine' = [machine EXCEPT ![w] = [x EXCEPT !.vm = v, !.mapped = m]],
             wire' = wire \/ wire' = wire \ {w}, moves' \in {moves, moves - 1}, moves' # moves => moves > 0
      PROVE  TeardownInv'
  <2> DEFINE y == [x EXCEPT !.vm = v, !.mapped = m]
  <2>1. y \in Machine /\ y.vm = v /\ y.disk = x.disk
    BY DEF Machine, Gone
  <2>2. QED BY <1>1, <1>3, <1>4, <1>8, <2>1, MachineMoves
<1>9. ASSUME TerminatedByOthers(w) PROVE TeardownInv'
  <2>1. x.vm = "running" /\ moves > 0 /\ wire' = wire /\ moves' = moves - 1 /\ x.mapped \in BOOLEAN
        /\ machine' = [machine EXCEPT ![w] = [x EXCEPT !.vm = "shutting-down", !.mapped = x.mapped]]
    BY <1>3, <1>4, <1>9 DEF TerminatedByOthers, Machine
  <2>2. QED BY <1>8, <2>1 DEF Gone
<1>10. ASSUME Obey(w) PROVE TeardownInv'
  <2>1. PICK v \in {"shutting-down", "terminated", "forgotten"} :
          v = (IF x.vm = "running" THEN "shutting-down" ELSE x.vm)
    BY <1>5
  <2>2. machine' = [machine EXCEPT ![w] = [x EXCEPT !.vm = v, !.mapped = x.mapped]]
        /\ wire' = wire \ {w} /\ moves' = moves /\ x.mapped \in BOOLEAN
    BY <1>3, <1>4, <1>10, <2>1 DEF Obey, Machine
  <2>3. QED BY <1>8, <2>1, <2>2 DEF Gone
<1>11. ASSUME Fade(w) PROVE TeardownInv'
  <2>1. wire' = wire /\ moves' = moves /\ x.mapped \in BOOLEAN
    BY <1>11 DEF Fade, Machine
  <2>2. CASE x.vm = "shutting-down" /\ \E m \in BOOLEAN :
               machine' = [machine EXCEPT ![w] = [x EXCEPT !.vm = "terminated", !.mapped = m]]
    BY <1>8, <2>1, <2>2 DEF Gone
  <2>3. CASE machine' = [machine EXCEPT ![w] = [x EXCEPT !.disk = FALSE]]
    <3> DEFINE y == [x EXCEPT !.disk = FALSE]
    <3>1. y \in Machine /\ y.vm = x.vm /\ y.disk = FALSE
      BY DEF Machine
    <3>2. QED BY <1>1, <1>3, <1>4, <2>1, <2>3, <3>1, MachineMoves
  <2>4. CASE machine' = [machine EXCEPT ![w] = [x EXCEPT !.vm = "forgotten", !.mapped = FALSE]]
    BY <1>8, <2>1, <2>4 DEF Gone
  <2>5. QED BY <1>3, <1>4, <1>11, <2>1, <2>2, <2>3, <2>4 DEF Fade
<1>12. QED BY <1>2, <1>6, <1>7, <1>9, <1>10, <1>11
----------------------------------------------------------------------------
(* The goroutines *)

\* A goroutine works on worker w; a call is sent for w or for nobody.
LEMMA JobMoves ==
  ASSUME TeardownInv, UNCHANGED <<machine, moves, phase, plan, ended, exit, approved, rivals>>,
         NEW w \in Workers, NEW y \in Job, job' = [job EXCEPT ![w] = y], JobOK(w, y)',
         seen' \in [Workers -> {"in", "out", "foreign"}], \A v \in Workers \ {w} : seen'[v] = seen[v],
         wire \subseteq wire', wire' \subseteq Workers, sent' \in [Workers -> 0 .. 2],
         sent' = sent \/ (phase = "execute" /\ \A v \in Workers \ {w} : sent'[v] = sent[v])
  PROVE  TeardownInv'
<1> USE DEF plan
<1>1. TypeOK'
  <2>1. job' \in [Workers -> Job]
    BY DEF TeardownInv, TypeOK
  <2>2. QED BY <2>1 DEF TeardownInv, TypeOK
<1>2. ASSUME NEW v \in Workers PROVE JobOK(v, job[v])'
  <2>1. PICK j \in Job : j = job[v] /\ JobOK(v, j)
    BY DEF TeardownInv, TypeOK
  <2>2. CASE v = w
    <3>1. job'[v] = y
      BY <2>2 DEF TeardownInv, TypeOK
    <3>2. QED BY <2>2, <3>1
  <2>3. CASE v # w
    <3>1. job'[v] = j /\ seen'[v] = seen[v]
      BY <2>1, <2>3 DEF TeardownInv, TypeOK
    <3>2. (v \in wire => v \in wire') /\ sent'[v] = sent[v]
      BY <2>3
    <3>3. JobOK(v, j)'
      BY <2>1, <3>1, <3>2 DEF JobOK
    <3>4. QED BY <3>1, <3>3
  <2>4. QED BY <2>2, <2>3
<1>3. SelectionOK'
  BY DEF TeardownInv, SelectionOK, Choosing, NothingSent
<1>4. ExitOK'
  BY DEF TeardownInv, ExitOK, NothingSent
<1>5. QED BY <1>1, <1>2, <1>3, <1>4 DEF TeardownInv

\* Steps of a goroutine that send nothing.
LEMMA QuietMoves ==
  ASSUME TeardownInv, UNCHANGED <<machine, wire, moves, phase, plan, ended, exit, approved, sent, rivals>>,
         NEW w \in Workers, NEW y \in Job, job' = [job EXCEPT ![w] = y], JobOK(w, y)',
         seen' \in [Workers -> {"in", "out", "foreign"}], \A v \in Workers \ {w} : seen'[v] = seen[v]
  PROVE  TeardownInv'
<1>1. wire \subseteq wire' /\ wire' \subseteq Workers /\ sent' \in [Workers -> 0 .. 2]
  BY DEF TeardownInv, TypeOK
<1>2. QED BY <1>1, JobMoves

\* Only the place, the mapping and the count of reads of a job change, and
\* the job was already past its call.
LEMMA GoesOn ==
  ASSUME TeardownInv, UNCHANGED <<world, phase, plan, ended, exit, history>>, NEW w \in Workers,
         NEW x \in Job, x = job[w], NEW st \in {"poll", "disk"}, x.stage = st,
         NEW r \in {"none", "kept", "dropped"}, NEW n \in 0 .. MaxPolls,
         job' = [job EXCEPT ![w] = [x EXCEPT !.root = r, !.polls = n]]
  PROVE  TeardownInv'
<1> DEFINE y == [x EXCEPT !.root = r, !.polls = n]
<1>1. y \in Job /\ y.stage = x.stage /\ y.status = x.status /\ y.deletion = x.deletion
  <2>1. y.stage = x.stage /\ y.status = x.status /\ y.deletion = x.deletion
    BY DEF Job
  <2>2. PICK z \in Job : z = [x EXCEPT !.root = r]
    BY DEF Job
  <2>3. PICK u \in Job : u = [z EXCEPT !.polls = n]
    BY DEF Job
  <2>4. u = y
    BY <2>2, <2>3 DEF Job
  <2>5. QED BY <2>1, <2>3, <2>4
<1>2. JobOK(w, x)
  BY DEF TeardownInv
<1>3. JobOK(w, y)'
  BY <1>1, <1>2 DEF JobOK, Acting, world, plan, history
<1>4. seen' \in [Workers -> {"in", "out", "foreign"}] /\ \A v \in Workers \ {w} : seen'[v] = seen[v]
  BY DEF TeardownInv, history
<1>5. QED BY <1>1, <1>3, <1>4, QuietMoves DEF world, history

LEMMA PollsAreCounted ==
  MaxPolls \in Nat /\ 0 \in 0 .. MaxPolls /\ \A n \in 0 .. MaxPolls : n < MaxPolls => n + 1 \in 0 .. MaxPolls
<1>1. MaxPolls \in Nat
  BY TeardownAssumption
<1>2. QED BY <1>1

\* A job that ends with an error claims nothing new.
LEMMA FailKeeps ==
  ASSUME TeardownInv, UNCHANGED <<machine, wire, moves, phase, plan, ended, exit, approved, sent, rivals>>,
         NEW w \in Workers, Fail(w), job[w].stage \in Acting,
         seen' \in [Workers -> {"in", "out", "foreign"}], \A v \in Workers \ {w} : seen'[v] = seen[v]
  PROVE  TeardownInv'
<1>1. PICK x \in Job : x = job[w] /\ JobOK(w, x) /\ job \in [Workers -> Job]
  BY DEF TeardownInv, TypeOK
<1> DEFINE y == [x EXCEPT !.stage = "done", !.error = TRUE, !.polls = 0]
<1>2. y \in Job /\ y.stage = "done" /\ y.status = x.status /\ y.deletion = x.deletion
  BY PollsAreCounted DEF Job
<1>3. job' = [job EXCEPT ![w] = y]
  BY <1>1 DEF Fail
<1>4. JobOK(w, y)'
  BY <1>1, <1>2 DEF JobOK, Acting, Ahead, Choosing
<1>5. QED BY <1>2, <1>3, <1>4, QuietMoves

\* A job that ends with a verdict on its disk.
LEMMA SettleKeeps ==
  ASSUME TeardownInv, UNCHANGED <<world, phase, plan, ended, exit, history>>, NEW w \in Workers,
         NEW d \in {"deleted", "retained", "unavailable"}, Settle(w, d), job[w].stage = "disk",
         d = "deleted" => ~machine[w].disk
  PROVE  TeardownInv'
<1>1. PICK x \in Job : x = job[w] /\ JobOK(w, x) /\ job \in [Workers -> Job]
  BY DEF TeardownInv, TypeOK
<1>2. PICK e \in BOOLEAN : e = (x.error \/ d # "deleted")
  OBVIOUS
<1> DEFINE y == [x EXCEPT !.stage = "done", !.deletion = d, !.polls = 0, !.error = e]
<1>3. y \in Job /\ y.stage = "done" /\ y.status = x.status /\ y.deletion = d
  BY PollsAreCounted DEF Job
<1>4. job' = [job EXCEPT ![w] = y]
  BY <1>1, <1>2 DEF Settle
<1>5. JobOK(w, y)'
  BY <1>1, <1>3 DEF JobOK, Acting, Ahead, world, plan, history
<1>6. seen' \in [Workers -> {"in", "out", "foreign"}] /\ \A v \in Workers \ {w} : seen'[v] = seen[v]
  BY DEF TeardownInv, history
<1>7. QED BY <1>3, <1>4, <1>5, <1>6, QuietMoves DEF world, history
LEMMA TakeKeeps == ASSUME TeardownInv, NEW w \in Workers, Take(w) PROVE TeardownInv'
<1>1. PICK x \in Job : x = job[w] /\ JobOK(w, x) /\ job \in [Workers -> Job]
  BY DEF TeardownInv, TypeOK
<1> DEFINE y == [x EXCEPT !.stage = "look"]
<1>2. y \in Job /\ y.stage = "look" /\ y.status = x.status /\ y.deletion = x.deletion
  BY DEF Job
<1>3. /\ UNCHANGED <<world, phase, plan, ended, exit, history>> /\ phase = "execute" /\ w \in candidates
      /\ x.stage = "queued" /\ job' = [job EXCEPT ![w] = y]
  BY <1>1 DEF Take, Queued
<1>4. JobOK(w, y)'
  BY <1>1, <1>2, <1>3 DEF JobOK, Ahead, Acting, Choosing, world, plan, history
<1>5. seen' \in [Workers -> {"in", "out", "foreign"}] /\ \A v \in Workers \ {w} : seen'[v] = seen[v]
  BY <1>3 DEF TeardownInv, history
<1>6. QED BY <1>2, <1>3, <1>4, <1>5, QuietMoves DEF world, history

LEMMA MergedRootIs ==
  ASSUME TeardownInv, NEW w \in Workers
  PROVE  MergedRoot(w) \in {"none", "kept", "dropped"}
<1>1. job[w] \in Job
  BY DEF TeardownInv, TypeOK
<1>2. job[w].root \in {"none", "kept", "dropped"}
  BY <1>1 DEF Job
<1>3. QED BY <1>2 DEF MergedRoot

\* The last read before the call finds the worker as it was selected, or the
\* job ends.
LEMMA LookKeeps == ASSUME TeardownInv, NEW w \in Workers, Look(w) PROVE TeardownInv'
<1>1. PICK x \in Job : x = job[w] /\ JobOK(w, x) /\ job \in [Workers -> Job]
  BY DEF TeardownInv, TypeOK
<1>2. PICK m \in Machine : m = machine[w] /\ m.tag \in {"in", "out", "foreign"}
                           /\ m.vm \in {"running", "shutting-down", "terminated", "forgotten"}
  <2>1. machine[w] \in Machine
    BY DEF TeardownInv, TypeOK
  <2>2. QED BY <2>1 DEF Machine, Gone
<1>3. /\ UNCHANGED <<world, phase, plan, ended, exit, approved, sent, rivals>> /\ x.stage = "look"
      /\ seen' = seen \/ seen' = [seen EXCEPT ![w] = m.tag]
      /\ SameSelection(w) /\ m.vm = "running" => seen' = [seen EXCEPT ![w] = m.tag]
  BY <1>1, <1>2 DEF Look
<1>4. /\ seen' \in [Workers -> {"in", "out", "foreign"}]
      /\ SameSelection(w) /\ m.vm = "running" => seen'[w] = m.tag
      /\ \A v \in Workers \ {w} : seen'[v] = seen[v]
  BY <1>2, <1>3 DEF TeardownInv
<1>5. CASE SameSelection(w)
  <2>1. PICK r \in {"none", "kept", "dropped"} : r = MergedRoot(w)
    BY MergedRootIs
  <2>2. PICK st \in {"call", "watch", "disk"} :
          /\ st = (CASE m.vm = "running" -> "call" [] m.vm = "shutting-down" -> "watch" [] OTHER -> "disk")
          /\ st \in {"call", "watch"} => m.vm # "terminated"
          /\ st = "call" => m.vm = "running"
          /\ st = "watch" => m.vm # "running"
    OBVIOUS
  <2>3. PICK s \in {"already_terminated", x.status} :
          /\ s = (IF m.vm = "terminated" THEN "already_terminated" ELSE x.status)
          /\ s = "already_terminated" /\ s # x.status => m.vm = "terminated"
          /\ m.vm # "terminated" => s = x.status
    OBVIOUS
  <2> DEFINE y == [x EXCEPT !.root = r, !.stage = st, !.status = s]
  <2>4. y \in Job /\ y.stage = st /\ y.status = s /\ y.deletion = x.deletion
    BY DEF Job
  <2>5. job' = [job EXCEPT ![w] = y]
    BY <1>1, <1>2, <1>5, <2>1, <2>2, <2>3 DEF Look
  <2>6. m.tag # "foreign" /\ (w \in tagged => m.tag = "in")
    BY <1>2, <1>5 DEF SameSelection, Visible
  <2>7. JobOK(w, y)'
    BY <1>1, <1>2, <1>3, <1>4, <1>5, <2>2, <2>3, <2>4, <2>6 DEF JobOK, Ahead, Acting, Choosing, Gone, world, plan
  <2>8. QED BY <1>3, <1>4, <2>4, <2>5, <2>7, QuietMoves DEF world
<1>6. CASE ~SameSelection(w)
  <2>1. Fail(w) /\ job[w].stage \in Acting
    BY <1>1, <1>3, <1>6 DEF Look, Acting
  <2>2. QED BY <1>3, <1>4, <2>1, FailKeeps DEF world
<1>7. QED BY <1>5, <1>6

\* Reads and calls that fail, or come too late.
LEMMA FailuresKeep ==
  ASSUME TeardownInv, NEW w \in Workers, LookFails(w) \/ CallTooLate(w) \/ ObserveFails(w)
  PROVE  TeardownInv'
<1>1. /\ UNCHANGED <<world, phase, plan, ended, exit, approved, sent, rivals>> /\ Fail(w)
      /\ job[w].stage \in Acting /\ (seen' = seen \/ seen' = [seen EXCEPT ![w] = "foreign"])
  BY DEF LookFails, CallTooLate, ObserveFails, Forget, Acting, history
<1>2. seen' \in [Workers -> {"in", "out", "foreign"}] /\ \A v \in Workers \ {w} : seen'[v] = seen[v]
  BY <1>1 DEF TeardownInv
<1>3. QED BY <1>1, <1>2, FailKeeps DEF world

LEMMA WatchKeeps == ASSUME TeardownInv, NEW w \in Workers, Watch(w) PROVE TeardownInv'
<1>1. PICK x \in Job : x = job[w] /\ JobOK(w, x) /\ job \in [Workers -> Job]
  BY DEF TeardownInv, TypeOK
<1> DEFINE y == [x EXCEPT !.stage = "poll", !.status = "termination_requested", !.polls = 0]
<1>2. y \in Job /\ y.stage = "poll" /\ y.status = "termination_requested" /\ y.deletion = x.deletion
  BY PollsAreCounted DEF Job
<1>3. /\ UNCHANGED <<world, phase, plan, ended, exit, history>> /\ x.stage = "watch"
      /\ job' = [job EXCEPT ![w] = y]
  BY <1>1 DEF Watch, Poll
<1>4. JobOK(w, y)'
  BY <1>1, <1>2, <1>3 DEF JobOK, Ahead, Acting, Choosing, world, plan, history
<1>5. seen' \in [Workers -> {"in", "out", "foreign"}] /\ \A v \in Workers \ {w} : seen'[v] = seen[v]
  BY <1>3 DEF TeardownInv, history
<1>6. QED BY <1>2, <1>3, <1>4, <1>5, QuietMoves DEF world, history
\* One request more for one worker.
LEMMA OneMore ==
  ASSUME NEW s \in [Workers -> 0 .. 2], NEW w \in Workers, s[w] \in {0, 1}
  PROVE  /\ [s EXCEPT ![w] = @ + 1] \in [Workers -> 0 .. 2] /\ [s EXCEPT ![w] = @ + 1][w] = s[w] + 1
         /\ \A v \in Workers \ {w} : [s EXCEPT ![w] = @ + 1][v] = s[v]
<1>1. s[w] + 1 \in 0 .. 2
  OBVIOUS
<1>2. QED BY <1>1

\* A request: accepted, unanswered, or refused, and then perhaps repeated.
LEMMA TerminateKeeps == ASSUME TeardownInv, NEW w \in Workers, Terminate(w) PROVE TeardownInv'
<1>1. PICK x \in Job : x = job[w] /\ JobOK(w, x) /\ job \in [Workers -> Job]
  BY DEF TeardownInv, TypeOK
<1>2. /\ UNCHANGED <<machine, moves, phase, plan, ended, exit, approved, rivals>> /\ x.stage \in {"call", "again"}
      /\ sent' = [sent EXCEPT ![w] = @ + 1] /\ sent \in [Workers -> 0 .. 2]
      /\ IF job'[w].stage = "again" THEN seen' = seen ELSE seen' = [seen EXCEPT ![w] = "foreign"]
  BY <1>1 DEF Terminate, Forget, TeardownInv, TypeOK
<1>3. /\ phase = "execute" /\ w \in candidates /\ sent[w] = (IF x.stage = "call" THEN 0 ELSE 1)
      /\ x.stage = "call" => x.status = "termination_not_requested"
      /\ x.stage = "again" => x.status = "termination_unknown"
  BY <1>1, <1>2 DEF JobOK, Ahead, Acting
<1>4. seen' \in [Workers -> {"in", "out", "foreign"}] /\ \A v \in Workers \ {w} : seen'[v] = seen[v]
  BY <1>2 DEF TeardownInv
<1>5. /\ sent' \in [Workers -> 0 .. 2] /\ sent'[w] \in {1, 2} /\ (x.stage = "call" => sent'[w] = 1)
      /\ \A v \in Workers \ {w} : sent'[v] = sent[v]
  <2>1. sent[w] \in {0, 1} /\ (sent[w] = 0 => sent[w] + 1 = 1) /\ (sent[w] = 1 => sent[w] + 1 = 2)
    BY <1>3
  <2>2. sent' \in [Workers -> 0 .. 2] /\ sent'[w] = sent[w] + 1 /\ \A v \in Workers \ {w} : sent'[v] = sent[v]
    BY <1>2, <2>1, OneMore
  <2>3. QED BY <1>3, <2>1, <2>2
<1>6. ASSUME NEW y \in Job, job' = [job EXCEPT ![w] = y], JobOK(w, y)', wire' \in {wire, wire \cup {w}} PROVE TeardownInv'
  <2>1. wire \subseteq wire' /\ wire' \subseteq Workers
    BY <1>6 DEF TeardownInv, TypeOK
  <2>2. QED BY <1>2, <1>3, <1>4, <1>5, <1>6, <2>1, JobMoves
<1>7. ASSUME NEW s \in {"termination_requested", "termination_unknown"}, Poll(w, s),
             wire' \in {wire, wire \cup {w}}, s = "termination_requested" => w \in wire'
      PROVE  TeardownInv'
  <2> DEFINE y == [x EXCEPT !.stage = "poll", !.status = s, !.polls = 0]
  <2>1. y \in Job /\ y.stage = "poll" /\ y.status = s /\ y.deletion = x.deletion
    BY PollsAreCounted DEF Job
  <2>2. job' = [job EXCEPT ![w] = y]
    BY <1>1, <1>7 DEF Poll
  <2>3. JobOK(w, y)'
    BY <1>1, <1>2, <1>3, <1>7, <2>1 DEF JobOK, Ahead, Acting, Choosing, plan
  <2>4. QED BY <1>6, <1>7, <2>1, <2>2, <2>3
<1>8. ASSUME Refused(w), wire' = wire PROVE TeardownInv'
  <2> DEFINE y == [x EXCEPT !.stage = "done", !.error = TRUE, !.status = "termination_denied"]
  <2>1. y \in Job /\ y.stage = "done" /\ y.status = "termination_denied" /\ y.deletion = x.deletion
    BY DEF Job
  <2>2. job' = [job EXCEPT ![w] = y]
    BY <1>1, <1>8 DEF Refused
  <2>3. JobOK(w, y)'
    BY <1>1, <1>2, <1>3, <1>8, <2>1 DEF JobOK, Ahead, Acting, Choosing, plan
  <2>4. QED BY <1>6, <1>8, <2>1, <2>2, <2>3
<1>9. ASSUME x.stage = "call", wire' \in {wire, wire \cup {w}},
             job' = [job EXCEPT ![w].stage = "again", ![w].status = "termination_unknown"]
      PROVE  TeardownInv'
  <2> DEFINE y == [x EXCEPT !.stage = "again", !.status = "termination_unknown"]
  <2>1. y \in Job /\ y.stage = "again" /\ y.status = "termination_unknown" /\ y.deletion = x.deletion
    BY DEF Job
  <2>2. job' = [job EXCEPT ![w] = y] /\ job'[w] = y
    BY <1>1, <1>9
  <2>3. seen' = seen
    BY <1>2, <2>1, <2>2
  <2>4. JobOK(w, y)'
    BY <1>1, <1>2, <1>3, <1>5, <1>9, <2>1, <2>3 DEF JobOK, Ahead, Acting, Choosing, plan
  <2>5. QED BY <1>6, <1>9, <2>1, <2>2, <2>4
<1>10. QED BY <1>1, <1>7, <1>8, <1>9 DEF Terminate, Unanswered

\* The deadline ends the call before the second request.
LEMMA GiveUpKeeps == ASSUME TeardownInv, NEW w \in Workers, GiveUp(w) PROVE TeardownInv'
<1>1. PICK x \in Job : x = job[w] /\ JobOK(w, x) /\ job \in [Workers -> Job]
  BY DEF TeardownInv, TypeOK
<1> DEFINE y == [x EXCEPT !.stage = "poll", !.status = "termination_unknown", !.polls = 0]
<1>2. y \in Job /\ y.stage = "poll" /\ y.status = "termination_unknown" /\ y.deletion = x.deletion
  BY PollsAreCounted DEF Job
<1>3. /\ UNCHANGED <<world, phase, plan, ended, exit, approved, sent, rivals>> /\ x.stage = "again"
      /\ job' = [job EXCEPT ![w] = y] /\ seen' = [seen EXCEPT ![w] = "foreign"]
  BY <1>1 DEF GiveUp, Poll, Forget
<1>4. JobOK(w, y)'
  BY <1>1, <1>2, <1>3 DEF JobOK, Ahead, Acting, Choosing, world, plan
<1>5. seen' \in [Workers -> {"in", "out", "foreign"}] /\ \A v \in Workers \ {w} : seen'[v] = seen[v]
  BY <1>3 DEF TeardownInv
<1>6. QED BY <1>2, <1>3, <1>4, <1>5, QuietMoves DEF world

LEMMA ObserveKeeps == ASSUME TeardownInv, NEW w \in Workers, Observe(w) PROVE TeardownInv'
<1>1. PICK x \in Job : x = job[w] /\ JobOK(w, x) /\ job \in [Workers -> Job]
  BY DEF TeardownInv, TypeOK
<1>2. /\ UNCHANGED <<world, phase, plan, ended, exit, history>> /\ x.stage = "poll" /\ x.polls < MaxPolls
      /\ x.polls \in 0 .. MaxPolls /\ x.root \in {"none", "kept", "dropped"}
  BY <1>1 DEF Observe, Job
<1>3. PICK n \in 0 .. MaxPolls, r \in {"none", "kept", "dropped"} : n = x.polls + 1 /\ r = MergedRoot(w)
  BY <1>2, PollsAreCounted, MergedRootIs
<1>4. seen' \in [Workers -> {"in", "out", "foreign"}] /\ \A v \in Workers \ {w} : seen'[v] = seen[v]
  BY <1>2 DEF TeardownInv, history
<1>5. CASE job' = [job EXCEPT ![w].polls = @ + 1]
  <2>1. job' = [job EXCEPT ![w] = [x EXCEPT !.root = x.root, !.polls = n]]
    <3>1. x = [stage |-> x.stage, status |-> x.status, root |-> x.root, deletion |-> x.deletion,
               error |-> x.error, polls |-> x.polls]
      BY DEF Job
    <3>2. [x EXCEPT !.polls = n] = [x EXCEPT !.root = x.root, !.polls = n]
      BY <3>1
    <3>3. QED BY <1>1, <1>3, <1>5, <3>2
  <2>2. QED BY <1>1, <1>2, <2>1, GoesOn
<1>6. CASE job' = [job EXCEPT ![w].polls = @ + 1, ![w].root = MergedRoot(w)]
  <2>1. job' = [job EXCEPT ![w] = [x EXCEPT !.root = r, !.polls = n]]
    BY <1>1, <1>3, <1>6
  <2>2. QED BY <1>1, <1>2, <2>1, GoesOn
<1>7. CASE /\ machine[w].vm = "terminated"
           /\ job' = [job EXCEPT ![w].stage = "disk", ![w].polls = 0, ![w].root = MergedRoot(w),
                                 ![w].status = "termination_observed"]
  <2> DEFINE y == [x EXCEPT !.stage = "disk", !.polls = 0, !.root = r, !.status = "termination_observed"]
  <2>1. y \in Job /\ y.stage = "disk" /\ y.status = "termination_observed" /\ y.deletion = x.deletion
    BY PollsAreCounted DEF Job
  <2>2. job' = [job EXCEPT ![w] = y]
    BY <1>1, <1>3, <1>7
  <2>3. JobOK(w, y)'
    BY <1>1, <1>2, <1>7, <2>1 DEF JobOK, Ahead, Acting, Choosing, Gone, world, plan, history
  <2>4. QED BY <1>2, <1>4, <2>1, <2>2, <2>3, QuietMoves DEF world, history
<1>8. CASE Fail(w)
  <2>1. job[w].stage \in Acting
    BY <1>1, <1>2 DEF Acting
  <2>2. QED BY <1>2, <1>4, <1>8, <2>1, FailKeeps DEF world, history
<1>9. QED BY <1>5, <1>6, <1>7, <1>8 DEF Observe

LEMMA DiskKeeps ==
  ASSUME TeardownInv, NEW w \in Workers, WithoutLookup(w) \/ Lookup(w) \/ LookupFails(w)
  PROVE  TeardownInv'
<1>1. UNCHANGED <<world, phase, plan, ended, exit, history>> /\ job[w].stage = "disk"
  BY DEF WithoutLookup, Lookup, LookupFails
<1>2. CASE \E d \in {"retained", "unavailable"} : Settle(w, d)
  BY <1>1, <1>2, SettleKeeps
<1>3. CASE Settle(w, "deleted") /\ ~machine[w].disk
  BY <1>1, <1>3, SettleKeeps
<1>4. CASE job[w].polls < MaxPolls /\ job' = [job EXCEPT ![w].polls = @ + 1]
  <2>1. PICK x \in Job : x = job[w] /\ job \in [Workers -> Job]
    BY DEF TeardownInv, TypeOK
  <2>2. x.root \in {"none", "kept", "dropped"} /\ x.polls \in 0 .. MaxPolls
    BY DEF Job
  <2>3. PICK n \in 0 .. MaxPolls : n = x.polls + 1
    BY <1>4, <2>1, <2>2, PollsAreCounted
  <2>4. x = [stage |-> x.stage, status |-> x.status, root |-> x.root, deletion |-> x.deletion,
             error |-> x.error, polls |-> x.polls]
    BY DEF Job
  <2>5. [x EXCEPT !.polls = n] = [x EXCEPT !.root = x.root, !.polls = n]
    BY <2>4
  <2>6. job' = [job EXCEPT ![w] = [x EXCEPT !.root = x.root, !.polls = n]]
    BY <1>4, <2>1, <2>3, <2>5
  <2>7. QED BY <1>1, <2>1, <2>2, <2>6, GoesOn
<1>5. QED BY <1>2, <1>3, <1>4 DEF WithoutLookup, Lookup, LookupFails

LEMMA GoroutineKeeps == ASSUME TeardownInv, Goroutine PROVE TeardownInv'
<1>1. PICK w \in Workers :
        \/ Take(w) \/ Look(w) \/ LookFails(w) \/ CallTooLate(w) \/ Watch(w)
        \/ Terminate(w) \/ GiveUp(w) \/ Observe(w) \/ ObserveFails(w)
        \/ WithoutLookup(w) \/ Lookup(w) \/ LookupFails(w)
  BY DEF Goroutine
<1>2. CASE Take(w) \/ Look(w) \/ Watch(w) \/ Terminate(w) \/ GiveUp(w) \/ Observe(w)
  BY <1>2, TakeKeeps, LookKeeps, WatchKeeps, TerminateKeeps, GiveUpKeeps, ObserveKeeps
<1>3. CASE LookFails(w) \/ CallTooLate(w) \/ ObserveFails(w)
  BY <1>3, FailuresKeep
<1>4. CASE WithoutLookup(w) \/ Lookup(w) \/ LookupFails(w)
  BY <1>4, DiskKeeps
<1>5. QED BY <1>1, <1>2, <1>3, <1>4
----------------------------------------------------------------------------
(* The command *)

\* While the command chooses, or once all are done, no goroutine is at work.
LEMMA JobsStand ==
  ASSUME TeardownInv, UNCHANGED <<world, sent, seen>>, phase' \in Choosing => phase \in Choosing,
         \A w \in Workers : job[w].stage \notin Acting,
         \/ job' = job
         \/ phase \in Choosing /\ \E ws \in SUBSET Workers : Chosen(ws)
  PROVE  job' \in [Workers -> Job] /\ \A w \in Workers : JobOK(w, job[w])'
<1>1. ASSUME NEW w \in Workers
      PROVE  \E y \in Job : y = job'[w] /\ JobOK(w, y)'
  <2>1. PICK x \in Job : x = job[w] /\ JobOK(w, x) /\ x.stage \notin Acting
    BY DEF TeardownInv, TypeOK
  <2>2. CASE job'[w] = x
    <3>1. JobOK(w, x)'
      BY <2>1 DEF JobOK, Acting, world
    <3>2. QED BY <2>2, <3>1
  <2>3. CASE phase \in Choosing /\ job'[w] = [x EXCEPT !.stage = "queued", !.root = MergedRoot(w)]
    <3>1. PICK r \in {"none", "kept", "dropped"} : r = MergedRoot(w)
      BY MergedRootIs
    <3> DEFINE y == [x EXCEPT !.stage = "queued", !.root = r]
    <3>2. y \in Job /\ y.stage = "queued" /\ y.status = x.status /\ y.deletion = x.deletion
      BY DEF Job
    <3>3. x.status = "termination_not_requested"
      BY <2>1, <2>3 DEF JobOK, Ahead
    <3>4. JobOK(w, y)'
      BY <2>1, <2>3, <3>2, <3>3 DEF JobOK, Ahead, Acting, Choosing, world
    <3>5. QED BY <2>3, <3>1, <3>2, <3>4
  <2>4. QED BY <2>1, <2>2, <2>3 DEF Chosen
<1>2. job' = [w \in Workers |-> job'[w]]
  BY DEF TeardownInv, TypeOK, Chosen
<1>3. QED BY <1>1, <1>2

LEMMA ChoosingIsQuiet ==
  ASSUME TeardownInv, phase # "execute", NEW w \in Workers PROVE job[w].stage \notin Acting
BY DEF TeardownInv, JobOK

\* The plan changes; the goroutines have nothing to do with it.
LEMMA PlanMoves ==
  ASSUME TeardownInv, UNCHANGED <<world, ask, ended, sent, seen>>, phase' \in Choosing => phase \in Choosing,
         phase' \in Choosing \cup {"execute", "done"},
         \A w \in Workers : job[w].stage \notin Acting,
         \/ job' = job
         \/ phase \in Choosing /\ \E ws \in SUBSET Workers : Chosen(ws),
         left' \subseteq left, candidates' \subseteq Workers, tagged' \subseteq Workers, rivals' \subseteq Workers,
         failed' \in BOOLEAN, approved' \in BOOLEAN, exit' \in {-1, 0, 1, 2, 3, 4}, SelectionOK', ExitOK'
  PROVE  TeardownInv'
<1>1. job' \in [Workers -> Job] /\ \A w \in Workers : JobOK(w, job[w])'
  BY JobsStand
<1>2. TypeOK'
  BY <1>1 DEF TeardownInv, TypeOK, Choosing, world
<1>3. QED BY <1>1, <1>2 DEF TeardownInv, world

LEMMA ScanKeeps == ASSUME TeardownInv, Scan PROVE TeardownInv'
<1> DEFINE found == IF ask.kind = "group" THEN {w \in Visible : machine[w].tag = "in"} ELSE Visible
<1>1. /\ phase = "scan" /\ candidates' = found /\ Chosen(found)
      /\ tagged' = IF ask.kind = "group" THEN found ELSE {}
      /\ phase' = IF ask.kind = "group" THEN "execute" ELSE "confirm"
      /\ UNCHANGED <<world, ask, left, failed, ended, exit, history>>
  BY DEF Scan
<1>2. found \in SUBSET Workers
  BY DEF Visible
<1>3. \A w \in Workers : job[w].stage \notin Acting
  BY <1>1, ChoosingIsQuiet
<1>4. ask.kind # "targets" /\ NothingSent /\ ~approved /\ exit = -1 /\ ask.kind \in {"targets", "group", "all", "all --yes"}
  BY <1>1, TeardownAssumption DEF TeardownInv, TypeOK, SelectionOK, ExitOK, Choosing
<1>5. SelectionOK'
  <2>1. CASE ask.kind = "group"
    BY <1>1, <1>4, <2>1 DEF SelectionOK, All, Choosing, history, NothingSent
  <2>2. CASE ask.kind # "group"
    BY <1>1, <1>4, <2>2 DEF SelectionOK, All, Choosing, history, NothingSent
  <2>3. QED BY <2>1, <2>2
<1>6. ExitOK'
  <2>1. exit' = -1 /\ phase' # "done"
    BY <1>1, <1>4
  <2>2. QED BY <2>1 DEF ExitOK
<1>7. phase' \in Choosing \cup {"execute", "done"} /\ phase \in Choosing /\ tagged' \subseteq Workers
  BY <1>1, <1>2 DEF Choosing
<1>8. \E ws \in SUBSET Workers : Chosen(ws)
  BY <1>1, <1>2
<1>9. /\ candidates' \subseteq Workers /\ left' \subseteq left /\ rivals' \subseteq Workers
      /\ failed' \in BOOLEAN /\ approved' \in BOOLEAN /\ exit' \in {-1, 0, 1, 2, 3, 4}
  BY <1>1, <1>2 DEF TeardownInv, TypeOK, history
<1>10. UNCHANGED <<world, ask, ended, sent, seen>>
  BY <1>1 DEF history
<1> HIDE DEF found
<1>11. QED BY <1>3, <1>5, <1>6, <1>7, <1>8, <1>9, <1>10, PlanMoves
LEMMA ScanFailsKeeps == ASSUME TeardownInv, ScanFails PROVE TeardownInv'
<1>1. /\ phase = "scan" /\ phase' = "done" /\ exit' \in {1, 4} /\ failed' = TRUE
      /\ UNCHANGED <<world, ask, left, candidates, tagged, job, ended, history>>
  BY DEF ScanFails, Leave
<1>2. \A w \in Workers : job[w].stage \notin Acting
  BY <1>1, ChoosingIsQuiet
<1>3. SelectionOK' /\ ExitOK'
  BY <1>1 DEF TeardownInv, SelectionOK, ExitOK, Choosing, NothingSent, history
<1>4. QED BY <1>1, <1>2, <1>3, PlanMoves DEF TeardownInv, TypeOK, Choosing, history

\* A target that matches several instances, or none, selects nothing.
LEMMA ResolveKeeps == ASSUME TeardownInv, NEW t \in 0 .. N, Resolve(t) PROVE TeardownInv'
<1>1. /\ phase = "resolve" /\ phase' = "resolve" /\ t \in left /\ left' = left \ {t}
      /\ UNCHANGED <<world, ask, ended, exit, approved, sent, seen>>
  BY DEF Resolve
<1>2. \A w \in Workers : job[w].stage \notin Acting
  BY <1>1, ChoosingIsQuiet
<1>3. PICK ms \in SUBSET Workers : ms = Matches(t) /\ (t # Name => ms \subseteq {t})
  <2> DEFINE found == IF t = Name THEN {w \in Visible : machine[w].tag = "in"} ELSE {t} \cap Visible
  <2>1. found \in SUBSET Workers /\ (t # Name => found \subseteq {t})
    BY DEF Visible
  <2>2. Active(found) \subseteq found
    BY DEF Active
  <2>3. Matches(t) = Active(found) \/ Matches(t) = found
    BY DEF Matches
  <2> HIDE DEF found
  <2>4. QED BY <2>1, <2>2, <2>3
<1>4. IsFiniteSet(ms)
  <2>1. IsFiniteSet(Workers)
    <3>1. N \in Nat
      BY TeardownAssumption
    <3>2. 1 \in Int /\ N \in Int
      BY <3>1
    <3>3. IsFiniteSet(1 .. N)
      BY <3>2, FS_Interval
    <3>4. QED BY <3>3 DEF Workers
  <2>2. QED BY <2>1, FS_Subset
<1>5. rivals' = IF t = Name THEN ms ELSE rivals
  BY <1>3 DEF Resolve
<1>6. ask.kind = "targets" /\ NothingSent /\ ~approved /\ exit = -1 /\ left \subseteq ask.targets
  BY <1>1 DEF TeardownInv, TypeOK, SelectionOK, ExitOK, Choosing
<1>7. CASE Cardinality(ms) = 1
  <2>1. PICK x : ms = {x}
    BY <1>4, <1>7, FS_Singleton
  <2>2. /\ candidates' = candidates \cup ms /\ Chosen(ms) /\ failed' = failed
        /\ tagged' = IF t = Name THEN tagged \cup ms ELSE tagged
    BY <1>3, <1>7 DEF Resolve
  <2>3. Name \in left' => candidates' \subseteq ask.targets
    BY <1>1, <1>3, <1>6, <2>2 DEF TeardownInv, SelectionOK
  <2>4. ASSUME NEW w \in candidates' \ ask.targets PROVE w \in tagged' /\ rivals' = {w}
    <3>1. CASE t = Name
      <4>1. candidates \subseteq ask.targets
        BY <1>1, <1>6, <3>1 DEF TeardownInv, SelectionOK
      <4>2. QED BY <1>5, <2>1, <2>2, <3>1, <4>1
    <3>2. CASE t # Name
      <4>1. w \in candidates
        BY <1>1, <1>3, <1>6, <2>2, <3>2
      <4>2. QED BY <1>5, <1>6, <2>2, <3>2, <4>1 DEF TeardownInv, SelectionOK
    <3>3. QED BY <3>1, <3>2
  <2>5. SelectionOK'
    BY <1>1, <1>6, <2>3, <2>4 DEF SelectionOK, All, Choosing, NothingSent
  <2>6. ExitOK'
    BY <1>1, <1>6 DEF ExitOK
  <2>7. /\ candidates' \subseteq Workers /\ tagged' \subseteq Workers /\ rivals' \subseteq Workers
        /\ failed' \in BOOLEAN /\ approved' \in BOOLEAN /\ exit' \in {-1, 0, 1, 2, 3, 4}
    BY <1>1, <1>5, <2>2 DEF TeardownInv, TypeOK
  <2>8. QED BY <1>1, <1>2, <2>2, <2>5, <2>6, <2>7, PlanMoves DEF Choosing
<1>8. CASE Cardinality(ms) # 1
  <2>1. failed' = TRUE /\ UNCHANGED <<candidates, tagged, job>>
    BY <1>3, <1>8 DEF Resolve
  <2>2. ASSUME NEW w \in candidates \ ask.targets PROVE w \in tagged /\ rivals' = {w}
    BY <1>1, <1>5, <1>6, <2>1 DEF TeardownInv, SelectionOK
  <2>3. SelectionOK' /\ ExitOK'
    BY <1>1, <1>6, <2>1, <2>2 DEF TeardownInv, SelectionOK, ExitOK, All, Choosing, NothingSent
  <2>4. /\ candidates' \subseteq Workers /\ tagged' \subseteq Workers /\ rivals' \subseteq Workers
        /\ failed' \in BOOLEAN /\ approved' \in BOOLEAN /\ exit' \in {-1, 0, 1, 2, 3, 4}
    BY <1>1, <1>5, <2>1 DEF TeardownInv, TypeOK
  <2>5. QED BY <1>1, <1>2, <2>1, <2>3, <2>4, PlanMoves DEF Choosing
<1>9. QED BY <1>7, <1>8

LEMMA ResolveFailsKeeps == ASSUME TeardownInv, NEW t \in 0 .. N, ResolveFails(t) PROVE TeardownInv'
<1>1. /\ phase = "resolve" /\ t \in left /\ left' = left \ {t} /\ failed' = TRUE
      /\ UNCHANGED <<world, phase, ask, candidates, tagged, job, ended, exit, history>>
  BY DEF ResolveFails
<1>2. \A w \in Workers : job[w].stage \notin Acting
  BY <1>1, ChoosingIsQuiet
<1>3. SelectionOK' /\ ExitOK'
  BY <1>1 DEF TeardownInv, SelectionOK, ExitOK, Choosing, NothingSent, history
<1>4. QED BY <1>1, <1>2, <1>3, PlanMoves DEF TeardownInv, TypeOK, Choosing, history

LEMMA ResolvedKeeps == ASSUME TeardownInv, Resolved PROVE TeardownInv'
<1>1. /\ phase = "resolve" /\ left = {}
      /\ \/ candidates' = {} /\ phase' = "done" /\ exit' = 4
         \/ candidates' = candidates /\ phase' = "execute" /\ exit' = exit
      /\ UNCHANGED <<world, ask, left, tagged, failed, job, ended, history>>
  BY DEF Resolved, Leave
<1>2. \A w \in Workers : job[w].stage \notin Acting
  BY <1>1, ChoosingIsQuiet
<1>3. ask.kind = "targets" /\ exit = -1
  BY <1>1 DEF TeardownInv, SelectionOK, ExitOK
<1>4. SelectionOK' /\ ExitOK'
  BY <1>1, <1>3 DEF TeardownInv, SelectionOK, ExitOK, All, Choosing, history
<1>5. QED BY <1>1, <1>2, <1>4, PlanMoves DEF TeardownInv, TypeOK, Choosing, history

LEMMA ConfirmKeeps == ASSUME TeardownInv, Approve \/ Decline \/ ConfirmFails PROVE TeardownInv'
<1>1. /\ phase = "confirm"
      /\ \/ approved' = TRUE /\ phase' = "execute" /\ exit' = exit
         \/ approved' = approved /\ phase' = "done" /\ (exit' \in {1, 2, 4} \/ (exit' = 0 /\ ask.kind = "all"))
      /\ UNCHANGED <<world, plan, job, ended, sent, seen, rivals>>
  BY DEF Approve, Decline, ConfirmFails, Leave, history
<1>2. \A w \in Workers : job[w].stage \notin Acting
  BY <1>1, ChoosingIsQuiet
<1>3. ask.kind \in All /\ exit = -1 /\ NothingSent /\ ~approved
  BY <1>1 DEF TeardownInv, SelectionOK, ExitOK, Choosing, NothingSent
<1>4. SelectionOK'
  BY <1>1, <1>3 DEF TeardownInv, SelectionOK, All, Choosing, plan
<1>5. ExitOK'
  <2>1. CASE phase' = "execute" /\ exit' = exit
    BY <1>3, <2>1 DEF ExitOK
  <2>2. CASE approved' = approved /\ phase' = "done" /\ exit' \in {1, 2, 4}
    BY <2>2 DEF ExitOK
  <2>3. CASE approved' = approved /\ phase' = "done" /\ exit' = 0 /\ ask.kind = "all"
    BY <1>1, <1>3, <2>3 DEF ExitOK, NothingSent, plan
  <2>4. QED BY <1>1, <2>1, <2>2, <2>3
<1>6. QED BY <1>1, <1>2, <1>4, <1>5, PlanMoves DEF TeardownInv, TypeOK, Choosing, plan

\* The exit code is taken from what all goroutines have claimed.
LEMMA FinishKeeps == ASSUME TeardownInv, Finish PROVE TeardownInv'
<1>1. /\ phase = "execute" /\ \A w \in candidates : job[w].stage = "done"
      /\ phase' = "done" /\ exit' = ExitCode /\ UNCHANGED <<world, plan, job, ended, history>>
  BY DEF Finish, Leave
<1>2. \A w \in Workers : job[w].stage \notin Acting
  BY <1>1 DEF TeardownInv, JobOK, Acting
<1>3. candidates \subseteq Workers
  BY DEF TeardownInv, TypeOK
<1>4. ASSUME NEW w \in Cleaned PROVE w \in candidates /\ machine[w].vm \in Gone /\ ~machine[w].disk
  BY <1>3 DEF Cleaned, Terminated, TeardownInv, JobOK
<1>5. exit' \in {0, 1, 3, 4} /\ (exit' = 0 => Cleaned = candidates) /\ (exit' = 3 => Cleaned # {})
  BY <1>1 DEF ExitCode
<1>6. SelectionOK'
  BY <1>1 DEF TeardownInv, SelectionOK, Choosing, plan, history
<1>7. ExitOK'
  BY <1>1, <1>4, <1>5 DEF ExitOK, world, plan, history
<1>8. QED BY <1>1, <1>2, <1>5, <1>6, <1>7, PlanMoves DEF TeardownInv, TypeOK, Choosing, plan, history

LEMMA CommandKeeps == ASSUME TeardownInv, Command PROVE TeardownInv'
<1>1. CASE Scan \/ ScanFails \/ Resolved
  BY <1>1, ScanKeeps, ScanFailsKeeps, ResolvedKeeps
<1>2. CASE Approve \/ Decline \/ ConfirmFails
  BY <1>2, ConfirmKeeps
<1>3. CASE \E t \in 0 .. N : Resolve(t) \/ ResolveFails(t)
  BY <1>3, ResolveKeeps, ResolveFailsKeeps
<1>4. CASE Finish
  BY <1>4, FinishKeeps
<1>5. QED BY <1>1, <1>2, <1>3, <1>4 DEF Command
----------------------------------------------------------------------------
(* The theorems *)

LEMMA InitIsSafe == Init => TeardownInv
<1> SUFFICES ASSUME Init PROVE TeardownInv
  OBVIOUS
<1>1. NewJob \in Job
  <2>1. MaxPolls \in Nat
    BY TeardownAssumption
  <2>2. 0 \in 0 .. MaxPolls
    BY <2>1
  <2>3. QED BY <2>2 DEF NewJob, Job
<1>2. TypeOK /\ seen \in [Workers -> {"in", "out", "foreign"}]
  <2>1. MaxMoves \in Nat
    BY TeardownAssumption
  <2>2. moves \in 0 .. MaxMoves
    BY <2>1 DEF Init
  <2>3. machine \in [Workers -> Machine]
    BY TeardownAssumption DEF Init
  <2>4. job \in [Workers -> Job]
    BY <1>1 DEF Init
  <2>5. phase \in {"scan", "resolve", "confirm", "execute", "done"}
    BY DEF Init
  <2>6. sent \in [Workers -> 0 .. 2]
    BY DEF Init
  <2>7. /\ wire \subseteq Workers /\ ask \in Asked /\ left \subseteq ask.targets
        /\ candidates \subseteq Workers /\ tagged \subseteq Workers /\ exit \in {-1, 0, 1, 2, 3, 4}
        /\ {failed, ended, approved} \subseteq BOOLEAN /\ rivals \subseteq Workers
        /\ seen \in [Workers -> {"in", "out", "foreign"}]
    BY DEF Init
  <2>8. QED BY <2>2, <2>3, <2>4, <2>5, <2>6, <2>7 DEF TypeOK
<1>3. \A w \in Workers : JobOK(w, job[w])
  BY DEF Init, NewJob, JobOK, Acting, Ahead
<1>4. phase \in {"scan", "resolve"} /\ (phase = "resolve" <=> ask.kind = "targets")
  BY DEF Init
<1>5. SelectionOK
  BY <1>4 DEF Init, SelectionOK, Choosing, NothingSent
<1>6. ExitOK
  BY <1>4 DEF Init, ExitOK
<1>7. QED BY <1>2, <1>3, <1>5, <1>6 DEF TeardownInv

LEMMA StepKeeps == TeardownInv /\ [Next]_vars => TeardownInv'
<1> SUFFICES ASSUME TeardownInv, [Next]_vars PROVE TeardownInv'
  OBVIOUS
<1>1. CASE Environment
  BY <1>1, EnvironmentKeeps
<1>2. CASE Command
  BY <1>2, CommandKeeps
<1>3. CASE Goroutine
  BY <1>3, GoroutineKeeps
<1>4. CASE Expire \/ UNCHANGED vars
  <2>1. UNCHANGED <<machine, wire, moves, phase, plan, job, exit, history>>
    BY <1>4 DEF Expire, vars, world
  <2>2. machine \in [Workers -> Machine] /\ ended \in BOOLEAN /\ moves \in 0 .. MaxMoves
    BY DEF TeardownInv, TypeOK
  <2>3. ended' \in BOOLEAN
    BY <1>4, <2>2 DEF Expire, vars
  <2>4. QED BY <2>1, <2>2, <2>3, WorldMoves
<1>5. QED BY <1>1, <1>2, <1>3, <1>4 DEF Next

(* Whatever EC2 answers and others change, every worker's part of the outcome *)
(* agrees with the phase, the frozen selection and what has been sent.        *)
THEOREM TeardownIsConsistent == Spec => []TeardownInv
BY InitIsSafe, StepKeeps, PTL DEF Spec

(* What the outcome reports is so in EC2: terminations and deletions are real, *)
(* accepted requests are obeyed or will be, unasked workers were not asked     *)
(* for, and success means that every selected worker and its disk are gone.    *)
THEOREM TheResultIsTrue == Spec => []ResultIsTrue
<1>1. TeardownInv => ResultIsTrue
  <2> SUFFICES ASSUME TeardownInv PROVE ResultIsTrue
    OBVIOUS
  <2>1. TypeOK /\ ExitOK /\ \A w \in Workers : JobOK(w, job[w])
    BY DEF TeardownInv
  <2>2. ASSUME NEW w \in Workers
        PROVE  /\ Terminated(w) => machine[w].vm \in Gone
               /\ job[w].deletion = "deleted" => ~machine[w].disk
               /\ job[w].status = "termination_requested" => w \in wire \/ machine[w].vm # "running"
               /\ job[w].status = "termination_not_requested" => sent[w] = 0
    BY <2>1 DEF JobOK, Terminated
  <2>3. /\ exit = 0 => \/ phase = "done" /\ ask.kind = "all" /\ ~approved /\ \A w \in Workers : sent[w] = 0
                       \/ \A w \in candidates : machine[w].vm \in Gone /\ ~machine[w].disk
        /\ exit = 3 => \E w \in candidates : ~machine[w].disk
    BY <2>1 DEF ExitOK, NothingSent
  <2>4. QED BY <2>1, <2>2, <2>3 DEF ResultIsTrue
<1>2. QED BY <1>1, TeardownIsConsistent, PTL

\* Only a goroutine in front of its call sends one, and it sends its own.
LEMMA OnlyTerminateCalls ==
  ASSUME TeardownInv, [Next]_vars, NEW w \in Workers, sent'[w] # sent[w]
  PROVE  Terminate(w)
<1>1. CASE Environment \/ Expire \/ UNCHANGED vars
  BY <1>1 DEF Environment, Expire, vars, history
<1>2. CASE Command
  BY <1>2 DEF Command, Scan, ScanFails, Resolved, Approve, Decline, ConfirmFails, Resolve, ResolveFails,
              Finish, history
<1>3. CASE Goroutine
  <2>1. PICK v \in Workers :
          \/ Take(v) \/ Look(v) \/ LookFails(v) \/ CallTooLate(v) \/ Watch(v)
          \/ Terminate(v) \/ GiveUp(v) \/ Observe(v) \/ ObserveFails(v)
          \/ WithoutLookup(v) \/ Lookup(v) \/ LookupFails(v)
    BY <1>3 DEF Goroutine
  <2>2. Terminate(v)
    BY <2>1 DEF Take, Look, LookFails, CallTooLate, Watch, GiveUp, Observe, ObserveFails, WithoutLookup, Lookup,
                LookupFails, history
  <2>3. sent' = [sent EXCEPT ![v] = @ + 1] /\ sent \in [Workers -> 0 .. 2]
    BY <2>2 DEF Terminate, TeardownInv, TypeOK
  <2>4. QED BY <2>1, <2>2, <2>3
<1>4. QED BY <1>1, <1>2, <1>3 DEF Next

(* A worker is terminated only as part of the frozen selection, with consent   *)
(* when everything was selected, seen in scope and, when its name or group     *)
(* chose it, still carrying it, only if no other live worker had the name, and *)
(* a second time only if the first request was not answered.                   *)
THEOREM SelectedAloneAreTerminated == Spec => OnlySelectedAreTerminated
<1> DEFINE Step == \A w \in Workers : sent'[w] # sent[w] =>
          /\ w \in candidates
          /\ job[w].status \in {"termination_not_requested", "termination_unknown"}
          /\ ask.kind \in {"all", "all --yes"} => approved
          /\ seen[w] # "foreign"
          /\ ask.kind = "group" => seen[w] = "in"
          /\ (ask.kind = "targets" /\ w \notin ask.targets)
                => seen[w] = "in" /\ rivals = {w}
<1>1. TeardownInv /\ [Next]_vars => Step
  <2> SUFFICES ASSUME TeardownInv, [Next]_vars, NEW w \in Workers, sent'[w] # sent[w]
               PROVE  /\ w \in candidates
                      /\ job[w].status \in {"termination_not_requested", "termination_unknown"}
                      /\ ask.kind \in {"all", "all --yes"} => approved
                      /\ seen[w] # "foreign"
                      /\ ask.kind = "group" => seen[w] = "in"
                      /\ (ask.kind = "targets" /\ w \notin ask.targets)
                            => seen[w] = "in" /\ rivals = {w}
    OBVIOUS
  <2>1. Terminate(w)
    BY OnlyTerminateCalls
  <2>2. job[w].stage \in {"call", "again"} /\ JobOK(w, job[w]) /\ SelectionOK
    BY <2>1 DEF Terminate, TeardownInv
  <2>3. /\ phase = "execute" /\ w \in candidates /\ seen[w] # "foreign" /\ (w \in tagged => seen[w] = "in")
        /\ job[w].status \in {"termination_not_requested", "termination_unknown"}
    BY <2>2 DEF JobOK, Acting, Ahead
  <2>4. QED BY <2>2, <2>3 DEF SelectionOK, All
<1>2. TeardownInv /\ [Next]_vars => [Step]_vars
  BY <1>1
<1> HIDE DEF Step
<1>3. Spec => [][Step]_vars
  BY <1>2, TeardownIsConsistent, PTL DEF Spec
<1>4. QED BY <1>3 DEF Step, OnlySelectedAreTerminated

----------------------------------------------------------------------------
(* The proxy: who changes what *)

LEMMA ProxyStarts == ProxyInit => ProxyInv
<1> SUFFICES ASSUME ProxyInit PROVE ProxyInv
  OBVIOUS
<1> USE DEF ProxyInit
<1>1. SessionIsNotLost
  BY DEF SessionIsNotLost, Alive
<1>2. ProxyTypeOK
  BY ProxyAssumption DEF ProxyTypeOK, Patience
<1>3. StatusIsTheWorkers /\ NothingLeftRunning /\ SuccessWasConnected /\ OnlyTheConnection
  BY DEF StatusIsTheWorkers, NothingLeftRunning, SuccessWasConnected, OnlyTheConnection, Alive
<1>4. WorkerInv
  BY DEF WorkerInv, Steps, Alive
<1>5. CopyInv
  BY ProxyAssumption DEF CopyInv
<1>6. ClockInv
  BY ProxyAssumption DEF ClockInv
<1> QED BY <1>1, <1>2, <1>3, <1>4, <1>5, <1>6 DEF ProxyInv, CallerSeesTheTruth

\* What the steps of the worker leave alone.
LEMMA WorkerLeaves == ASSUME Worker
  PROVE  /\ UNCHANGED <<sup, signalled, since, status, ctx, setup, slow, closed, killer, held, cleaning, wrote, items>>
         /\ Alive
         /\ StartPlugin \/ UNCHANGED copying
         /\ UNCHANGED <<skipped, out>>
         /\ TerminateSession \/ UNCHANGED reported
         /\ Prepare \/ UNCHANGED helper
         /\ StartSession \/ TerminateSession \/ UNCHANGED session
         /\ StartSession \/ UNCHANGED known
BY DEF Worker, Prepare, StartSession, StartPlugin, Select, Established, Abandon, Drain, Wait, WaitFails,
       Deferred, TerminateSession, Exit, theRest, supervisor, copy, pluginVars, fate, Alive

\* Where a step of the worker leads.
LEMMA WorkerGoes == ASSUME Worker
  PROVE  \/ pc = "prepare" /\ pc' \in {"start", "deferred"} /\ (pc' = "start" => ~ctx)
         \/ pc = "start" /\ pc' \in {"plugin", "deferred"}
         \/ pc = "plugin" /\ pc' \in {"select", "deferred"}
         \/ pc \in {"select", "established"} /\ pc' \in {"wait", "established", "abandon", "drain"}
         \/ pc = "abandon" /\ pc' = "deferred"
         \/ pc = "drain" /\ pc' = "wait"
         \/ pc = "wait" /\ pc' = "deferred"
         \/ pc = "deferred" /\ pc' \in {"terminate", "exit"}
         \/ pc = "terminate" /\ pc' = "exit"
         \/ pc = "exit" /\ pc' = "gone"
<1>1. CASE Prepare \/ StartSession \/ StartPlugin
  BY <1>1 DEF Prepare, StartSession, StartPlugin, Returns, Failure, SetupDone
<1>2. CASE Select \/ Established \/ Abandon \/ Drain
  BY <1>2 DEF Select, Established, Abandon, Drain, Returns
<1>3. CASE Wait \/ WaitFails \/ Deferred \/ TerminateSession \/ Exit
  BY <1>3 DEF Wait, WaitFails, Deferred, TerminateSession, Exit, Returns
<1> QED BY <1>1, <1>2, <1>3 DEF Worker

----------------------------------------------------------------------------
(* The clocks *)

LEMMA NaturalSum == ASSUME NEW a \in Nat, NEW b \in Nat PROVE a + b \in Nat
OBVIOUS

LEMMA OneSecond ==
  ASSUME NEW a \in Nat, NEW b \in Nat, NEW c \in Nat, NEW d \in Nat, a <= b + 1, b <= c, d = c + 1
  PROVE  a <= d
OBVIOUS

LEMMA ClockKept == ASSUME ProxyInv, ProxyNext PROVE ClockInv'
<1>1. CASE Worker
  <2>1. /\ UNCHANGED <<since, slow, cleaning, signalled, ctx, held>> /\ Alive
        /\ StartSession \/ UNCHANGED known
    BY <1>1, WorkerLeaves
  <2>2. ~signalled \/ ctx
    BY <2>1 DEF ProxyInv, ClockInv
  <2>3. Alive' /\ (pc' = "start" \/ known') /\ ~held => since <= slow + cleaning
    <3>1. CASE StartSession
      BY <3>1 DEF StartSession, ProxyInv, ClockInv, Alive
    <3>2. CASE pc' = "start"
      <4>1. pc = "prepare" /\ ~ctx
        BY <1>1, <3>2, WorkerGoes
      <4>2. since = 0 /\ slow \in Nat /\ cleaning \in Nat
        BY <2>2, <4>1, ProxyAssumption DEF ProxyInv, ClockInv
      <4> QED BY <4>2
    <3>3. CASE known' = known /\ pc' # "start"
      BY <2>1, <3>3 DEF ProxyInv, ClockInv
    <3> QED BY <2>1, <3>1, <3>2, <3>3
  <2> QED BY <2>1, <2>2, <2>3 DEF ProxyInv, ClockInv
<1>2. CASE Skip \/ Write \/ WriteFails \/ CopyEnds \/ Reap \/ PluginWrites \/ PluginEnds \/ SetupEnds \/ ReaderLeaves
  <2>1. UNCHANGED <<since, slow, cleaning, signalled, ctx, known, pc, held>>
    BY <1>2 DEF Skip, Write, WriteFails, CopyEnds, Reap, PluginWrites, PluginEnds, SetupEnds, ReaderLeaves,
                notCopy, supervisor, worker, fate
  <2> QED BY <2>1 DEF ProxyInv, ClockInv, Alive
<1>3. CASE ForceKill \/ WorkerKilled \/ PipeBreaks
  <2>1. UNCHANGED <<since, slow, cleaning, signalled, ctx>> /\ ~Alive'
    BY <1>3 DEF ForceKill, WorkerKilled, PipeBreaks, Dies, supervisor, Alive
  <2> QED BY <2>1 DEF ProxyInv, ClockInv
<1>4. CASE Interrupt \/ SupervisorKilled
  <2>1. UNCHANGED <<since, slow, cleaning, known, pc, held>> /\ ctx' = (ctx \/ Alive)
        /\ (signalled => signalled')
    BY <1>4 DEF Interrupt, SupervisorKilled, worker, fate
  <2>2. ~signalled' => since' = 0
    BY <2>1 DEF ProxyInv, ClockInv
  <2>3. Alive' => ctx'
    BY <2>1 DEF Alive
  <2> QED BY <2>1, <2>2, <2>3 DEF ProxyInv, ClockInv, Alive
<1>5. CASE Tick
  <2>1. /\ UNCHANGED <<signalled, ctx, known, pc>>
        /\ since' = IF signalled THEN since + 1 ELSE since
        /\ \/ pc = "terminate" /\ cleaning < CleanupTime /\ cleaning' = cleaning + 1 /\ slow' = slow
           \/ pc = "prepare" /\ slow' = slow /\ cleaning' = cleaning
           \/ slow < Slack /\ slow' = slow + 1 /\ cleaning' = cleaning
           \/ held' /\ slow' = slow /\ cleaning' = cleaning
        /\ held => held'
    BY <1>5 DEF Tick
  <2>2. since \in Nat /\ slow \in 0..Slack /\ cleaning \in 0..CleanupTime /\ Slack \in Nat /\ CleanupTime \in Nat
    BY ProxyAssumption DEF ProxyInv, ClockInv
  <2>3. since' \in Nat /\ slow' \in 0..Slack /\ cleaning' \in 0..CleanupTime
    BY <2>1, <2>2
  <2>4. ~signalled' => since' = 0
    BY <2>1 DEF ProxyInv, ClockInv
  <2>5. Alive' /\ (pc' = "start" \/ known') /\ ~held' => since' <= slow' + cleaning'
    <3>1. (pc # "prepare" /\ ~held') => ((cleaning' = cleaning + 1 /\ slow' = slow)
                                         \/ (slow' = slow + 1 /\ cleaning' = cleaning))
      BY <2>1
    <3>2. since' <= since + 1
      BY <2>1, <2>2
    <3>3. pc = "prepare" => ~known
      BY DEF ProxyInv, WorkerInv
    <3>4. Alive /\ (pc = "start" \/ known) /\ ~held => since <= slow + cleaning
      BY DEF ProxyInv, ClockInv
    <3>5. since' \in Nat /\ slow' \in Nat /\ cleaning' \in Nat /\ slow \in Nat /\ cleaning \in Nat
      BY <2>2, <2>3
    <3>7. slow + cleaning \in Nat /\ slow' + cleaning' \in Nat
      BY <3>5, NaturalSum
    <3> SUFFICES ASSUME Alive, pc = "start" \/ known, ~held' PROVE since' <= slow' + cleaning'
      BY <2>1 DEF Alive
    <3>8. ~held /\ pc # "prepare"
      BY <2>1, <3>3
    <3>9. slow' + cleaning' = slow + cleaning + 1
      <4>1. (cleaning' = cleaning + 1 /\ slow' = slow) \/ (slow' = slow + 1 /\ cleaning' = cleaning)
        BY <3>1, <3>8
      <4>2. slow \in Nat /\ cleaning \in Nat
        BY <3>5
      <4>3. slow + (cleaning + 1) = slow + cleaning + 1 /\ (slow + 1) + cleaning = slow + cleaning + 1
        BY <4>2
      <4>4. CASE cleaning' = cleaning + 1 /\ slow' = slow
        BY <4>3, <4>4
      <4>5. CASE slow' = slow + 1 /\ cleaning' = cleaning
        BY <4>3, <4>5
      <4> QED BY <4>1, <4>4, <4>5
    <3>6. since <= slow + cleaning /\ slow' + cleaning' = slow + cleaning + 1
      BY <3>4, <3>8, <3>9
    <3> QED BY <2>2, <3>2, <3>5, <3>6, <3>7, OneSecond
  <2> QED BY <2>1, <2>3, <2>4, <2>5 DEF ProxyInv, ClockInv, Alive
<1> QED BY <1>1, <1>2, <1>3, <1>4, <1>5 DEF ProxyNext, World, Copying

\* The supervisor kills no worker that knows a session, unless it was held up.
LEMMA KnownIsNotKilled == ASSUME ProxyInv, ForceKill, ~held PROVE ~known /\ session # "named"
<1>1. Alive /\ since >= Patience
  BY DEF ForceKill
<1>2. /\ CleanupTime \in Nat /\ WaitDelay \in Nat /\ Slack \in Nat /\ CleanupTime + Slack < WaitDelay
      /\ since \in Nat /\ slow \in 0..Slack /\ cleaning \in 0..CleanupTime
  BY ProxyAssumption DEF ProxyInv, ClockInv
<1>3. ~(since <= slow + cleaning)
  <2>1. slow + cleaning < WaitDelay
    BY <1>2
  <2>2. since >= WaitDelay
    BY <1>1 DEF Patience
  <2> QED BY <1>2, <2>1, <2>2
<1>4. ~known
  BY <1>1, <1>3 DEF ProxyInv, ClockInv
<1> QED BY <1>1, <1>4 DEF ProxyInv, WorkerInv

----------------------------------------------------------------------------
(* The copying goroutine *)

LEMMA CopyKept == ASSUME ProxyInv, ProxyNext PROVE CopyInv'
<1>0. MaxPreamble \in Nat
  BY ProxyAssumption
<1>1. CASE StartPlugin
  <2>1. copying' \in {copying, "preamble"} /\ UNCHANGED <<skipped, out, wrote>> /\ pc = "plugin"
    BY <1>1 DEF StartPlugin
  <2>2. copying = "none"
    BY <2>1 DEF ProxyInv, WorkerInv
  <2> QED BY <2>1, <2>2 DEF ProxyInv, CopyInv
<1>2. CASE Skip \/ Write
  <2>1. wrote # <<>> /\ wrote' = Tail(wrote) /\ wrote \in Seq({"noise", "SSH"}) /\ out \in Seq({"noise", "SSH"})
    BY <1>2 DEF Skip, Write, ToWrite, ProxyInv, CopyInv
  <2>2. Head(wrote) \in {"noise", "SSH"} /\ wrote' \in Seq({"noise", "SSH"})
    BY <2>1
  <2>3. /\ Append(out, Head(wrote)) \in Seq({"noise", "SSH"})
        /\ Append(out, Head(wrote)) # <<>>
    BY <2>1, <2>2
  <2>4. CASE Write
    BY <2>2, <2>3, <2>4 DEF Write, ProxyInv, CopyInv
  <2>5. CASE Skip
    <3>1. /\ copying = "preamble" /\ UNCHANGED out /\ skipped' = skipped + 1
          /\ copying' = IF skipped' > MaxPreamble THEN "failed" ELSE "preamble"
      BY <2>5 DEF Skip
    <3>2. skipped' \in Nat /\ (copying' = "preamble" => skipped' <= MaxPreamble)
      BY <1>0, <3>1 DEF ProxyInv, CopyInv
    <3> QED BY <2>1, <2>2, <3>1, <3>2 DEF ProxyInv, CopyInv
  <2> QED BY <1>2, <2>4, <2>5
<1>3. CASE CopyEnds \/ WriteFails
  <2>1. UNCHANGED <<skipped, out, wrote>> /\ (copying' = "failed" \/ (copying' = "done" /\ copying = "binary"))
    BY <1>3 DEF CopyEnds, WriteFails
  <2> QED BY <2>1 DEF ProxyInv, CopyInv
<1>4. CASE PluginWrites
  <2>1. UNCHANGED <<copying, skipped, out>>
    BY <1>4 DEF PluginWrites, copy
  <2>2. PICK item \in {"noise", "SSH"} : wrote' = Append(wrote, item)
    BY <1>4 DEF PluginWrites
  <2>3. wrote' \in Seq({"noise", "SSH"})
    BY <2>2 DEF ProxyInv, CopyInv
  <2> QED BY <2>1, <2>3 DEF ProxyInv, CopyInv
<1>5. CASE UNCHANGED <<copying, skipped, out, wrote>>
  BY <1>5 DEF ProxyInv, CopyInv
<1>6. Worker => StartPlugin \/ UNCHANGED <<copying, skipped, out, wrote>>
  BY WorkerLeaves
<1>7. (\/ ForceKill \/ Reap \/ Tick \/ PluginEnds \/ SetupEnds
       \/ ReaderLeaves \/ PipeBreaks \/ SupervisorKilled \/ WorkerKilled \/ Interrupt)
        => UNCHANGED <<copying, skipped, out, wrote>>
  BY DEF ForceKill, Reap, Tick, PluginEnds, SetupEnds, ReaderLeaves, PipeBreaks, SupervisorKilled, WorkerKilled,
         Interrupt, Dies, copy, pluginVars
<1> QED BY <1>1, <1>2, <1>3, <1>4, <1>5, <1>6, <1>7 DEF ProxyNext, World, Copying

\* The output never shrinks, and begins with the identification.
LEMMA OutputKept == ASSUME ProxyInv, ProxyNext
  PROVE  OnlyTheConnection' /\ (Ready => Ready')
<1>1. CASE Write
  <2>1. wrote # <<>> /\ wrote \in Seq({"noise", "SSH"}) /\ out \in Seq({"noise", "SSH"})
    BY <1>1 DEF Write, ToWrite, ProxyInv, CopyInv
  <2>2. Head(wrote) \in {"noise", "SSH"}
    BY <2>1
  <2>3. CASE copying = "preamble" /\ Identifies(Head(wrote)) /\ out' = Append(out, Head(wrote))
    <3>1. out = <<>> /\ Head(wrote) = "SSH"
      BY <2>3 DEF ProxyInv, CopyInv, Identifies
    <3>2. Head(Append(<<>>, "SSH")) = "SSH" /\ Append(<<>>, "SSH") # <<>>
      OBVIOUS
    <3> QED BY <2>3, <3>1, <3>2 DEF OnlyTheConnection, Ready
  <2>4. CASE copying = "binary" /\ out' = Append(out, Head(wrote))
    <3>1. out # <<>> /\ Head(out) = "SSH"
      BY <2>4 DEF ProxyInv, CopyInv, CallerSeesTheTruth, OnlyTheConnection
    <3>2. Head(Append(out, Head(wrote))) = Head(out) /\ Append(out, Head(wrote)) # <<>>
      BY <2>1, <2>2, <3>1
    <3> QED BY <2>4, <3>1, <3>2 DEF OnlyTheConnection, Ready
  <2> QED BY <1>1, <2>3, <2>4 DEF Write, ToWrite
<1>2. Worker => UNCHANGED out
  BY WorkerLeaves
<1>3. Copying \/ WriteFails \/ ForceKill \/ Reap \/ Tick \/ World => UNCHANGED out
  BY DEF Copying, Skip, CopyEnds, PipeBreaks, WriteFails, ForceKill, Reap, Tick, World, PluginWrites, PluginEnds,
         SetupEnds, ReaderLeaves, SupervisorKilled, WorkerKilled, Interrupt, Dies, copy
<1>4. CASE UNCHANGED out
  BY <1>4 DEF ProxyInv, CallerSeesTheTruth, OnlyTheConnection, Ready
<1> QED BY <1>1, <1>2, <1>3, <1>4 DEF ProxyNext

----------------------------------------------------------------------------
(* The worker *)

\* The steps in which the plugin or its copy have not been started yet, and
\* those from which it does not come back.
LEMMA PluginFollowsWorker == ASSUME ProxyInv, ProxyNext
  PROVE  /\ pc' \in {"prepare", "start", "plugin"} => plugin' = "none" /\ copying' = "none"
         /\ pc' \in {"terminate", "exit", "gone"} => plugin' # "running"
         /\ pc' = "wait" => Copied'
<1>0. /\ pc \in {"prepare", "start", "plugin"} => plugin = "none" /\ copying = "none"
      /\ pc \in {"terminate", "exit", "gone"} => plugin # "running"
      /\ pc = "wait" => Copied
  BY DEF ProxyInv, WorkerInv
<1>1. CASE Prepare \/ StartSession
  BY <1>0, <1>1 DEF Prepare, StartSession, Returns, Failure, copy, pluginVars
<1>2. CASE StartPlugin
  BY <1>0, <1>2 DEF StartPlugin, Returns, Failure
<1>3. CASE Select \/ Established \/ Drain
  BY <1>3 DEF Select, Established, Drain, Copied, copy
<1>4. CASE Abandon \/ Wait \/ WaitFails
  BY <1>4 DEF Abandon, Wait, WaitFails, Returns
<1>5. CASE Deferred
  BY <1>5 DEF Deferred, KillPlugin
<1>6. CASE TerminateSession \/ Exit
  BY <1>0, <1>6 DEF TerminateSession, Exit, pluginVars
<1>7. CASE Skip \/ Write \/ WriteFails \/ CopyEnds
  <2>1. UNCHANGED <<pc, plugin>> /\ copying # "none" /\ (Copied => Copied')
    BY <1>7 DEF Skip, Write, WriteFails, ToWrite, CopyEnds, notCopy, worker, Copied
  <2> QED BY <1>0, <2>1
<1>8. CASE ForceKill \/ WorkerKilled \/ PipeBreaks
  BY <1>8 DEF ForceKill, WorkerKilled, PipeBreaks, Dies, KillPlugin
<1>9. CASE Reap \/ Tick \/ PluginWrites \/ SetupEnds \/ ReaderLeaves \/ SupervisorKilled \/ Interrupt
  <2>1. UNCHANGED <<pc, plugin, copying>>
    BY <1>9 DEF Reap, Tick, PluginWrites, SetupEnds, ReaderLeaves, SupervisorKilled, Interrupt, worker, copy, pluginVars
  <2> QED BY <1>0, <2>1 DEF Copied
<1>10. CASE PluginEnds
  BY <1>0, <1>10 DEF PluginEnds, worker, copy, Copied
<1> QED BY <1>1, <1>2, <1>3, <1>4, <1>5, <1>6, <1>7, <1>8, <1>9, <1>10 DEF ProxyNext, Worker, World, Copying

\* A known session is terminated or reported, unless the worker is killed while
\* it cannot help it.
LEMMA SessionKept == ASSUME ProxyInv, ProxyNext
  PROVE  /\ pc' \in {"prepare", "start"} => session' = "none" /\ ~known'
         /\ session' = "named" /\ Alive' => known'
         /\ session' = "named" /\ pc' = "exit" => reported'
         /\ SessionIsNotLost'
<1>0. /\ pc \in {"prepare", "start"} => session = "none" /\ ~known
      /\ session = "named" /\ Alive => known
      /\ session = "named" /\ pc = "exit" => reported
      /\ SessionIsNotLost
  BY DEF ProxyInv, WorkerInv
<1>1. CASE Prepare
  <2>1. UNCHANGED <<session, known, reported, fate>> /\ pc = "prepare" /\ pc' \in {"start", "deferred"}
    BY <1>1 DEF Prepare, theRest, Returns, Failure
  <2> QED BY <1>0, <2>1 DEF SessionIsNotLost
<1>2. CASE StartSession
  <2>1. pc' \in {"plugin", "deferred"} /\ (session' = "named" => known')
    BY <1>2 DEF StartSession, Returns, Failure, Remembers
  <2> QED BY <2>1 DEF SessionIsNotLost, Alive
<1>3. CASE StartPlugin \/ Select \/ Established \/ Abandon \/ Drain \/ Wait \/ WaitFails
  <2>1. /\ UNCHANGED <<session, known, reported>>
        /\ pc \notin {"gone", "exit"} /\ pc' \notin {"gone", "exit", "prepare", "start"}
    BY <1>3 DEF StartPlugin, Select, Established, Abandon, Drain, Wait, WaitFails, theRest, Returns, Failure
  <2> QED BY <1>0, <2>1 DEF SessionIsNotLost, Alive
<1>4. CASE Deferred
  <2>1. /\ UNCHANGED <<session, known, reported>> /\ pc = "deferred"
        /\ pc' = IF known THEN "terminate" ELSE "exit"
    BY <1>4 DEF Deferred, theRest
  <2> QED BY <1>0, <2>1 DEF SessionIsNotLost, Alive
<1>5. CASE TerminateSession
  <2>1. /\ pc' = "exit" /\ pc = "terminate" /\ UNCHANGED known
        /\ session' = "terminated" \/ (reported' = TRUE /\ session' \in {session, "terminated"})
    BY <1>5 DEF TerminateSession
  <2> QED BY <1>0, <2>1 DEF SessionIsNotLost, Alive
<1>6. CASE Exit
  <2>1. UNCHANGED <<session, known, reported>> /\ pc = "exit" /\ pc' = "gone"
    BY <1>6 DEF Exit, theRest
  <2> QED BY <1>0, <2>1 DEF SessionIsNotLost, Alive
<1>7. CASE \/ Skip \/ Write \/ WriteFails \/ CopyEnds \/ Reap \/ PluginWrites \/ PluginEnds \/ SetupEnds
           \/ ReaderLeaves \/ SupervisorKilled \/ Interrupt
  <2>1. UNCHANGED <<pc, session, known, reported, fate>>
    BY <1>7 DEF Skip, Write, WriteFails, CopyEnds, Reap, PluginWrites, PluginEnds, SetupEnds, ReaderLeaves,
                SupervisorKilled, Interrupt, notCopy, worker
  <2> QED BY <1>0, <2>1 DEF SessionIsNotLost, Alive, fate
<1>10. CASE Tick
  <2>1. Alive /\ UNCHANGED <<pc, session, known, reported>>
    BY <1>10 DEF Tick
  <2> QED BY <1>0, <2>1 DEF SessionIsNotLost, Alive
<1>8. CASE ForceKill
  <2>1. pc' = "gone" /\ UNCHANGED <<session, known, held>> /\ killer' = "supervisor"
    BY <1>8 DEF ForceKill, Dies
  <2> QED BY <1>8, <2>1, KnownIsNotKilled DEF SessionIsNotLost, Alive
<1>9. CASE WorkerKilled \/ PipeBreaks
  <2>1. pc' = "gone" /\ killer' \in {"other", "reader"}
    BY <1>9 DEF WorkerKilled, PipeBreaks, Dies
  <2> QED BY <2>1 DEF SessionIsNotLost, Alive
<1> QED BY <1>1, <1>2, <1>3, <1>4, <1>5, <1>6, <1>7, <1>8, <1>9, <1>10 DEF ProxyNext, Worker, World, Copying

Ending == pc \in {"deferred", "terminate", "exit", "gone"}

\* The status 0 is only given when there was a connection.
LEMMA CodeKept == ASSUME ProxyInv, ProxyNext
  PROVE  /\ Ending' /\ code' = 0 => Ready'
         /\ code' \in {0, 1, 2, 4, 255, Killed}
         /\ ~Alive => UNCHANGED <<pc, code>>
<1>0. (Ending /\ code = 0 => Ready) /\ code \in {0, 1, 2, 4, 255, Killed} /\ (Ready => Ready')
  BY OutputKept DEF ProxyInv, WorkerInv, CallerSeesTheTruth, ProxyTypeOK, Ending
<1>1. CASE Prepare \/ StartSession \/ StartPlugin
  <2>1. code' \in {1, 2, 4} \/ (code' = code /\ pc' \in {"start", "plugin", "select"})
    BY <1>1 DEF Prepare, StartSession, StartPlugin, Returns, Failure
  <2>2. Alive
    BY <1>1 DEF Prepare, StartSession, StartPlugin, Alive
  <2> QED BY <1>0, <2>1, <2>2 DEF Ending
<1>2. CASE Select \/ Established \/ Drain
  BY <1>0, <1>2 DEF Select, Established, Drain, Ending, Alive
<1>3. CASE Abandon \/ WaitFails
  BY <1>3 DEF Abandon, WaitFails, Returns, Alive
<1>4. CASE Wait
  <2>1. /\ pc = "wait" /\ UNCHANGED out
        /\ code' = IF Shutdown THEN 0 ELSE IF copying = "failed" \/ plugin' = "killed" THEN 255 ELSE 0
    BY <1>4 DEF Wait, Returns, copy
  <2>2. Copied
    BY <2>1 DEF ProxyInv, WorkerInv
  <2>3. code' = 0 => Ready
    BY <2>1, <2>2 DEF Shutdown, Ready, Copied, ProxyInv, CopyInv
  <2> QED BY <1>0, <2>1, <2>3 DEF Alive
<1>5. CASE Deferred \/ TerminateSession \/ Exit
  BY <1>0, <1>5 DEF Deferred, TerminateSession, Exit, Ending, Alive
<1>6. CASE \/ Skip \/ Write \/ WriteFails \/ CopyEnds \/ Reap \/ Tick \/ PluginWrites \/ PluginEnds \/ SetupEnds
           \/ ReaderLeaves \/ SupervisorKilled \/ Interrupt
  <2>1. UNCHANGED <<pc, code>>
    BY <1>6 DEF Skip, Write, WriteFails, CopyEnds, Reap, Tick, PluginWrites, PluginEnds, SetupEnds, ReaderLeaves,
                SupervisorKilled, Interrupt, notCopy, worker
  <2> QED BY <1>0, <2>1 DEF Ending
<1>7. CASE ForceKill \/ WorkerKilled \/ PipeBreaks
  BY <1>7 DEF ForceKill, WorkerKilled, PipeBreaks, Dies, Killed
<1> QED BY <1>1, <1>2, <1>3, <1>4, <1>5, <1>6, <1>7 DEF ProxyNext, Worker, World, Copying

----------------------------------------------------------------------------
(* The supervisor, and the theorems *)

\* Once the worker is reaped nothing changes of what the caller sees.
LEMMA SupervisorKept == ASSUME ProxyInv, ProxyNext
  PROVE  /\ StatusIsTheWorkers' /\ NothingLeftRunning'
         /\ sup' \in {"wait", "done", "killed"} /\ status' \in 0..255
<1>0. /\ sup \in {"wait", "done", "killed"} /\ status \in 0..255 /\ code \in {0, 1, 2, 4, 255, Killed}
      /\ sup = "done" => ~Alive /\ plugin # "running" /\ ~helper
      /\ sup = "done" /\ code # Killed => status = code
  BY DEF ProxyInv, CallerSeesTheTruth, ProxyTypeOK, StatusIsTheWorkers, NothingLeftRunning
<1>1. CASE Reap
  <2>1. /\ sup' = "done" /\ status' = Status /\ ~helper' /\ UNCHANGED <<pc, code, plugin>> /\ ~Alive
    BY <1>1 DEF Reap, KillsGroup, worker, pluginVars
  <2>2. plugin # "running"
    BY <2>1 DEF ProxyInv, WorkerInv, Alive
  <2>3. code # Killed => code \in 0..255
    BY <1>0
  <2>4. status' \in 0..255 /\ (code # Killed => status' = code)
    BY <2>1, <2>3 DEF Status
  <2> QED BY <2>1, <2>2, <2>4 DEF StatusIsTheWorkers, NothingLeftRunning, Alive
<1>2. CASE ~Reap
  <2>1. UNCHANGED status /\ (sup' = sup \/ sup' = "killed")
    BY <1>2, WorkerLeaves DEF ProxyNext, World, Copying, Skip, Write, WriteFails, CopyEnds, PipeBreaks, ForceKill,
       Tick, PluginWrites, PluginEnds, SetupEnds, ReaderLeaves, SupervisorKilled, WorkerKilled, Interrupt, notCopy,
       supervisor
  <2>2. sup = "done" => UNCHANGED <<pc, code>> /\ plugin' # "running" /\ ~helper'
    <3> SUFFICES ASSUME sup = "done" PROVE UNCHANGED <<pc, code>> /\ plugin' # "running" /\ ~helper'
      OBVIOUS
    <3>1. UNCHANGED <<pc, code>> /\ pc = "gone"
      BY <1>0, CodeKept DEF Alive
    <3>2. plugin' # "running"
      BY <3>1, PluginFollowsWorker
    <3>3. ~Worker
      BY <1>0, WorkerLeaves
    <3>4. UNCHANGED helper
      BY <1>2, <3>3 DEF ProxyNext, World, Copying, Skip, Write, WriteFails, CopyEnds, PipeBreaks, ForceKill, Tick,
         PluginWrites, PluginEnds, SetupEnds, ReaderLeaves, SupervisorKilled, WorkerKilled, Interrupt, Dies, notCopy
    <3> QED BY <1>0, <3>1, <3>2, <3>4
  <2> QED BY <1>0, <2>1, <2>2 DEF StatusIsTheWorkers, NothingLeftRunning, Alive
<1> QED BY <1>1, <1>2

LEMMA ProxyTypesKept == ASSUME ProxyInv, ProxyNext PROVE ProxyTypeOK'
<1>1. sup' \in {"wait", "done", "killed"} /\ status' \in 0..255
  BY SupervisorKept
<1>2. since' <= Patience
  <2>0. since <= Patience /\ since \in Nat /\ Patience \in Nat
    BY ProxyAssumption DEF ProxyInv, CallerSeesTheTruth, ProxyTypeOK, ClockInv, Patience
  <2>1. CASE Tick
    <3>1. IF signalled THEN since < Patience /\ since' = since + 1 ELSE since' = since
      BY <2>1 DEF Tick
    <3> QED BY <2>0, <3>1
  <2>2. CASE ~Tick
    <3>1. UNCHANGED since
      BY <2>2, WorkerLeaves DEF ProxyNext, World, Copying, Skip, Write, WriteFails, CopyEnds, PipeBreaks, ForceKill,
         Reap, PluginWrites, PluginEnds, SetupEnds, ReaderLeaves, SupervisorKilled, WorkerKilled, Interrupt, notCopy,
         supervisor
    <3> QED BY <2>0, <3>1
  <2> QED BY <2>1, <2>2
<1>3. code' \in {0, 1, 2, 4, 255, Killed}
  BY CodeKept
<1>4. cleaning' <= CleanupTime /\ slow' <= Slack
  <2>1. cleaning' \in 0..CleanupTime /\ slow' \in 0..Slack
    BY ClockKept DEF ClockInv
  <2> QED BY <2>1, ProxyAssumption
<1>5. copying' \in {"none", "preamble", "binary", "done", "failed"}
  <2>0. copying \in {"none", "preamble", "binary", "done", "failed"}
    BY DEF ProxyInv, CallerSeesTheTruth, ProxyTypeOK
  <2>1. Worker => copying' \in {copying, "preamble"}
    BY WorkerLeaves DEF StartPlugin
  <2>2. Skip \/ Write \/ WriteFails \/ CopyEnds => copying' \in {copying, "preamble", "binary", "done", "failed"}
    BY DEF Skip, Write, WriteFails, CopyEnds
  <2>3. PipeBreaks \/ ForceKill \/ Reap \/ Tick \/ World => copying' = copying
    BY DEF World, PipeBreaks, ForceKill, Reap, Tick, PluginWrites, PluginEnds,
           SetupEnds, ReaderLeaves, SupervisorKilled, WorkerKilled, Interrupt, Dies, copy
  <2> QED BY <2>0, <2>1, <2>2, <2>3 DEF ProxyNext, Copying
<1>6. skipped' <= MaxPreamble + 1
  <2>0. skipped <= MaxPreamble + 1 /\ skipped \in Nat /\ MaxPreamble \in Nat
    BY ProxyAssumption DEF ProxyInv, CallerSeesTheTruth, ProxyTypeOK, CopyInv
  <2>1. CASE Skip
    <3>1. skipped' = skipped + 1 /\ copying = "preamble"
      BY <2>1 DEF Skip
    <3>2. copying = "preamble" => skipped <= MaxPreamble
      BY DEF ProxyInv, CopyInv
    <3> QED BY <2>0, <3>1, <3>2
  <2>2. CASE ~Skip
    <3>1. UNCHANGED skipped
      BY <2>2, WorkerLeaves DEF ProxyNext, World, Copying, Write, WriteFails, CopyEnds, PipeBreaks, ForceKill, Reap,
         Tick, PluginWrites, PluginEnds, SetupEnds, ReaderLeaves, SupervisorKilled, WorkerKilled, Interrupt, Dies, copy
    <3> QED BY <2>0, <3>1
  <2> QED BY <2>1, <2>2
<1>7. plugin' \in {"none", "running", "ended", "killed"}
  <2>0. plugin \in {"none", "running", "ended", "killed"}
    BY DEF ProxyInv, CallerSeesTheTruth, ProxyTypeOK
  <2>1. plugin' \in {plugin, "running", "ended", "killed"}
    BY DEF ProxyNext, Worker, World, Prepare, StartSession, StartPlugin, Select, Established, Abandon, Drain, Wait,
       WaitFails, Deferred, TerminateSession, Exit, Copying, Skip, Write, WriteFails, CopyEnds, PipeBreaks, ForceKill,
       Reap, Tick, PluginWrites, PluginEnds, SetupEnds, ReaderLeaves, SupervisorKilled, WorkerKilled, Interrupt, Dies,
       KillPlugin, notCopy, pluginVars
  <2> QED BY <2>0, <2>1
<1>8. session' \in {"none", "active", "named", "terminated"}
  <2>0. session \in {"none", "active", "named", "terminated"}
    BY DEF ProxyInv, CallerSeesTheTruth, ProxyTypeOK
  <2>1. Worker => session' \in {session, "none", "active", "named", "terminated"}
    BY WorkerLeaves DEF StartSession, TerminateSession
  <2>2. ~Worker => UNCHANGED session
    BY DEF ProxyNext, World, Copying, Skip, Write, WriteFails, CopyEnds, PipeBreaks, ForceKill, Reap, Tick,
       PluginWrites, PluginEnds, SetupEnds, ReaderLeaves, SupervisorKilled, WorkerKilled, Interrupt, Dies, notCopy
  <2> QED BY <2>0, <2>1, <2>2
<1>9. killer' \in {"nobody", "other", "reader", "supervisor"}
  <2>0. killer \in {"nobody", "other", "reader", "supervisor"}
    BY DEF ProxyInv, CallerSeesTheTruth, ProxyTypeOK
  <2>1. ForceKill \/ PipeBreaks \/ WorkerKilled => killer' \in {"other", "reader", "supervisor"}
    BY DEF ForceKill, PipeBreaks, WorkerKilled, Dies
  <2>2. Worker => UNCHANGED killer
    BY WorkerLeaves
  <2>3. (\/ Skip \/ Write \/ WriteFails \/ CopyEnds \/ Reap \/ Tick \/ PluginWrites \/ PluginEnds \/ SetupEnds
         \/ ReaderLeaves \/ SupervisorKilled \/ Interrupt)
          => UNCHANGED killer
    BY DEF Skip, Write, WriteFails, CopyEnds, Reap, Tick, PluginWrites, PluginEnds, SetupEnds, ReaderLeaves,
           SupervisorKilled, Interrupt, notCopy, fate
  <2> QED BY <2>0, <2>1, <2>2, <2>3 DEF ProxyNext, World, Copying
<1> QED BY <1>1, <1>2, <1>3, <1>4, <1>5, <1>6, <1>7, <1>8, <1>9 DEF ProxyTypeOK

LEMMA ProxyStepKeeps == ProxyInv /\ [ProxyNext]_proxyVars => ProxyInv'
<1>1. ASSUME ProxyInv, ProxyNext PROVE ProxyInv'
  <2>1. pc' \in Steps
    BY <1>1, WorkerGoes DEF ProxyInv, WorkerInv, ProxyNext, World, Copying, Skip, Write, WriteFails, CopyEnds,
       PipeBreaks, ForceKill, Reap, Tick, PluginWrites, PluginEnds, SetupEnds, ReaderLeaves, SupervisorKilled, WorkerKilled, Interrupt, Dies, notCopy, worker, Steps
  <2>2. WorkerInv'
    BY <1>1, <2>1, PluginFollowsWorker, SessionKept, CodeKept DEF WorkerInv, Ending
  <2>3. SuccessWasConnected'
    BY <1>1, CodeKept DEF SuccessWasConnected, Alive, Ending
  <2>4. CallerSeesTheTruth'
    BY <1>1, <2>3, ProxyTypesKept, SupervisorKept, OutputKept DEF CallerSeesTheTruth
  <2> QED BY <1>1, <2>2, <2>4, SessionKept, CopyKept, ClockKept DEF ProxyInv
<1>2. ASSUME ProxyInv, UNCHANGED proxyVars PROVE ProxyInv'
  <2> USE <1>2 DEF proxyVars, supervisor, worker, copy, pluginVars, fate
  <2>1. SessionIsNotLost'
    BY DEF ProxyInv, SessionIsNotLost, Alive
  <2>2. ProxyTypeOK'
    BY DEF ProxyInv, CallerSeesTheTruth, ProxyTypeOK
  <2>3. (StatusIsTheWorkers /\ NothingLeftRunning /\ OnlyTheConnection /\ SuccessWasConnected)'
    BY DEF ProxyInv, CallerSeesTheTruth, StatusIsTheWorkers, NothingLeftRunning, OnlyTheConnection,
       SuccessWasConnected, Alive, Ready
  <2>4. WorkerInv'
    BY DEF ProxyInv, WorkerInv, Alive, Copied, Ready
  <2>5. CopyInv'
    BY DEF ProxyInv, CopyInv
  <2>6. ClockInv'
    BY DEF ProxyInv, ClockInv, Alive
  <2> QED BY <2>1, <2>2, <2>3, <2>4, <2>5, <2>6 DEF ProxyInv, CallerSeesTheTruth
<1> QED BY <1>1, <1>2

\* A session that SSM named is terminated or reported before the command ends,
\* as long as the worker itself is not killed from outside or by its closed
\* standard output, and is not held up by what it waits for: for any times of
\* which the cleanup's and the worker's other steps' are less than the
\* supervisor's patience.
THEOREM SessionIsTerminatedOrReported == ProxySpec => []SessionIsNotLost
<1>1. ProxyInv => SessionIsNotLost
  BY DEF ProxyInv
<1> QED BY ProxyStarts, ProxyStepKeeps, <1>1, PTL DEF ProxySpec

\* The status is the worker's, nothing is left running, the output is the SSH
\* connection and success means that there was one.
THEOREM CallerIsToldTheTruth == ProxySpec => []CallerSeesTheTruth
<1>1. ProxyInv => CallerSeesTheTruth
  BY DEF ProxyInv
<1> QED BY ProxyStarts, ProxyStepKeeps, <1>1, PTL DEF ProxySpec
=============================================================================
