------------------------------ MODULE Teardown ------------------------------
(* `devbox down`: a selector is resolved to a frozen set of workers, the set
   is confirmed when everything was asked for, and a few goroutines then
   terminate the workers one by one, each after a last exact read, and watch
   the instance and its root disk until both are known to be gone
   (lifecycle/multi_down.go, teardown_run.go, cli/down_confirm.go).

   EC2 is the environment: it changes tags and deletion flags under the
   command's feet, loses answers, refuses requests and forgets mappings. *)
EXTENDS Integers, FiniteSets

CONSTANTS
    N,           \* workers of the account, named 1..N in the order of their ids
    Goroutines,  \* execution slots (teardownConcurrency, 4)
    MaxPolls,    \* reads of one worker's state, or of its disk (30)
    MaxMoves,    \* tag and flag changes made by others while the command runs
    Asked,       \* the selectors tried
    Start        \* the states the account may be in when the command begins

Workers == 1 .. N
Name    == 0               \* the one friendly name among the targets
Gone    == {"terminated", "forgotten"}

(* vm:   the instance; a terminated one is forgotten by EC2 after a while
   tag:  whether its tags carry the name or group of the selector ("in"), do
         not ("out"), or are outside the deployment's scope ("foreign")
   keep: DeleteOnTermination is false
   disk: the root volume exists
   mapped: EC2 still lists the root volume with the instance *)
Machine == [vm : {"running", "shutting-down"} \cup Gone,
            tag : {"in", "out", "foreign"},
            keep : BOOLEAN, disk : BOOLEAN, mapped : BOOLEAN]

ASSUME TeardownAssumption ==
    /\ N \in Nat \ {0} /\ Goroutines \in Nat \ {0}
    /\ MaxPolls \in Nat \ {0} /\ MaxMoves \in Nat
    /\ \A a \in Asked : a.kind \in {"targets", "group", "all", "all --yes"}
    /\ Start \subseteq [Workers -> Machine]

Job == [stage : {"idle", "queued", "look", "call", "again", "watch", "poll", "disk", "done"},
        status : {"termination_not_requested", "termination_requested",
                  "termination_denied", "termination_unknown",
                  "termination_observed", "already_terminated"},
        root : {"none", "kept", "dropped"},     \* the captured root mapping
        deletion : {"attached", "deleted", "retained", "unavailable"},
        error : BOOLEAN, polls : 0 .. MaxPolls]

VARIABLES
    machine,     \* EC2: the instances and their root disks
    wire,        \* EC2: accepted or unanswered terminations not yet obeyed
    moves,       \* changes others may still make
    ask,         \* the selector: ids and possibly the name, one group, or all
    phase,       \* where the command is
    left,        \* explicit targets not yet resolved
    candidates,  \* TeardownPlan.candidates, frozen once selection ends
    tagged,      \* candidates chosen for their name or group
    failed,      \* an error was recorded that belongs to no candidate
    job,         \* one worker's part of the outcome
    ended,       \* the context is canceled or past its five minutes
    exit,        \* the exit code
    approved,    \* history: consent, for a selector that needs it
    sent,        \* history: how often TerminateInstances was sent for a worker
    seen,        \* history: the tags at the last read before the call
    rivals       \* history: the live workers that carried the name

world   == <<machine, wire, moves>>
plan    == <<ask, left, candidates, tagged, failed>>
history == <<approved, sent, seen, rivals>>
vars    == <<world, phase, plan, job, ended, exit, history>>

NewJob == [stage |-> "idle", status |-> "termination_not_requested",
           root |-> "none", deletion |-> "attached", error |-> FALSE, polls |-> 0]

Init ==
    /\ machine \in Start
    /\ wire = {} /\ moves = MaxMoves
    /\ ask \in Asked
    /\ phase = IF ask.kind = "targets" THEN "resolve" ELSE "scan"
    /\ left = ask.targets
    /\ candidates = {} /\ tagged = {} /\ failed = FALSE
    /\ job = [w \in Workers |-> NewJob]
    /\ ended = FALSE /\ exit = -1
    /\ approved = FALSE /\ rivals = {}
    /\ sent = [w \in Workers |-> 0]
    /\ seen = [w \in Workers |-> "foreign"]

-----------------------------------------------------------------------------
(* EC2 and other people *)

Retag(w, t) ==
    /\ moves > 0 /\ machine[w].vm = "running" /\ machine[w].tag # t
    /\ machine' = [machine EXCEPT ![w].tag = t]
    /\ moves' = moves - 1
    /\ UNCHANGED wire

FlipKeep(w) ==
    /\ moves > 0 /\ machine[w].vm = "running"
    /\ machine' = [machine EXCEPT ![w].keep = ~@]
    /\ moves' = moves - 1
    /\ UNCHANGED wire

TerminatedByOthers(w) ==
    /\ moves > 0 /\ machine[w].vm = "running"
    /\ machine' = [machine EXCEPT ![w].vm = "shutting-down"]
    /\ moves' = moves - 1
    /\ UNCHANGED wire

Obey(w) ==
    /\ w \in wire
    /\ machine' = [machine EXCEPT ![w].vm = IF @ = "running" THEN "shutting-down" ELSE @]
    /\ wire' = wire \ {w}
    /\ UNCHANGED moves

(* The state of a worker on its way out becomes final, with or without its
   mapping; its disk goes unless it is kept; later the record itself goes. *)
Fade(w) ==
    /\ \/ /\ machine[w].vm = "shutting-down"
          /\ \E m \in {machine[w].mapped, FALSE} :
                machine' = [machine EXCEPT ![w].vm = "terminated", ![w].mapped = m]
       \/ /\ machine[w].vm \in Gone /\ machine[w].disk /\ ~machine[w].keep
          /\ machine' = [machine EXCEPT ![w].disk = FALSE]
       \/ /\ machine[w].vm = "terminated"
          /\ machine' = [machine EXCEPT ![w].vm = "forgotten", ![w].mapped = FALSE]
    /\ UNCHANGED <<wire, moves>>

(* The command has not ended, and will read the worker's state again. *)
OfInterest(w) ==
    /\ phase # "done" /\ job[w].stage # "done"
    /\ phase = "execute" => w \in candidates

Environment ==
    /\ \E w \in Workers : OfInterest(w) /\
          \/ \E t \in {"in", "out", "foreign"} : Retag(w, t)
          \/ FlipKeep(w) \/ TerminatedByOthers(w) \/ Obey(w) \/ Fade(w)
    /\ UNCHANGED <<phase, plan, job, ended, exit, history>>

Expire ==
    /\ ~ended /\ phase # "done"
    /\ ended' = TRUE
    /\ UNCHANGED <<world, phase, plan, job, exit, history>>

-----------------------------------------------------------------------------
(* Selection: SelectDown *)

Visible  == {w \in Workers : machine[w].vm # "forgotten" /\ machine[w].tag # "foreign"}
Active(ws) == {w \in ws : machine[w].vm # "terminated"}

(* The root mapping a read leaves behind: a fresh one replaces the captured
   one, a read without one keeps it (mergeFleetVolumes). *)
MergedRoot(w) ==
    IF ~machine[w].mapped THEN job[w].root
    ELSE IF machine[w].keep THEN "kept" ELSE "dropped"

Chosen(ws) ==
    job' = [w \in Workers |-> IF w \in ws
              THEN [job[w] EXCEPT !.stage = "queued", !.root = MergedRoot(w)]
              ELSE job[w]]

Leave(code) == phase' = "done" /\ exit' = code

(* A group or everything: one complete scan or none at all. *)
Scan ==
    /\ phase = "scan"
    /\ ~ended
    /\ LET found == IF ask.kind = "group"
                    THEN {w \in Visible : machine[w].tag = "in"} ELSE Visible
       IN  /\ candidates' = found
           /\ tagged' = IF ask.kind = "group" THEN found ELSE {}
           /\ Chosen(found)
    /\ phase' = IF ask.kind = "group" THEN "execute" ELSE "confirm"
    /\ UNCHANGED <<world, ask, left, failed, ended, exit, history>>

ScanFails ==
    /\ phase = "scan"
    /\ failed' = TRUE
    /\ Leave(IF ended THEN 4 ELSE 1)
    /\ UNCHANGED <<world, ask, left, candidates, tagged, job, ended, history>>

(* One explicit target: an exact id, or the name, for which finished workers
   count only when no live one matches and two of a kind authorize neither. *)
Matches(t) ==
    LET found == IF t = Name THEN {w \in Visible : machine[w].tag = "in"}
                 ELSE {t} \cap Visible
    IN  IF Active(found) # {} THEN Active(found) ELSE found

Resolve(t) ==
    /\ phase = "resolve" /\ t \in left /\ ~ended
    /\ left' = left \ {t}
    /\ rivals' = IF t = Name THEN Matches(t) ELSE rivals
    /\ IF Cardinality(Matches(t)) = 1
       THEN /\ candidates' = candidates \cup Matches(t)
            /\ tagged' = IF t = Name THEN tagged \cup Matches(t) ELSE tagged
            /\ Chosen(Matches(t))
            /\ UNCHANGED failed
       ELSE failed' = TRUE /\ UNCHANGED <<candidates, tagged, job>>
    /\ UNCHANGED <<world, phase, ask, ended, exit, approved, sent, seen>>

ResolveFails(t) ==
    /\ phase = "resolve" /\ t \in left
    /\ left' = left \ {t}
    /\ failed' = TRUE
    /\ UNCHANGED <<world, phase, ask, candidates, tagged, job, ended, exit, history>>

(* A selection cut short authorizes nothing of what it has resolved. *)
Resolved ==
    /\ phase = "resolve" /\ left = {}
    /\ IF ended
       THEN candidates' = {} /\ Leave(4)
       ELSE phase' = "execute" /\ UNCHANGED <<candidates, exit>>
    /\ UNCHANGED <<world, ask, left, tagged, failed, job, ended, history>>

(* newDownConfirmation: the preview may not be writable, --yes needs no
   answer, a prompt needs a terminal and a whole line that says yes. *)
Approve ==
    /\ phase = "confirm" /\ ~ended
    /\ approved' = TRUE
    /\ phase' = "execute"
    /\ UNCHANGED <<world, plan, job, ended, exit, sent, seen, rivals>>

Decline ==
    /\ phase = "confirm" /\ ~ended /\ ask.kind = "all"
    /\ Leave(0)
    /\ UNCHANGED <<world, plan, job, ended, history>>

ConfirmFails ==
    /\ phase = "confirm"
    /\ \/ ended /\ Leave(4)
       \/ ~ended /\ Leave(1)                          \* output_unavailable
       \/ ~ended /\ ask.kind = "all" /\ Leave(2)      \* confirmation_required
    /\ UNCHANGED <<world, plan, job, ended, history>>

-----------------------------------------------------------------------------
(* Execution: ExecuteDown hands the candidates, in the order of their ids,
   to the goroutines, each of which runs executeDownWorker to its end. *)

(* For the runs' mutants: the goroutine of a failed worker returns. *)
BusyOrDead == {w \in Workers : \/ job[w].stage \in {"look", "call", "again", "watch", "poll", "disk"}
                               \/ job[w].stage = "done" /\ job[w].error}

Busy   == {w \in Workers : job[w].stage \in {"look", "call", "again", "watch", "poll", "disk"}}
Queued == {w \in candidates : job[w].stage = "queued"}

Take(w) ==
    /\ phase = "execute"
    /\ w \in Queued /\ \A v \in Queued : w <= v
    /\ Cardinality(Busy) < Goroutines
    /\ job' = [job EXCEPT ![w].stage = "look"]
    /\ UNCHANGED <<world, phase, plan, ended, exit, history>>

Fail(w) ==
    job' = [job EXCEPT ![w].stage = "done", ![w].error = TRUE, ![w].polls = 0]

(* The tags of the last read have served when the call is over, or not made. *)
Forget(w) == seen' = [seen EXCEPT ![w] = "foreign"]

(* For the runs' mutants: names and groups are not compared again. *)
StillVisible(w) == w \in Visible

(* The last read before the call: same scope, same name, same group. *)
SameSelection(w) ==
    /\ w \in Visible
    /\ w \in tagged => machine[w].tag = "in"

Look(w) ==
    /\ job[w].stage = "look" /\ ~ended
    /\ IF SameSelection(w)
       THEN /\ seen' = IF machine[w].vm = "running" THEN [seen EXCEPT ![w] = machine[w].tag] ELSE seen
            /\ job' = [job EXCEPT
              ![w].root = MergedRoot(w),
              ![w].stage = CASE machine[w].vm = "running" -> "call"
                             [] machine[w].vm = "shutting-down" -> "watch"
                             [] OTHER -> "disk",
              ![w].status = IF machine[w].vm = "terminated" THEN "already_terminated" ELSE @]
       ELSE Fail(w) /\ UNCHANGED seen
    /\ UNCHANGED <<world, phase, plan, ended, exit, approved, sent, rivals>>

LookFails(w) ==
    /\ job[w].stage = "look"
    /\ Fail(w)
    /\ UNCHANGED <<world, phase, plan, ended, exit, history>>

Poll(w, s) == job' = [job EXCEPT ![w].stage = "poll", ![w].status = s, ![w].polls = 0]

(* A worker already shutting down is only watched. *)
Watch(w) ==
    /\ job[w].stage = "watch" /\ ~ended
    /\ Poll(w, "termination_requested")
    /\ UNCHANGED <<world, phase, plan, ended, exit, history>>

Refused(w) == job' = [job EXCEPT ![w].stage = "done", ![w].error = TRUE,
                                 ![w].status = "termination_denied"]

(* What the client makes of a request without an answer: it sends a second
   one, of the two it is configured for (identity.Load), or reports the first. *)
Unanswered(w) ==
    \/ Poll(w, "termination_unknown")
    \/ /\ job[w].stage = "call"
       /\ job' = [job EXCEPT ![w].stage = "again", ![w].status = "termination_unknown"]

(* One request of the TerminateInstances call: accepted, unanswered, whether
   or not it reached EC2, or refused. Nothing is read again in between, and a
   refused second request takes nothing back of a first that had got through. *)
Terminate(w) ==
    /\ job[w].stage \in {"call", "again"} /\ ~ended
    /\ sent' = [sent EXCEPT ![w] = @ + 1]
    /\ \/ Poll(w, "termination_requested") /\ wire' = wire \cup {w}
       \/ Unanswered(w) /\ wire' \in {wire, wire \cup {w}}
       \/ Refused(w) /\ UNCHANGED wire
    /\ IF job'[w].stage = "again" THEN UNCHANGED seen ELSE Forget(w)
    /\ UNCHANGED <<machine, moves, phase, plan, ended, exit, approved, rivals>>

(* The deadline falls into the pause before the second request. *)
GiveUp(w) ==
    /\ job[w].stage = "again" /\ ended
    /\ Poll(w, "termination_unknown") /\ Forget(w)
    /\ UNCHANGED <<world, phase, plan, ended, exit, approved, sent, rivals>>

CallTooLate(w) ==
    /\ job[w].stage \in {"call", "watch"} /\ ended
    /\ Fail(w) /\ Forget(w)
    /\ UNCHANGED <<world, phase, plan, ended, exit, approved, sent, rivals>>

(* One read of the loop that waits for the terminal state. A worker EC2 no
   longer shows is simply read again; one outside the scope is an error. *)
Observe(w) ==
    /\ job[w].stage = "poll" /\ ~ended /\ job[w].polls < MaxPolls
    /\ IF machine[w].vm = "forgotten"
       THEN job' = [job EXCEPT ![w].polls = @ + 1]
       ELSE IF w \notin Visible THEN Fail(w)
       ELSE IF machine[w].vm = "terminated"
       THEN job' = [job EXCEPT ![w].stage = "disk", ![w].polls = 0,
                               ![w].root = MergedRoot(w),
                               ![w].status = "termination_observed"]
       ELSE job' = [job EXCEPT ![w].polls = @ + 1, ![w].root = MergedRoot(w)]
    /\ UNCHANGED <<world, phase, plan, ended, exit, history>>

ObserveFails(w) ==
    /\ job[w].stage = "poll"
    /\ Fail(w)
    /\ UNCHANGED <<world, phase, plan, ended, exit, history>>

-----------------------------------------------------------------------------
(* The root disk: observeDownVolumes *)

Settle(w, verdict) ==
    job' = [job EXCEPT ![w].stage = "done", ![w].deletion = verdict, ![w].polls = 0,
                       ![w].error = @ \/ verdict # "deleted"]

WithoutLookup(w) ==
    /\ job[w].stage = "disk"
    /\ \/ job[w].root = "none" /\ Settle(w, "unavailable")
       \/ job[w].root = "kept" /\ Settle(w, "retained")
    /\ UNCHANGED <<world, phase, plan, ended, exit, history>>

Lookup(w) ==
    /\ job[w].stage = "disk" /\ job[w].root = "dropped"
    /\ ~ended /\ job[w].polls < MaxPolls
    /\ IF machine[w].disk
       THEN job' = [job EXCEPT ![w].polls = @ + 1]
       ELSE Settle(w, "deleted")
    /\ UNCHANGED <<world, phase, plan, ended, exit, history>>

(* For the runs' mutants: any failure counts as NotFound. *)
FailedMeansDeleted(w) ==
    /\ job[w].stage = "disk" /\ job[w].root = "dropped"
    /\ Settle(w, "deleted")
    /\ UNCHANGED <<world, phase, plan, ended, exit, history>>

(* A refusal, an answer about something else, the bound or the deadline. *)
LookupFails(w) ==
    /\ job[w].stage = "disk" /\ job[w].root = "dropped"
    /\ Settle(w, "unavailable")
    /\ UNCHANGED <<world, phase, plan, ended, exit, history>>

-----------------------------------------------------------------------------
(* The result: the end of ExecuteDown and of runSelectedDown *)

Terminated(w) == job[w].status \in {"termination_observed", "already_terminated"}
Cleaned == {w \in candidates : Terminated(w) /\ job[w].deletion = "deleted"}
Errors  == failed \/ \E w \in candidates : job[w].error

ExitCode ==
    IF ended THEN 4
    ELSE IF Cleaned = candidates /\ ~Errors THEN 0    \* complete, or nothing matched
    ELSE IF Cleaned # {} THEN 3                       \* teardown_partial
    ELSE 1

Finish ==
    /\ phase = "execute"
    /\ \A w \in candidates : job[w].stage = "done"
    /\ Leave(ExitCode)
    /\ UNCHANGED <<world, plan, job, ended, history>>

Command ==
    \/ Scan \/ ScanFails \/ Resolved \/ Approve \/ Decline \/ ConfirmFails
    \/ \E t \in 0 .. N : Resolve(t) \/ ResolveFails(t)
    \/ Finish

Goroutine ==
    \E w \in Workers :
       \/ Take(w) \/ Look(w) \/ LookFails(w) \/ CallTooLate(w) \/ Watch(w)
       \/ Terminate(w) \/ GiveUp(w) \/ Observe(w) \/ ObserveFails(w)
       \/ WithoutLookup(w) \/ Lookup(w) \/ LookupFails(w)

Next == Environment \/ Expire \/ Command \/ Goroutine

Spec == Init /\ [][Next]_vars

(* The command and its goroutines run, and the context has a deadline. EC2
   owes nothing, and nobody has to answer the prompt. *)
FairSpec == Spec /\ WF_vars(Expire) /\ WF_vars(Command /\ (phase = "confirm" => ended))
                 /\ WF_vars(Goroutine)

-----------------------------------------------------------------------------
TypeOK ==
    /\ machine \in [Workers -> Machine] /\ wire \subseteq Workers
    /\ moves \in 0 .. MaxMoves
    /\ ask \in Asked /\ left \subseteq ask.targets
    /\ phase \in {"scan", "resolve", "confirm", "execute", "done"}
    /\ candidates \subseteq Workers /\ tagged \subseteq Workers
    /\ job \in [Workers -> Job]
    /\ exit \in {-1, 0, 1, 2, 3, 4}
    /\ {failed, ended, approved} \subseteq BOOLEAN
    /\ rivals \subseteq Workers /\ sent \in [Workers -> 0 .. 2]

(* A worker's termination is requested only if it was in the frozen selection,
   with consent when everything was selected, still in scope at the last read,
   and still carrying the name or group it was selected by; a name that two
   live workers shared terminates neither; and it is requested again only as
   long as no answer has come (executeDownWorker, SelectDown). *)
OnlySelectedAreTerminated ==
    [][\A w \in Workers : sent'[w] # sent[w] =>
          /\ w \in candidates
          /\ job[w].status \in {"termination_not_requested", "termination_unknown"}
          /\ ask.kind \in {"all", "all --yes"} => approved
          /\ seen[w] # "foreign"
          /\ ask.kind = "group" => seen[w] = "in"
          /\ (ask.kind = "targets" /\ w \notin ask.targets)
                => seen[w] = "in" /\ rivals = {w}]_vars

(* What the outcome says happened, happened: a reported termination is final,
   a reported deletion is real, a request reported as accepted is obeyed or
   will be, a worker reported as never asked for was not asked for, and
   success means that every selected worker and its root disk are gone
   (ExecuteDown, observeDownVolumes). *)
ResultIsTrue ==
    /\ TypeOK
    /\ \A w \in Workers :
          /\ Terminated(w) => machine[w].vm \in Gone
          /\ job[w].deletion = "deleted" => ~machine[w].disk
          /\ job[w].status = "termination_requested" => w \in wire \/ machine[w].vm # "running"
          /\ job[w].status = "termination_not_requested" => sent[w] = 0
    /\ exit = 0 =>
          \/ /\ phase = "done" /\ ask.kind = "all" /\ ~approved
             /\ \A w \in Workers : sent[w] = 0
          \/ \A w \in candidates : machine[w].vm \in Gone /\ ~machine[w].disk
    /\ exit = 3 => \E w \in candidates : ~machine[w].disk

(* The command ends, whatever EC2 answers and whoever ignores the prompt: no
   goroutine leaves the unbuffered channel without a reader (ExecuteDown). *)
TeardownEnds == <>(phase = "done")
=============================================================================
