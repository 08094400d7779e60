---------------------------- MODULE AccessProxy ----------------------------
(***************************************************************************)
(* devbox proxy, the SSH ProxyCommand: the supervisor process               *)
(* (cmd/devbox/supervise_linux.go), the worker it runs (internal/access),   *)
(* the Session Manager plugin the worker runs, and the SSM session.         *)
(*                                                                         *)
(* Signals, the setup timeout, the plugin's output and its end come in any  *)
(* order; StartSession's answer may be lost or incomplete; each process may *)
(* be killed, and who reads the standard output may stop reading or leave,  *)
(* which kills the worker.  Seconds pass in Tick: a cleanup takes at most   *)
(* CleanupTime, what else the worker does itself after a signal at most     *)
(* Slack, and its waiting for the reader and for the plugin's death has no  *)
(* bound.                                                                  *)
(***************************************************************************)
EXTENDS Naturals, Sequences

CONSTANTS CleanupTime, \* bound of TerminateSession
          WaitDelay,   \* the supervisor's patience after a signal
          Slack,       \* what the worker's other steps may take
          MaxPreamble, \* how much may precede the identification
          MaxItems     \* bound of what the plugin writes

ASSUME ProxyAssumption ==
    /\ CleanupTime \in Nat /\ WaitDelay \in Nat /\ Slack \in Nat /\ CleanupTime + Slack < WaitDelay
    /\ MaxPreamble \in Nat /\ MaxItems \in Nat

VARIABLES
    (* the supervisor *)
    sup,       \* "wait", "done" or "killed"
    signalled, \* it was told to stop, and passed it on
    since,     \* seconds since then
    status,    \* its exit status
    (* the worker *)
    pc, ctx,   \* its context has ended
    setup,     \* its setup timeout is over
    known,     \* it knows the session
    code, slow, cleaning,
    (* the copying goroutine *)
    copying,   \* "none", "preamble", "binary", "done" or "failed"
    skipped,   \* length of the preamble
    (* other processes, and SSM *)
    plugin,    \* "none", "running", "ended" or "killed"
    wrote,     \* what the plugin wrote and is not copied yet
    items,     \* how much it wrote
    helper,    \* a credential process of the worker's group runs
    session,   \* "none", "active", "named" in an answer, or "terminated"
    (* what others see *)
    out,       \* the worker's standard output
    closed,    \* nobody can read it any more
    reported,  \* how to terminate the session was printed
    killer,    \* of the worker: "nobody", "other", "reader" or "supervisor"
    held       \* it was kept waiting, after a signal, by what it waits for

supervisor == <<sup, signalled, since, status>>
worker == <<pc, setup, known, code, slow, cleaning>>
copy == <<copying, skipped, out>>
pluginVars == <<plugin, wrote, items>>
fate == <<killer, held>>
proxyVars == <<supervisor, worker, ctx, copy, closed, pluginVars, helper, session, reported, fate>>

ProxyInit ==
    /\ sup = "wait" /\ signalled = FALSE /\ since = 0 /\ status = 0
    /\ pc = "prepare" /\ ctx = FALSE /\ setup = FALSE /\ known = FALSE /\ code = 0 /\ slow = 0 /\ cleaning = 0
    /\ copying = "none" /\ skipped = 0 /\ plugin = "none" /\ wrote = <<>> /\ items = 0
    /\ helper = FALSE /\ session = "none" /\ out = <<>> /\ closed = FALSE
    /\ reported = FALSE /\ killer = "nobody" /\ held = FALSE

Alive == pc # "gone"

\* Mutant of SetupDone: nothing bounds the time a connection takes.
Unbounded == ctx

SetupDone == setup \/ ctx

(***************************************************************************)
(* The worker: access.Run and proxy                                        *)
(***************************************************************************)
theRest == <<supervisor, ctx, setup, slow, closed, reported, fate>>

\* What proxy returns, and access.Run makes of it; then the deferred calls run.
Returns(n) == pc' = "deferred" /\ code' = n
Failure == Returns(IF SetupDone THEN 4 ELSE 1)

\* Configuration, prerequisites, service, instance and readiness; AWS calls may
\* leave a credential process behind.
Prepare ==
    /\ pc = "prepare" /\ helper' \in {helper, TRUE}
    /\ UNCHANGED <<theRest, known, cleaning, copy, pluginVars, session>>
    /\ \/ ~SetupDone /\ pc' = "start" /\ UNCHANGED code
       \/ Failure \/ Returns(2)

\* Mutant of Remembers: an answer that is an error is not looked into.
OnlyGood(id, ok) == id /\ ok

Remembers(id, ok) == id

\* A session may exist whatever the answer is, and the answer may name it.
StartSession ==
    /\ pc = "start" /\ UNCHANGED <<theRest, cleaning, copy, pluginVars, helper>>
    /\ \E id \in BOOLEAN, ok \in BOOLEAN :
         /\ session' \in (IF id THEN {"named"} ELSE {"none", "active"})
         /\ known' = Remembers(id, ok)
         /\ IF id /\ ok THEN pc' = "plugin" /\ UNCHANGED code ELSE Failure

StartPlugin ==
    /\ pc = "plugin" /\ UNCHANGED <<theRest, known, cleaning, skipped, out, wrote, items, helper, session>>
    /\ \/ plugin' = "running" /\ copying' = "preamble" /\ pc' = "select" /\ UNCHANGED code
       \/ Failure /\ UNCHANGED <<plugin, copying>>

Copied == copying \in {"done", "failed"}
Ready == out # <<>>
KillPlugin == plugin' = IF plugin = "running" THEN "killed" ELSE plugin

\* The first select: whichever of its channels is ready, in any order.
Select ==
    /\ pc = "select" /\ UNCHANGED <<theRest, known, code, cleaning, copy, wrote, items, helper, session>>
    /\ \/ Copied /\ pc' = "wait" /\ UNCHANGED plugin
       \/ Ready /\ pc' = "established" /\ UNCHANGED plugin
       \/ SetupDone /\ pc' = "abandon" /\ KillPlugin
       \/ ctx /\ pc' = "drain" /\ KillPlugin

Established ==
    /\ pc = "established" /\ UNCHANGED <<theRest, known, code, cleaning, copy, wrote, items, helper, session>>
    /\ \/ Copied /\ pc' = "wait" /\ UNCHANGED plugin
       \/ ctx /\ pc' = "drain" /\ KillPlugin

Abandon ==
    /\ pc = "abandon" /\ Copied /\ Returns(4)
    /\ UNCHANGED <<theRest, known, cleaning, copy, pluginVars, helper, session>>

Drain ==
    /\ pc = "drain" /\ Copied /\ pc' = "wait"
    /\ UNCHANGED <<theRest, known, code, cleaning, copy, pluginVars, helper, session>>

\* The end of an established connection by its caller is no failure.
Shutdown == ctx /\ Ready

\* A failed copy kills the plugin; its end is awaited, or the context kills it.
Wait ==
    /\ pc = "wait" /\ UNCHANGED <<theRest, known, cleaning, copy, wrote, items, helper, session>>
    /\ plugin # "running" \/ copying = "failed" \/ ctx
    /\ KillPlugin
    /\ Returns(IF Shutdown THEN 0 ELSE IF copying = "failed" \/ plugin' = "killed" THEN 255 ELSE 0)

WaitFails ==
    /\ pc = "wait" /\ plugin = "ended" /\ ~Shutdown /\ Returns(255)
    /\ UNCHANGED <<theRest, known, cleaning, copy, pluginVars, helper, session>>

\* The plugin's group is killed, then a known session is terminated.
Deferred ==
    /\ pc = "deferred" /\ KillPlugin /\ pc' = IF known THEN "terminate" ELSE "exit"
    /\ UNCHANGED <<theRest, known, code, cleaning, copy, wrote, items, helper, session>>

TerminateSession ==
    /\ pc = "terminate" /\ pc' = "exit"
    /\ UNCHANGED <<supervisor, ctx, setup, slow, closed, fate, known, code, cleaning, copy, pluginVars, helper>>
    /\ \/ session' = "terminated" /\ UNCHANGED reported
       \/ reported' = TRUE /\ session' \in {session, "terminated"}

Exit ==
    /\ pc = "exit" /\ pc' = "gone"
    /\ UNCHANGED <<theRest, known, code, cleaning, copy, pluginVars, helper, session>>

Worker ==
    \/ Prepare \/ StartSession \/ StartPlugin \/ Select \/ Established \/ Abandon \/ Drain \/ Wait \/ WaitFails
    \/ Deferred \/ TerminateSession \/ Exit

(***************************************************************************)
(* copySSH                                                                 *)
(***************************************************************************)
notCopy == <<supervisor, worker, ctx, closed, plugin, items, helper, session, reported, fate>>

Identifies(item) == item = "SSH"

\* What is next in the plugin's output is for the standard output.
ToWrite ==
    /\ wrote # <<>>
    /\ copying = "binary" \/ (copying = "preamble" /\ Identifies(Head(wrote)))

\* Lines are dropped up to the identification.
Skip ==
    /\ Alive /\ copying = "preamble" /\ wrote # <<>> /\ ~ToWrite
    /\ wrote' = Tail(wrote) /\ skipped' = skipped + 1
    /\ copying' = IF skipped' > MaxPreamble THEN "failed" ELSE "preamble"
    /\ UNCHANGED <<notCopy, out>>

\* From there on nothing is looked at; a write waits until it is read.
Write ==
    /\ Alive /\ ToWrite /\ ~closed
    /\ out' = Append(out, Head(wrote)) /\ wrote' = Tail(wrote) /\ copying' = "binary"
    /\ UNCHANGED <<notCopy, skipped>>

WriteFails ==
    /\ Alive /\ ToWrite /\ ~closed /\ copying' = "failed"
    /\ UNCHANGED <<notCopy, skipped, out, wrote>>

CopyEnds ==
    /\ Alive /\ copying \in {"preamble", "binary"} /\ plugin \in {"ended", "killed"} /\ wrote = <<>>
    /\ copying' = IF copying = "binary" THEN "done" ELSE "failed"
    /\ UNCHANGED <<notCopy, skipped, out, wrote>>

(***************************************************************************)
(* supervise                                                               *)
(***************************************************************************)
\* Mutant of Patience: the worker is given no more than its cleanup takes.
Impatience == CleanupTime

Patience == WaitDelay

Interrupt ==
    /\ sup = "wait" /\ ~signalled /\ signalled' = TRUE /\ ctx' = (ctx \/ Alive)
    /\ UNCHANGED <<sup, since, status, worker, copy, closed, pluginVars, helper, session, reported, fate>>

\* Killing the worker takes its plugin along (Pdeathsig).
Killed == 256

Dies(by) ==
    /\ pc' = "gone" /\ code' = Killed /\ KillPlugin /\ killer' = by
    /\ UNCHANGED <<setup, known, slow, cleaning, held, ctx, copy, closed, wrote, items, helper, session, reported>>

\* Mutant of Status: a signal decides, whatever the worker said.
SignalFirst == IF signalled THEN 4 ELSE code

\* The code of a killed worker is -1: it did not exit.
Status == IF code # Killed THEN code ELSE IF signalled THEN 4 ELSE 1

ForceKill ==
    /\ sup = "wait" /\ signalled /\ Alive /\ since >= Patience
    /\ Dies("supervisor") /\ UNCHANGED supervisor

KillsGroup == FALSE

Reap ==
    /\ sup = "wait" /\ ~Alive /\ sup' = "done" /\ status' = Status /\ helper' = KillsGroup
    /\ UNCHANGED <<signalled, since, worker, ctx, copy, closed, pluginVars, session, reported, fate>>

(***************************************************************************)
(* The world                                                               *)
(***************************************************************************)
PluginWrites ==
    /\ plugin = "running" /\ items < MaxItems /\ items' = items + 1
    /\ \E item \in {"noise", "SSH"} : wrote' = Append(wrote, item)
    /\ UNCHANGED <<supervisor, worker, ctx, copy, closed, plugin, helper, session, reported, fate>>

PluginEnds ==
    /\ plugin = "running" /\ plugin' = "ended"
    /\ UNCHANGED <<supervisor, worker, ctx, copy, closed, wrote, items, helper, session, reported, fate>>

SetupEnds ==
    /\ Alive /\ ~setup /\ setup' = TRUE
    /\ UNCHANGED <<supervisor, pc, known, code, slow, cleaning, ctx, copy, closed, pluginVars, helper, session,
                   reported, fate>>

\* The caller's end of the standard output is closed.
ReaderLeaves ==
    /\ ~closed /\ closed' = TRUE
    /\ UNCHANGED <<supervisor, worker, ctx, copy, pluginVars, helper, session, reported, fate>>

\* A write to it then ends the worker: only cleanup and setup ignore SIGPIPE.
PipeBreaks == Alive /\ ToWrite /\ closed /\ Dies("reader") /\ UNCHANGED supervisor

\* SIGKILL of the supervisor reaches the worker as SIGTERM (Pdeathsig).
SupervisorKilled ==
    /\ sup = "wait" /\ sup' = "killed" /\ ctx' = (ctx \/ Alive)
    /\ UNCHANGED <<signalled, since, status, worker, copy, closed, pluginVars, helper, session, reported, fate>>

WorkerKilled == Alive /\ Dies("other") /\ UNCHANGED supervisor

\* Nothing but the supervisor bounds these: the copy waits for its reader and for
\* all who can still write to it, and the plugin's death is waited for as well.
Waiting == pc \in {"abandon", "drain", "wait"}

\* A second passes while the worker cleans up, or somewhere else; before it asks
\* for a session it may hang, and while it waits others may hold it up.
Tick ==
    /\ Alive /\ (signalled => since < Patience)
    /\ since' = IF signalled THEN since + 1 ELSE since
    /\ \/ pc = "terminate" /\ cleaning < CleanupTime /\ cleaning' = cleaning + 1 /\ UNCHANGED <<slow, held>>
       \/ pc = "prepare" /\ signalled /\ UNCHANGED <<slow, cleaning, held>>
       \/ pc \notin {"prepare", "terminate"} /\ signalled /\ slow < Slack /\ slow' = slow + 1 /\ UNCHANGED <<cleaning, held>>
       \/ Waiting /\ signalled /\ held' = TRUE /\ UNCHANGED <<slow, cleaning>>
    /\ UNCHANGED <<sup, signalled, status, pc, setup, known, code, ctx, copy, closed, pluginVars, helper, session,
                   reported, killer>>

Copying == Skip \/ CopyEnds \/ PipeBreaks

World == PluginWrites \/ PluginEnds \/ SetupEnds \/ ReaderLeaves \/ SupervisorKilled \/ WorkerKilled \/ Interrupt

ProxyNext == Worker \/ Copying \/ Write \/ WriteFails \/ ForceKill \/ Reap \/ Tick \/ World

ProxySpec == ProxyInit /\ [][ProxyNext]_proxyVars

\* The processes run, the setup timer fires, and time passes for the supervisor's
\* patience; the plugin, its output, who reads it, the user's signals and kills
\* are left open.
FairProxySpec ==
    /\ ProxySpec /\ WF_proxyVars(Worker) /\ WF_proxyVars(Copying)
    /\ WF_proxyVars(SetupEnds) /\ WF_proxyVars(Tick) /\ WF_proxyVars(ForceKill)

(***************************************************************************)
(* Properties                                                              *)
(***************************************************************************)
ProxyTypeOK ==
    /\ sup \in {"wait", "done", "killed"} /\ status \in 0..255 /\ since <= Patience
    /\ code \in {0, 1, 2, 4, 255, Killed} /\ cleaning <= CleanupTime /\ slow <= Slack
    /\ copying \in {"none", "preamble", "binary", "done", "failed"} /\ skipped <= MaxPreamble + 1
    /\ plugin \in {"none", "running", "ended", "killed"} /\ session \in {"none", "active", "named", "terminated"}
    /\ killer \in {"nobody", "other", "reader", "supervisor"}

\* A session that an answer of SSM named is terminated, or the user is told how,
\* before the command ends: also when StartSession failed, when a signal ends
\* the worker, and when the supervisor is killed. The supervisor's patience is
\* enough for it unless the worker was held up by what it waits for; a worker
\* killed from outside or by its closed standard output can do nothing any more.
SessionIsNotLost ==
    (~Alive /\ session = "named" /\ ~reported) =>
        killer \in {"other", "reader"} \/ (killer = "supervisor" /\ held)

\* The status is the one the worker established, although a signal came before
\* the supervisor had reaped it.
StatusIsTheWorkers == (sup = "done" /\ code # Killed) => status = code

\* When the command is over nothing it started is running.
NothingLeftRunning == sup = "done" => ~Alive /\ plugin # "running" /\ ~helper

\* Standard output carries the SSH connection from its identification on, and
\* nothing that precedes it.
OnlyTheConnection == out # <<>> => Head(out) = "SSH"

\* Success means that there was a connection.
SuccessWasConnected == (~Alive /\ code = 0) => Ready

\* What the command's caller sees of it is true.
CallerSeesTheTruth ==
    ProxyTypeOK /\ StatusIsTheWorkers /\ NothingLeftRunning /\ OnlyTheConnection /\ SuccessWasConnected

(***************************************************************************)
(* What every step preserves, for the proofs: what each step of the worker *)
(* may rely on, and where the seconds since a signal went.                 *)
(***************************************************************************)
Steps == {"prepare", "start", "plugin", "select", "established", "abandon", "drain", "wait",
          "deferred", "terminate", "exit", "gone"}

WorkerInv ==
    /\ pc \in Steps
    /\ pc \in {"prepare", "start"} => session = "none" /\ ~known
    /\ session = "named" /\ Alive => known
    /\ session = "named" /\ pc = "exit" => reported
    /\ pc \in {"prepare", "start", "plugin"} => plugin = "none" /\ copying = "none"
    /\ pc \in {"terminate", "exit", "gone"} => plugin # "running"
    /\ pc = "wait" => Copied
    /\ pc \in {"deferred", "terminate", "exit", "gone"} /\ code = 0 => Ready

CopyInv ==
    /\ out \in Seq({"noise", "SSH"}) /\ wrote \in Seq({"noise", "SSH"}) /\ skipped \in Nat
    /\ copying \in {"none", "preamble"} => out = <<>> /\ skipped <= MaxPreamble
    /\ copying \in {"binary", "done"} => out # <<>>

\* Once a session may be known, every second since the signal was spent on its
\* cleanup or on the rest, unless others held the worker up; together they are
\* less than the supervisor waits.
ClockInv ==
    /\ since \in Nat /\ slow \in 0..Slack /\ cleaning \in 0..CleanupTime
    /\ ~signalled => since = 0
    /\ signalled /\ Alive => ctx
    /\ Alive /\ (pc = "start" \/ known) /\ ~held => since <= slow + cleaning

ProxyInv == SessionIsNotLost /\ CallerSeesTheTruth /\ WorkerInv /\ CopyInv /\ ClockInv

\* A signalled command ends, whoever stalls, unless its supervisor is killed; and
\* if its output is read, one whose connection never comes up ends by itself,
\* and one that lost its supervisor.
ProxyEnds ==
    /\ signalled ~> (~Alive \/ sup = "killed")
    /\ WF_proxyVars(Write) => ((setup \/ ctx) ~> ((Ready /\ ~ctx) \/ ~Alive))
=============================================================================
