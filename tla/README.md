# cloud_dev in TLA+

`devbox` (Go, `src/cmd`, `src/internal`) launches EC2 workers, runs commands on
them through SSM, keeps the evidence of both in S3, and takes everything down
again.  Nothing of this is transactional: several processes on several machines
work on the same request or command, answers are lost, PUTs land late, processes
are killed between any two steps, and instances, tags and files change while
they are read.  What the program promises rests on a few rules (write once,
claim before acting, never conclude from silence, read again before deciding),
and these modules model the code that follows them: 12 TLC runs check 40
properties on small instances, and TLAPS proves, for instances of any size, the
safety of the two durable protocols, of the two readers of a command's evidence, of
setup with its publication of files, of the cleanup and of teardown.

## The system

| part | its state | what it does, and what makes it hard | module |
| --- | --- | --- | --- |
| durable command protocol: `execution/submit.go`, `execution/run.go`, `execprotocol`, `runner/run_linux.go` | S3 objects under one command ID, one SSM command | submit, claim, execute, record, upload, finalise; duplicated delivery, lost and late PUTs, crashes, skewed clocks | `CommandProtocol`, `CommandLife` |
| command observer: `execution/observe.go`, `execution/final.go` | one poll's reads | `devbox exec` decides how a moving command ended | `CommandObserver`, `CommandEvidence` |
| command recovery: `execution/recover.go` | one snapshot's reads | `devbox logs` and `status` look at a command once | `CommandRecovery`, `CommandEvidence` |
| runner process supervision: `runner/process_linux.go`, the waits of `run_linux.go` | a process group, two pipes, two files | claims, starts, captures, stops; exit, full stream, deadline and signal race | `RunnerProcess` |
| log transfer: `logs`, `execprotocol/store.go` | temporary files, counts | copies or exports recorded streams | `LogTransfer` |
| launch request protocol: `lifecycle/attempt.go`, `launch_ledger.go`, `batch_recovery.go`, `batch_reconcile.go`, `batch_store.go`, `batch_receipt.go`, `fleet.go` | immutable ledger in S3, one receipt file per machine, EC2 | `up`, `up --resume`, `up --retry-missing` by anybody, anywhere | `LaunchProtocol`, `CapacityRequest` |
| launch readiness: `lifecycle/batch_readiness.go`, `batch_startup.go`, `readiness.go`, `batch_run.go` | a queue, goroutines, a progress channel | waits for the workers and states the result | `BatchReadiness` |
| teardown: `lifecycle/multi_down.go`, `teardown_run.go`, `cli/down_confirm.go` | a frozen selection, one job per worker | `devbox down` | `Teardown` |
| expiry policy and cleanup: `expirycleanup`, `expiry` | one run's candidates and event sink | terminates expired workers, in parallel, on the record | `ExpiryCleanup` |
| cleanup entry points: `cleanuplambda/handler.go`, `cli/cleanup.go` | the log stream of an invocation | the scheduled function and its retries, and the operator's command | `CleanupHandler` |
| setup engine: `setup/engine.go`, `workflow.go`, `tofu.go`, `files.go` | `setup.json`, a workspace, a lock | stages that change AWS with consent, resumed after any end | `SetupWorkflow` |
| publication of files: `setup/files.go`, `engine.go` | a transaction in the journal | replaces configuration files the user edits | `ConfigTransaction` |
| SSH proxy and supervisor: `access/process.go`, `access/run.go`, `cmd/devbox/supervise_linux.go` | an SSM session, three processes | `devbox proxy` | `AccessProxy` |

The parts meet at their durable state.  `Submit` and `Run` write the records that
`Observe`, `Recover` and the log transfer read; the runner's verdict is the
workload status those records carry.  `Dispatch` leaves the workers that the
readiness wait probes and that teardown and cleanup terminate.  Setup makes the
configuration all of them start from.  The composition is by abstraction: the
command protocol is shown to implement `CommandLife`, and the observer and the
recovery are checked against a command that takes the steps of `CommandLife`
(`CommandEvidence`); the launch protocol is shown to implement `CapacityRequest`.

## How the modules correspond to the code

An action is a whole handler step between two points where another process,
goroutine, message or failure can intervene; a storage or AWS call is split in
what is sent, what happens to it, and what the caller learns.  Errors that the
code treats alike are one action.  `PROJECT.json` maps every definition to its
lines.

- `CommandProtocol`: `step` is where `Submit` (the client) or `Run` (a runner)
  stands, `mode` how far it is in one storage call.  A PUT is a message on
  `wire` that takes effect at any time or never (`PutArrives`), the first write
  under a key wins (`If-None-Match`), and an uncertain PUT is read back
  (`Reconcile`, PutImmutable), except the start claim, which needs its answer.
  `Deliver` may start any number of runs of the one SSM command.  `draft` is the
  record a run completes; its `clock` field stands for the order of its times.
- `CommandLife`: none, requested, claimed, running, recorded, final.
- `CommandEvidence`: a command that moves while it is read, SSM's invocation,
  retention, and what one read may answer, with `StorageFaults` and
  `InvocationFaults`.
- `CommandObserver`: `durable` and its passes, the failure budgets, SSM, the
  second read after SSM answered, interruption and deadline.
- `CommandRecovery`: the order result, outcome, started, acknowledgement,
  request; SSM; the result again; two attempts for each read.
- `LaunchProtocol`: `pc` is the stage of a command, `io` and `view` how far a
  ledger load has read (one GET each), `goal` what the load is for.  `cache` and
  `lock` belong to a machine; `calls`, `answered` and `allocated` are EC2, which
  answers a CreateFleet call at any later time with any number of workers;
  `Answers` lists what its caller may then hear.  `Inspected` sees any subset of
  the allocated workers, since EC2's inventory lags.
- `RunnerProcess`: `pc` is Run's and Execute's step; the child goes from helper
  to workload; `kin` and `detached` are relatives inside and outside its process
  group; `made`, `got` and `stored` are the data of the two streams; every
  select is a choice among the ready cases.
- `LogTransfer`: bodies are sequences of right and wrong bytes; a denied GET, the
  LIST that may prove absence and the second GET are separate calls.
- `BatchReadiness`: `step` is `waitBatchReady`'s, `doing[g]` a goroutine's in `waitBatchWorker` and
  `observeWithGuard`, `queue` the work that waits, taken as `Precedes` orders it, `lines` and `writer` the
  progress channel and the goroutine that prints.
- `Teardown`: `phase` is the command, `job[w].stage` one worker's goroutine;
  `wire` holds terminations EC2 has not obeyed.  A TerminateInstances call makes up
  to two requests, the client's configured attempts (`identity.go:55`): `Terminate`
  is one of them, stage `again` the pause before the second, `sent` counts them.
- `ExpiryCleanup`: `stage` is `Run`'s place, `at[i]` the place of the worker that
  handles instance i, `w[i]` its record, `journal` what the sink acknowledged.
  `CleanupHandler` adds Handle's records, the Lambda runtime that kills and
  retries, and the operator's direct call; of `cli/cleanup.go` only that call, its
  deadline and a sink that may fail are modelled.
- `SetupWorkflow`: `journal` is `setup.json` on disk, `mem` a run's copy, `aws`
  what exists, `orphans` the tools that outlived a killed run and `working` those
  of them that have the lock of their state; the others wait for it
  (`-lock-timeout`).  There are two states, bootstrap and foundation (`Contends`),
  and a change of one makes what was planned of it before stale (`fresh`).  The
  recovery copy is `none`, `part` or `whole`: a `cp` that is cut short leaves a part,
  and the next run takes what it finds.
- `ConfigTransaction`: a file's content is the user's latest edit and whether the
  program's settings are in it; `Digest`, `Backup` and `Copy` are the reads that
  `stageChanges` makes one after the other.
- `AccessProxy`: supervisor, worker, copying goroutine, plugin and session, each
  with its variable; `Tick` is one second.  The reader of standard output may stop
  (`Write` then waits) or leave (`closed`), and a write to a closed output kills the
  worker (`PipeBreaks`): only cleanup and setup ignore SIGPIPE (`main.go:19`).
  `killer` says who ended a worker that did not return, and `held` that after a
  signal it was kept waiting by what the code gives no bound of its own or one that
  its cleanup does not count on: the copy's end (`<-copied`) and the plugin's
  (`Wait`, with its 2 s).  Standard error is taken to be open.

Left out everywhere: wording and layout of output, digests as numbers (a changed
byte is a different value), AWS request building and credentials, pagination
unless it matters (it does in `ExpiryCleanup`), parsing of arguments.

## Runs

State counts are distinct states; every run ends in less than five minutes with
two workers.

| run | module | instance | states |
| --- | --- | --- | --- |
| `protocol` | CommandProtocol | 2 runs of one command, 2 workload statuses, 3 clock faults, runs symmetric | 874,194 |
| `observer` | CommandObserver | 1 run, 2 faulty reads of 3 + 4 kinds, failure budget 2 | 1,351,887 |
| `recovery` | CommandRecovery | any number of faulty reads | 1,447,593 |
| `launch` | LaunchProtocol | 2 clients on 1 or 2 machines, 2 instances, 2 attempts, 1 recovery each | 833,717 |
| `runner` | RunnerProcess | 2 streams of at most 2 units, a limit of 1 | 406,227 |
| `logs` | LogTransfer | streams of 2 bytes, 2 destinations | 1,813,464 |
| `readiness` | BatchReadiness | 2 workers, 1 goroutine, channel of 1, 2 kinds of beginning | 1,447,671 |
| `teardown` | Teardown | 2 workers, 1 goroutine, 1 poll, 1 change by others, 3 selectors, 3 accounts | 1,597,728 |
| `cleanup` | CleanupHandler | 1 instance with 1 volume, 2 pages, 1 round, 2 invocations | 6,468,805 |
| `setup` | SetupWorkflow | 2 symmetric runs, 2 kills | 314,726 |
| `config` | ConfigTransaction | 2 files, 3 edits, 2 early ends | 71,942 |
| `access` | AccessProxy | cleanup of 2 s, 1 s for the rest, patience of 4 s, 3 items of output | 931,900 |

What each run shows:

- `protocol`: one run at most executes a public ID (`AtMostOneExecution`); an
  outcome comes from the run that holds the claim, and a result agrees with it
  (`EvidenceIsGenuine`); a result that claims complete publication has both
  streams behind it (`CompletePublicationIsBacked`); a client that says nothing
  was submitted is right for good (`UnsubmittedNeverExecutes`); the protocol
  implements `CommandLife` (`ImplementsCommandLife`); and `ProtocolInv` is
  checked here because it is what the proof is built on.
- `observer`: genuine records never look corrupt, whatever order and passes they
  are read in (`NoFalseCorruption`); a verdict is the recorded truth and SSM's
  word is not believed over S3's (`VerdictIsTrue`); a settled command is reported
  without waiting for the deadline (`SettledIsReported`).
- `recovery`: an absence verdict overlooks nothing that was stored when the
  lookup began, nor a result stored when SSM answered
  (`NothingStoredIsOverlooked`); no false corruption; it ends although every read
  fails (`RetrievalEnds`).
- `launch`: one CreateFleet call per attempt at most (`AtMostOneSend`); never more
  workers than planned (`NeverOverAllocated`); settled records in the ledger and
  in caches, reported counts of missing workers, and caches against each other,
  are true for good (`RecordsAreTrue`); the whole behaves as one capacity request
  whose attempts are granted one at a time (`ImplementsCapacityRequest`).
- `runner`: the status and the capture flag are what happened to the workload and
  to its output (`ReportIsTrue`); the runner ends (`RunnerEnds`).
- `logs`: verified means byte for byte, no partial file ever exists, counts are
  what was written, success is everything (`OutputIsGenuine`); what exists is not
  reported missing (`PresentIsNotMissing`); it ends (`LogsEnd`).
- `readiness`: ready means probed and still allocated, nobody is forgotten,
  success is complete, missing capacity is stated only when proven, and a
  worker's failure is its own (`ResultIsHonest`); no probe goes to an instance
  known to be no part of the launch (`StrangersAreNotProbed`); the command ends
  although nobody reads its progress (`BatchEnds`).
- `teardown`: only selected, consented, still matching workers are asked to
  terminate, and again only while the first request is unanswered
  (`OnlySelectedAreTerminated`); the outcome is true (`ResultIsTrue`), where
  `termination_denied` tells of the last request alone, so nothing is claimed of
  such a worker; it ends (`TeardownEnds`).
- `cleanup`: what was retagged, unexpired, outside a complete scan or in a dry run
  is not terminated (`OnlyStillExpiredAreDispatched`); one termination each, after
  its records (`DispatchedOnceAndRecorded`); true outcomes (`OutcomesAreTrue`);
  every candidate explained after a deadline (`CandidatesAreAccountedFor`); the
  runtime is told of success only when the log holds it (`SuccessIsRecorded`).
- `setup`: the journal tells the truth after any kill, and the state does not leave
  the disk before a recovery copy, whole or not, is there (`JournalIsTrue`); AWS
  changes only by approved, recorded changes (`OnlyApprovedChanges`).
- `config`: half-done changes stay recorded (`MixedIsRecorded`), what is replaced
  is backed up (`OverwrittenIsBackedUp`), and once the edits stop the files settle
  or an edit is the reason they cannot (`SettlesOrRefuses`).
- `access`: a session SSM named is terminated or reported, unless the worker is
  killed from outside, by its closed output, or by the supervisor after it was held
  up (`SessionIsNotLost`); status, leftovers and output are true
  (`CallerSeesTheTruth`); a signalled proxy ends, whoever stalls, and a never
  connected one if its output is read (`ProxyEnds`).

### Bounds, and why they are enough

The hazards are races of two actors over one record, so two of each actor are
enough to violate every property: each has a mutant in `PROJECT.json`, a plausible
bug of the mapped code, that violates it inside these bounds.  Two attempts of
one request are the least with a parent and a successor, two units of output
against a limit of one overflow a stream, two pages are the least on which an
instance can differ from itself, two invocations of the function the least with
a retry.  `Endless` removes the bound on faulty reads where no failure budget needs
one.  Counters of the environment (`MaxMoves`, `MaxEdits`, `MaxCrashes`,
`MaxRecoveries`, `MaxData`, `MaxClock`, `MaxTime`, `Strangers`, `MaxItems`) are
bounds of the instance; `MaxPolls`, `MaxPages`, `MaxRounds`, `Concurrency`, `Goroutines`,
`MaxFailures`, `MaxAttempts`, `MaxEmpty`, `Buffer`, `Limit`, `WaitDelay` are limits
of the code, made small.  With one goroutine in `readiness` and `teardown` the
workers share it in every order; goroutines touch only their own worker's job,
so a second one multiplies states without a new conflict, except on the progress
channel, which the sorting step and the goroutine already contend for.  In
`cleanup` the one instance keeps retries, dry runs, deadlines and tag changes
together; two workers side by side, which meet only in the queue, are covered by
the theorems and not by this run.  `sent` counts the requests of one run there: a
later run may terminate again what it still finds.  `launch` has one time for a
retry to carry (`Stamps`).  `readiness` begins either with both workers known and
with what may be missing of the capacity, or with worker 1 in doubt and worker 2
not waiting for a first inspection (`FewBegin`), and `teardown` with the three
accounts of `MCStart`; the theorems hold from every beginning.  In `Teardown` itself
the account moves only as long as the command will look at it again (`OfInterest`):
everything it claims stays true of what can happen later.

Deadlock is not checked where a command really ends (all runs but `setup`,
whose specification always has a further run to start).

### Fairness

Fairness is weak, and only of what the program schedules itself: its own steps
(`ObserverStep`, `RecoveryStep`, `Runner`, `Engine`, `Worker`, `Goroutine`, ...) and
the timers it sets (`Expire`, `ContextEnds`, `SetupEnds`, `PrepareEnds`, `WorkEnds`).
S3, EC2, SSM, the network, the plugin, the reader of standard output, the editor
and the user owe nothing; an unanswered call ends by its context.  In `AccessProxy`
this leaves `Write` and `WriteFails` without fairness, and a proxy whose reader has
stalled is ended by the supervisor's `Tick` and `ForceKill`, which have it; only
the second half of `ProxyEnds` assumes a reader, in its own premise.
`CommandProtocol` states fairness of the client and of the runs for its
behaviours to go on; its properties are safety.  `Teardown` does not assume that
a prompt is answered, only that a cancelled prompt returns.  `CommandObserver`
bounds the number of faulty reads (`MaxFaults`), because a poll that always
fails is ended by its own failure budget anyway.  `LaunchProtocol` has no
liveness property: a request may stay unknown for ever, on purpose.

## Proofs

Eight modules hold proofs that TLAPS checks, for every value of the constants their
assumptions allow.  The assumptions are `ConstantsAssumption` (CommandProtocol),
`EvidenceAssumption` (CommandEvidence), `ObserverAssumption` (CommandObserver),
`LaunchAssumption` and `AbsentIsNoRecord` (LaunchProtocol), `ConfigAssumption`
(ConfigTransaction), `SetupAssumption` (SetupWorkflow), `Bounds` (ExpiryCleanup),
`AttemptsAssumption` (CleanupHandler), `TeardownAssumption` (Teardown),
`RunnerAssumption` (RunnerProcess), `TransferAssumption` (LogTransfer),
`ReadinessAssumption` (BatchReadiness) and `ProxyAssumption` (AccessProxy).  They
type the constants, keep `Absent` apart from the data, make finite what is counted,
and say that there is a stream to capture and a goroutine to work (the code has two
streams, and `min(4, len(queue))` goroutines for a queue that is not empty); TLC
evaluates each in a run that extends its module.  So the theorems hold for any
number of runs, clients, machines, attempts, faulty reads, files, edits, kills,
instances, volumes, pages, rounds, polls, selectors, workers, goroutines, bytes and
changes by others.  Four modules hold the proofs of a second component beside those
of their first, which it works next to: the runner's process under the command
protocol, the log transfer after the recovery's lookup, the wait for workers beside
the observer of commands, and the proxy's termination of its session beside that of
workers.

| module | theorem | property | what it says |
| --- | --- | --- | --- |
| `CommandProtocolProofs` | `TypeCorrect`, `InvariantCorrect` | `TypeOK`, `ProtocolInv` | the inductive invariant of the command protocol |
| | `OneExecution` | `AtMostOneExecution` | one public ID, one execution |
| | `EvidenceCorrect` | `EvidenceIsGenuine` | outcome and result come from the run that holds the claim |
| | `CompletePublicationCorrect` | `CompletePublicationIsBacked` | a complete result has both streams beside it |
| | `DispatchCorrect`, `UnsubmittedCorrect` | `DispatchFollowsRequest`, `UnsubmittedNeverExecutes` | sent once, after the request; "not submitted" is true for good |
| | `ImmutabilityCorrect` | `ObjectsAreImmutable` | no stored object changes |
| | `LifeImplemented` | `ImplementsCommandLife` | the protocol refines `CommandLife` |
| | `ReportCorrect` | `ReportIsTrue` | the runner reports what happened to the workload and its output |
| `CommandObserverProofs` | `ObserverIsConsistent` | `ObserverInv` | what a pass knows, and of when |
| | `VerdictsAreTrue` | `VerdictIsTrue` | a verdict is the recorded truth |
| | `GenuineRecordsAreBelieved` | `NoFalseCorruption` | nothing genuine is called corrupt |
| | `ReadinessIsConsistent` | `ReadyInv` | where every worker is during the wait |
| | `BatchResultIsHonest` | `ResultIsHonest` | the result of `devbox up` is true and complete |
| | `NoStrangerIsProbed` | `StrangersAreNotProbed` | a probe goes to an instance of the launch |
| `CommandRecoveryProofs` | `RecoveryIsConsistent` | `RecoveryInv` | what a snapshot knows, and of when |
| | `NothingIsOverlooked` | `NothingStoredIsOverlooked` | absence is what it says |
| | `GenuineRecordsAreAccepted` | `NoFalseCorruption` | nothing genuine is called corrupt |
| | `LogsAreGenuine` | `OutputIsGenuine` | verified means byte for byte, success means everything |
| | `MissingIsMissing` | `PresentIsNotMissing` | what exists is not reported missing |
| `LaunchProtocolProofs` | `LaunchInvariant`, `LaunchTypesAreCorrect` | `LaunchInv`, `TypeOK` | who may still send |
| | `NoAttemptIsSentTwice` | `AtMostOneSend` | one CreateFleet call per attempt |
| | `LedgerIsImmutable` | `RecordsAreImmutable` | no ledger record changes |
| | `CapacityInvariant` | `CapacityInv` | what is known of an allocation, and by whom |
| | `RequestsAreNeverOverAllocated` | `NeverOverAllocated` | no more workers than planned |
| | `LaunchRecordsAreTrue` | `RecordsAreTrue` | settled records, caches and reports are true |
| | `ProtocolIsOneRequest` | `ImplementsCapacityRequest` | the protocol refines `CapacityRequest` |
| `SetupWorkflowProofs` | `SetupIsConsistent` | `SetupInv` | who may write the journal, and what each step relies on |
| | `JournalTellsTheTruth` | `JournalIsTrue` | the journal is true after any kill |
| | `OnlyApprovedChangesAreMade` | `OnlyApprovedChanges` | AWS changes as approved and recorded |
| `ConfigTransactionProofs` | `TransactionIsConsistent` | `ConfigInv` | a change is backed up or out of date |
| | `MixedFilesAreRecorded` | `MixedIsRecorded` | half-done changes are in the journal |
| | `WhatIsOverwrittenIsBackedUp` | `OverwrittenIsBackedUp` | what is replaced is in a backup |
| `CleanupHandlerProofs` | `CleanupIsConsistent` | `HandlerInv` | what holds of every candidate, worker and invocation |
| | `TerminationsAreDue` | `OnlyStillExpiredAreDispatched` | terminations are due |
| | `TerminationsAreSentOnce` | `DispatchedOnceAndRecorded` | one each, after its records |
| | `OutcomesTellTheTruth` | `OutcomesAreTrue` | outcomes are true |
| | `CandidatesAreExplained` | `CandidatesAreAccountedFor` | outcomes are complete |
| | `SuccessMeansSuccess` | `SuccessIsRecorded` | success is told only of a success on record |
| `TeardownProofs` | `TeardownIsConsistent` | `TeardownInv` | what holds of the selection, every worker's job and the exit code |
| | `TheResultIsTrue` | `ResultIsTrue` | the outcome is true |
| | `SelectedAloneAreTerminated` | `OnlySelectedAreTerminated` | only what was selected, agreed to and seen to match is terminated |
| | `SessionIsTerminatedOrReported` | `SessionIsNotLost` | a session SSM named is terminated or reported |
| | `CallerIsToldTheTruth` | `CallerSeesTheTruth` | status, leftovers and output are true |

Each inductive invariant was model-checked before it was proved: `ProtocolInv` as a
property of the run `protocol`, the others on the instances of their runs.

**The command protocol.**  None of the safety properties is inductive: that a
second runner cannot execute depends on what its claim PUT may still do, on what
S3 may still answer it, and on what it has drafted.  `ProtocolInv` says so: every
object in S3 or in flight is one its author could have written
(`ObjectsAreGenuine`, `WireIsCurrent`), every answer in flight is true of the
store (`RepliesAreTrue`), a runner past the claim owns the started record
(`RunsHoldTheClaim`), a runner past its outcome has it stored
(`DraftsAreRecorded`), and the client's stage tells what of request and send
exists (`SubmissionIsOrdered`).  The proof has one lemma for a PUT that arrives,
one for each shape of client and runner step, and one per action below them.  The
refinement follows from the invariant: only two actions move `CommandLife`, every
other step is a stutter.

**The readers of a command.**  Every read happens at its own time, so what was read
says nothing of a common moment.  The invariants name one: `atAnswer`, the records
stored when SSM answered, and `atStart`.  Records are never removed, so a record
absent at a later read was absent at that moment.  `PassOK` of the observer holds
for its second pass that an outcome it did not find, with nothing in the way, is
not in `atAnswer`; only then is SSM believed.  `SnapshotOK` of the recovery holds
the same of every kind it has looked for (`LookedFor`) and of `atStart`.  The
result needs no such clause, its absence is found in the step that decides.  That
genuine records do not contradict each other is a fact about one written outcome
(`RecordsAgree`): what two readings compare is written once, by the runner that
holds the claim, and only the clock can break the order of its times.

**The launch protocol: who sends.**  `AtMostOneSend` is not inductive either: a
client that has just been told it won is not yet visible in `calls`.  `LaunchInv`
adds who may still send.  A client `Holds` a permission when it is about to send
or waits with its answer in `won`; `HoldersAreAlone` says that the claim of a
holder's attempt is stored, that no call of that attempt exists, and that no
second client holds one; `CallsAreClaimed` says that every call's attempt was
claimed.  A claim that arrives finds its key empty, so by these two nobody held or
used that attempt before, and only the client whose PUT it was is told; a call
uses the permission up.  Every other client step gains none (`ClientKeeps`).
`StageOK` bounds the attempt numbers and the length of a load, which the types
need.

**The launch protocol: how much.**  That no more workers exist than were planned
rests on an argument over the whole history of a request: what the n-th attempt
asks for is the target less what the attempts before it got, and EC2 may be late
with any of them.  `CapacityInv` makes it local.  An attempt is dispatched only on
a history that is `Closed`: for each earlier attempt the shared ledger holds a
settled response, and such a response is the truth and its one call is over
(`Warranted`, `IsTrue`), so what is `Owed` can never change again, although the
client that found it out may be long dead.  The rest of the invariant follows
that knowledge through every place it passes: PUTs in flight, caches
(`CachesAreHonest`), the view of a load (`ViewOK`), a receipt (`ReceiptOK`), an
answer of EC2 (`HeardOK`), a report (`ReportOK`) and the calls themselves
(`CallOK`).  The refinement maps a stored claim to `Grant`, the call to `Send`, an
allocation to `Fill`, and the settled response of the latest attempt, once it is
stored, to `Close`; every other step is a stutter.

**Setup.**  A run that is not idle has the lock, so the others are idle and what it
holds in memory is the journal (`RunOK`).  A killed run frees the lock while its
tool may still be at work or wait for the lock of its state; that its change is then
pending, that the journal then lets no other change begin, and that OpenTofu's lock
keeps a second plan or apply of that state out and refuses what was overtaken, so
that no tool is left behind a change that is complete, is what `JournalIsTrue`,
`JournalOrdered` and `StepOK` carry.  A pending foundation also means that the switch for cleanup is
off on disk, so an apply of the whole foundation cannot enable cleanup behind the
journal's back.

**Publication of files.**  Comparing a file with what was read proves nothing about
the time in between, except that an edit makes a content that was never there
before.  A change is therefore `Safe` once its backup was taken: the backup is
what was seen, or the file has moved on for good and the comparison before the
replacement refuses it.  `ConfigAssumption` asks for at least one edit because the
first content of a file counts as one.

**Cleanup.**  `CleanupInv` speaks of one instance, its worker and the worker's
place in the current phase, four clauses for each: what the worker claims is so
(`Honest`), what it was selected for still stands (`Selected`), how far the
termination has come (`Dispatched`), and what is said of the candidate in the end
(`Excuses`).  The account moves all the time, but never back: what was terminated
or deleted stays so, hence claims remain true whatever other actors do
(`AccountKeeps`).  `Selected` carries the reread's argument: while a candidate is
held, `retagged` is exactly that its tag differs from the scanned one, so a reread
that finds the scanned tag clears it.  `Excuses` follows a candidate through every
early end: a worker finishes with a problem, a reason, an observation to come, or
a status that the end of the context turns into a problem.  Parallel workers are
bounded by `Concurrency` throughout.  `HandlerInv` adds the handler's place and
records; an invocation made again starts from a clean run over an account in
which terminations of the killed one may still be under way, and `CleanIsSafe`
shows that the invariant asks nothing of the past that this start lacks.

What the reread can promise is about values, not about changes: `Recheck`
(`expiry/cleanup.go:152`) compares the expiry it finds with the scanned one, so a
tag that was changed and changed back in between is not noticed, and the
termination is sent.  `retagged` therefore holds the candidates whose tag differs,
not those whose tag was touched; with two changes by others the stronger reading
is false.

**Teardown.**  Two facts meet at a termination that are established at different
times by different reads.  `SelectionOK` keeps why each candidate is one, from its
resolution to the end: named by id, or the single live holder of the name
(`rivals`), or of the group; for a name this needs that a selection holds ids
only until the name is resolved.  `JobOK` says that a goroutine acts only while
the command executes, for a candidate, and that one in front of its call has
just seen the worker in scope and, if tagged, still matching.  The verdicts stay
true because nothing EC2 has finished is taken back: a worker that is gone stays
gone, a deleted disk stays deleted (`WorldMoves`), an accepted request stays in
`wire` until it is obeyed, and `sent` counts every request, so a worker reported as
not asked for has none.  Between the two requests of a call nothing is read, so
what the last read found (`seen`) is kept for the second one and forgotten after
the call.  `ExitOK` carries the same for the exit code, which is fixed while EC2
goes on.

**The runner's process.**  `ReportIsTrue` relates a verdict to events that happened
at times the verdict cannot see: who ended the child, whether its helper ever
executed it, what the pipes still held.  `RunnerInv` keeps them apart.  `ClaimHeld`:
from the start of the child on the claim is confirmed, and it was made while the
request was valid.  `WorkloadOK`: what the child and its relatives can be at each
step, and that a helper that reported a failed setup never executed the workload.
`EndingOK`: which reason can stand beside which end of the child.  `PipeOK`, for
each stream alone: a reader without a flaw has stored what it got, and once it has
ended it got everything and nobody is left to write more.

**Log transfer.**  The streams are fetched one after the other (`SequenceOK`), and
everything that is open, temporary file, counts and written bytes, belongs to the
one being fetched (`OneAtATime`), so a failure leaves the others as they were.
`CopyOK` carries the verdict of a copy to the step that links the file, and
`wasAbsent` from the denied or missing GET to the report that follows two calls
later.

**Readiness.**  While time is left every worker waits in the queue, is worked on, is
ready or is in trouble (`TroubleOK`); so once no goroutine is at work nobody is
left without an answer.  `WaitOK` says that one goroutine has a worker at a time and
that it is not ready meanwhile, hence a probe sent again cannot take back what a
result relies on (`ProbeOK`).  `StrangerOK` is the argument about the window: an
instance that ended or changed hands stays so, and a goroutine in front of its
probe has just seen the contrary.  `EndOK` says why the missing capacity is not
stated after a doubt: a batch is reconciled again only because some worker was not
observed, and then nothing was bounded before.

**Proxy.**  The supervisor kills the worker after a fixed patience, and with it what
the worker knows of its session.  `ClockInv` shows when it cannot do so too early:
the seconds since the signal were all spent on the worker's own reaction or on its
cleanup, which together are shorter than the patience, unless something it waits for
`held` it up.  `ProxyAssumption` states this of the code's 5 s and 7 s and takes only
steps without a wait for less than the 2 s between them; every second of the two
waits may count as `held`, and then the theorem promises nothing.  `WorkerInv` and
`CopyInv` tell what the worker and the copying goroutine have left behind at each
step.

**Only model-checked.**  The liveness properties: `RunnerEnds`, `LogsEnd`,
`BatchEnds`, `TeardownEnds`, `RetrievalEnds`, `ProxyEnds`, `SettledIsReported` and
`SettlesOrRefuses`.  Liveness under fairness and anything with `ENABLED` are out of
this prover's reach, as is what a recursive definition computes for every input.
Every other property of the runs is a theorem.

## Disagreements met while modelling

None of these is a run: each is a difference between a sentence and the code
that the models follow on the side of the code.

- `lifecycle/batch_recovery.go:37` says shared evidence is authoritative and
  cached IDs merely ask for more inspection.  `Dispatch` saves `dispatched`
  locally before it claims (`attempt.go:247`); if that claim never lands, the
  ledger stays at `prepared`, `RestoreBatch` refuses to go back, and `observe`
  returns `receipt_conflict` on that machine (`batch_recovery.go:111`) until
  another machine moves the request on.  `ReceiptConflicts` models it.
- `docs/usage.md:156` says a repeated retry on a second computer observes its
  successor.  `Load` reads one object at a time: a preparation read as absent just
  before it is written, followed by its claim read as present, is reported as a
  corrupt ledger (`launch_ledger.go:342`); another load sees it whole.
- `docs/contracts.md:793` gives `execution_unknown` to a request without a runner,
  and its message says that no outcome is recorded (`recover.go:300`).  Only the
  result is read again after SSM answered, so an outcome stored between its own
  read and that answer is not looked for; `NothingStoredIsOverlooked` claims for
  outcomes only what was stored at the start.
- `setup/engine.go:543`: when connecting finds that the caller already is the
  operator, it changes the recorded inputs and saves them without the new digest
  that `prepare` computes later (`:785`).  A run that ends in between cannot be
  resumed: `load` reports `inputs_changed` (`:298`), though
  `docs/guided-setup.md:129` offers resume.  `SetupWorkflow` has it as `stale`.
- `docs/contracts.md:1336` says concurrent edits fail.  `configure` reads a file
  (`workflow.go:237`) before `stageChanges` takes its digest (`files.go:165`): an
  edit in between is replaced, though it is in the backup;
  `OverwrittenIsBackedUp` states what does hold.
- `runner/process_linux.go:249`: when the preparation ends, or a signal comes, in
  the same moment in which the helper reports, the select may take either; the
  verdict is then `runner_setup_failed` (`:348`) although the workload may have
  been executed.  `ReportIsTrue` allows it for these ends only.
- `docs/contracts.md:246` says a receipt's directory is synced before any change of
  AWS.  `durableDir` (`lifecycle/receipt.go:126`) returns at once when the directory
  exists, also when an earlier process made it and ended before its sync.
- `docs/guided-setup.md:145` says setup retains recovery information, and names the
  copy made before the migration.  `migrate` (`setup/tofu.go:398`) makes it with `cp`
  and, on any later run, takes whatever file is there: one that a killed or failed
  `cp` left half written is synced, and the state migrates.  `JournalIsTrue` claims a
  copy, not a whole one; that the stronger clause fails is seen by asking for
  `disk.copy = "whole"`.
- `cmd/devbox/supervise_linux.go:52` says the patience allows for the proxy's cleanup
  of 5 s.  It runs from the signal: a worker that first waits for its copy, whose
  reader has stalled, or for its plugin (2 s), may be killed before or in its cleanup,
  and the session it knows is left without a word.  `SessionIsNotLost` excepts it
  (`held`), as it excepts a worker that dies of SIGPIPE, which runs no deferred call.
- `devbox down` reports `termination_denied` when the last of two requests was
  refused (`multi_down.go:354`), also when the first was accepted and its answer lost:
  the worker is then terminated by this very command.
- `devbox down` reports a root disk as retained from the deletion flag it captured;
  when somebody changes the flag afterwards the report is older than the truth.
  `ResultIsTrue` claims nothing about `retained`.

## Not modelled

- Legacy single launch (`lifecycle/up.go` and its receipts): the command line no
  longer launches with it.
- Inventory and selection, configuration, expiry parsing, SSH keys, doctor and
  foundation checks, identity and login, the command line: pure functions, or
  sequences of reads with no state of their own.  The reads that the modelled
  commands make of the inventory are in their modules.
- Interactive `devbox ssh`, host keys and the observation behind `devbox ls`.
- Validation of payloads and records, one guard in `CommandProtocol`; what
  `plannedActions` admits and the AWS profile files, choices in `SetupWorkflow`; the
  verification of single workers, a choice in `LaunchProtocol` and
  `BatchReadiness`.
- A power loss between write, sync and rename of a receipt (`receipt.go:153`): a
  model of it would be a model of the file system.  `LoseCache` covers the loss of
  a whole state directory.
- A preview that blocks in `devbox down` (`cli/down_confirm.go:77`): the write cannot be
  interrupted, and `TeardownEnds` takes it to return or fail.  How the operator's
  cleanup bounds such a write (`cli/cleanup.go:96`).
- Helpers in the process group of the proxy's plugin: when the worker is killed from
  outside the plugin dies with it (`Pdeathsig`), a helper of its own may not.
- Whether a reported signal ended the workload or still the helper, before it executed
  the workload: `RunnerProcess` has both, and the report does not tell.
- Infrastructure modules, packaging and scripts: not part of the programs.

What a next step would add: a second run of the same `devbox down` beside the
first, two concurrent cleanup runs on one account, and legacy single launches.
