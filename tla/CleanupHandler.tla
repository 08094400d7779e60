--------------------------- MODULE CleanupHandler ---------------------------
(***************************************************************************)
(* The two entry points of the cleanup around a run of ExpiryCleanup.      *)
(* `devbox cleanup` (cli/cleanup.go) calls the service directly.  The      *)
(* scheduled Handle (internal/cleanuplambda) checks its environment and    *)
(* input, sets up a journal, records the start, runs the service and, on   *)
(* every way out, records the end.  The Lambda runtime may kill it, and    *)
(* invokes it again, with the same request id, when it did not succeed.    *)
(* The journal of ExpiryCleanup holds the events of the current attempt;   *)
(* the records of the handler itself carry their attempt.                  *)
(***************************************************************************)
EXTENDS ExpiryCleanup

CONSTANT MaxAttempts    \* invocations of one request: the first and its retries

ASSUME AttemptsAssumption == MaxAttempts \in Nat \ {0}

VARIABLES
    hat,        \* where Handle stands; "operator" for a run of the CLI
    attempt,    \* the invocation under way
    setUp,      \* whether this attempt's journal exists
    started,    \* the start record was acknowledged
    failed,     \* retErr is set
    logged,     \* <<kind, attempt, ok>> of records in the log stream
    printed,    \* the same for records printed for want of a journal
    reply       \* what the runtime was told: "none", "ok", "error", "killed"

handler == <<hat, attempt, setUp, started, failed, logged, printed, reply>>
allVars == <<vars, handler>>

HandlerInit ==
    /\ Init
    /\ (hat = "entered" /\ dry = FALSE) \/ hat = "operator"
    /\ attempt = 1 /\ setUp = FALSE /\ started = FALSE /\ failed = FALSE
    /\ logged = {} /\ printed = {} /\ reply = "none"

\* Environment, input, request id and clock; then the factory.
Rejects ==
    /\ hat = "entered" /\ hat' = "leaving" /\ failed' = TRUE
    /\ setUp' \in BOOLEAN   \* a factory may fail after it made the journal
    /\ UNCHANGED <<vars, attempt, started, logged, printed, reply>>

SetUp ==
    /\ hat = "entered" /\ hat' = "starting" /\ setUp' = TRUE
    /\ UNCHANGED <<vars, attempt, started, failed, logged, printed, reply>>

\* A record goes to the log stream, acknowledged or not, else to stderr.
Recorded(kind, good, ok) ==
    LET r == <<kind, attempt, good>>
    IN IF ~setUp THEN ok /\ printed' = printed \cup {r} /\ UNCHANGED logged
       ELSE /\ logged' \in IF ok THEN {logged \cup {r}} ELSE {logged, logged \cup {r}}
            /\ UNCHANGED printed

StartHolds(ok) == ok

\* Without an acknowledged start record the service is not run.
RecordStart ==
    /\ hat = "starting"
    /\ \E ok \in BOOLEAN :
         /\ Recorded("invocation_start", FALSE, ok)
         /\ started' = ok
         /\ IF StartHolds(ok) THEN hat' = "running" /\ UNCHANGED failed
            ELSE hat' = "leaving" /\ failed' = TRUE
    /\ UNCHANGED <<vars, attempt, setUp, reply>>

\* The service's run, step by step; the account moves at any time.
Serves == hat \in {"running", "operator"} /\ Run /\ UNCHANGED handler
RunTimesOut == hat \in {"running", "operator"} /\ ContextEnds /\ UNCHANGED handler
Elsewhere == Account /\ UNCHANGED handler

RunSucceeded == exit = 0

RunReturns ==
    /\ hat = "running" /\ stage = "done"
    /\ hat' = "leaving" /\ failed' = ~RunSucceeded
    /\ UNCHANGED <<vars, attempt, setUp, started, logged, printed, reply>>

AfterLateStart == IF stage = "begin" THEN "summing" ELSE "ending"

\* A start nobody recorded is recorded on the way out; its failure is ignored.
RecordLateStart ==
    /\ hat = "leaving"
    /\ IF started THEN UNCHANGED <<logged, printed>>
       ELSE \E ok \in BOOLEAN : Recorded("invocation_start", FALSE, ok)
    /\ hat' = AfterLateStart
    /\ UNCHANGED <<vars, attempt, setUp, started, failed, reply>>

\* An attempt without a result gets a summary of its own.
RecordSummary ==
    /\ hat = "summing" /\ hat' = "ending"
    /\ \E ok \in BOOLEAN : Recorded("summary", FALSE, ok)
    /\ UNCHANGED <<vars, attempt, setUp, started, failed, reply>>

\* Mutant of Replies: the end record is best effort.
EndIsBestEffort(ok) == IF failed THEN "error" ELSE "ok"

\* The answer to the runtime: success needs an acknowledged end record.
Replies(ok) == IF failed \/ ~ok THEN "error" ELSE "ok"

RecordEnd ==
    /\ hat = "ending" /\ hat' = "left"
    /\ \E ok \in BOOLEAN :
         /\ Recorded("invocation_end", ~failed, ok)
         /\ reply' = Replies(ok)
    /\ UNCHANGED <<vars, attempt, setUp, started, failed>>

\* The runtime ends the process at its own limit, or it crashes.
Killed ==
    /\ hat \notin {"left", "operator"} /\ hat' = "left" /\ reply' = "killed"
    /\ UNCHANGED <<vars, attempt, setUp, started, failed, logged, printed>>

\* A failed invocation is made again: a new run over the account as it is.
InvokedAgain ==
    /\ hat = "left" /\ reply # "ok" /\ attempt < MaxAttempts
    /\ attempt' = attempt + 1 /\ hat' = "entered" /\ reply' = "none"
    /\ setUp' = FALSE /\ started' = FALSE /\ failed' = FALSE
    /\ ctx' = "live" /\ stage' = "begin" /\ scanned' = {} /\ complete' = FALSE /\ errors' = {}
    /\ rounds' = 0 /\ at' = [i \in Instances |-> "idle"] /\ exit' = -1
    /\ w' = [i \in Instances |-> NewWorker(Blank, FALSE, 0, FALSE)]
    /\ journal' = {} /\ sent' = [i \in Instances |-> 0] /\ retagged' = {}
    /\ UNCHANGED <<ec2, dry, sampled, logged, printed>>

Handle ==
    \/ Rejects \/ SetUp \/ RecordStart \/ Serves \/ RunReturns
    \/ RecordLateStart \/ RecordSummary \/ RecordEnd

HandlerNext == Handle \/ RunTimesOut \/ Elsewhere \/ Killed \/ InvokedAgain

HandlerSpec == HandlerInit /\ [][HandlerNext]_allVars

(***************************************************************************)
(* Properties                                                              *)
(***************************************************************************)
HandlerTypeOK ==
    /\ TypeOK
    /\ hat \in {"entered", "starting", "running", "leaving", "summing", "ending", "left", "operator"}
    /\ attempt \in 1..MaxAttempts /\ reply \in {"none", "ok", "error", "killed"}
    /\ \A s \in {logged, printed} :
         s \subseteq ({"invocation_start", "summary", "invocation_end"} \X (1..MaxAttempts) \X BOOLEAN)
    /\ stage # "begin" => started \/ hat = "operator"
    /\ reply # "none" <=> hat = "left"

\* The runtime hears of success only if the run completed whole and the log
\* stream holds the start, the summary and the end of that very attempt.
SuccessIsRecorded ==
    /\ HandlerTypeOK
    /\ reply = "ok" =>
        /\ {<<"invocation_start", attempt, FALSE>>, <<"invocation_end", attempt, TRUE>>} \subseteq logged
        /\ stage = "done" /\ exit = 0 /\ <<"summary", "run">> \in journal
        /\ \A i \in scanned : w[i].picked => (Settled(i) \/ i \in retagged)

=============================================================================
