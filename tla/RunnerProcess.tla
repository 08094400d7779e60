---------------------------- MODULE RunnerProcess ----------------------------
(***************************************************************************)
(* The runner on a worker (internal/runner): it waits until its clock has  *)
(* reached the request's creation, claims the command, starts the workload *)
(* through a helper process, captures two bounded streams, and decides how *)
(* the workload ended while its exit, a full stream, the deadlines and a   *)
(* signal arrive in any order.  The workload may leave relatives behind,   *)
(* in its process group or detached from it.                               *)
(*                                                                         *)
(* Reading the request and publishing the outcome are CommandProtocol's.   *)
(***************************************************************************)
EXTENDS Naturals

CONSTANTS Outputs,    \* stdout, stderr
          Limit,      \* what a stream's file holds (1 GiB)
          MaxData,    \* bound of what is written to a stream
          Submitted,  \* S3's time of the request
          Expires,    \* the end of its retention
          MaxClock    \* bound of the worker's clock

ASSUME RunnerAssumption ==
    /\ Outputs # {}
    /\ Limit \in Nat \ {0} /\ MaxData \in Nat /\ MaxClock \in Nat
    /\ Submitted \in Nat /\ Expires \in Nat /\ Submitted < Expires

VARIABLES
    clock,     \* the worker's clock
    over,      \* contexts that have ended: "prepare", "run" (a signal), "work"
    claim,     \* started.json: its state and its StartedAt
    pc,        \* Run's and Execute's step
    child,     \* the direct child
    kin,       \* a relative in its process group runs
    detached,  \* a relative outside of it runs
    said,      \* the byte the helper wrote about its setup
    made,      \* data written to each pipe
    got,       \* data read from it
    stored,    \* data in its file
    reader,    \* the capture goroutine: reading, ended
    flawed,    \* the goroutine has met an error
    reason,    \* what ended the wait for the workload
    reaped,    \* childDone
    capture,   \* Captured.Capture
    status,    \* Captured.Workload.Status
    (* history *)
    ran,       \* the workload was executed
    end,       \* how the child ended: by itself or "stopped" by the runner
    stopping   \* the runner has signaled the group

processes  == <<child, kin, detached, said, ran, end>>
pipes      == <<got, stored, reader, flawed>>
outcome    == <<reason, reaped, capture, status, stopping>>
runnerVars == <<clock, over, claim, pc, processes, made, pipes, outcome>>

RunnerInit ==
    /\ clock \in 0..MaxClock /\ over = {} /\ claim = [state |-> "none", at |-> 0]
    /\ pc = "clock"
    /\ child = "none" /\ kin = FALSE /\ detached = FALSE /\ said = ""
    /\ made = [s \in Outputs |-> 0] /\ got = made /\ stored = made
    /\ reader = [s \in Outputs |-> "none"] /\ flawed = [s \in Outputs |-> FALSE]
    /\ reason = "none" /\ reaped = FALSE /\ capture = "complete" /\ status = "none"
    /\ ran = FALSE /\ end = "none" /\ stopping = FALSE

-----------------------------------------------------------------------------
(* Time and signals. A canceled run ends the contexts made from it. *)

Tick ==
    /\ pc = "clock" /\ clock < MaxClock
    /\ clock' = clock + 1
    /\ UNCHANGED <<over, claim, pc, processes, made, pipes, outcome>>

PrepareEnds ==
    /\ pc \in {"clock", "claim", "claimed", "start", "setup"} /\ "prepare" \notin over
    /\ over' = over \cup {"prepare"}
    /\ UNCHANGED <<clock, claim, pc, processes, made, pipes, outcome>>

WorkEnds ==
    /\ pc = "work" /\ "work" \notin over
    /\ over' = over \cup {"work"}
    /\ UNCHANGED <<clock, claim, pc, processes, made, pipes, outcome>>

Signal ==
    /\ pc # "done" /\ "run" \notin over
    /\ over' = over \cup {"run"}
    /\ UNCHANGED <<clock, claim, pc, processes, made, pipes, outcome>>

Ended(context) == over \cap {context, "run"} # {}

-----------------------------------------------------------------------------
(* Run: the claim *)

GiveUp == pc' = "done" /\ UNCHANGED <<clock, over, processes, made, pipes, outcome>>

(* Too early waits, too late gives up, and so does a preparation out of time. *)
ReadClock ==
    /\ pc = "clock" /\ ~Ended("prepare")
    /\ Submitted <= clock /\ clock < Expires
    /\ claim' = [state |-> "sent", at |-> clock]
    /\ pc' = "claim"
    /\ UNCHANGED <<clock, over, processes, made, pipes, outcome>>

NoClaim ==
    /\ pc = "clock" /\ (Ended("prepare") \/ clock >= Expires)
    /\ UNCHANGED claim /\ GiveUp

(* A conflict and a lost answer are the same: not this runner's claim. *)
ClaimLost ==
    /\ pc = "claim"
    /\ claim' = [claim EXCEPT !.state = "unconfirmed"]
    /\ GiveUp

ClaimWon ==
    /\ pc = "claim"
    /\ claim' = [claim EXCEPT !.state = "confirmed"]
    /\ pc' = "claimed"
    /\ UNCHANGED <<clock, over, processes, made, pipes, outcome>>

Claimed ==
    /\ pc = "claimed" /\ UNCHANGED claim
    /\ \/ Ended("prepare") /\ GiveUp
       \/ /\ ~Ended("prepare") /\ pc' = "start"
          /\ UNCHANGED <<clock, over, processes, made, pipes, outcome>>

-----------------------------------------------------------------------------
(* Execute: files, pipes, the helper *)

(* Without its files and pipes a capture is incomplete, after that complete. *)
SetupFails ==
    /\ pc = "start"
    /\ status' = "runner_setup_failed" /\ capture' \in {"complete", "incomplete"}
    /\ pc' = "done"
    /\ UNCHANGED <<clock, over, claim, processes, made, pipes, reason, reaped, stopping>>

StartHelper ==
    /\ pc = "start" /\ ~Ended("prepare")
    /\ child' = "helper" /\ reader' = [s \in Outputs |-> "reading"]
    /\ pc' = "setup"
    /\ UNCHANGED <<clock, over, claim, kin, detached, said, ran, end, made,
                   got, stored, flawed, outcome>>

-----------------------------------------------------------------------------
(* The helper (WorkloadMain), the workload and its relatives *)

theRunner == <<clock, over, claim, pc, pipes, outcome>>

(* It refuses with a byte and exits: its setup failed, or there is no such
   program, or none that can be executed, which exec may be first to find. *)
Refuse ==
    /\ \/ child = "helper" /\ said' \in {"S", "N", "X"}
       \/ child = "cleared" /\ said' \in {"N", "X"}
    /\ child' = "refusing"
    /\ UNCHANGED <<kin, detached, ran, end, made, theRunner>>

(* The last look at the preparation deadline, and then exec. *)
ClearDeadline ==
    /\ child = "helper" /\ "prepare" \notin over
    /\ child' = "cleared"
    /\ UNCHANGED <<kin, detached, said, ran, end, made, theRunner>>

Exec ==
    /\ child = "cleared"
    /\ child' = "workload" /\ ran' = TRUE
    /\ UNCHANGED <<kin, detached, said, end, made, theRunner>>

Fork ==
    /\ child = "workload"
    /\ \/ ~kin /\ kin' = TRUE /\ UNCHANGED detached
       \/ ~detached /\ detached' = TRUE /\ UNCHANGED kin
    /\ UNCHANGED <<child, said, ran, end, made, theRunner>>

Alive(c) == c \in {"helper", "cleared", "refusing", "workload", "dying"}

ChildEnds ==
    /\ Alive(child)
    /\ child' = "gone"
    /\ \E how \in {"exited", "signaled"} : end' = IF stopping THEN "stopped" ELSE how
    /\ UNCHANGED <<kin, detached, said, ran, made, theRunner>>

RelativeEnds ==
    /\ \/ kin /\ kin' = FALSE /\ UNCHANGED detached
       \/ detached /\ detached' = FALSE /\ UNCHANGED kin
    /\ UNCHANGED <<child, said, ran, end, made, theRunner>>

Emit(s) ==
    /\ child = "workload" \/ kin \/ detached
    /\ made[s] < MaxData
    /\ made' = [made EXCEPT ![s] = @ + 1]
    /\ UNCHANGED <<processes, theRunner>>

-----------------------------------------------------------------------------
(* capture: one goroutine per stream *)

theRest == <<clock, over, claim, pc, processes, made, outcome>>

Writers == Alive(child) \/ kin \/ detached

(* What exceeds the limit is read, dropped and remembered as an error; after
   an error nothing more is stored. *)
Read(s) ==
    /\ reader[s] = "reading" /\ got[s] < made[s]
    /\ got' = [got EXCEPT ![s] = @ + 1]
    /\ IF stored[s] < Limit /\ ~flawed[s]
       THEN \/ stored' = [stored EXCEPT ![s] = @ + 1] /\ UNCHANGED flawed
            \/ flawed' = [flawed EXCEPT ![s] = TRUE] /\ UNCHANGED stored  \* the disk
       ELSE flawed' = [flawed EXCEPT ![s] = TRUE] /\ UNCHANGED stored
    /\ UNCHANGED <<reader, theRest>>

EndOfFile(s) ==
    /\ reader[s] = "reading" /\ got[s] = made[s] /\ ~Writers
    /\ reader' = [reader EXCEPT ![s] = "ended"]
    /\ UNCHANGED <<got, stored, flawed, theRest>>

(* For the run's mutant: the drain does not close the pipes. *)
ReadOn(s) ==
    /\ reader[s] = "reading" /\ got[s] = made[s] /\ ~Writers
    /\ reader' = [reader EXCEPT ![s] = "ended"] /\ flawed' = [flawed EXCEPT ![s] = TRUE]
    /\ UNCHANGED <<got, stored, theRest>>

(* The pipe was closed under it by the drain, or the file does not sync. *)
ReadFails(s) ==
    /\ reader[s] = "reading" /\ (pc = "closing" \/ (got[s] = made[s] /\ ~Writers))
    /\ reader' = [reader EXCEPT ![s] = "ended"] /\ flawed' = [flawed EXCEPT ![s] = TRUE]
    /\ UNCHANGED <<got, stored, theRest>>

-----------------------------------------------------------------------------
(* Execute: what ends the wait. When several cases are ready, select takes
   any of them. *)

others == <<clock, over, claim, processes, made, pipes>>

Because(why) ==
    /\ reason' = why
    /\ pc' = "stop"
    /\ UNCHANGED <<reaped, capture, status, stopping, others>>

SetupDone ==
    /\ pc = "setup" /\ child \notin {"helper", "cleared"}
    /\ pc' = "work"
    /\ UNCHANGED <<outcome, others>>

SetupStopped ==
    /\ pc = "setup"
    /\ \/ Ended("prepare") /\ Because("stopped")
       \/ "run" \in over /\ Because("interrupted")

ChildDone ==
    /\ pc = "work" /\ child = "gone"
    /\ reaped' = TRUE /\ reason' = "exit" /\ pc' = "stop"
    /\ UNCHANGED <<capture, status, stopping, others>>

CaptureFailed ==
    /\ pc = "work" /\ \E s \in Outputs : flawed[s]
    /\ Because("capture_failed")

WorkDone ==
    /\ pc = "work" /\ Ended("work")
    /\ Because(IF "run" \in over THEN "interrupted" ELSE "execution_timeout")

-----------------------------------------------------------------------------
(* Execute: stop the group, wait for the child, drain the pipes *)

Group == kin \/ Alive(child)

StopGroup ==
    /\ pc = "stop"
    /\ stopping' = Group
    /\ pc' = IF Group THEN "grace" ELSE "wait"
    /\ UNCHANGED <<reason, reaped, capture, status, others>>

(* After the grace, or when the group is gone: SIGKILL. A child deep in the
   kernel takes its time to die. *)
KillGroup ==
    /\ pc = "grace"
    /\ kin' = FALSE
    /\ IF Alive(child)
       THEN \/ child' = "gone" /\ end' = "stopped"
            \/ child' = "dying" /\ UNCHANGED end
       ELSE UNCHANGED <<child, end>>
    /\ pc' = "wait"
    /\ UNCHANGED <<clock, over, claim, detached, said, ran, made, pipes, outcome>>

WaitChild ==
    /\ pc = "wait"
    /\ \/ (reaped \/ child = "gone") /\ reaped' = TRUE /\ UNCHANGED capture
       \/ ~reaped /\ capture' = "incomplete" /\ UNCHANGED reaped    \* after the grace
    /\ pc' = "drain"
    /\ UNCHANGED <<reason, status, stopping, others>>

Finished == \A s \in Outputs : reader[s] = "ended"

DrainTimeout ==
    /\ pc = "drain" /\ ~Finished
    /\ capture' = "incomplete" /\ pc' = "closing"
    /\ UNCHANGED <<reason, reaped, status, stopping, others>>

Verdict ==
    IF reason \in {"execution_timeout", "capture_failed"} THEN reason
    ELSE IF reason = "interrupted" \/ ~reaped THEN "unknown"
    ELSE IF reason = "stopped" \/ said = "S" THEN "runner_setup_failed"
    ELSE IF said \in {"N", "X"} THEN "exited"
    ELSE end

(* For the run's mutant: the files are judged while they are written. *)
ClassifyEarly ==
    /\ pc \in {"drain", "closing"}
    /\ status' = Verdict
    /\ pc' = "done"
    /\ UNCHANGED <<reason, reaped, stopping, capture, others>>

(* Only when no goroutine writes any more is the capture judged. *)
Classify ==
    /\ pc \in {"drain", "closing"} /\ Finished
    /\ status' = Verdict
    /\ capture' = IF reason = "capture_failed" \/ \E s \in Outputs : flawed[s]
                  THEN "incomplete" ELSE capture
    /\ pc' = "done"
    /\ UNCHANGED <<reason, reaped, stopping, others>>

-----------------------------------------------------------------------------
Environment ==
    \/ Tick \/ Signal \/ Refuse \/ ClearDeadline \/ Exec \/ Fork
    \/ ChildEnds \/ RelativeEnds \/ \E s \in Outputs : Emit(s)

Runner ==
    \/ ReadClock \/ NoClaim \/ ClaimLost \/ ClaimWon \/ Claimed
    \/ SetupFails \/ StartHelper \/ SetupDone \/ SetupStopped
    \/ ChildDone \/ CaptureFailed \/ WorkDone
    \/ StopGroup \/ KillGroup \/ WaitChild \/ DrainTimeout \/ Classify

CaptureStep(s) == Read(s) \/ EndOfFile(s) \/ ReadFails(s)

RunnerNext == Environment \/ PrepareEnds \/ WorkEnds \/ Runner \/ \E s \in Outputs : CaptureStep(s)

RunnerSpec == RunnerInit /\ [][RunnerNext]_runnerVars

(* The runner and its goroutines run and their deadlines pass; the workload,
   its relatives and the clock owe nothing. *)
FairRunnerSpec ==
    /\ RunnerSpec /\ WF_runnerVars(Runner) /\ WF_runnerVars(PrepareEnds) /\ WF_runnerVars(WorkEnds)
    /\ \A s \in Outputs : WF_runnerVars(CaptureStep(s))

-----------------------------------------------------------------------------
RunnerTypeOK ==
    /\ clock \in 0..MaxClock /\ over \subseteq {"prepare", "run", "work"}
    /\ claim \in [state : {"none", "sent", "confirmed", "unconfirmed"}, at : 0..MaxClock]
    /\ child \in {"none", "helper", "cleared", "refusing", "workload", "dying", "gone"}
    /\ kin \in BOOLEAN /\ detached \in BOOLEAN /\ ran \in BOOLEAN
    /\ reaped \in BOOLEAN /\ stopping \in BOOLEAN
    /\ said \in {"", "S", "N", "X"}
    /\ made \in [Outputs -> 0..MaxData] /\ got \in [Outputs -> 0..MaxData]
    /\ stored \in [Outputs -> 0..Limit] /\ flawed \in [Outputs -> BOOLEAN]
    /\ reader \in [Outputs -> {"none", "reading", "ended"}]
    /\ capture \in {"complete", "incomplete"}
    /\ end \in {"none", "exited", "signaled", "stopped"}

(* Nothing runs without a timely and confirmed claim (Run). *)
ClaimedFirst ==
    child # "none" =>
        claim.state = "confirmed" /\ Submitted <= claim.at /\ claim.at < Expires

(* A reported exit or signal is the child's own, which for a signal may still
   be the helper, killed before it executed the workload; a refusal never ran. *)
EndIsItsOwn ==
    /\ status \in {"exited", "signaled"} =>
          IF said \in {"N", "X"} THEN ~ran /\ end # "stopped" ELSE end = status
    /\ status = "unknown" => reason = "interrupted" \/ ~reaped

(* When Execute returns no process of the group runs and no goroutine still
   writes the files; a complete capture is all that was and will be written. *)
CaptureIsOver ==
    pc = "done" =>
        /\ ~kin /\ child \in {"none", "gone", "dying"}
        /\ child = "none" \/ Finished
        /\ capture = "complete" => ~Writers /\ \A s \in Outputs : stored[s] = made[s]

(* What the runner reports is true, in whatever order exit, deadlines, signal
   and full streams arrive (Run, Execute, capture). *)
ReportIsTrue == RunnerTypeOK /\ ClaimedFirst /\ EndIsItsOwn /\ CaptureIsOver

(* ReportIsTrue and what makes it inductive: where the claim stands at each
   step, which processes there may be, what a goroutine without an error has
   read and stored, and what the end of the wait says of the child. *)
Steps == {"clock", "claim", "claimed", "start", "setup", "work", "stop", "grace", "wait", "drain", "closing", "done"}
Reasons == {"none", "exit", "stopped", "interrupted", "capture_failed", "execution_timeout"}

ClaimHeld ==
    /\ claim.state # "none" => Submitted <= claim.at /\ claim.at < Expires
    /\ pc = "claim" => claim.state = "sent"
    /\ pc \in {"claimed", "start"} \/ child # "none" => claim.state = "confirmed"

WorkloadOK ==
    /\ pc \in {"clock", "claim", "claimed", "start"} => child = "none"
    /\ pc \in {"setup", "work", "stop", "grace", "wait", "drain", "closing"} => child # "none"
    /\ child = "none" => ~kin /\ ~detached /\ ~ran /\ said = ""
    /\ child \in {"helper", "cleared"} => ~ran
    /\ child \in {"helper", "cleared", "workload"} => said = ""
    /\ ran => said = ""
    /\ end = "none" <=> child # "gone"
    /\ pc \in {"clock", "claim", "claimed", "start", "setup", "work", "stop"} => ~stopping
    /\ pc = "grace" \/ end = "stopped" => stopping
    /\ pc \in {"wait", "drain", "closing", "done"} => ~kin /\ child \in {"none", "dying", "gone"}

PipeOK(s) ==
    /\ ~flawed[s] => stored[s] = got[s]
    /\ child = "none" => reader[s] = "none" /\ stored[s] = made[s]
    /\ reader[s] = "ended" /\ ~flawed[s] => got[s] = made[s] /\ ~Writers

EndingOK ==
    /\ pc \in {"stop", "grace", "wait", "drain", "closing"} => reason # "none"
    /\ reason = "exit" => reaped /\ end # "stopped"
    /\ reaped => child = "gone"
    /\ status # "none" => pc = "done"
    /\ status \in {"exited", "signaled"} => reason = "exit"

RunnerInv ==
    /\ ReportIsTrue /\ pc \in Steps /\ reason \in Reasons
    /\ ClaimHeld /\ WorkloadOK /\ EndingOK /\ \A s \in Outputs : PipeOK(s)

(* A runner ends, even with a workload that ignores signals and relatives
   that keep its pipes open (Execute's deadlines and its drain). *)
RunnerEnds == <>(pc = "done")
=============================================================================
