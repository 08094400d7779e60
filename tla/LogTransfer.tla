---------------------------- MODULE LogTransfer ----------------------------
(***************************************************************************)
(* devbox logs after the result was recovered (internal/logs): the selected *)
(* streams are fetched from the bucket, one after the other, and copied to  *)
(* standard output or exported to new files.  A byte is TRUE when it is the *)
(* one the result recorded.                                                 *)
(*                                                                         *)
(* The store is execprotocol.S3Store: a denied GET is followed by a LIST of *)
(* the exact key, and by a second GET when the object is listed.  Objects   *)
(* appear and expire, answers fail, reads and writes stall, other programs  *)
(* create the destinations, and the program may be killed.                  *)
(***************************************************************************)
EXTENDS Naturals, Sequences

CONSTANTS Bytes,    \* the recorded length of each stream
          Chunk,    \* the transfer buffer
          MaxEmpty, \* empty reads that are tolerated
          Paths     \* destinations

ASSUME TransferAssumption == Bytes \in Nat /\ Chunk \in Nat \ {0} /\ MaxEmpty \in Nat \ {0}

InOrder == <<"stdout", "stderr">>
Streams == {InOrder[i] : i \in 1..2}
Recorded == [i \in 1..Bytes |-> TRUE]
Genuine == [size |-> Bytes, bytes |-> Recorded]

\* What S3 may hold, or send; an object of another size is not even read.
Contents == UNION {[1..n -> BOOLEAN] : n \in 0..Bytes + 1}
Objects == [size : {Bytes}, bytes : Contents] \cup {[Genuine EXCEPT !.size = Bytes + 1]}

VARIABLES
    select,  \* of each stream: "no", "file" or "output"
    path,    \* the destination of each stream
    (* the bucket *)
    present, \* the objects that exist
    object,  \* what they hold, and the size S3 gives
    denied,  \* reading objects is denied
    (* the local system *)
    dest,    \* who made each destination, and what it holds
    tmp,     \* streams whose temporary file exists
    out,     \* what was written: to the temporary file or to standard output
    (* the program *)
    pc, cur, body, got, written, empties, ended,
    (* what it reports *)
    code, verified, count,
    (* history *)
    wasAbsent \* the object was absent at some time since its download began

input == <<select, path>>
bucket == <<present, object, denied>>
files == <<dest, tmp, out>>
loop == <<cur, body, got, written, empties>>
report == <<code, verified, count>>
transferVars == <<input, bucket, files, pc, loop, ended, report, wasAbsent>>

Nobody == [by |-> "nobody", bytes |-> <<>>]
Other == [by |-> "other", bytes |-> <<>>]
Nothing == [n |-> 0, end |-> "no"]

\* One stream to the standard output, or one or two to files; the first wrong
\* object ends the command, so that one is enough.
TransferInit ==
    /\ select \in [Streams -> {"no", "file", "output"}]
    /\ \E s \in Streams : select[s] # "no"
    /\ \A s \in Streams : select[s] = "output" => \A t \in Streams \ {s} : select[t] = "no"
    /\ path \in [Streams -> Paths]
    /\ present \in SUBSET Streams /\ denied \in BOOLEAN
    /\ object \in [Streams -> Objects]
    /\ \A s \in Streams : select[s] = "no" => s \in present /\ object[s] = Genuine
    /\ \A s \in Streams : s \notin present => object[s] = Genuine
    /\ \E s \in Streams : object[s] = Genuine
    /\ dest = [p \in Paths |-> Nobody] /\ tmp = {} /\ out = [s \in Streams |-> <<>>]
    /\ pc = "check" /\ cur = 0 /\ body = <<>> /\ got = Nothing /\ written = 0 /\ empties = 0 /\ ended = FALSE
    /\ code = "" /\ verified = {} /\ count = [s \in Streams |-> 0] /\ wasAbsent = FALSE

stream == InOrder[cur]
Exports == select[stream] = "file"

Leave(what) == pc' = "done" /\ code' = (IF ended THEN "stopped" ELSE what)

(***************************************************************************)
(* logs.Run                                                                *)
(***************************************************************************)
Selected == {s \in Streams : select[s] # "no"}
ToFiles == {s \in Streams : select[s] = "file"}

Distinct == \A s, t \in ToFiles : s # t => path[s] # path[t]

\* Before anything is asked of AWS.  The recovery of the result itself is
\* module CommandRecovery's: it may end without streams to download.
Validate ==
    /\ pc = "check" /\ UNCHANGED <<input, bucket, files, loop, ended, verified, count, wasAbsent>>
    /\ IF Distinct /\ \A s \in ToFiles : dest[path[s]] = Nobody THEN pc' = "recover" /\ UNCHANGED code
       ELSE pc' = "done" /\ code' = "usage"

Recover ==
    /\ pc = "recover" /\ UNCHANGED <<input, bucket, files, loop, ended, verified, count, wasAbsent>>
    /\ \/ ~ended /\ pc' = "next" /\ UNCHANGED code
       \/ Leave("incomplete")

More == {i \in cur + 1 .. 2 : select[InOrder[i]] # "no"}
First == CHOOSE n \in More : \A m \in More : n <= m

NextStream ==
    /\ pc = "next" /\ UNCHANGED <<input, bucket, dest, out, ended, verified, count>>
    /\ IF More = {} THEN /\ pc' = "done" /\ code' = "complete" /\ UNCHANGED <<loop, tmp, wasAbsent>>
       ELSE /\ cur' = First /\ body' = <<>> /\ got' = Nothing /\ written' = 0 /\ empties' = 0
            /\ wasAbsent' = (InOrder[First] \notin present)
            /\ IF ended THEN Leave("stopped") /\ UNCHANGED tmp
               ELSE IF select[InOrder[First]] = "output" THEN pc' = "get" /\ UNCHANGED <<code, tmp>>
               ELSE IF dest[path[InOrder[First]]] # Nobody THEN Leave("write_failed") /\ UNCHANGED tmp
               ELSE \/ pc' = "get" /\ tmp' = tmp \cup {InOrder[First]} /\ UNCHANGED code
                    \/ Leave("write_failed") /\ UNCHANGED tmp

\* A failed export removes its file and counts nothing; emitted output stays.
Fails(what) ==
    /\ Leave(what) /\ tmp' = tmp \ {stream}
    /\ count' = [count EXCEPT ![stream] = IF Exports THEN 0 ELSE written']
    /\ UNCHANGED <<dest, verified>>

(***************************************************************************)
(* S3Store.Get                                                             *)
(***************************************************************************)
calling == <<input, bucket, cur, got, written, empties, ended, out, wasAbsent>>

Opens == pc' = "read" /\ body' = object[stream].bytes /\ UNCHANGED <<code, dest, tmp, verified, count>>
Goes(where) == pc' = where /\ UNCHANGED <<body, code, dest, tmp, verified, count>>
Answers(what) == Fails(what) /\ UNCHANGED body

\* An object that is absent, or may not be read, is denied.
GetObject ==
    /\ pc = "get" /\ UNCHANGED calling
    /\ \/ Answers("unavailable")
       \/ stream \notin present /\ Answers("missing")
       \/ (stream \notin present \/ denied) /\ Goes("list")
       \/ stream \in present /\ ~denied /\ (IF object[stream].size = Bytes THEN Opens ELSE Answers("corrupt"))

\* Mutant of Unlisted: a denied GET is taken for an absent object.
Denied(s) == TRUE

Unlisted(s) == s \notin present

List ==
    /\ pc = "list" /\ UNCHANGED calling
    /\ \/ Answers("unavailable") \/ Answers("denied")
       \/ IF Unlisted(stream) THEN Answers("missing") ELSE Goes("again")

GetAgain ==
    /\ pc = "again" /\ UNCHANGED calling
    /\ \/ Answers("unavailable")
       \/ stream \notin present /\ Answers("missing")
       \/ (stream \notin present \/ denied) /\ Answers("denied")
       \/ stream \in present /\ ~denied /\ (IF object[stream].size = Bytes THEN Opens ELSE Answers("corrupt"))

CallInterrupted == pc \in {"get", "list", "again"} /\ ended /\ UNCHANGED calling /\ Answers("stopped")

(***************************************************************************)
(* CopyStream                                                              *)
(***************************************************************************)
Least(a, b) == IF a <= b THEN a ELSE b

\* One byte more than is expected may be read.  The connection may break.
ReadBody ==
    /\ pc = "read" /\ ~ended /\ pc' = "write"
    /\ \E n \in 0 .. Least(Len(body), Least(Chunk, Bytes - written + 1)), end \in {"no", "eof", "error"} :
         /\ end = "eof" => n = Len(body)
         /\ got' = [n |-> n, end |-> end]
    /\ UNCHANGED <<input, bucket, files, cur, body, written, empties, ended, report, wasAbsent>>

\* Mutant of ClosesBody: the end of the context does not close the body.
LeavesBody == FALSE

ClosesBody == TRUE

ReadInterrupted == pc = "read" /\ ended /\ ClosesBody /\ UNCHANGED <<calling, body>> /\ Fails("stopped")

\* Mutant of Exact: only the length is verified.
RightLength(bytes) == Len(bytes) = Bytes

Exact(bytes) == bytes = Recorded

Valid == Least(got.n, Bytes - written)

\* What a read returned is written, perhaps in part, and looked at.
Write ==
    /\ pc = "write" /\ UNCHANGED <<input, bucket, cur, got, ended, wasAbsent>>
    /\ \E n \in 0 .. Valid :
         /\ out' = [out EXCEPT ![stream] = @ \o SubSeq(body, 1, n)]
         /\ written' = written + n
         /\ body' = SubSeq(body, got.n + 1, Len(body))
         /\ empties' = IF got.n > 0 THEN 0 ELSE IF got.end = "no" THEN empties + 1 ELSE empties
         /\ IF ended THEN Fails("stopped")
            ELSE IF n # Valid THEN Fails("write_failed")
            ELSE IF got.n > Valid THEN Fails("corrupt")
            ELSE IF empties' >= MaxEmpty THEN Fails("unavailable")
            ELSE IF got.end = "no" THEN pc' = "read" /\ UNCHANGED <<dest, tmp, report>>
            ELSE IF got.end = "error" THEN Fails("unavailable")
            ELSE IF Exact(out'[stream]) THEN pc' = "copied" /\ UNCHANGED <<dest, tmp, report>>
            ELSE Fails("corrupt")

\* A pipe that nobody reads is given up at the deadline.
WriteInterrupted ==
    /\ pc = "write" /\ ended /\ ~Exports /\ UNCHANGED <<calling, body>> /\ Fails("stopped")

(***************************************************************************)
(* Run and ExportStream, after the copy                                    *)
(***************************************************************************)
Copied ==
    /\ pc = "copied" /\ UNCHANGED <<calling, body>>
    /\ IF ~Exports THEN /\ pc' = "next" /\ verified' = verified \cup {stream}
                        /\ count' = [count EXCEPT ![stream] = written] /\ UNCHANGED <<dest, tmp, code>>
       ELSE \/ ~ended /\ pc' = "link" /\ UNCHANGED <<dest, tmp, report>>
            \/ Fails("write_failed")

Free(p) == dest[p] = Nobody

\* link(2) publishes the file only where there is no entry.
Link ==
    /\ pc = "link" /\ UNCHANGED <<calling, body>>
    /\ \/ /\ Free(path[stream]) /\ pc' = "next" /\ tmp' = tmp \ {stream} /\ UNCHANGED code
          /\ dest' = [dest EXCEPT ![path[stream]] = [by |-> "logs", bytes |-> out[stream]]]
          /\ verified' = verified \cup {stream} /\ count' = [count EXCEPT ![stream] = written]
       \/ Fails("write_failed")

Local == Validate \/ Recover \/ NextStream \/ Copied \/ Link \/ (pc = "write" /\ Exports /\ Write)
Interrupts == CallInterrupted \/ ReadInterrupted \/ WriteInterrupted
Program == Local \/ GetObject \/ List \/ GetAgain \/ ReadBody \/ Write \/ Interrupts

(***************************************************************************)
(* The world                                                               *)
(***************************************************************************)
TimeIsUp ==
    /\ pc # "done" /\ ~ended /\ ended' = TRUE
    /\ UNCHANGED <<input, bucket, files, pc, loop, report, wasAbsent>>

Appears ==
    /\ pc # "done" /\ \E s \in Selected \ present : present' = present \cup {s}
    /\ UNCHANGED <<input, object, denied, files, pc, loop, ended, report, wasAbsent>>

Expires ==
    /\ pc # "done" /\ \E s \in present : present' = present \ {s} /\ wasAbsent' = (wasAbsent \/ (cur > 0 /\ s = stream))
    /\ UNCHANGED <<input, object, denied, files, pc, loop, ended, report>>

AnotherWrites ==
    /\ pc # "done" /\ \E p \in Paths : dest[p] = Nobody /\ dest' = [dest EXCEPT ![p] = Other]
    /\ UNCHANGED <<input, bucket, tmp, out, pc, loop, ended, report, wasAbsent>>

Killed ==
    /\ pc \notin {"done", "dead"} /\ pc' = "dead"
    /\ UNCHANGED <<input, bucket, files, loop, ended, report, wasAbsent>>

TransferNext == Program \/ TimeIsUp \/ Appears \/ Expires \/ AnotherWrites \/ Killed

TransferSpec == TransferInit /\ [][TransferNext]_transferVars

\* The timeout ends the context, and interrupted calls return; nothing is
\* assumed of S3, of the network or of the reader of standard output.
FairTransferSpec ==
    /\ TransferSpec
    /\ WF_transferVars(TimeIsUp) /\ WF_transferVars(Local) /\ WF_transferVars(Interrupts)

(***************************************************************************)
(* Properties                                                              *)
(***************************************************************************)
TransferTypeOK ==
    /\ pc \in {"check", "recover", "next", "get", "list", "again", "read", "write", "copied", "link", "done", "dead"}
    /\ cur \in 0..2 /\ verified \subseteq Selected /\ tmp \subseteq ToFiles
    /\ \A s \in Streams : Len(out[s]) <= Bytes /\ count[s] \in 0..Bytes
    /\ got.n \in 0..Chunk /\ empties <= MaxEmpty

\* A stream reported as verified is, byte for byte, the one that was recorded:
\* in its file or on the standard output.
VerifiedIsExact ==
    \A s \in verified :
        out[s] = Recorded /\ (select[s] = "file" => dest[path[s]] = [by |-> "logs", bytes |-> Recorded])

\* At no time, not even when the program is killed, does a destination hold part
\* of a stream or something unverified.
NeverAPartialFile == \A p \in Paths : dest[p].by = "logs" => dest[p].bytes = Recorded

\* The count of a stream is what was written of it, also after a failure: to the
\* standard output, or, verified, to a file.
CountIsTrue ==
    pc = "done" => \A s \in Selected :
        count[s] = IF select[s] = "output" \/ s \in verified THEN Len(out[s]) ELSE 0

\* Success means every selected stream; no end leaves a temporary file.
CompleteIsEverything ==
    pc = "done" => tmp = {} /\ (code = "complete" <=> verified = Selected /\ cur > 0)

\* What devbox logs says of the streams, and leaves behind, is true.
OutputIsGenuine == TransferTypeOK /\ VerifiedIsExact /\ NeverAPartialFile /\ CountIsTrue /\ CompleteIsEverything

(***************************************************************************)
(* What every step preserves, for the proofs: where the program stands in  *)
(* the sequence of streams, and what that says of the others.              *)
(***************************************************************************)
Fetching == pc \in {"get", "list", "again", "read", "write", "copied", "link"}

ValuesOK ==
    /\ select \in [Streams -> {"no", "file", "output"}] /\ path \in [Streams -> Paths]
    /\ object \in [Streams -> [size : Nat, bytes : Seq(BOOLEAN)]] /\ body \in Seq(BOOLEAN)
    /\ dest \in [Paths -> [by : {"nobody", "other", "logs"}, bytes : Seq(BOOLEAN)]]
    /\ out \in [Streams -> Seq(BOOLEAN)] /\ count \in [Streams -> 0..Bytes]
    /\ got \in [n : 0..Chunk, end : {"no", "eof", "error"}]
    /\ written \in 0..Bytes /\ empties \in 0..MaxEmpty

\* Selected streams are completed in their order; those to come are untouched.
SequenceOK ==
    /\ Selected # {} /\ (cur > 0 => stream \in Selected)
    /\ \A i \in 1..2 : i < cur /\ InOrder[i] \in Selected => InOrder[i] \in verified
    /\ \A i \in 1..2 : i > cur => InOrder[i] \notin verified
    /\ pc \in {"check", "recover"} => cur = 0
    /\ pc = "next" /\ cur > 0 => stream \in verified
    /\ Fetching => cur > 0 /\ stream \notin verified

\* The temporary file, the counts and what was written are those of the stream
\* that is being fetched.
OneAtATime ==
    /\ pc \in {"check", "recover", "next"} => tmp = {}
    /\ Fetching => tmp = (IF Exports THEN {stream} ELSE {})
    /\ Fetching => written = Len(out[stream])
    /\ \A s \in verified : count[s] = Len(out[s])
    /\ pc \notin {"done", "dead"} => \A s \in Streams \ verified : count[s] = 0
    /\ pc \notin {"done", "dead"} => \A s \in Streams \ verified : out[s] # <<>> => Fetching /\ s = stream

\* What a step of the copy relies on.
CopyOK ==
    /\ pc = "write" => got.n <= Len(body)
    /\ pc \in {"copied", "link"} => out[stream] = Recorded
    /\ pc = "link" => Exports
    /\ pc \in {"get", "list", "again", "read", "write"} => empties < MaxEmpty
    /\ pc \in {"get", "list", "again"} /\ stream \notin present => wasAbsent
    /\ pc # "done" => code = ""

TransferInv == OutputIsGenuine /\ ValuesOK /\ SequenceOK /\ OneAtATime /\ CopyOK

\* An object that exists from the beginning of its download to the answer is
\* never reported missing, although its GET may be denied.
PresentIsNotMissing == [][(code' = "missing" /\ code = "") => wasAbsent]_transferVars

\* The command ends, whatever the network and the reader of its output do.
LogsEnd == <>(pc \in {"done", "dead"})
=============================================================================
