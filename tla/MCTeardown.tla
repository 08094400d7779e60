----------------------------- MODULE MCTeardown -----------------------------
(* An instance of Teardown for TLC: two workers behind one goroutine, so the
   second one waits for the first. *)
EXTENDS Teardown

Targets(t) == [kind |-> "targets", targets |-> t]
Scoped(k)  == [kind |-> k, targets |-> {}]

MCAsked == {Targets({1, Name}), Scoped("group"), Scoped("all")}

(* A running worker, whose disk goes with it until somebody flips its flag,
   and an older one whose disk was kept and is no longer listed with it. *)
Running(t) == [vm |-> "running", tag |-> t, keep |-> FALSE, disk |-> TRUE, mapped |-> TRUE]
Old(t)     == [vm |-> "terminated", tag |-> t, keep |-> TRUE, disk |-> TRUE, mapped |-> FALSE]

(* Two rivals for the name, a stranger to it, and a namesake from before. *)
MCStart == {<<Running("in"), Running("in")>>, <<Running("in"), Running("out")>>,
            <<Old("in"), Running("in")>>}
=============================================================================
