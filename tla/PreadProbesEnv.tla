--------------------------- MODULE PreadProbesEnv ---------------------------
(***************************************************************************)
(* The probes with the most general consumer: the daemon may release a     *)
(* record of either ring buffer at any moment.                             *)
(***************************************************************************)
EXTENDS PreadProbes

vars == <<probes, rings>>

Init == ProbesInit /\ RingsInit

\* The consumer moves its position past one record.
Release ==
    /\ UNCHANGED probes
    /\ \/ prepareRb # <<>> /\ prepareRb' = Tail(prepareRb) /\ UNCHANGED submitRb
       \/ submitRb # <<>> /\ submitRb' = Tail(submitRb) /\ UNCHANGED prepareRb

Next == Release \/ \E t \in Threads : ProbeStep(t)

Spec == Init /\ [][Next]_vars

-----------------------------------------------------------------------------
Record == [pid : Pids, seq : Nat, size : Sizes]

\* Every variable keeps the shape the C declarations give it.
TypeOK ==
    /\ processOf \in Groupings
    /\ overridden \in {0, 1} /\ globalSeq \in Nat
    /\ fdInfo \in [Pids -> Nat]
    /\ tpc \in [Threads -> ThreadPC]
    /\ reg \in [Threads -> Nat] /\ size \in [Threads -> Sizes \cup {0}]
    /\ answer \in [Threads -> Nat]
    /\ preads \in 0..MaxPreads
    /\ handed \in [Pids -> Nat] /\ skipped \in [Pids -> Nat]
    /\ prepareRb \in Seq(Record) /\ Len(prepareRb) <= PrepareCapacity
    /\ submitRb \in Seq(Pids) /\ Len(submitRb) <= SubmitCapacity

\* No update is lost in a way that inflates a total: however the load and the
\* store of total_bytes_to_read interleave, batchSubmit never reports more
\* bytes than the process's preads handed over.
NeverOverReports == \A p \in Pids : fdInfo[p] <= handed[p]

\* A process of a single thread has, between its probes, either exactly the
\* bytes it handed over in its total, or no total at all because fd_info_map
\* was full when it came: never a part of them, whatever the threads of other
\* processes do to the flag, the counter and the map they all share.
Alone(p) == \A t, u \in Threads : Pid(t) = p /\ Pid(u) = p => t = u
Quiet(p) == \A t \in Threads : Pid(t) = p => At(t, "idle")

AllOrNothing ==
    \A p \in Pids : Alone(p) /\ Quiet(p) =>
        fdInfo[p] = handed[p] \/ (fdInfo[p] = Absent /\ FdFull)

\* readS compares the client's pointer with the address of a local array, and
\* the two never agree, so Verdicts is {0} in any build: then no record is
\* ever output, no total kept and no client told to skip a read.
Inert == /\ overridden = 0
         /\ prepareRb = <<>> /\ submitRb = <<>>
         /\ \A p \in Pids : fdInfo[p] = Absent
         /\ \A t \in Threads : answer[t] = 0
=============================================================================
