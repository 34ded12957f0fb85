---------------------------- MODULE RingPipeline ----------------------------
(***************************************************************************)
(* main of ring_pipeline/four_ring_pipeline.c: packets go through ring3    *)
(* and ring4 (SimpleRing) and are written to standard output through an    *)
(* io_uring.  The one packet buffer of the loop, pkt, is used by every     *)
(* stage, and the kernel reads it when it works on the write: an SQE holds *)
(* its address, not its content.                                           *)
(*                                                                         *)
(* io_uring_submit succeeds: its result is ignored at line 120.            *)
(***************************************************************************)
EXTENDS SimpleRing, Sequences

CONSTANTS Packets,    \* 10 in the code
          Entries     \* RING_SIZE entries in ring1

VARIABLES pc,
          i,              \* the loop's counter
          pkt,            \* which packet, and whether it is processed
          ring3, ring4,
          sq,             \* SQEs prepared and not submitted
          inflight,       \* writes the kernel has not worked on
          cq,             \* completions not seen
          written,        \* history: what the writes took from pkt, in order
          failed          \* history: the packets whose write failed

app    == <<pc, i, pkt, ring3, ring4>>
uring  == <<sq, inflight, cq>>
output == <<written, failed>>
vars   == <<app, uring, output>>

Init ==
    /\ pc = "receive" /\ i = 0 /\ pkt = Zeroed
    /\ ring3 = RingInit /\ ring4 = RingInit
    /\ sq = 0 /\ inflight = 0 /\ cq = 0
    /\ written = <<>> /\ failed = {}

\* "Simulate receive from ring2": a fresh packet goes into ring3.
Receive ==
    /\ pc = "receive" /\ i < Packets
    /\ pc' = "process"
    /\ pkt' = [n |-> i, processed |-> FALSE]
    /\ ring3' = RingEnqueue(ring3, pkt')
    /\ UNCHANGED <<i, ring4, uring, output>>

\* Mutant: one packet too few.
FinishEarly ==
    /\ pc = "receive" /\ i = Packets - 1
    /\ pc' = "done"
    /\ UNCHANGED <<i, pkt, ring3, ring4, uring, output>>

Finish ==
    /\ pc = "receive" /\ i = Packets
    /\ pc' = "done"
    /\ UNCHANGED <<i, pkt, ring3, ring4, uring, output>>

\* Mutant: the packet is passed on as it was received.
ProcessForgets ==
    /\ pc = "process" /\ pc' = "write"
    /\ IF RingIsEmpty(ring3)
       THEN UNCHANGED <<pkt, ring3, ring4>>
       ELSE /\ pkt' = RingFront(ring3)
            /\ ring3' = RingDequeue(ring3)
            /\ ring4' = RingEnqueue(ring4, pkt')
    /\ UNCHANGED <<i, uring, output>>

Process ==
    /\ pc = "process" /\ pc' = "write"
    /\ IF RingIsEmpty(ring3)
       THEN UNCHANGED <<pkt, ring3, ring4>>
       ELSE /\ pkt' = [RingFront(ring3) EXCEPT !.processed = TRUE]
            /\ ring3' = RingDequeue(ring3)
            /\ ring4' = RingEnqueue(ring4, pkt')
    /\ UNCHANGED <<i, uring, output>>

\* Mutant: the loop does not wait for the write.
WriteNoWait ==
    /\ pc = "write" /\ ~RingIsEmpty(ring4) /\ sq < Entries
    /\ pkt' = RingFront(ring4)
    /\ ring4' = RingDequeue(ring4)
    /\ inflight' = inflight + sq + 1 /\ sq' = 0
    /\ pc' = "receive" /\ i' = i + 1
    /\ UNCHANGED <<ring3, cq, output>>

\* Mutant: the write is prepared and not submitted.
WriteUnsubmitted ==
    /\ pc = "write" /\ ~RingIsEmpty(ring4) /\ sq < Entries
    /\ pkt' = RingFront(ring4)
    /\ ring4' = RingDequeue(ring4)
    /\ sq' = sq + 1
    /\ pc' = "wait"
    /\ UNCHANGED <<i, inflight, ring3, cq, output>>

\* With nothing in ring4 the loop goes on; with no SQE left it breaks, the
\* packet already taken; otherwise the write is prepared and submitted.
Write ==
    /\ pc = "write"
    /\ IF RingIsEmpty(ring4)
       THEN /\ pc' = "receive" /\ i' = i + 1
            /\ UNCHANGED <<pkt, ring4, sq, inflight>>
       ELSE /\ pkt' = RingFront(ring4)
            /\ ring4' = RingDequeue(ring4)
            /\ pc' = IF sq = Entries THEN "done" ELSE "wait"
            /\ inflight' = IF sq = Entries THEN inflight ELSE inflight + sq + 1
            /\ sq' = IF sq = Entries THEN sq ELSE 0
            /\ UNCHANGED i
    /\ UNCHANGED <<ring3, cq, output>>

\* io_uring_wait_cqe and io_uring_cqe_seen; the result is not looked at.
Seen ==
    /\ pc = "wait" /\ cq > 0
    /\ cq' = cq - 1
    /\ pc' = "receive" /\ i' = i + 1
    /\ UNCHANGED <<pkt, ring3, ring4, sq, inflight, output>>

\* The kernel writes what pkt holds now, or fails to.
KernelWrites ==
    /\ inflight > 0
    /\ inflight' = inflight - 1 /\ cq' = cq + 1
    /\ \/ written' = Append(written, pkt) /\ UNCHANGED failed
       \/ failed' = failed \cup {pkt.n} /\ UNCHANGED written
    /\ UNCHANGED <<app, sq>>

Main == Receive \/ Finish \/ Process \/ Write \/ Seen

-----------------------------------------------------------------------------
\* Although one buffer serves the packet being received, processed and
\* written, no write takes a packet that is not processed or one that has
\* been taken before, the packets come out in the order they came in, and in
\* the end each one was written unless its own write failed, which main does
\* not notice.
EachWrittenOnce ==
    /\ \A k \in DOMAIN written : written[k].processed
    /\ \A j, k \in DOMAIN written : j < k => written[j].n < written[k].n
    /\ pc = "done" =>
         {written[k].n : k \in DOMAIN written} \cup failed = 0..Packets - 1
=============================================================================
