--------------------------- MODULE SimpleRingUse ---------------------------
(***************************************************************************)
(* A simple_ring in the hands of any caller, and the packet queue it       *)
(* implements.                                                             *)
(***************************************************************************)
EXTENDS SimpleRing, Sequences

CONSTANT Packets

VARIABLES ring,
          answer      \* of the last call: its return value and *p

vars == <<ring, answer>>

Init == ring = RingInit /\ answer = <<>>

Enqueue(p) ==
    /\ ring' = RingEnqueue(ring, p)
    /\ answer' = <<IF RingIsFull(ring) THEN -1 ELSE 0>>

Dequeue ==
    /\ ring' = RingDequeue(ring)
    /\ answer' = IF RingIsEmpty(ring) THEN <<-1>> ELSE <<0, RingFront(ring)>>

Next == (\E p \in Packets : Enqueue(p)) \/ Dequeue

Spec == Init /\ [][Next]_vars

-----------------------------------------------------------------------------
Indices == 0..Size - 1

\* head and tail stay inside the array buf has room for.
TypeOK ==
    /\ ring \in [buf : [Indices -> Packets \cup {Zeroed}],
                 head : Indices, tail : Indices]
    /\ answer \in {<<>>, <<0>>, <<-1>>} \cup ({0} \X (Packets \cup {Zeroed}))

\* The slots from tail up to head, around the end of the array, in order.
Count == Wrap(ring.head - ring.tail + Size)

Contents == [i \in 1..Count |-> ring.buf[Wrap(ring.tail + i - 1)]]

Promise == INSTANCE PacketQueue WITH Capacity <- Size - 1, queue <- Contents

\* For any sequence of calls ring_enqueue and ring_dequeue are the operations
\* of a queue of Size - 1 packets: nothing is lost, repeated, reordered or
\* overwritten when the indices wrap, full and empty are never confused, and
\* each call returns what the queue would.
IsPacketQueue == Promise!Spec
=============================================================================
