----------------------------- MODULE SimpleRing -----------------------------
(***************************************************************************)
(* struct simple_ring of ring_pipeline/four_ring_pipeline.c: an array used *)
(* as a circular queue, one slot of which is always free so that a full    *)
(* ring and an empty one can be told apart.  Single threaded.              *)
(***************************************************************************)
EXTENDS Integers

CONSTANTS Size,       \* RING_SIZE
          Zeroed      \* what calloc leaves in a slot

ASSUME SizeAssumption == Size \in Nat \ {0}

Wrap(i) == i % Size

RingInit == [buf |-> [i \in 0..Size - 1 |-> Zeroed], head |-> 0, tail |-> 0]

\* Mutant: the end of the array is forgotten.
FullButAtTheEnd(r) == r.head + 1 = r.tail

RingIsFull(r) == Wrap(r.head + 1) = r.tail

RingIsEmpty(r) == r.head = r.tail

\* Mutant: head runs past the end of the array.
RingEnqueuePastEnd(r, p) ==
    IF RingIsFull(r) THEN r
    ELSE [r EXCEPT !.buf[r.head] = p, !.head = r.head + 1]

\* The ring after an enqueue; the call returns -1 exactly if the ring is full.
RingEnqueue(r, p) ==
    IF RingIsFull(r) THEN r
    ELSE [r EXCEPT !.buf[r.head] = p, !.head = Wrap(r.head + 1)]

\* Mutant: the newest packet is taken, not the oldest.
RingPop(r) ==
    IF RingIsEmpty(r) THEN r ELSE [r EXCEPT !.head = Wrap(r.head + Size - 1)]

\* The ring after a dequeue, which returns -1 exactly if the ring is empty ...
RingDequeue(r) ==
    IF RingIsEmpty(r) THEN r ELSE [r EXCEPT !.tail = Wrap(r.tail + 1)]

\* ... and otherwise has copied this packet to *p.
RingFront(r) == r.buf[r.tail]
=============================================================================
