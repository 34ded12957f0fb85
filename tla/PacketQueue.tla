---------------------------- MODULE PacketQueue ----------------------------
(***************************************************************************)
(* What struct simple_ring promises: a queue of at most Capacity packets,  *)
(* in order, whose operations fail, with no effect, when it is full or     *)
(* empty.                                                                  *)
(***************************************************************************)
EXTENDS Integers, Sequences

CONSTANTS Packets, Capacity

VARIABLES queue,      \* the packets in it
          answer      \* of the last operation: its return value and *p

Init == queue = <<>> /\ answer = <<>>

Put(p) ==
    \/ /\ Len(queue) < Capacity
       /\ queue' = Append(queue, p)
       /\ answer' = <<0>>
    \/ /\ Len(queue) = Capacity
       /\ answer' = <<-1>>
       /\ UNCHANGED queue

Take ==
    \/ /\ queue # <<>>
       /\ queue' = Tail(queue)
       /\ answer' = <<0, Head(queue)>>
    \/ /\ queue = <<>>
       /\ answer' = <<-1>>
       /\ UNCHANGED queue

Next == (\E p \in Packets : Put(p)) \/ Take

Spec == Init /\ [][Next]_<<queue, answer>>
=============================================================================
