----------------------------- MODULE ReadQueue -----------------------------
(***************************************************************************)
(* What the daemon promises for the reads handed to it: each is performed  *)
(* at most once, they are performed in the order in which they were handed *)
(* over, and one is dropped only when more than Limit of them are pending  *)
(* or when a read of its own batch, in front of it, went wrong.            *)
(***************************************************************************)
EXTENDS Naturals, Sequences

CONSTANTS Reads, Limit

VARIABLES queue,      \* the reads handed over and not yet dealt with
          done        \* the reads performed, in order

Init == queue = <<>> /\ done = <<>>

Request(r) == queue' = Append(queue, r) /\ UNCHANGED done

\* The first read is performed and the n - 1 behind it are cancelled with it.
Perform(n) ==
    /\ n \in 1..Len(queue)
    /\ done' = Append(done, queue[1])
    /\ queue' = SubSeq(queue, n + 1, Len(queue))

Drop(i) ==
    /\ Len(queue) > Limit
    /\ queue' = SubSeq(queue, 1, i - 1) \o SubSeq(queue, i + 1, Len(queue))
    /\ UNCHANGED done

Next == \/ \E r \in Reads : Request(r)
        \/ \E n \in 1..Len(queue) : Perform(n)
        \/ \E i \in 1..Len(queue) : Drop(i)

Spec == Init /\ [][Next]_<<queue, done>>
=============================================================================
