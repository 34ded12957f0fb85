----------------------------- MODULE HelperRing -----------------------------
(***************************************************************************)
(* An io_uring as its users see it, through liburing or through the        *)
(* helpers of bpftime: SQEs are prepared, perhaps linked to the next one,  *)
(* submitted together, performed by the kernel and their completions seen. *)
(*                                                                         *)
(* External: the ring, the helpers and the kernel are not in this          *)
(* repository.  Each helper is one step.  That is so for one caller at a   *)
(* time: the submission queue is not safe for two threads, its callers     *)
(* here take no lock, and what the ring holds once two of them may have    *)
(* been in a helper together is not modelled.  A property about the ring   *)
(* is therefore stated only until two probes overlap.                      *)
(*                                                                         *)
(* A request starts when the one before it in its chain has ended well;    *)
(* when one fails, the rest of its chain completes unperformed.  A         *)
(* submission ends the chain of its last SQE.  Completions find room.      *)
(***************************************************************************)
EXTENDS Naturals, Sequences, FiniteSets

CONSTANT Entries        \* SQEs of the ring

VARIABLES sq,           \* requests prepared and not submitted
          inflight,     \* requests the kernel has not ended
          cq            \* completions not seen

uring == <<sq, inflight, cq>>

RingInit == sq = <<>> /\ inflight = {} /\ cq = 0

Elements(s) == {s[k] : k \in DOMAIN s}
Ids(S)      == {r.id : r \in S}

\* The completions a caller can still come to see, submitting all.
Due == Len(sq) + Cardinality(inflight) + cq

\* io_uring_submit_write and the like; fails unless there is Room.
Room == Len(sq) < Entries

Prepared(id) == Append(sq, [id |-> id, linked |-> FALSE])

\* io_uring_set_linkflag: on the SQE prepared last.
Linked == [sq EXCEPT ![Len(sq)].linked = TRUE]

\* Where the chain of the k-th SQE begins.
ChainStart(k) == CHOOSE j \in 1..k : /\ \A i \in j..k - 1 : sq[i].linked
                                     /\ j = 1 \/ ~sq[j - 1].linked

Submitted ==
    {[id |-> sq[k].id, chain |-> sq[ChainStart(k)].id] : k \in DOMAIN sq}

Submit == inflight' = inflight \cup Submitted /\ sq' = <<>> /\ UNCHANGED cq

\* io_uring_wait_and_seen: blocks until there is a completion.
WaitAndSeen == cq > 0 /\ cq' = cq - 1 /\ UNCHANGED <<sq, inflight>>

\* What the kernel may work on; what goes with it if it fails.
Ready     == {r \in inflight : \A q \in inflight : q.chain = r.chain => r.id <= q.id}
ChainOf(r) == {q \in inflight : q.chain = r.chain}

\* The kernel ends requests, with a completion each.
End(S) == /\ inflight' = inflight \ S
          /\ cq' = cq + Cardinality(S)
          /\ UNCHANGED sq
=============================================================================
