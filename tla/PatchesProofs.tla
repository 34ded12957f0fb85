--------------------------- MODULE PatchesProofs ---------------------------
(***************************************************************************)
(* Theorems about the probes of backup.bpf.c and of batch.bpf.c, for any   *)
(* number of threads, any batch and any ring.  First, backup.bpf.c: no     *)
(* operation is performed twice, and none vanishes.                        *)
(*                                                                         *)
(* The places an operation can be in are disjoint because it moves from    *)
(* one to the next.  That it leaves the place it was in takes more than    *)
(* the sets of numbers say: no number is twice in the submission ring or   *)
(* twice in the kernel.  This is the strengthening.                        *)
(***************************************************************************)
EXTENDS Patches, FiniteSetTheorems, TLAPS

\* What the two programs do is what backup.bpf.c does, or nothing to it.
LEMMA BackupPart == PatchesSpec => PatchSpec
<1>1. PatchesInit => PatchInit
  BY DEF PatchesInit
<1>2. [PatchesNext]_all => [Patch]_vars
  BY DEF PatchesNext, InBackup, InBatch, all
<1> QED
  BY <1>1, <1>2, PTL DEF PatchesSpec, PatchSpec

Sqe == [id : Nat, linked : BOOLEAN]

Types == calls \in Nat /\ sq \in Seq(Sqe) /\ done \in Seq(Nat)

Prepping  == Ids(Elements(sq))
Working   == Ids(inflight)
Performed == Elements(done)

\* Each operation is somewhere ...
Somewhere == Prepping \cup Working \cup Performed \cup lost = 1..calls

\* ... and nowhere else.
Apart ==
    /\ Prepping \cap Working = {} /\ Prepping \cap Performed = {}
    /\ Prepping \cap lost = {} /\ Working \cap Performed = {}
    /\ Working \cap lost = {} /\ Performed \cap lost = {}

\* It is there once.
OnceInSq     == \A i, j \in DOMAIN sq : sq[i].id = sq[j].id => i = j
OnceInKernel == \A q, r \in inflight : q.id = r.id => q = r
OnceDone     == \A i, j \in DOMAIN done : done[i] = done[j] => i = j

IInv == Types /\ Somewhere /\ Apart /\ OnceInSq /\ OnceInKernel /\ OnceDone

-----------------------------------------------------------------------------
\* What is prepared is added to the ring.
LEMMA PreparedIds ==
    ASSUME sq \in Seq(Sqe), NEW i \in Nat
    PROVE  /\ Prepared(i) \in Seq(Sqe)
           /\ Ids(Elements(Prepared(i))) = Prepping \cup {i}
           /\ DOMAIN Prepared(i) = DOMAIN sq \cup {Len(sq) + 1}
           /\ \A k \in DOMAIN sq : Prepared(i)[k] = sq[k]
           /\ Prepared(i)[Len(sq) + 1].id = i
<1> DEFINE e == [id |-> i, linked |-> FALSE]
<1>1. e \in Sqe /\ e.id = i
  BY DEF Sqe
<1>2. Prepared(i) \in Seq(Sqe)
  BY <1>1 DEF Prepared
<1>3. /\ DOMAIN Prepared(i) = DOMAIN sq \cup {Len(sq) + 1}
      /\ \A k \in DOMAIN sq : Prepared(i)[k] = sq[k]
      /\ Prepared(i)[Len(sq) + 1] = e
  BY <1>1 DEF Prepared
<1>4. Elements(Prepared(i)) = Elements(sq) \cup {e}
  BY <1>3 DEF Elements
<1> QED
  BY <1>1, <1>2, <1>3, <1>4 DEF Ids, Prepping

\* The link flag changes no number.
LEMMA LinkedIds ==
    ASSUME sq \in Seq(Sqe), sq # <<>>
    PROVE  /\ Linked \in Seq(Sqe) /\ DOMAIN Linked = DOMAIN sq
           /\ \A k \in DOMAIN sq : Linked[k].id = sq[k].id
           /\ Ids(Elements(Linked)) = Prepping
<1>1. Len(sq) \in DOMAIN sq /\ sq[Len(sq)] \in Sqe
  OBVIOUS
<1>2. [sq[Len(sq)] EXCEPT !.linked = TRUE] \in Sqe
      /\ [sq[Len(sq)] EXCEPT !.linked = TRUE].id = sq[Len(sq)].id
  BY <1>1 DEF Sqe
<1>3. Linked \in Seq(Sqe) /\ DOMAIN Linked = DOMAIN sq
  BY <1>1, <1>2 DEF Linked
<1>4. ASSUME NEW k \in DOMAIN sq PROVE Linked[k].id = sq[k].id
  BY <1>1, <1>2 DEF Linked
<1>5. Ids(Elements(Linked)) = {Linked[k].id : k \in DOMAIN sq}
  BY <1>3 DEF Ids, Elements
<1>6. Prepping = {sq[k].id : k \in DOMAIN sq}
  BY DEF Prepping, Ids, Elements
<1> QED
  BY <1>3, <1>4, <1>5, <1>6

\* Submitting hands the operations over and keeps their numbers.
LEMMA SubmitMoves ==
    ASSUME IInv, Submit
    PROVE  /\ Prepping' = {} /\ Working' = Working \cup Prepping
           /\ OnceInKernel' /\ OnceInSq' /\ sq' \in Seq(Sqe)
<1>1. \A k \in DOMAIN sq :
        [id |-> sq[k].id, chain |-> sq[ChainStart(k)].id].id = sq[k].id
  OBVIOUS
<1>2. Ids(Submitted) = {sq[k].id : k \in DOMAIN sq}
  BY <1>1 DEF Ids, Submitted
<1>3. Prepping = {sq[k].id : k \in DOMAIN sq}
  BY DEF Prepping, Ids, Elements
<1>4. sq' = <<>> /\ inflight' = inflight \cup Submitted
  BY DEF Submit
<1>5. Working' = Working \cup Prepping
  BY <1>2, <1>3, <1>4 DEF Working, Ids
<1>6. Prepping' = {}
  BY <1>4 DEF Prepping, Ids, Elements
<1>7. ASSUME NEW q \in inflight', NEW r \in inflight', q.id = r.id
      PROVE  q = r
  <2>1. CASE q \in inflight /\ r \in inflight
    BY <1>7, <2>1 DEF IInv, OnceInKernel
  <2>2. CASE q \in Submitted /\ r \in Submitted
    <3>1. PICK i \in DOMAIN sq :
            q = [id |-> sq[i].id, chain |-> sq[ChainStart(i)].id]
      BY <2>2 DEF Submitted
    <3>2. PICK j \in DOMAIN sq :
            r = [id |-> sq[j].id, chain |-> sq[ChainStart(j)].id]
      BY <2>2 DEF Submitted
    <3>3. i = j
      BY <1>7, <3>1, <3>2 DEF IInv, OnceInSq
    <3> QED
      BY <3>1, <3>2, <3>3
  <2>3. ASSUME NEW a \in inflight, NEW b \in Submitted PROVE a.id # b.id
    <3>1. a.id \in Working /\ b.id \in Prepping
      BY <1>2, <1>3 DEF Working, Ids
    <3> QED
      BY <3>1 DEF IInv, Apart
  <2> QED
    BY <1>4, <1>7, <2>1, <2>2, <2>3
<1> QED
  BY <1>4, <1>5, <1>6, <1>7 DEF OnceInKernel, OnceInSq

-----------------------------------------------------------------------------
LEMMA InvInit == PatchInit => IInv
<1> SUFFICES ASSUME PatchInit PROVE IInv
  OBVIOUS
<1>1. /\ sq = <<>> /\ inflight = {} /\ done = <<>> /\ lost = {} /\ calls = 0
  BY DEF PatchInit, RingInit
<1>2. Elements(sq) = {} /\ Elements(done) = {}
  BY <1>1 DEF Elements
<1>3. Prepping = {} /\ Working = {} /\ Performed = {}
  BY <1>1, <1>2 DEF Prepping, Working, Performed, Ids
<1> QED
  BY <1>1, <1>3 DEF IInv, Types, Somewhere, Apart, OnceInSq, OnceInKernel,
                    OnceDone

\* A new number is added to the ring.
LEMMA QueueStep ==
    ASSUME IInv, sq' = Prepared(calls + 1), calls' = calls + 1,
           UNCHANGED <<inflight, done, lost>>
    PROVE  IInv'
<1>0. calls + 1 \in Nat /\ calls + 1 \notin 1..calls
      /\ 1..(calls + 1) = 1..calls \cup {calls + 1}
  BY DEF IInv, Types
<1>1. sq \in Seq(Sqe)
  BY DEF IInv, Types
<1>2. /\ sq' \in Seq(Sqe) /\ Prepping' = Prepping \cup {calls + 1}
      /\ DOMAIN sq' = DOMAIN sq \cup {Len(sq) + 1}
      /\ \A k \in DOMAIN sq : sq'[k] = sq[k]
      /\ sq'[Len(sq) + 1].id = calls + 1
  BY <1>0, <1>1, PreparedIds DEF Prepping
<1>3. Working' = Working /\ Performed' = Performed
  BY DEF Working, Performed
<1>4. Types'
  BY <1>0, <1>2 DEF IInv, Types
<1>5. Somewhere' /\ Apart'
  BY <1>0, <1>2, <1>3 DEF IInv, Somewhere, Apart
<1>6. \A k \in DOMAIN sq : sq[k].id \in 1..calls
  BY DEF IInv, Somewhere, Prepping, Ids, Elements
<1>7. OnceInSq'
  BY <1>0, <1>2, <1>6 DEF IInv, OnceInSq
<1> QED
  BY <1>4, <1>5, <1>7 DEF IInv, OnceInKernel, OnceDone

\* A number that is nowhere in the done operations is appended to them.
LEMMA AppendOnce ==
    ASSUME done \in Seq(Nat), OnceDone, NEW i \in Nat, i \notin Performed,
           done' = Append(done, i)
    PROVE  done' \in Seq(Nat) /\ OnceDone' /\ Performed' = Performed \cup {i}
<1>1. /\ DOMAIN done' = DOMAIN done \cup {Len(done) + 1}
      /\ \A k \in DOMAIN done : done'[k] = done[k]
      /\ done'[Len(done) + 1] = i /\ done' \in Seq(Nat)
  OBVIOUS
<1>2. \A k \in DOMAIN done : done[k] # i
  BY DEF Performed, Elements
<1>3. OnceDone'
  BY <1>1, <1>2 DEF OnceDone
<1>4. Performed' = Performed \cup {i}
  BY <1>1 DEF Performed, Elements
<1> QED
  BY <1>1, <1>3, <1>4

\* The ring was full, and the application performs the operation.
LEMMA OwnCallStep ==
    ASSUME IInv, NEW t \in Threads, OwnCall(t)
    PROVE  IInv'
<1>1. /\ done' = Append(done, calls + 1) /\ calls' = calls + 1
      /\ UNCHANGED <<sq, inflight, lost>>
  BY DEF OwnCall, Call, uring
<1>2. calls + 1 \in Nat /\ calls + 1 \notin 1..calls
      /\ 1..(calls + 1) = 1..calls \cup {calls + 1}
  BY DEF IInv, Types
<1>3. calls + 1 \notin Performed
  BY <1>2 DEF IInv, Somewhere
<1>4. done' \in Seq(Nat) /\ OnceDone' /\ Performed' = Performed \cup {calls + 1}
  BY <1>1, <1>2, <1>3, AppendOnce DEF IInv, Types
<1>5. Prepping' = Prepping /\ Working' = Working
  BY <1>1 DEF Prepping, Working
<1>6. Types'
  BY <1>1, <1>2, <1>4 DEF IInv, Types
<1>7. Somewhere' /\ Apart'
  BY <1>1, <1>2, <1>4, <1>5 DEF IInv, Somewhere, Apart
<1> QED
  BY <1>1, <1>4, <1>6, <1>7 DEF IInv, OnceInSq, OnceInKernel

LEMMA LinkStep ==
    ASSUME IInv, NEW t \in Threads, SetLinkflag(t)
    PROVE  IInv'
<1>1. /\ sq' = IF sq = <<>> THEN sq ELSE Linked
      /\ UNCHANGED <<inflight, done, lost, calls>>
  BY DEF SetLinkflag, history
<1>2. CASE sq = <<>>
  BY <1>1, <1>2 DEF IInv, Types, Somewhere, Apart, OnceInSq, OnceInKernel,
                    OnceDone, Prepping, Working, Performed
<1>3. CASE sq # <<>>
  <2>1. /\ sq' \in Seq(Sqe) /\ DOMAIN sq' = DOMAIN sq
        /\ \A k \in DOMAIN sq : sq'[k].id = sq[k].id
        /\ Prepping' = Prepping
    BY <1>1, <1>3, LinkedIds DEF IInv, Types, Prepping
  <2>2. Working' = Working /\ Performed' = Performed
    BY <1>1 DEF Working, Performed
  <2>3. Types' /\ Somewhere' /\ Apart'
    BY <1>1, <2>1, <2>2 DEF IInv, Types, Somewhere, Apart
  <2>4. OnceInSq'
    BY <2>1 DEF IInv, OnceInSq
  <2> QED
    BY <1>1, <2>3, <2>4 DEF IInv, OnceInKernel, OnceDone
<1> QED
  BY <1>2, <1>3

LEMMA SubmitStep ==
    ASSUME IInv, Submit, UNCHANGED <<done, lost, calls>>
    PROVE  IInv'
<1>1. /\ Prepping' = {} /\ Working' = Working \cup Prepping
      /\ OnceInKernel' /\ OnceInSq' /\ sq' \in Seq(Sqe)
  BY SubmitMoves
<1>2. Performed' = Performed
  BY DEF Performed
<1>3. Types' /\ OnceDone'
  BY <1>1 DEF IInv, Types, OnceDone
<1>4. Somewhere' /\ Apart'
  BY <1>1, <1>2 DEF IInv, Somewhere, Apart
<1> QED
  BY <1>1, <1>3, <1>4 DEF IInv

\* What ends leaves the kernel, and only that.
LEMMA EndLeaves ==
    ASSUME OnceInKernel, NEW S \in SUBSET inflight, End(S)
    PROVE  Working' = Working \ Ids(S) /\ Ids(S) \subseteq Working /\ OnceInKernel'
<1>1. inflight' = inflight \ S
  BY DEF End
<1>2. \A q \in inflight, r \in S : q.id = r.id => q \in S
  BY DEF OnceInKernel
<1>3. Working' = Working \ Ids(S)
  BY <1>1, <1>2 DEF Working, Ids
<1> QED
  BY <1>1, <1>3 DEF Working, Ids, OnceInKernel

LEMMA WorksStep == IInv /\ Works => IInv'
<1> SUFFICES ASSUME IInv, Works PROVE IInv'
  OBVIOUS
<1>1. PICK r \in Ready :
        \/ End({r}) /\ done' = Append(done, r.id) /\ UNCHANGED lost
        \/ End(ChainOf(r)) /\ lost' = lost \cup Ids(ChainOf(r)) /\ UNCHANGED done
  BY DEF Works
<1>2. r \in inflight /\ ChainOf(r) \subseteq inflight /\ calls' = calls
  BY DEF Ready, ChainOf, Works
<1>3. r.id \in Working
  BY <1>2 DEF Working, Ids
<1>4. CASE End({r}) /\ done' = Append(done, r.id) /\ UNCHANGED lost
  <2>1. Ids({r}) = {r.id}
    BY DEF Ids
  <2>2. Working' = Working \ {r.id} /\ OnceInKernel' /\ sq' = sq
    BY <1>2, <1>4, <2>1, EndLeaves DEF IInv, End
  <2>3. r.id \in Nat /\ r.id \notin Performed
    BY <1>3 DEF IInv, Types, Somewhere, Apart
  <2>4. done' \in Seq(Nat) /\ OnceDone' /\ Performed' = Performed \cup {r.id}
    BY <1>4, <2>3, AppendOnce DEF IInv, Types
  <2>5. Prepping' = Prepping
    BY <2>2 DEF Prepping
  <2>6. Types' /\ OnceInSq'
    BY <1>2, <2>2, <2>4 DEF IInv, Types, OnceInSq
  <2>7. Somewhere' /\ Apart'
    BY <1>2, <1>3, <1>4, <2>2, <2>4, <2>5 DEF IInv, Somewhere, Apart
  <2> QED
    BY <2>2, <2>4, <2>6, <2>7 DEF IInv
<1>5. CASE End(ChainOf(r)) /\ lost' = lost \cup Ids(ChainOf(r)) /\ UNCHANGED done
  <2>1. /\ Working' = Working \ Ids(ChainOf(r)) /\ OnceInKernel' /\ sq' = sq
        /\ Ids(ChainOf(r)) \subseteq Working
    BY <1>2, <1>5, EndLeaves DEF IInv, End
  <2>2. Prepping' = Prepping /\ Performed' = Performed
    BY <1>5, <2>1 DEF Prepping, Performed
  <2>3. Types' /\ OnceInSq' /\ OnceDone'
    BY <1>2, <1>5, <2>1 DEF IInv, Types, OnceInSq, OnceDone
  <2>4. Somewhere' /\ Apart'
    BY <1>2, <1>5, <2>1, <2>2 DEF IInv, Somewhere, Apart
  <2> QED
    BY <2>1, <2>3, <2>4 DEF IInv
<1> QED
  BY <1>1, <1>4, <1>5

\* All that the invariant speaks of stays as it is.
LEMMA Untouched ==
    IInv /\ UNCHANGED <<sq, inflight, done, lost, calls>> => IInv'
BY DEF IInv, Types, Somewhere, Apart, OnceInSq, OnceInKernel, OnceDone,
       Prepping, Working, Performed

LEMMA InvStep == IInv /\ [Patch]_vars => IInv'
<1> SUFFICES ASSUME IInv, [Patch]_vars PROVE IInv'
  OBVIOUS
<1>1. ASSUME NEW t \in Threads, Queue(t) PROVE IInv'
  BY <1>1, QueueStep DEF Queue, Call
<1>2. ASSUME NEW t \in Threads, OwnCall(t) PROVE IInv'
  BY <1>2, OwnCallStep
<1>3. ASSUME NEW t \in Threads, SetLinkflag(t) PROVE IInv'
  BY <1>3, LinkStep
<1>4. ASSUME NEW t \in Threads, SubmitBatch(t) PROVE IInv'
  BY <1>4, SubmitStep DEF SubmitBatch, history
<1>5. ASSUME NEW t \in Threads, Flush(t) PROVE IInv'
  BY <1>5, SubmitStep DEF Flush
<1>6. ASSUME NEW t \in Threads,
             \/ CountUp(t) \/ Insert(t) \/ NotFull(t) \/ Wait(t) \/ Reap(t)
             \/ WaitOver(t) \/ Find(t) \/ Reset(t)
      PROVE  IInv'
  <2>1. UNCHANGED <<sq, inflight, done, lost, calls>>
    BY <1>6 DEF CountUp, Load, Store, Insert, NotFull, Wait, Reap,
                WaitAndSeen, WaitOver, Find, Reset, uring, history
  <2> QED
    BY <2>1, Untouched
<1>7. CASE Works
  BY <1>7, WorksStep
<1>8. CASE UNCHANGED vars
  BY <1>8, Untouched DEF vars, uring, history
<1> QED
  BY <1>1, <1>2, <1>3, <1>4, <1>5, <1>6, <1>7, <1>8 DEF Patch, Run

\* The four places, as EachOpOnce lists them.
LEMMA InvImplies == IInv => EachOpOnce
<1> SUFFICES ASSUME IInv PROVE EachOpOnce
  OBVIOUS
<1> DEFINE places == <<Prepping, Working, Performed, lost>>
<1>1. DOMAIN places = 1..4 /\ Elements(places) = {places[k] : k \in 1..4}
  BY DEF Elements
<1>2. /\ places[1] = Prepping /\ places[2] = Working
      /\ places[3] = Performed /\ places[4] = lost
  OBVIOUS
<1>3. Elements(places) = {Prepping, Working, Performed, lost}
  <2> HIDE DEF places
  <2>1. \A k \in 1..4 : k = 1 \/ k = 2 \/ k = 3 \/ k = 4
    OBVIOUS
  <2>2. 1 \in 1..4 /\ 2 \in 1..4 /\ 3 \in 1..4 /\ 4 \in 1..4
    OBVIOUS
  <2> QED
    BY <1>1, <1>2, <2>1, <2>2
<1>4. UNION Elements(places) = 1..calls
  <2>1. UNION {Prepping, Working, Performed, lost}
        = Prepping \cup Working \cup Performed \cup lost
    OBVIOUS
  <2> QED
    BY <1>3, <2>1 DEF IInv, Somewhere
<1>5. ASSUME NEW i \in 1..4, NEW j \in 1..4, i # j
      PROVE  places[i] \cap places[j] = {}
  <2> HIDE DEF places
  <2>1. (i = 1 \/ i = 2 \/ i = 3 \/ i = 4) /\ (j = 1 \/ j = 2 \/ j = 3 \/ j = 4)
    OBVIOUS
  <2> QED
    BY <1>2, <1>5, <2>1 DEF IInv, Apart
<1> QED
  BY <1>4, <1>5 DEF EachOpOnce, Prepping, Working, Performed, IInv, OnceDone

\* backup.bpf.c, for any threads, batch and ring: until two probes overlap,
\* every operation of the application is in one place only, once, whether its
\* probe found room for it or not, and whatever fails and is cancelled.
THEOREM NoneTwiceNoneGone == PatchesSpec => []EachOpOnce
<1>1. PatchInit => IInv
  BY InvInit
<1>2. IInv /\ [Patch]_vars => IInv'
  BY InvStep
<1>3. IInv => EachOpOnce
  BY InvImplies
<1> QED
  BY <1>1, <1>2, <1>3, BackupPart, PTL DEF PatchSpec
-----------------------------------------------------------------------------
(***************************************************************************)
(* Second: until two probes overlap, op_count is what is outstanding.      *)
(* EntryAt says for each place of a probe how the ring relates to it, and  *)
(* that the entry looked up after a batch is there: it was filed under the *)
(* same count.                                                             *)
(***************************************************************************)
Places == {"app", "link", "count", "plus", "copy", "paste", "insert", "test",
           "wait", "block", "find", "flush", "drain", "reset"}

Shapes == /\ pc \in [Threads -> Places] /\ seen \in [Threads -> Nat]
          /\ res \in [Threads -> {0, 1}] /\ count \in Nat

\* One thread at a time is in a probe.
Alone == \A t, u \in Threads : pc[t] # "app" /\ pc[u] # "app" => t = u

NoneRunning == \A t \in Threads : pc[t] = "app"

Idle == inflight = {} /\ cq = 0

\* A wait: what was seen and what is to come make the count.
Waited(t) == /\ Len(sq) = 0 /\ IsFiniteSet(inflight)
             /\ seen[t] + Cardinality(inflight) + cq = count

EntryAt(t) ==
    /\ pc[t] \in {"link", "count"} => Idle /\ Len(sq) = count + 1
    /\ pc[t] = "plus" => Idle /\ Len(sq) = seen[t] + 1
    /\ pc[t] \in {"copy", "insert", "test"} => Idle /\ Len(sq) = count
    /\ pc[t] = "paste" => Idle /\ Len(sq) = seen[t]
    /\ pc[t] \in {"test", "wait", "block", "find"} => count \in keys
    /\ pc[t] \in {"wait", "block", "flush", "drain"} => Waited(t)
    /\ pc[t] \in {"wait", "block"} => res[t] = 1
    /\ pc[t] = "find" => Idle /\ Len(sq) = IF res[t] = 1 THEN 0 ELSE count
    /\ pc[t] = "reset" => Idle /\ Len(sq) = 0

AtRest == NoneRunning => Idle /\ Len(sq) = count

Inner == cq \in Nat /\ Alone /\ AtRest /\ \A t \in Threads : EntryAt(t)

CInv == IInv /\ Shapes /\ (~overlapped => Inner)

\* As many requests are submitted as SQEs were prepared.
LEMMA SubmittedCard ==
    ASSUME sq \in Seq(Sqe), OnceInSq
    PROVE  IsFiniteSet(Submitted) /\ Cardinality(Submitted) = Len(sq)
<1> DEFINE r(k) == [id |-> sq[k].id, chain |-> sq[ChainStart(k)].id]
           f == [k \in 1..Len(sq) |-> r(k)]
<1>1. DOMAIN sq = 1..Len(sq) /\ Len(sq) \in Nat
  OBVIOUS
<1>2. Submitted = {r(k) : k \in 1..Len(sq)}
  BY <1>1 DEF Submitted
<1>3. \A i \in 1..Len(sq) : f[i].id = sq[i].id
  OBVIOUS
<1>4. f \in [1..Len(sq) -> Submitted]
  BY <1>2
<1>5. \A i, j \in 1..Len(sq) : f[i] = f[j] => i = j
  BY <1>1, <1>3 DEF OnceInSq
<1>6. \A x \in Submitted : \E k \in 1..Len(sq) : f[k] = x
  BY <1>2
<1>7. f \in Bijection(1..Len(sq), Submitted)
  <2> HIDE DEF f
  <2>1. DOMAIN f = 1..Len(sq)
    BY <1>4
  <2>2. IsInjective(f)
    BY <1>5, <2>1 DEF IsInjective
  <2> QED
    BY <1>4, <1>6, <2>2 DEF Bijection, Injection, Surjection
<1>8. ExistsBijection(1..Len(sq), Submitted)
  BY <1>7 DEF ExistsBijection
<1>9. IsFiniteSet(1..Len(sq)) /\ Cardinality(1..Len(sq)) = Len(sq)
  <2>1. ASSUME NEW n \in Nat PROVE IsFiniteSet(1..n) /\ Cardinality(1..n) = n
    <3>1. Cardinality(1..n) = IF 1 > n THEN 0 ELSE n - 1 + 1
      BY FS_Interval
    <3> QED
      BY <3>1, FS_Interval
  <2> QED
    BY <1>1, <2>1
<1> QED
  BY <1>8, <1>9, FS_Bijection

\* What ends is no longer in the kernel and has its completions.
LEMMA EndCard ==
    ASSUME IsFiniteSet(inflight), NEW S \in SUBSET inflight, cq \in Nat, End(S)
    PROVE  /\ IsFiniteSet(inflight') /\ cq' \in Nat
           /\ Cardinality(inflight) + cq = Cardinality(inflight') + cq'
<1>1. inflight' = inflight \ S /\ cq' = cq + Cardinality(S)
  BY DEF End
<1>2. IsFiniteSet(S) /\ IsFiniteSet(inflight')
  BY <1>1, FS_Subset
<1>3. /\ Cardinality(S) \in Nat /\ Cardinality(inflight') \in Nat
      /\ Cardinality(inflight) \in Nat
  BY <1>2, FS_CardinalityType
<1>4. S \cup inflight' = inflight /\ S \cap inflight' = {}
  BY <1>1
<1>5. Cardinality(inflight) = Cardinality(S) + Cardinality(inflight')
  <2>1. Cardinality(S \cup inflight')
        = Cardinality(S) + Cardinality(inflight') - Cardinality(S \cap inflight')
    BY <1>2, FS_Union
  <2>2. Cardinality(S \cap inflight') = 0
    BY <1>4, FS_EmptySet
  <2>3. Cardinality(S \cup inflight') = Cardinality(inflight)
    BY <1>4
  <2> QED
    BY <2>1, <2>2, <2>3, <1>3
<1> QED
  BY <1>1, <1>2, <1>3, <1>5

\* Every variable keeps its shape.
LEMMA ShapesStep == Shapes /\ [Patch]_vars => Shapes'
<1> SUFFICES ASSUME Shapes, [Patch]_vars PROVE Shapes'
  OBVIOUS
<1> USE DEF Shapes, At, Return, Places
<1>1. ASSUME NEW t \in Threads, Queue(t) PROVE Shapes'
  BY <1>1 DEF Queue, Call, Enter
<1>2. ASSUME NEW t \in Threads, OwnCall(t) PROVE Shapes'
  BY <1>2 DEF OwnCall, thread
<1>3. ASSUME NEW t \in Threads, SetLinkflag(t) PROVE Shapes'
  BY <1>3 DEF SetLinkflag
<1>4. ASSUME NEW t \in Threads, CountUp(t) PROVE Shapes'
  <2>1. ASSUME NEW from \in Places, NEW to \in Places, Load(t, from, to)
        PROVE  Shapes'
    BY <2>1 DEF Load
  <2>2. ASSUME NEW from \in Places, NEW to \in Places, NEW by \in {0, 1},
               Store(t, by, from, to)
        PROVE  Shapes'
    BY <2>2 DEF Store
  <2> QED
    BY <1>4, <2>1, <2>2 DEF CountUp
<1>5. ASSUME NEW t \in Threads, Insert(t) PROVE Shapes'
  BY <1>5 DEF Insert
<1>6. ASSUME NEW t \in Threads, NotFull(t) PROVE Shapes'
  BY <1>6 DEF NotFull
<1>7. ASSUME NEW t \in Threads, SubmitBatch(t) PROVE Shapes'
  BY <1>7 DEF SubmitBatch
<1>8. ASSUME NEW t \in Threads, Wait(t) PROVE Shapes'
  BY <1>8 DEF Wait
<1>9. ASSUME NEW t \in Threads, WaitOver(t) PROVE Shapes'
  BY <1>9 DEF WaitOver
<1>10. ASSUME NEW t \in Threads, Find(t) PROVE Shapes'
  BY <1>10 DEF Find
<1>11. ASSUME NEW t \in Threads, Reset(t) PROVE Shapes'
  BY <1>11 DEF Reset
<1>12. ASSUME NEW t \in Threads, Flush(t) PROVE Shapes'
  BY <1>12 DEF Flush
<1>13. CASE Works
  BY <1>13 DEF Works, thread
<1>14. CASE UNCHANGED vars
  BY <1>14 DEF vars, thread
<1>15. ASSUME NEW t \in Threads, Reap(t) PROVE Shapes'
  BY <1>15 DEF Reap
<1> QED
  BY <1>1, <1>2, <1>3, <1>4, <1>5, <1>6, <1>7, <1>8, <1>9, <1>10, <1>11,
     <1>12, <1>13, <1>14, <1>15 DEF Patch, Run

\* A thread alone in a probe goes on; of the others nothing is said.
LEMMA Moved ==
    ASSUME Shapes, NEW t \in Threads, \A u \in Threads \ {t} : pc[u] = "app",
           NEW to, pc' = [pc EXCEPT ![t] = to], cq' \in Nat, EntryAt(t)',
           to = "app" => Idle' /\ Len(sq') = count'
    PROVE  Inner'
<1>1. pc'[t] = to /\ \A u \in Threads \ {t} : pc'[u] = "app"
  BY DEF Shapes
<1>2. Alone'
  BY <1>1 DEF Alone
<1>3. AtRest'
  BY <1>1 DEF AtRest, NoneRunning
<1>4. \A u \in Threads \ {t} : EntryAt(u)'
  BY <1>1 DEF EntryAt
<1> QED
  BY <1>2, <1>3, <1>4 DEF Inner

\* What the ring is about stays as it is.
LEMMA InnerUntouched ==
    Inner /\ UNCHANGED <<uring, thread, count, keys>> => Inner'
BY DEF Inner, Alone, AtRest, NoneRunning, EntryAt, Waited, Idle, uring, thread

\* A probe on its way.
LEMMA InnerRun ==
    ASSUME IInv, Shapes, Inner, NEW t \in Threads, Run(t)
    PROVE  Inner'
<1> USE DEF At, Return
<1>t. /\ seen[t] \in Nat /\ res[t] \in {0, 1} /\ count \in Nat /\ cq \in Nat
      /\ sq \in Seq(Sqe) /\ Len(sq) \in Nat
  BY DEF IInv, Types, Shapes, Inner
<1>f. /\ pc \in [Threads -> Places] /\ seen \in [Threads -> Nat]
      /\ res \in [Threads -> {0, 1}]
  BY DEF Shapes
<1>r. EntryAt(t)
  BY DEF Inner
<1>o. pc[t] # "app" => \A u \in Threads \ {t} : pc[u] = "app"
  BY DEF Inner, Alone
<1>1. CASE SetLinkflag(t)
  <2>1. pc[t] = "link" /\ pc' = [pc EXCEPT ![t] = "count"]
        /\ UNCHANGED <<inflight, cq, count>>
    BY <1>1 DEF SetLinkflag
  <2>2. pc'[t] = "count" /\ Idle /\ Len(sq) = count + 1
    BY <2>1, <1>f, <1>r DEF EntryAt
  <2>3. Len(sq') = Len(sq)
    BY <1>1, <1>t DEF SetLinkflag, Linked
  <2>4. EntryAt(t)'
    BY <2>1, <2>2, <2>3 DEF EntryAt, Idle
  <2> QED
    BY <2>1, <2>4, <1>t, <1>o, Moved
<1>2. CASE CountUp(t)
  <2>1. UNCHANGED <<sq, inflight, cq, keys>>
    BY <1>2 DEF CountUp, Load, Store, uring
  <2>2. CASE Load(t, "count", "plus")
    <3>1. pc[t] = "count" /\ pc' = [pc EXCEPT ![t] = "plus"]
          /\ seen'[t] = count
      BY <2>2, <1>f DEF Load
    <3>2. pc'[t] = "plus" /\ Idle /\ Len(sq) = count + 1
      BY <3>1, <1>f, <1>r DEF EntryAt
    <3>3. EntryAt(t)'
      BY <2>1, <3>1, <3>2 DEF EntryAt, Idle
    <3> QED
      BY <2>1, <3>1, <3>3, <1>t, <1>o, Moved
  <2>3. CASE Store(t, 1, "plus", "copy")
    <3>1. pc[t] = "plus" /\ pc' = [pc EXCEPT ![t] = "copy"]
          /\ count' = seen[t] + 1
      BY <2>3 DEF Store
    <3>2. pc'[t] = "copy" /\ Idle /\ Len(sq) = seen[t] + 1
      BY <3>1, <1>f, <1>r DEF EntryAt
    <3>3. EntryAt(t)'
      BY <2>1, <3>1, <3>2 DEF EntryAt, Idle
    <3> QED
      BY <2>1, <3>1, <3>3, <1>t, <1>o, Moved
  <2>4. CASE Load(t, "copy", "paste")
    <3>1. pc[t] = "copy" /\ pc' = [pc EXCEPT ![t] = "paste"]
          /\ seen'[t] = count
      BY <2>4, <1>f DEF Load
    <3>2. pc'[t] = "paste" /\ Idle /\ Len(sq) = count
      BY <3>1, <1>f, <1>r DEF EntryAt
    <3>3. EntryAt(t)'
      BY <2>1, <3>1, <3>2 DEF EntryAt, Idle
    <3> QED
      BY <2>1, <3>1, <3>3, <1>t, <1>o, Moved
  <2>5. CASE Store(t, 0, "paste", "insert")
    <3>1. pc[t] = "paste" /\ pc' = [pc EXCEPT ![t] = "insert"]
          /\ count' = seen[t] + 0
      BY <2>5 DEF Store
    <3>2. pc'[t] = "insert" /\ Idle /\ Len(sq) = seen[t]
      BY <3>1, <1>f, <1>r DEF EntryAt
    <3>3. EntryAt(t)'
      BY <2>1, <3>1, <3>2, <1>t DEF EntryAt, Idle
    <3> QED
      BY <2>1, <3>1, <3>3, <1>t, <1>o, Moved
  <2> QED
    BY <1>2, <2>2, <2>3, <2>4, <2>5 DEF CountUp
<1>3. CASE Insert(t)
  <2>1. pc[t] = "insert" /\ pc' = [pc EXCEPT ![t] = "test"]
        /\ UNCHANGED <<sq, inflight, cq, count>> /\ count \in keys'
    BY <1>3 DEF Insert, uring
  <2>2. pc'[t] = "test" /\ Idle /\ Len(sq) = count
    BY <2>1, <1>f, <1>r DEF EntryAt
  <2>3. EntryAt(t)'
    BY <2>1, <2>2 DEF EntryAt, Idle
  <2> QED
    BY <2>1, <2>3, <1>t, <1>o, Moved
<1>4. CASE NotFull(t)
  <2>1. pc[t] = "test" /\ pc' = [pc EXCEPT ![t] = "find"]
        /\ UNCHANGED <<sq, inflight, cq, count, keys>> /\ res'[t] = 0
    BY <1>4, <1>f DEF NotFull, uring
  <2>2. pc'[t] = "find" /\ Idle /\ Len(sq) = count /\ count \in keys
    BY <2>1, <1>f, <1>r DEF EntryAt
  <2>3. EntryAt(t)'
    BY <2>1, <2>2 DEF EntryAt, Idle
  <2> QED
    BY <2>1, <2>3, <1>t, <1>o, Moved
<1>5. CASE SubmitBatch(t)
  <2>1. pc[t] = "test" /\ pc' = [pc EXCEPT ![t] = "wait"]
        /\ sq' = <<>> /\ inflight' = inflight \cup Submitted
        /\ UNCHANGED <<cq, count, keys>> /\ res'[t] = 1 /\ seen'[t] = 0
    BY <1>5, <1>f DEF SubmitBatch, Submit
  <2>2. pc'[t] = "wait" /\ Idle /\ Len(sq) = count /\ count \in keys
    BY <2>1, <1>f, <1>r DEF EntryAt
  <2>3. inflight' = Submitted /\ cq = 0
    BY <2>1, <2>2 DEF Idle
  <2>4. IsFiniteSet(inflight') /\ Cardinality(inflight') = count
    BY <2>2, <2>3, <1>t, SubmittedCard DEF IInv
  <2>5. Waited(t)'
    BY <2>1, <2>3, <2>4, <1>t DEF Waited
  <2>6. EntryAt(t)'
    BY <2>1, <2>2, <2>5 DEF EntryAt
  <2> QED
    BY <2>1, <2>6, <1>t, <1>o, Moved
<1>6. CASE Reap(t)
  <2>1. /\ \/ pc[t] = "block" /\ pc' = [pc EXCEPT ![t] = "wait"]
           \/ pc[t] = "drain" /\ pc' = [pc EXCEPT ![t] = "flush"]
        /\ cq > 0 /\ cq' = cq - 1
        /\ UNCHANGED <<sq, inflight, res, count, keys>>
        /\ seen'[t] = seen[t] + 1
    BY <1>6, <1>f DEF Reap, WaitAndSeen
  <2>2. Waited(t)
    BY <2>1, <1>r DEF EntryAt
  <2>3. Cardinality(inflight) \in Nat
    BY <2>2, FS_CardinalityType DEF Waited
  <2>4. seen[t] + 1 + Cardinality(inflight) + (cq - 1) = count /\ cq' \in Nat
    BY <2>1, <2>2, <2>3, <1>t DEF Waited
  <2>5. Waited(t)'
    BY <2>1, <2>2, <2>4 DEF Waited
  <2>6. pc[t] # "app" /\ pc'[t] \in {"wait", "flush"}
        /\ (pc'[t] = "wait" => pc[t] = "block")
    BY <2>1, <1>f
  <2>7. EntryAt(t)'
    BY <2>1, <2>5, <2>6, <1>r DEF EntryAt
  <2> QED
    BY <2>1, <2>4, <2>7, <1>o, Moved
<1>10. CASE Wait(t)
  <2>1. /\ \/ pc[t] = "wait" /\ pc' = [pc EXCEPT ![t] = "block"]
           \/ pc[t] = "flush" /\ pc' = [pc EXCEPT ![t] = "drain"]
        /\ UNCHANGED <<sq, inflight, cq, seen, res, count, keys>>
    BY <1>10 DEF Wait, uring
  <2>2. Waited(t)'
    BY <2>1, <1>r DEF EntryAt, Waited
  <2>3. pc[t] # "app" /\ pc'[t] \in {"block", "drain"}
        /\ (pc'[t] = "block" => pc[t] = "wait")
    BY <2>1, <1>f
  <2>4. EntryAt(t)'
    BY <2>1, <2>2, <2>3, <1>r DEF EntryAt
  <2> QED
    BY <2>1, <2>4, <1>t, <1>o, Moved
<1>7. CASE WaitOver(t)
  <2>1. seen[t] >= count /\ UNCHANGED <<sq, inflight, cq, res, count, keys>>
    BY <1>7 DEF WaitOver, uring
  <2>2. Waited(t)
    BY <1>7, <1>r DEF WaitOver, EntryAt
  <2>3. Cardinality(inflight) \in Nat
    BY <2>2, FS_CardinalityType DEF Waited
  <2>4. Cardinality(inflight) = 0 /\ cq = 0 /\ Len(sq) = 0
    BY <2>1, <2>2, <2>3, <1>t DEF Waited
  <2>5. Idle
    BY <2>2, <2>4, FS_EmptySet DEF Idle, Waited
  <2>6. CASE At(t, "wait", "find")
    <3>1. pc[t] = "wait" /\ pc' = [pc EXCEPT ![t] = "find"] /\ pc'[t] = "find"
      BY <2>6, <1>f
    <3>2. res[t] = 1 /\ count \in keys
      BY <3>1, <1>r DEF EntryAt
    <3>3. EntryAt(t)'
      BY <2>1, <2>4, <2>5, <3>1, <3>2 DEF EntryAt, Idle
    <3> QED
      BY <2>1, <3>1, <3>3, <1>t, <1>o, Moved
  <2>7. CASE At(t, "flush", "reset")
    <3>1. pc[t] = "flush" /\ pc' = [pc EXCEPT ![t] = "reset"]
          /\ pc'[t] = "reset"
      BY <2>7, <1>f
    <3>2. EntryAt(t)'
      BY <2>1, <2>4, <2>5, <3>1 DEF EntryAt, Idle
    <3> QED
      BY <2>1, <3>1, <3>2, <1>t, <1>o, Moved
  <2> QED
    BY <1>7, <2>6, <2>7 DEF WaitOver
<1>8. CASE Find(t)
  <2>1. pc[t] = "find" /\ UNCHANGED <<sq, inflight, cq, count, keys>>
    BY <1>8 DEF Find, uring
  <2>2. Idle /\ count \in keys /\ Len(sq) = IF res[t] = 1 THEN 0 ELSE count
    BY <2>1, <1>r DEF EntryAt
  <2>3. CASE res[t] = 1
    <3>1. pc' = [pc EXCEPT ![t] = "reset"]
      BY <1>8, <2>2, <2>3 DEF Find
    <3>2. pc'[t] = "reset"
      BY <3>1, <1>f
    <3>3. EntryAt(t)'
      BY <2>1, <2>2, <2>3, <3>2 DEF EntryAt, Idle
    <3> QED
      BY <2>1, <3>1, <3>3, <1>t, <1>o, Moved
  <2>4. CASE res[t] # 1
    <3>1. pc' = [pc EXCEPT ![t] = "app"]
      BY <1>8, <2>4 DEF Find
    <3>2. pc'[t] = "app"
      BY <3>1, <1>f
    <3>3. EntryAt(t)' /\ Idle' /\ Len(sq') = count'
      BY <2>1, <2>2, <2>4, <3>2 DEF EntryAt, Idle
    <3> QED
      BY <2>1, <3>1, <3>3, <1>t, <1>o, Moved
  <2> QED
    BY <2>3, <2>4
<1>9. CASE Reset(t)
  <2>1. pc[t] = "reset" /\ pc' = [pc EXCEPT ![t] = "app"]
        /\ UNCHANGED <<sq, inflight, cq>> /\ count' = 0
    BY <1>9 DEF Reset, uring
  <2>2. pc'[t] = "app" /\ Idle /\ Len(sq) = 0
    BY <2>1, <1>f, <1>r DEF EntryAt
  <2>3. EntryAt(t)' /\ Idle' /\ Len(sq') = count'
    BY <2>1, <2>2 DEF EntryAt, Idle
  <2> QED
    BY <2>1, <2>3, <1>t, <1>o, Moved
<1> QED
  BY <1>1, <1>2, <1>3, <1>4, <1>5, <1>6, <1>7, <1>8, <1>9, <1>10 DEF Run

\* A thread enters a probe while no other is in one: nothing is under way.
LEMMA Entered ==
    ASSUME Inner, NEW t \in Threads, pc[t] = "app", ~overlapped',
           overlapped' = (overlapped \/ \E u \in Threads \ {t} : pc[u] # "app")
    PROVE  /\ \A u \in Threads \ {t} : pc[u] = "app"
           /\ Idle /\ Len(sq) = count /\ cq \in Nat
BY DEF Inner, AtRest, NoneRunning

LEMMA InnerQueue ==
    ASSUME IInv, Shapes, Inner, NEW t \in Threads, Queue(t), ~overlapped'
    PROVE  Inner'
<1> USE DEF At
<1>1. /\ pc[t] = "app"
      /\ overlapped' = (overlapped \/ \E u \in Threads \ {t} : pc[u] # "app")
      /\ sq' = Prepared(calls + 1)
      /\ UNCHANGED <<inflight, cq, count>>
  BY DEF Queue, Call, Enter
<1>2. PICK to \in {"link", "count"} : pc' = [pc EXCEPT ![t] = to]
  <2>1. \/ pc' = [pc EXCEPT ![t] = "link"] \/ pc' = [pc EXCEPT ![t] = "count"]
    BY DEF Queue
  <2> QED
    BY <2>1
<1>3. /\ \A u \in Threads \ {t} : pc[u] = "app"
      /\ Idle /\ Len(sq) = count /\ cq \in Nat
  BY <1>1, Entered
<1>4. Len(sq') = count + 1
  <2>1. sq \in Seq(Sqe) /\ [id |-> calls + 1, linked |-> FALSE] \in Sqe
    BY DEF IInv, Types, Sqe
  <2> QED
    BY <1>1, <1>3, <2>1 DEF Prepared
<1>5. pc'[t] = to
  BY <1>2 DEF Shapes
<1>6. EntryAt(t)'
  BY <1>1, <1>3, <1>4, <1>5 DEF EntryAt, Idle
<1> QED
  BY <1>1, <1>2, <1>3, <1>6, Moved

LEMMA InnerFlush ==
    ASSUME IInv, Shapes, Inner, NEW t \in Threads, Flush(t), ~overlapped'
    PROVE  Inner'
<1>1. /\ pc[t] = "app" /\ pc' = [pc EXCEPT ![t] = "flush"] /\ Enter(t, {})
      /\ sq' = <<>> /\ inflight' = inflight \cup Submitted
      /\ UNCHANGED <<cq, count>> /\ seen'[t] = 0
  BY DEF Flush, At, Submit, Shapes
<1>2. /\ \A u \in Threads \ {t} : pc[u] = "app"
      /\ Idle /\ Len(sq) = count /\ cq \in Nat
  BY <1>1, Entered DEF Enter
<1>3. pc'[t] = "flush" /\ inflight' = Submitted /\ cq = 0
  BY <1>1, <1>2 DEF Shapes, Idle
<1>4. IsFiniteSet(inflight') /\ Cardinality(inflight') = count
  BY <1>2, <1>3, SubmittedCard DEF IInv, Types
<1>5. count \in Nat
  BY DEF Shapes
<1>6. Waited(t)'
  BY <1>1, <1>3, <1>4, <1>5 DEF Waited
<1>7. EntryAt(t)'
  BY <1>3, <1>6 DEF EntryAt
<1> QED
  BY <1>1, <1>2, <1>7, Moved

\* The kernel works on requests only while a probe waits for them.
LEMMA InnerWorks ==
    ASSUME Shapes, Inner, Works
    PROVE  Inner'
<1>1. PICK r \in Ready : End({r}) \/ End(ChainOf(r))
  BY DEF Works
<1>2. {r} \in SUBSET inflight /\ ChainOf(r) \in SUBSET inflight
      /\ inflight # {}
  BY DEF Ready, ChainOf
<1>3. PICK S \in SUBSET inflight : End(S)
  BY <1>1, <1>2
<1>4. UNCHANGED <<pc, seen, res, count, keys, sq>>
  BY <1>3 DEF Works, thread, End
<1>5. ~Idle /\ ~NoneRunning
  BY <1>2 DEF Idle, Inner, AtRest
<1>6. ASSUME NEW t \in Threads, pc[t] # "app"
      PROVE  /\ pc[t] \in {"wait", "block", "flush", "drain"} /\ Waited(t)
             /\ Waited(t)' /\ cq' \in Nat
  <2>1. EntryAt(t) /\ cq \in Nat /\ pc[t] \in Places
    BY DEF Inner, Shapes
  <2>2. pc[t] \in {"wait", "block", "flush", "drain"} /\ Waited(t)
    BY <1>5, <1>6, <2>1 DEF EntryAt, Places
  <2>3. /\ IsFiniteSet(inflight') /\ cq' \in Nat
        /\ Cardinality(inflight) + cq = Cardinality(inflight') + cq'
    BY <1>3, <2>1, <2>2, EndCard DEF Waited
  <2>4. Cardinality(inflight) \in Nat /\ Cardinality(inflight') \in Nat
    BY <2>2, <2>3, FS_CardinalityType DEF Waited
  <2>5. seen[t] \in Nat /\ count \in Nat
    BY DEF Shapes
  <2>6. Waited(t)'
    <3>1. Len(sq) = 0 /\ seen[t] + Cardinality(inflight) + cq = count
      BY <2>2 DEF Waited
    <3>2. \A a, b, c, d, e \in Nat : b + c = d + e => a + b + c = a + d + e
      OBVIOUS
    <3>3. seen[t] + Cardinality(inflight') + cq' = count
      <4>1. cq \in Nat /\ cq' \in Nat
        BY <2>1, <2>3
      <4>2. seen[t] + Cardinality(inflight) + cq
              = seen[t] + Cardinality(inflight') + cq'
        BY <2>3, <2>4, <2>5, <3>2, <4>1
      <4> QED
        BY <3>1, <4>2
    <3> QED
      BY <1>4, <2>3, <3>1, <3>3 DEF Waited
  <2> QED
    BY <2>2, <2>3, <2>6
<1>7. PICK t \in Threads : pc[t] # "app"
  BY <1>5 DEF NoneRunning
<1>8. ASSUME NEW u \in Threads PROVE EntryAt(u)'
  <2>1. CASE pc[u] = "app"
    BY <1>4, <2>1 DEF EntryAt
  <2>2. CASE pc[u] # "app"
    <3>1. /\ pc'[u] \in {"wait", "block", "flush", "drain"}
          /\ Waited(u)' /\ EntryAt(u)
      BY <1>4, <1>6, <2>2 DEF Inner
    <3> QED
      BY <1>4, <3>1 DEF EntryAt
  <2> QED
    BY <2>1, <2>2
<1>9. Alone' /\ ~NoneRunning'
  BY <1>4, <1>5 DEF Inner, Alone, NoneRunning
<1> QED
  BY <1>6, <1>7, <1>8, <1>9 DEF Inner, AtRest

LEMMA CInvInit == PatchInit => CInv
<1> SUFFICES ASSUME PatchInit PROVE CInv
  OBVIOUS
<1>1. /\ pc = [t \in Threads |-> "app"] /\ seen = [t \in Threads |-> 0]
      /\ res = [t \in Threads |-> 0] /\ count = 0
      /\ sq = <<>> /\ inflight = {} /\ cq = 0
  BY DEF PatchInit, RingInit
<1>2. Shapes
  BY <1>1 DEF Shapes, Places
<1>3. Inner
  BY <1>1 DEF Inner, Alone, AtRest, EntryAt, Idle
<1> QED
  BY <1>2, <1>3, InvInit DEF CInv

\* Probes that have overlapped stay so.
LEMMA OverlapStays == [Patch]_vars /\ ~overlapped' => ~overlapped
<1> SUFFICES ASSUME [Patch]_vars, ~overlapped' PROVE ~overlapped
  OBVIOUS
<1>1. ASSUME NEW t \in Threads, Queue(t) \/ OwnCall(t) \/ Flush(t)
      PROVE  ~overlapped
  BY <1>1 DEF Queue, OwnCall, Flush, Call, Enter
<1>2. ASSUME NEW t \in Threads, Run(t) PROVE overlapped' = overlapped
  BY <1>2 DEF Run, SetLinkflag, CountUp, Load, Store, Insert, NotFull,
              SubmitBatch, Wait, Reap, WaitOver, Find, Reset, history
<1>3. CASE Works \/ UNCHANGED vars
  BY <1>3 DEF Works, vars, history
<1> QED
  BY <1>1, <1>2, <1>3 DEF Patch

LEMMA CInvStep == CInv /\ [Patch]_vars => CInv'
<1> SUFFICES ASSUME CInv, [Patch]_vars PROVE CInv'
  OBVIOUS
<1>1. IInv /\ Shapes /\ IInv' /\ Shapes'
  BY InvStep, ShapesStep DEF CInv
<1> SUFFICES ASSUME ~overlapped' PROVE Inner'
  BY <1>1 DEF CInv
<1>2. ~overlapped
  BY OverlapStays
<1>3. Inner
  BY <1>2 DEF CInv
<1>4. ASSUME NEW t \in Threads, Queue(t) PROVE Inner'
  BY <1>1, <1>3, <1>4, InnerQueue
<1>5. ASSUME NEW t \in Threads, OwnCall(t) PROVE Inner'
  BY <1>3, <1>5, InnerUntouched DEF OwnCall
<1>6. ASSUME NEW t \in Threads, Flush(t) PROVE Inner'
  BY <1>1, <1>3, <1>6, InnerFlush
<1>7. ASSUME NEW t \in Threads, Run(t) PROVE Inner'
  BY <1>1, <1>3, <1>7, InnerRun
<1>8. CASE Works
  BY <1>1, <1>3, <1>8, InnerWorks
<1>9. CASE UNCHANGED vars
  BY <1>3, <1>9, InnerUntouched DEF vars
<1> QED
  BY <1>4, <1>5, <1>6, <1>7, <1>8, <1>9 DEF Patch

\* backup.bpf.c, for any threads, batch and ring: until two probes overlap,
\* op_count is between two probes the operations prepared, and nothing else
\* is outstanding.
THEOREM CountIsPrepared == PatchesSpec => []Settled
<1>1. PatchInit => CInv
  BY CInvInit
<1>2. CInv /\ [Patch]_vars => CInv'
  BY CInvStep
<1>3. CInv => Settled
  BY DEF CInv, Inner, AtRest, NoneRunning, Idle, Settled
<1> QED
  BY <1>1, <1>2, <1>3, BackupPart, PTL DEF PatchSpec
-----------------------------------------------------------------------------
(***************************************************************************)
(* Third: batch.bpf.c, until two threads are in its probes together.  A    *)
(* total that a submission may tell of was not told yet: between two of    *)
(* them main_entry empties the ring, so the next finds too few requests    *)
(* unless a read came and replaced the total.                              *)
(***************************************************************************)
Request == [dest : Nat, fd : Nat]

BatchPlaces == {"app", "raw", "add", "fd", "init", "submit", "wait"}

BatchTypes == /\ bpc \in [Threads -> BatchPlaces] /\ mine \in [Threads -> Nat]
              /\ info \in Request /\ bcalls \in Nat
              /\ total \in Nat /\ reported \in Nat /\ handed \in Nat

AloneInBatch == \A t, u \in Threads : bpc[t] # "app" /\ bpc[u] # "app" => t = u

NoneAt(S) == \A t \in Threads : bpc[t] \notin S

\* Requests are outstanding only from a wait to the main_entry after it.
QuietRing == NoneAt({"wait", "init"}) => binflight = {} /\ bcq = 0

\* The total was not told yet if it can be told.
Untold == /\ NoneAt({"fd", "wait", "init"})
          /\ ~up \/ bsq # <<>>
          => reported + total <= handed

BytesAt(t) ==
    /\ bpc[t] = "fd" => reported + Batch!Size(mine[t]) <= handed
    /\ bpc[t] = "wait" => ~initFirst
    /\ bpc[t] = "submit" /\ initFirst => up /\ bsq = <<>>

Bytes == /\ reported <= handed /\ QuietRing /\ Untold
         /\ \A t \in Threads : BytesAt(t)

BInv == /\ BatchTypes
        /\ ~bmixed => AloneInBatch
        /\ ~bmixed /\ ~starved /\ ~collided => Bytes

LEMMA SizeType == \A id \in Nat : Batch!Size(id) \in Nat
BY DEF Batch!Size

LEMMA BInvInit == PatchesInit => BInv
<1> SUFFICES ASSUME PatchesInit PROVE BInv
  OBVIOUS
<1>1. /\ bpc = [t \in Threads |-> "app"] /\ mine = [t \in Threads |-> 0]
      /\ info = [dest |-> 0, fd |-> 0] /\ total = 0 /\ bcalls = 0
      /\ reported = 0 /\ handed = 0
      /\ binflight = {} /\ bcq = 0
  BY DEF PatchesInit, Batch!BatchInit, Batch!RingInit
<1>2. BatchTypes
  BY <1>1 DEF BatchTypes, BatchPlaces, Request
<1>3. AloneInBatch
  BY <1>1 DEF AloneInBatch
<1>4. Bytes
  BY <1>1 DEF Bytes, QuietRing, Untold, BytesAt
<1> QED
  BY <1>2, <1>3, <1>4 DEF BInv

LEMMA BatchTypesStep == BatchTypes /\ Batch!Probes => BatchTypes'
<1> SUFFICES ASSUME BatchTypes, Batch!Probes PROVE BatchTypes'
  OBVIOUS
<1> USE SizeType DEF BatchTypes, BatchPlaces, Request, Batch!At
<1>1. ASSUME NEW t \in Threads, Batch!ReadS(t) PROVE BatchTypes'
  BY <1>1 DEF Batch!ReadS, Batch!told
<1>2. ASSUME NEW t \in Threads, Batch!Arrive(t) PROVE BatchTypes'
  <2>1. UNCHANGED <<bcalls, mine, info, total, reported, handed>>
    BY <1>2 DEF Batch!Arrive, Batch!batch, Batch!maps, Batch!told
  <2>2. bpc' = [bpc EXCEPT ![t] = "init"] \/ bpc' = [bpc EXCEPT ![t] = "submit"]
    BY <1>2, Zenon DEF Batch!Arrive
  <2> QED
    BY <2>1, <2>2
<1>3. ASSUME NEW t \in Threads, Batch!PreadRaw(t) PROVE BatchTypes'
  BY <1>3 DEF Batch!PreadRaw, Batch!told
<1>4. ASSUME NEW t \in Threads, Batch!AddPendingOp(t) PROVE BatchTypes'
  BY <1>4 DEF Batch!AddPendingOp, Batch!maps
<1>5. ASSUME NEW t \in Threads, Batch!FdInfo(t) PROVE BatchTypes'
  BY <1>5 DEF Batch!FdInfo
<1>6. ASSUME NEW t \in Threads, Batch!MainEntry(t) PROVE BatchTypes'
  <2>1. UNCHANGED <<bcalls, mine, info, total, reported, handed>>
    BY <1>6 DEF Batch!MainEntry, Batch!maps, Batch!told
  <2>2. bpc' = [bpc EXCEPT ![t] = "submit"] \/ bpc' = [bpc EXCEPT ![t] = "app"]
    BY <1>6, Zenon DEF Batch!MainEntry
  <2> QED
    BY <2>1, <2>2
<1>7. ASSUME NEW t \in Threads, Batch!NothingBatched(t) PROVE BatchTypes'
  BY <1>7 DEF Batch!NothingBatched, Batch!Leave, Batch!batch, Batch!maps,
              Batch!told
<1>8. ASSUME NEW t \in Threads, Batch!BatchSubmit(t) PROVE BatchTypes'
  BY <1>8 DEF Batch!BatchSubmit, Batch!maps
<1>9. ASSUME NEW t \in Threads, Batch!Wait(t) PROVE BatchTypes'
  BY <1>9 DEF Batch!Wait, Batch!batch, Batch!maps, Batch!told
<1>10. ASSUME NEW t \in Threads, Batch!WaitOver(t) PROVE BatchTypes'
  BY <1>10 DEF Batch!WaitOver, Batch!Leave, Batch!batch, Batch!maps, Batch!told
<1>11. CASE Batch!Works
  BY <1>11 DEF Batch!Works, Batch!batch, Batch!maps, Batch!told
<1> QED
  BY <1>1, <1>2, <1>3, <1>4, <1>5, <1>6, <1>7, <1>8, <1>9, <1>10, <1>11
     DEF Batch!Probes, Batch!Run

\* A thread alone in a probe goes on.
LEMMA AloneOn ==
    ASSUME BatchTypes, NEW t \in Threads, NEW to,
           \/ bpc[t] # "app" /\ AloneInBatch
           \/ Batch!Enter(t) /\ ~bmixed',
           bpc' = [bpc EXCEPT ![t] = to]
    PROVE  /\ bpc'[t] = to /\ \A u \in Threads \ {t} : bpc[u] = "app"
           /\ \A u \in Threads \ {t} : bpc'[u] = "app"
           /\ AloneInBatch'
<1>1. \A u \in Threads \ {t} : bpc[u] = "app"
  BY DEF AloneInBatch, Batch!Enter
<1>2. bpc'[t] = to /\ \A u \in Threads \ {t} : bpc'[u] = "app"
  BY <1>1 DEF BatchTypes
<1> QED
  BY <1>1, <1>2 DEF AloneInBatch

\* What the properties are about stays as it is.
LEMMA BatchUntouched ==
    BInv /\ UNCHANGED bvars => BInv'
<1> SUFFICES ASSUME BInv, UNCHANGED bvars PROVE BInv'
  OBVIOUS
<1>1. UNCHANGED <<bsq, binflight, bcq, bpc, bcalls, bmixed, mine, up,
                  initFirst, info, total, reported, handed, collided,
                  starved>>
  BY DEF bvars
<1>2. BatchTypes'
  BY <1>1 DEF BInv, BatchTypes
<1>3. AloneInBatch => AloneInBatch'
  BY <1>1 DEF AloneInBatch
<1>4. Bytes => Bytes'
  BY <1>1 DEF Bytes, QuietRing, Untold, BytesAt, NoneAt
<1> QED
  BY <1>1, <1>2, <1>3, <1>4 DEF BInv

\* Probes that have overlapped stay so.
LEMMA MixedStays == Batch!Probes /\ ~bmixed' => ~bmixed
BY DEF Batch!Probes, Batch!Run, Batch!ReadS, Batch!Arrive, Batch!Enter,
       Batch!PreadRaw, Batch!AddPendingOp, Batch!FdInfo, Batch!MainEntry,
       Batch!NothingBatched, Batch!BatchSubmit, Batch!Wait, Batch!WaitOver,
       Batch!Works

\* What happens to the place of a thread.
LEMMA ThreadMoves ==
    ASSUME Batch!Probes
    PROVE  \/ bpc' = bpc
           \/ \E t \in Threads, to \in BatchPlaces :
                  /\ bpc' = [bpc EXCEPT ![t] = to]
                  /\ bpc[t] # "app" \/ Batch!Enter(t)
<1> USE DEF Batch!At
<1>1. ASSUME NEW t \in Threads, NEW to \in BatchPlaces,
             bpc' = [bpc EXCEPT ![t] = to], bpc[t] # "app" \/ Batch!Enter(t)
      PROVE  \E u \in Threads, from \in BatchPlaces :
                  /\ bpc' = [bpc EXCEPT ![u] = from]
                  /\ bpc[u] # "app" \/ Batch!Enter(u)
  BY <1>1
<1>2. ASSUME NEW t \in Threads, Batch!ReadS(t) \/ Batch!Arrive(t)
      PROVE  /\ Batch!Enter(t)
             /\ \E to \in BatchPlaces : bpc' = [bpc EXCEPT ![t] = to]
  <2>1. \/ bpc' = [bpc EXCEPT ![t] = "raw"] \/ bpc' = [bpc EXCEPT ![t] = "init"]
        \/ bpc' = [bpc EXCEPT ![t] = "submit"]
    BY <1>2, Zenon DEF Batch!ReadS, Batch!Arrive
  <2> QED
    BY <1>2, <2>1 DEF Batch!ReadS, Batch!Arrive, BatchPlaces
<1>3. ASSUME NEW t \in Threads,
             \/ Batch!PreadRaw(t) \/ Batch!AddPendingOp(t) \/ Batch!FdInfo(t)
             \/ Batch!MainEntry(t) \/ Batch!NothingBatched(t)
             \/ Batch!BatchSubmit(t) \/ Batch!WaitOver(t)
      PROVE  /\ bpc[t] # "app"
             /\ \E to \in BatchPlaces : bpc' = [bpc EXCEPT ![t] = to]
  <2>1. \/ bpc' = [bpc EXCEPT ![t] = "add"] \/ bpc' = [bpc EXCEPT ![t] = "fd"]
        \/ bpc' = [bpc EXCEPT ![t] = "app"] \/ bpc' = [bpc EXCEPT ![t] = "submit"]
        \/ bpc' = [bpc EXCEPT ![t] = "init"] \/ bpc' = [bpc EXCEPT ![t] = "wait"]
    BY <1>3, Zenon
       DEF Batch!PreadRaw, Batch!AddPendingOp, Batch!FdInfo, Batch!MainEntry,
           Batch!NothingBatched, Batch!BatchSubmit, Batch!WaitOver, Batch!Leave
  <2>2. bpc[t] # "app"
    BY <1>3
       DEF Batch!PreadRaw, Batch!AddPendingOp, Batch!FdInfo, Batch!MainEntry,
           Batch!NothingBatched, Batch!BatchSubmit, Batch!WaitOver
  <2> QED
    BY <2>1, <2>2 DEF BatchPlaces
<1>4. ASSUME (\E t \in Threads : Batch!Wait(t)) \/ Batch!Works PROVE bpc' = bpc
  BY <1>4 DEF Batch!Wait, Batch!Works
<1> QED
  BY <1>1, <1>2, <1>3, <1>4 DEF Batch!Probes, Batch!Run

\* One thread at a time, until two are in the probes together.
LEMMA AloneStep ==
    ASSUME BatchTypes, AloneInBatch, Batch!Probes, ~bmixed'
    PROVE  AloneInBatch'
<1>1. CASE bpc' = bpc
  BY <1>1 DEF AloneInBatch
<1>2. ASSUME NEW t \in Threads, NEW to \in BatchPlaces,
             bpc' = [bpc EXCEPT ![t] = to], bpc[t] # "app" \/ Batch!Enter(t)
      PROVE  AloneInBatch'
  BY <1>2, AloneOn
<1> QED
  BY <1>1, <1>2, ThreadMoves

\* Of two modules' definitions of a cardinality.
LEMMA NoRequests == Batch!Cardinality({}) = 0
<1>1. \A S : Batch!Cardinality(S) = Cardinality(S)
  BY DEF Batch!Cardinality, Cardinality
<1> QED
  BY <1>1, FS_EmptySet

\* A submission that starves nobody finds a ring that was filled since the
\* last total was told, or was never initialised.
LEMMA Filled ==
    ASSUME BatchTypes, Bytes, AloneInBatch, NEW t \in Threads,
           Batch!BatchSubmit(t), ~starved'
    PROVE  reported + total <= handed /\ ~initFirst
<1> USE DEF Batch!At
<1>1. /\ bpc[t] = "submit" /\ \A u \in Threads : bpc[u] \in {"app", "submit"}
      /\ starved' = (starved \/ (up /\ Batch!Due < BatchSize))
  BY DEF Batch!BatchSubmit, AloneInBatch
<1>2. binflight = {} /\ bcq = 0
  BY <1>1 DEF Bytes, QuietRing, NoneAt
<1>3. Batch!Due = Len(bsq) + 0 + 0
  BY <1>2, NoRequests DEF Batch!Due
<1>4. ASSUME up PROVE bsq # <<>>
  <2>1. SUFFICES ASSUME bsq = <<>> PROVE FALSE
    OBVIOUS
  <2>2. Batch!Due = 0
    BY <1>3, <2>1
  <2>3. Batch!Due < BatchSize
    BY <2>2, PatchesAssumption
  <2> QED
    BY <1>1, <1>4, <2>3
<1>5. reported + total <= handed
  BY <1>1, <1>4 DEF Bytes, Untold, NoneAt
<1>6. ~initFirst
  BY <1>1, <1>4 DEF Bytes, BytesAt
<1> QED
  BY <1>5, <1>6

\* No total is told that was told already.
LEMMA BytesStep ==
    ASSUME BatchTypes, BatchTypes', AloneInBatch, Bytes, Batch!Probes,
           ~bmixed', ~starved', ~collided'
    PROVE  Bytes'
<1> USE SizeType DEF Batch!At, NoneAt
<1>t. /\ bpc \in [Threads -> BatchPlaces] /\ mine \in [Threads -> Nat]
      /\ total \in Nat /\ reported \in Nat /\ handed \in Nat
  BY DEF BatchTypes
<1>b. reported <= handed /\ QuietRing /\ Untold
  BY DEF Bytes
\* A step of t, alone, that tells nothing and leaves the ring as it is.
<1>1. ASSUME NEW t \in Threads, NEW to \in {"raw", "add"},
             bpc' = [bpc EXCEPT ![t] = to],
             bpc[t] \in {"app", "raw"}, \A u \in Threads \ {t} : bpc[u] = "app",
             UNCHANGED <<bsq, binflight, bcq, up, initFirst, total, reported,
                         handed>>
      PROVE  Bytes'
  <2>1. bpc'[t] = to /\ \A u \in Threads \ {t} : bpc'[u] = "app"
    BY <1>1, <1>t
  <2>2. NoneAt({"fd", "wait", "init"}) /\ NoneAt({"wait", "init"})
    BY <1>1
  <2>3. QuietRing' /\ Untold'
    BY <1>1, <1>b, <2>2 DEF QuietRing, Untold
  <2>4. \A u \in Threads : BytesAt(u)'
    BY <2>1 DEF BytesAt
  <2> QED
    BY <1>1, <1>b, <2>3, <2>4 DEF Bytes
<1>2. ASSUME NEW t \in Threads, Batch!ReadS(t) PROVE Bytes'
  <2>1. /\ bpc[t] = "app" /\ bpc' = [bpc EXCEPT ![t] = "raw"]
        /\ Batch!Enter(t)
        /\ UNCHANGED <<bsq, binflight, bcq, up, initFirst, total, reported,
                       handed>>
    BY <1>2 DEF Batch!ReadS, Batch!told, Batch!uring
  <2>2. \A u \in Threads \ {t} : bpc[u] = "app"
    BY <2>1, AloneOn
  <2> QED
    BY <1>1, <2>1, <2>2
<1>3. ASSUME NEW t \in Threads, Batch!PreadRaw(t) PROVE Bytes'
  <2>1. /\ bpc[t] = "raw" /\ bpc' = [bpc EXCEPT ![t] = "add"]
        /\ UNCHANGED <<bsq, binflight, bcq, up, initFirst, total, reported,
                       handed>>
    BY <1>3 DEF Batch!PreadRaw, Batch!told, Batch!uring
  <2>2. \A u \in Threads \ {t} : bpc[u] = "app"
    BY <2>1 DEF AloneInBatch
  <2> QED
    BY <1>1, <2>1, <2>2
<1>4. ASSUME NEW t \in Threads, Batch!AddPendingOp(t) PROVE Bytes'
  <2>1. /\ bpc[t] = "add" /\ bpc' = [bpc EXCEPT ![t] = "fd"]
        /\ handed' = handed + Batch!Size(mine[t])
        /\ UNCHANGED <<binflight, bcq, mine, up, initFirst, total, reported>>
    BY <1>4 DEF Batch!AddPendingOp, Batch!maps
  <2>2. bpc'[t] = "fd" /\ \A u \in Threads \ {t} : bpc'[u] = "app"
    BY <2>1, AloneOn
  <2>3. mine[t] \in Nat /\ Batch!Size(mine[t]) \in Nat
    BY <1>t
  <2>4. reported' <= handed' /\ reported' + Batch!Size(mine'[t]) <= handed'
    BY <2>1, <2>3, <1>t, <1>b
  <2>5. NoneAt({"wait", "init"})
    BY <2>1 DEF AloneInBatch
  <2>6. QuietRing' /\ Untold'
    BY <2>1, <2>2, <2>5, <1>b DEF QuietRing, Untold
  <2>7. \A u \in Threads : BytesAt(u)'
    BY <2>2, <2>4 DEF BytesAt
  <2> QED
    BY <2>4, <2>6, <2>7 DEF Bytes
<1>5. ASSUME NEW t \in Threads, Batch!FdInfo(t) PROVE Bytes'
  <2>1. /\ bpc[t] = "fd" /\ bpc' = [bpc EXCEPT ![t] = "app"]
        /\ total' = Batch!Size(mine[t])
        /\ UNCHANGED <<bsq, binflight, bcq, up, initFirst, reported, handed>>
    BY <1>5 DEF Batch!FdInfo, Batch!uring
  <2>2. \A u \in Threads : bpc'[u] = "app"
    BY <2>1, AloneOn
  <2>3. reported' + total' <= handed'
    BY <2>1 DEF Bytes, BytesAt
  <2>4. NoneAt({"wait", "init"})
    BY <2>1 DEF AloneInBatch
  <2>5. QuietRing' /\ Untold'
    BY <2>1, <2>3, <2>4, <1>b DEF QuietRing, Untold
  <2>6. \A u \in Threads : BytesAt(u)'
    BY <2>2 DEF BytesAt
  <2> QED
    BY <2>1, <1>b, <2>5, <2>6 DEF Bytes
<1>6. ASSUME NEW t \in Threads, Batch!Arrive(t) PROVE Bytes'
  <2>1. /\ bpc[t] = "app" /\ Batch!Enter(t)
        /\ UNCHANGED <<bsq, binflight, bcq, up, initFirst, total, reported,
                       handed>>
    BY <1>6 DEF Batch!Arrive, Batch!batch, Batch!maps, Batch!told, Batch!uring
  <2>2. /\ initFirst => bpc' = [bpc EXCEPT ![t] = "init"]
        /\ ~initFirst => bpc' = [bpc EXCEPT ![t] = "submit"]
    BY <1>6, Zenon DEF Batch!Arrive
  <2>3. PICK to \in {"init", "submit"} : bpc' = [bpc EXCEPT ![t] = to]
    BY <2>2
  <2>4. bpc'[t] = to /\ \A u \in Threads \ {t} : bpc[u] = "app" /\ bpc'[u] = "app"
    BY <2>1, <2>3, AloneOn
  <2>5. initFirst => bpc'[t] = "init"
    BY <2>2, <1>t
  <2>6. NoneAt({"fd", "wait", "init"}) /\ NoneAt({"wait", "init"})
    BY <2>1, <2>4
  <2>7. QuietRing' /\ Untold'
    BY <2>1, <2>6, <1>b DEF QuietRing, Untold
  <2>8. \A u \in Threads : BytesAt(u)'
    BY <2>1, <2>4, <2>5 DEF BytesAt
  <2> QED
    BY <2>1, <1>b, <2>7, <2>8 DEF Bytes
<1>7. ASSUME NEW t \in Threads, Batch!MainEntry(t) PROVE Bytes'
  <2>1. /\ bpc[t] = "init" /\ up' = TRUE
        /\ bsq' = <<>> /\ binflight' = {} /\ bcq' = 0
        /\ UNCHANGED <<initFirst, total, reported, handed>>
    BY <1>7 DEF Batch!MainEntry, Batch!maps, Batch!told
  <2>2. PICK to \in {"submit", "app"} : bpc' = [bpc EXCEPT ![t] = to]
    <3>1. \/ bpc' = [bpc EXCEPT ![t] = "submit"]
          \/ bpc' = [bpc EXCEPT ![t] = "app"]
      BY <1>7, Zenon DEF Batch!MainEntry
    <3> QED
      BY <3>1
  <2>3. bpc'[t] = to /\ \A u \in Threads \ {t} : bpc'[u] = "app"
    BY <2>1, <2>2, AloneOn
  <2>4. QuietRing' /\ Untold'
    BY <2>1 DEF QuietRing, Untold
  <2>5. \A u \in Threads : BytesAt(u)'
    BY <2>1, <2>3 DEF BytesAt
  <2> QED
    BY <2>1, <1>b, <2>4, <2>5 DEF Bytes
<1>8. ASSUME NEW t \in Threads, Batch!NothingBatched(t) PROVE Bytes'
  <2>1. /\ bpc[t] = "submit" /\ bpc' = [bpc EXCEPT ![t] = Batch!Leave]
        /\ total = 0
        /\ UNCHANGED <<bsq, binflight, bcq, up, initFirst, total, reported,
                       handed>>
    BY <1>8 DEF Batch!NothingBatched, Batch!batch, Batch!maps, Batch!told,
                Batch!uring
  <2>2. PICK to \in {"app", "init"} : bpc' = [bpc EXCEPT ![t] = to]
    BY <2>1 DEF Batch!Leave
  <2>3. bpc'[t] = to /\ \A u \in Threads \ {t} : bpc[u] = "app" /\ bpc'[u] = "app"
    BY <2>1, <2>2, AloneOn
  <2>4. NoneAt({"wait", "init"})
    BY <2>1, <2>3
  <2>5. QuietRing' /\ Untold'
    BY <2>1, <2>4, <1>t, <1>b DEF QuietRing, Untold
  <2>6. \A u \in Threads : BytesAt(u)'
    BY <2>3 DEF BytesAt
  <2> QED
    BY <2>1, <1>b, <2>5, <2>6 DEF Bytes
<1>9. ASSUME NEW t \in Threads, Batch!BatchSubmit(t) PROVE Bytes'
  <2>1. /\ bpc[t] = "submit" /\ bpc' = [bpc EXCEPT ![t] = "wait"]
        /\ reported' = reported + total
        /\ UNCHANGED <<initFirst, total, handed>>
    BY <1>9 DEF Batch!BatchSubmit, Batch!maps
  <2>2. bpc'[t] = "wait" /\ \A u \in Threads \ {t} : bpc'[u] = "app"
    BY <2>1, AloneOn
  <2>3. reported' <= handed' /\ ~initFirst
    BY <1>9, <2>1, Filled
  <2>4. QuietRing' /\ Untold'
    BY <2>2 DEF QuietRing, Untold
  <2>5. \A u \in Threads : BytesAt(u)'
    BY <2>1, <2>2, <2>3 DEF BytesAt
  <2> QED
    BY <2>3, <2>4, <2>5 DEF Bytes
<1>10. ASSUME NEW t \in Threads, Batch!Wait(t) PROVE Bytes'
  <2>1. /\ bpc[t] = "wait" /\ bpc' = bpc
        /\ UNCHANGED <<mine, up, initFirst, total, reported, handed>>
        /\ bsq' = bsq
    BY <1>10 DEF Batch!Wait, Batch!WaitAndSeen, Batch!batch, Batch!maps,
                 Batch!told, Batch!uring
  <2>2. QuietRing' /\ Untold'
    BY <2>1 DEF QuietRing, Untold
  <2>3. \A u \in Threads : BytesAt(u)'
    BY <2>1 DEF Bytes, BytesAt
  <2> QED
    BY <2>1, <1>b, <2>2, <2>3 DEF Bytes
<1>11. ASSUME NEW t \in Threads, Batch!WaitOver(t) PROVE Bytes'
  <2>1. /\ bpc[t] = "wait" /\ bpc' = [bpc EXCEPT ![t] = Batch!Leave]
        /\ UNCHANGED <<initFirst, total, reported, handed>>
    BY <1>11 DEF Batch!WaitOver, Batch!batch, Batch!maps, Batch!told
  <2>2. ~initFirst
    BY <2>1 DEF Bytes, BytesAt
  <2>3. bpc' = [bpc EXCEPT ![t] = "init"]
    BY <2>1, <2>2 DEF Batch!Leave
  <2>4. bpc'[t] = "init" /\ \A u \in Threads \ {t} : bpc'[u] = "app"
    BY <2>1, <2>3, AloneOn
  <2>5. QuietRing' /\ Untold'
    BY <2>4 DEF QuietRing, Untold
  <2>6. \A u \in Threads : BytesAt(u)'
    BY <2>4 DEF BytesAt
  <2> QED
    BY <2>1, <1>b, <2>5, <2>6 DEF Bytes
<1>12. CASE Batch!Works
  <2>1. UNCHANGED <<bpc, bsq, mine, up, initFirst, total, reported, handed>>
    BY <1>12 DEF Batch!Works, Batch!End, Batch!batch, Batch!maps, Batch!told
  <2>2. binflight # {}
    BY <1>12 DEF Batch!Works, Batch!Ready
  <2>3. QuietRing'
    BY <2>1, <2>2, <1>b DEF QuietRing
  <2>4. Untold' /\ \A u \in Threads : BytesAt(u)'
    BY <2>1 DEF Bytes, Untold, BytesAt
  <2> QED
    BY <2>1, <1>b, <2>3, <2>4 DEF Bytes
<1> QED
  BY <1>2, <1>3, <1>4, <1>5, <1>6, <1>7, <1>8, <1>9, <1>10, <1>11, <1>12
     DEF Batch!Probes, Batch!Run

\* What went wrong for good stays so.
LEMMA HistoryStays ==
    Batch!Probes => (~starved' => ~starved) /\ (~collided' => ~collided)
<1> SUFFICES ASSUME Batch!Probes
             PROVE  (starved => starved') /\ (collided => collided')
  OBVIOUS
<1>1. ASSUME NEW t \in Threads, Batch!FdInfo(t)
      PROVE  (starved => starved') /\ (collided => collided')
  BY <1>1 DEF Batch!FdInfo
<1>2. ASSUME NEW t \in Threads, Batch!BatchSubmit(t)
      PROVE  (starved => starved') /\ (collided => collided')
  <2>1. starved' = (starved \/ (up /\ Batch!Due < BatchSize))
    BY <1>2 DEF Batch!BatchSubmit
  <2>2. starved => starved'
    BY <2>1, Zenon
  <2>3. collided' = collided
    BY <1>2 DEF Batch!BatchSubmit
  <2> QED
    BY <2>2, <2>3
<1>3. ASSUME NEW t \in Threads,
             \/ Batch!ReadS(t) \/ Batch!Arrive(t) \/ Batch!PreadRaw(t)
             \/ Batch!AddPendingOp(t) \/ Batch!MainEntry(t)
             \/ Batch!NothingBatched(t) \/ Batch!Wait(t) \/ Batch!WaitOver(t)
      PROVE  UNCHANGED <<starved, collided>>
  BY <1>3 DEF Batch!ReadS, Batch!Arrive, Batch!PreadRaw, Batch!AddPendingOp,
              Batch!MainEntry, Batch!NothingBatched, Batch!Wait,
              Batch!WaitOver, Batch!batch, Batch!told
<1>4. CASE Batch!Works
  BY <1>4 DEF Batch!Works, Batch!batch, Batch!told
<1> QED
  BY <1>1, <1>2, <1>3, <1>4 DEF Batch!Probes, Batch!Run

LEMMA BInvStep == BInv /\ [PatchesNext]_all => BInv'
<1> SUFFICES ASSUME BInv, [PatchesNext]_all PROVE BInv'
  OBVIOUS
<1>1. CASE UNCHANGED bvars
  BY <1>1, BatchUntouched
<1>2. CASE Batch!Probes
  <2>1. BatchTypes /\ BatchTypes'
    BY <1>2, BatchTypesStep DEF BInv
  <2>2. ASSUME ~bmixed' PROVE AloneInBatch'
    BY <1>2, <2>1, <2>2, MixedStays, AloneStep DEF BInv
  <2>3. ASSUME ~bmixed', ~starved', ~collided' PROVE Bytes'
    <3>1. ~bmixed /\ ~starved /\ ~collided
      BY <1>2, <2>3, MixedStays, HistoryStays
    <3> QED
      BY <1>2, <2>1, <2>3, <3>1, BytesStep DEF BInv
  <2> QED
    BY <2>1, <2>2, <2>3 DEF BInv
<1> QED
  BY <1>1, <1>2 DEF PatchesNext, InBackup, InBatch, all

\* batch.bpf.c, for any threads, batch and ring: while probes do not overlap,
\* waits find a full batch and no descriptor has the number of the process,
\* batchSubmit tells of no more bytes than were handed over, although no
\* submission resets the total.
THEOREM TotalToldOnce == PatchesSpec => []NeverOverReports
<1>1. PatchesInit => BInv
  BY BInvInit
<1>2. BInv /\ [PatchesNext]_all => BInv'
  BY BInvStep
<1>3. BInv => NeverOverReports
  BY DEF BInv, Bytes, NeverOverReports, Batch!NeverOverReports
<1> QED
  BY <1>1, <1>2, <1>3, PTL DEF PatchesSpec
-----------------------------------------------------------------------------
(***************************************************************************)
(* Fourth: batch.bpf.c, whatever its threads do together.  Nobody clears   *)
(* the entry they share, but readS replaces it on the way into a read, and *)
(* what is in it from then on comes from reads under way.  For this the    *)
(* reads under way must have met: each of them has that of each in with.   *)
(***************************************************************************)
Met == \A t, u \in Batch!Reading : mine[u] \in with[t] /\ mine[u] <= bcalls

\* Where the destination is of, and then the descriptor.
DestAt(t) == bpc[t] \in {"raw", "add"} => info.dest \in with[t]
FdAt(t)   == bpc[t] = "add" =>
                 info.fd \in with[t] \/ (info.fd = 0 /\ with[t] # {mine[t]})

Current == /\ with \in [Threads -> SUBSET Nat]
           /\ Met /\ \A t \in Threads : DestAt(t) /\ FdAt(t)

NInv == BatchTypes /\ Current

LEMMA NInvInit == PatchesInit => NInv
<1> SUFFICES ASSUME PatchesInit PROVE NInv
  OBVIOUS
<1>1. BatchTypes
  BY BInvInit DEF BInv
<1>2. /\ bpc = [t \in Threads |-> "app"] /\ with = [t \in Threads |-> {}]
  BY DEF PatchesInit, Batch!BatchInit
<1>3. with \in [Threads -> SUBSET Nat] /\ Batch!Reading = {}
  BY <1>2 DEF Batch!Reading
<1> QED
  BY <1>1, <1>2, <1>3 DEF NInv, Current, Met, DestAt, FdAt

\* A new read replaces the entry, and is met by all under way.
LEMMA NewRead ==
    ASSUME BatchTypes, Current, NEW t \in Threads, Batch!ReadS(t)
    PROVE  Current'
<1> USE DEF Batch!At
<1>t. /\ bpc \in [Threads -> BatchPlaces] /\ mine \in [Threads -> Nat]
      /\ bcalls \in Nat /\ with \in [Threads -> SUBSET Nat]
  BY DEF BatchTypes, Current
<1>1. /\ bpc[t] = "app" /\ bpc' = [bpc EXCEPT ![t] = "raw"]
      /\ bcalls' = bcalls + 1 /\ mine' = [mine EXCEPT ![t] = bcalls + 1]
      /\ info' = [dest |-> bcalls + 1, fd |-> 0]
      /\ with' = [u \in Threads |->
                     IF u = t THEN {mine'[v] : v \in Batch!Reading \cup {t}}
                     ELSE IF u \in Batch!Reading
                       THEN with[u] \cup {bcalls + 1}
                     ELSE with[u]]
  BY DEF Batch!ReadS
<1>2. /\ t \notin Batch!Reading /\ Batch!Reading \subseteq Threads
      /\ Batch!Reading' = Batch!Reading \cup {t}
  BY <1>1, <1>t DEF Batch!Reading
<1>3. /\ mine'[t] = bcalls + 1
      /\ \A u \in Threads \ {t} : mine'[u] = mine[u] /\ bpc'[u] = bpc[u]
      /\ bpc'[t] = "raw"
  BY <1>1, <1>t
<1>4. /\ \A u \in Batch!Reading' : mine'[u] \in with'[t]
      /\ with'[t] \subseteq Nat
  <2>1. with'[t] = {mine'[v] : v \in Batch!Reading \cup {t}}
    BY <1>1
  <2>2. \A v \in Batch!Reading \cup {t} : mine'[v] \in Nat
    BY <1>2, <1>3, <1>t
  <2> QED
    BY <1>2, <2>1, <2>2
<1>5. \A u \in Batch!Reading : with'[u] = with[u] \cup {bcalls + 1}
  BY <1>1, <1>2
<1>6. \A u \in Threads \ {t} : with'[u] \subseteq Nat
  BY <1>1, <1>t
<1>7. with' \in [Threads -> SUBSET Nat]
  <2>1. DOMAIN with' = Threads /\ with' = [u \in Threads |-> with'[u]]
    BY <1>1
  <2>2. \A u \in Threads : with'[u] \in SUBSET Nat
    BY <1>4, <1>6
  <2> QED
    BY <2>1, <2>2
<1>8. ASSUME NEW u \in Batch!Reading', NEW v \in Batch!Reading'
      PROVE  mine'[v] \in with'[u] /\ mine'[v] <= bcalls'
  <2>1. mine'[v] <= bcalls'
    <3>1. CASE v = t
      BY <1>1, <1>3, <1>t, <3>1
    <3>2. CASE v # t
      <4>1. v \in Batch!Reading /\ mine[v] <= bcalls /\ mine[v] \in Nat
        BY <1>2, <1>t, <3>2 DEF Current, Met
      <4> QED
        BY <1>1, <1>2, <1>3, <1>t, <3>2, <4>1
    <3> QED
      BY <3>1, <3>2
  <2>2. CASE u = t
    BY <1>4, <2>1, <2>2
  <2>3. CASE u # t /\ v = t
    BY <1>2, <1>3, <1>5, <2>1, <2>3
  <2>4. CASE u # t /\ v # t
    <3>1. u \in Batch!Reading /\ v \in Batch!Reading
      BY <1>2, <2>4
    <3>2. mine[v] \in with[u] /\ mine'[v] = mine[v]
      BY <1>2, <1>3, <2>4, <3>1 DEF Current, Met
    <3> QED
      BY <1>5, <2>1, <3>1, <3>2
  <2> QED
    BY <2>2, <2>3, <2>4
<1>9. ASSUME NEW u \in Threads PROVE DestAt(u)' /\ FdAt(u)'
  <2>1. CASE u = t
    BY <1>1, <1>2, <1>3, <1>4, <2>1 DEF DestAt, FdAt
  <2>2. CASE u # t /\ u \in Batch!Reading
    <3>1. info'.dest \in with'[u] /\ info'.fd = 0
      BY <1>1, <1>5, <2>2
    <3>2. mine[u] <= bcalls /\ mine[u] \in Nat /\ mine'[u] = mine[u]
      BY <1>3, <1>t, <2>2 DEF Current, Met
    <3>3. mine'[u] # bcalls + 1 /\ bcalls + 1 \in with'[u]
      BY <1>5, <1>t, <2>2, <3>2
    <3>4. with'[u] # {mine'[u]}
      BY <3>3
    <3> QED
      BY <3>1, <3>4 DEF DestAt, FdAt
  <2>3. CASE u # t /\ u \notin Batch!Reading
    BY <1>3, <2>3 DEF DestAt, FdAt, Batch!Reading
  <2> QED
    BY <2>1, <2>2, <2>3
<1> QED
  BY <1>7, <1>8, <1>9 DEF Current, Met

\* A descriptor that is filled in is of a read that all under way have met.
LEMMA Fills ==
    ASSUME BatchTypes, Current, NEW t \in Threads, Batch!PreadRaw(t)
    PROVE  Current'
<1> USE DEF Batch!At
<1>t. bpc \in [Threads -> BatchPlaces] /\ info \in Request
  BY DEF BatchTypes
<1>1. /\ bpc[t] = "raw" /\ bpc' = [bpc EXCEPT ![t] = "add"]
      /\ info' = [info EXCEPT !.fd = mine[t]]
      /\ mine' = mine /\ bcalls' = bcalls /\ with' = with
  BY DEF Batch!PreadRaw, Batch!told
<1>2. Batch!Reading' = Batch!Reading /\ t \in Batch!Reading
  BY <1>1, <1>t DEF Batch!Reading
<1>3. info'.fd = mine[t] /\ info'.dest = info.dest
  BY <1>1, <1>t DEF Request
<1>4. Met'
  BY <1>1, <1>2 DEF Current, Met
<1>5. ASSUME NEW u \in Threads PROVE DestAt(u)'
  <2>1. bpc'[u] \in {"raw", "add"} => bpc[u] \in {"raw", "add"}
    BY <1>1, <1>t
  <2> QED
    BY <1>1, <1>3, <2>1 DEF Current, DestAt
<1>6. ASSUME NEW u \in Threads, bpc'[u] = "add" PROVE info'.fd \in with'[u]
  <2>1. u \in Batch!Reading
    BY <1>2, <1>6 DEF Batch!Reading
  <2> QED
    BY <1>1, <1>2, <1>3, <2>1 DEF Current, Met
<1> QED
  BY <1>1, <1>4, <1>5, <1>6 DEF Current, FdAt

\* A read that goes on to its end, or that is over.
LEMMA GoesOn ==
    ASSUME BatchTypes, Current, NEW t \in Threads,
           Batch!AddPendingOp(t) \/ Batch!FdInfo(t)
    PROVE  Current'
<1> USE DEF Batch!At
<1>t. /\ bpc \in [Threads -> BatchPlaces] /\ mine \in [Threads -> Nat]
      /\ with \in [Threads -> SUBSET Nat]
  BY DEF BatchTypes, Current
<1>1. CASE Batch!AddPendingOp(t)
  <2>1. /\ bpc[t] = "add" /\ bpc' = [bpc EXCEPT ![t] = "fd"]
        /\ UNCHANGED <<mine, bcalls, with, info>>
    BY <1>1 DEF Batch!AddPendingOp, Batch!maps
  <2>2. Batch!Reading' = Batch!Reading
    BY <2>1, <1>t DEF Batch!Reading
  <2>3. \A u \in Threads : bpc'[u] \in {"raw", "add"} => bpc'[u] = bpc[u]
    BY <2>1, <1>t
  <2> QED
    BY <2>1, <2>2, <2>3 DEF Current, Met, DestAt, FdAt
<1>2. CASE Batch!FdInfo(t)
  <2>1. /\ bpc[t] = "fd" /\ bpc' = [bpc EXCEPT ![t] = "app"]
        /\ mine' = [mine EXCEPT ![t] = 0] /\ with' = [with EXCEPT ![t] = {}]
        /\ UNCHANGED <<bcalls, info>>
    BY <1>2 DEF Batch!FdInfo
  <2>2. Batch!Reading' = Batch!Reading \ {t} /\ Batch!Reading \subseteq Threads
    BY <2>1, <1>t DEF Batch!Reading
  <2>3. \A u \in Threads \ {t} :
          bpc'[u] = bpc[u] /\ mine'[u] = mine[u] /\ with'[u] = with[u]
    BY <2>1, <1>t
  <2>4. bpc'[t] = "app" /\ with' \in [Threads -> SUBSET Nat]
    BY <2>1, <1>t
  <2>5. Met'
    BY <2>1, <2>2, <2>3 DEF Current, Met
  <2>6. \A u \in Threads : DestAt(u)' /\ FdAt(u)'
    BY <2>1, <2>3, <2>4 DEF Current, DestAt, FdAt
  <2> QED
    BY <2>4, <2>5, <2>6 DEF Current
<1> QED
  BY <1>1, <1>2

\* What happens outside of the reads.
LEMMA Elsewhere ==
    ASSUME BatchTypes, Current, UNCHANGED <<mine, bcalls, with, info>>,
           \/ bpc' = bpc
           \/ \E t \in Threads, to \in {"app", "init", "submit", "wait"} :
                  /\ bpc[t] \in {"app", "init", "submit", "wait"}
                  /\ bpc' = [bpc EXCEPT ![t] = to]
    PROVE  Current'
<1>1. \A u \in Threads : bpc'[u] = bpc[u]
         \/ (/\ bpc[u] \in {"app", "init", "submit", "wait"}
             /\ bpc'[u] \in {"app", "init", "submit", "wait"})
  BY DEF BatchTypes
<1>2. Batch!Reading' = Batch!Reading
  BY <1>1 DEF Batch!Reading
<1> QED
  BY <1>1, <1>2 DEF Current, Met, DestAt, FdAt

LEMMA CurrentStep ==
    ASSUME BatchTypes, Current, Batch!Probes
    PROVE  Current'
<1> USE DEF Batch!At
<1>1. ASSUME NEW t \in Threads, Batch!Arrive(t) \/ Batch!MainEntry(t)
      PROVE  Current'
  <2>1. UNCHANGED <<mine, bcalls, with, info>>
    BY <1>1 DEF Batch!Arrive, Batch!MainEntry, Batch!batch, Batch!maps,
                Batch!told
  <2>2. /\ bpc[t] \in {"app", "init"}
        /\ \/ bpc' = [bpc EXCEPT ![t] = "init"]
           \/ bpc' = [bpc EXCEPT ![t] = "submit"]
           \/ bpc' = [bpc EXCEPT ![t] = "app"]
    BY <1>1, Zenon DEF Batch!Arrive, Batch!MainEntry
  <2> QED
    BY <2>1, <2>2, Elsewhere
<1>2. ASSUME NEW t \in Threads,
             \/ Batch!NothingBatched(t) \/ Batch!BatchSubmit(t)
             \/ Batch!WaitOver(t)
      PROVE  Current'
  <2>1. UNCHANGED <<mine, bcalls, with, info>>
    BY <1>2 DEF Batch!NothingBatched, Batch!BatchSubmit, Batch!WaitOver,
                Batch!batch, Batch!maps, Batch!told
  <2>2. /\ bpc[t] \in {"submit", "wait"}
        /\ \/ bpc' = [bpc EXCEPT ![t] = "wait"]
           \/ bpc' = [bpc EXCEPT ![t] = "init"]
           \/ bpc' = [bpc EXCEPT ![t] = "app"]
    BY <1>2 DEF Batch!NothingBatched, Batch!BatchSubmit, Batch!WaitOver,
                Batch!Leave
  <2> QED
    BY <2>1, <2>2, Elsewhere
<1>3. ASSUME (\E t \in Threads : Batch!Wait(t)) \/ Batch!Works PROVE Current'
  <2>1. UNCHANGED <<mine, bcalls, with, info, bpc>>
    BY <1>3 DEF Batch!Wait, Batch!Works, Batch!batch, Batch!maps, Batch!told
  <2> QED
    BY <2>1, Elsewhere
<1> QED
  BY <1>1, <1>2, <1>3, NewRead, Fills, GoesOn DEF Batch!Probes, Batch!Run

LEMMA NInvStep == NInv /\ [PatchesNext]_all => NInv'
<1> SUFFICES ASSUME NInv, [PatchesNext]_all PROVE NInv'
  OBVIOUS
<1>1. CASE UNCHANGED bvars
  <2>1. UNCHANGED <<bpc, bcalls, mine, info, total, with, reported, handed>>
    BY <1>1 DEF bvars
  <2>2. BatchTypes'
    BY <2>1 DEF NInv, BatchTypes
  <2> QED
    BY <2>1, <2>2, Elsewhere DEF NInv
<1>2. CASE Batch!Probes
  BY <1>2, BatchTypesStep, CurrentStep DEF NInv
<1> QED
  BY <1>1, <1>2 DEF PatchesNext, InBackup, InBatch, all

\* batch.bpf.c, for any threads and whatever they do together: what a read
\* prepares never comes from a read that was over before it began.
THEOREM RequestsAreCurrent == PatchesSpec => []NoStaleRequest
<1>1. PatchesInit => NInv
  BY NInvInit
<1>2. NInv /\ [PatchesNext]_all => NInv'
  BY NInvStep
<1>3. NInv => NoStaleRequest
  BY DEF NInv, Current, DestAt, FdAt, NoStaleRequest, Batch!NoStaleRequest
<1> QED
  BY <1>1, <1>2, <1>3, PTL DEF PatchesSpec
-----------------------------------------------------------------------------
(***************************************************************************)
(* Fifth: backup.bpf.c performs operations in call order, apart from what  *)
(* stands behind a recv.  What is prepared comes last of all operations,   *)
(* is in line, and is linked to the next unless it is a recv; so of two    *)
(* requests of different chains the earlier is separated from the later by *)
(* a recv.  The ring never fills up between two probes, so the application *)
(* never performs an operation before those prepared.                      *)
(***************************************************************************)
InLine == \A k \in DOMAIN sq : sq[k].id = calls - Len(sq) + k

\* What is not linked is a recv, or awaits its flag.
UnlinkedRecv ==
    \A k \in DOMAIN sq :
        /\ ~sq[k].linked
        /\ k < Len(sq) \/ \A t \in Threads : pc[t] # "link"
        => sq[k].id \in recvs

\* A recv comes before operation j, at i or behind it.
RecvBetween(i, j) == recvs \cap (i..j - 1) # {}

KernelOrder == \A q, r \in inflight :
                   q.id < r.id /\ q.chain # r.chain => RecvBetween(q.id, r.id)

DoneOrder == \A d \in DOMAIN done : \A q \in inflight :
                 done[d] > q.id => RecvBetween(q.id, done[d])

Overtakes == \A i, j \in DOMAIN done :
                 i < j /\ done[i] > done[j] => RecvBetween(done[j], done[i])

\* Between two probes the batch is not full.
NeverFull == /\ NoneRunning => count < BatchSize
             /\ \A t \in Threads : pc[t] = "find" /\ res[t] = 0 => count < BatchSize

Ordered == InLine /\ UnlinkedRecv /\ KernelOrder /\ DoneOrder /\ Overtakes
           /\ NeverFull

OInv == CInv /\ (~overlapped /\ BatchSize <= Entries => Ordered)

\* Two SQEs with only linked ones from the first to the second are of one
\* chain.
LEMMA SameChain ==
    ASSUME NEW k \in Nat, NEW l \in Nat, 1 <= k, k < l,
           \A m \in k..l - 1 : sq[m].linked
    PROVE  ChainStart(k) = ChainStart(l)
<1> DEFINE P(n, j) == /\ j \in 1..n
                      /\ \A i \in j..n - 1 : sq[i].linked
                      /\ j = 1 \/ ~sq[j - 1].linked
<1>1. ASSUME NEW j, P(k, j) PROVE P(l, j)
  <2>1. j \in 1..l /\ (j = 1 \/ ~sq[j - 1].linked)
    BY <1>1
  <2>2. ASSUME NEW i \in j..l - 1 PROVE sq[i].linked
    <3>1. i \in j..k - 1 \/ i \in k..l - 1
      BY <1>1
    <3> QED
      BY <3>1, <1>1
  <2> QED
    BY <2>1, <2>2
<1>2. ASSUME NEW j, P(l, j) PROVE P(k, j)
  <2>1. j \in 1..k
    <3>1. SUFFICES ASSUME j > k PROVE FALSE
      BY <1>2
    <3>2. j - 1 \in k..l - 1 /\ j # 1
      BY <1>2, <3>1
    <3> QED
      BY <1>2, <3>2
  <2>2. \A i \in j..k - 1 : sq[i].linked
    BY <1>2, <2>1
  <2> QED
    BY <1>2, <2>1, <2>2
<1>3. \A j : P(k, j) <=> P(l, j)
  BY <1>1, <1>2
<1>4. (CHOOSE j : P(k, j)) = (CHOOSE j : P(l, j))
  <2> HIDE DEF P
  <2> QED
    BY <1>3
<1> QED
  BY <1>4 DEF ChainStart

\* What is performed was called before what is prepared.
LEMMA DoneBefore ==
    ASSUME IInv, InLine, NEW d \in DOMAIN done, NEW k \in DOMAIN sq
    PROVE  done[d] \in Nat /\ done[d] < sq[k].id
<1>1. /\ calls \in Nat /\ sq \in Seq(Sqe) /\ Len(sq) \in Nat
      /\ DOMAIN sq = 1..Len(sq) /\ done \in Seq(Nat) /\ done[d] \in Nat
  BY DEF IInv, Types
<1>2. done[d] \in Performed /\ done[d] \in 1..calls
  BY DEF IInv, Somewhere, Performed, Elements
<1>3. SUFFICES ASSUME done[d] >= sq[k].id PROVE FALSE
  BY <1>1 DEF InLine
<1>4. sq[k].id = calls - Len(sq) + k
  BY DEF InLine
<1>5. PICK m \in DOMAIN sq : m = done[d] - calls + Len(sq)
  <2>1. done[d] - calls + Len(sq) \in 1..Len(sq)
    BY <1>1, <1>2, <1>3, <1>4
  <2> QED
    BY <1>1, <2>1
<1>6. sq[m].id = done[d]
  <2>1. sq[m].id = calls - Len(sq) + m
    BY DEF InLine
  <2> QED
    BY <1>1, <1>5, <2>1
<1>7. done[d] \in Prepping
  BY <1>6 DEF Prepping, Ids, Elements
<1> QED
  BY <1>2, <1>7 DEF IInv, Apart

\* A submission to an idle kernel.
LEMMA SubmitOrdered ==
    ASSUME IInv, InLine, UnlinkedRecv, \A t \in Threads : pc[t] # "link",
           Idle, Submit, UNCHANGED <<done, recvs>>
    PROVE  KernelOrder' /\ DoneOrder'
<1>1. /\ calls \in Nat /\ sq \in Seq(Sqe) /\ Len(sq) \in Nat
      /\ DOMAIN sq = 1..Len(sq) /\ inflight' = Submitted
  BY DEF IInv, Types, Submit, Idle
<1>2. ASSUME NEW q \in inflight', NEW r \in inflight',
             q.id < r.id, q.chain # r.chain
      PROVE  RecvBetween(q.id, r.id)
  <2>1. PICK k \in DOMAIN sq :
          q = [id |-> sq[k].id, chain |-> sq[ChainStart(k)].id]
    BY <1>1 DEF Submitted
  <2>2. PICK l \in DOMAIN sq :
          r = [id |-> sq[l].id, chain |-> sq[ChainStart(l)].id]
    BY <1>1 DEF Submitted
  <2>3. /\ q.id = calls - Len(sq) + k /\ r.id = calls - Len(sq) + l
        /\ k \in 1..Len(sq) /\ l \in 1..Len(sq)
    BY <1>1, <2>1, <2>2 DEF InLine
  <2>4. k < l
    BY <1>1, <1>2, <2>3
  <2>5. ChainStart(k) # ChainStart(l)
    BY <1>2, <2>1, <2>2
  <2>6. PICK m \in k..l - 1 : ~sq[m].linked
    BY <2>3, <2>4, <2>5, SameChain
  <2>7. m \in DOMAIN sq /\ m < Len(sq)
    BY <1>1, <2>3, <2>6
  <2>8. sq[m].id \in recvs /\ sq[m].id = calls - Len(sq) + m
    BY <2>6, <2>7 DEF UnlinkedRecv, InLine
  <2>9. sq[m].id \in q.id..r.id - 1
    BY <1>1, <2>3, <2>6, <2>8
  <2> QED
    BY <2>8, <2>9 DEF RecvBetween
<1>3. ASSUME NEW d \in DOMAIN done, NEW q \in inflight' PROVE ~(done[d] > q.id)
  <2>1. PICK k \in DOMAIN sq :
          q = [id |-> sq[k].id, chain |-> sq[ChainStart(k)].id]
    BY <1>1 DEF Submitted
  <2>2. sq[k] \in Sqe
    BY <1>1
  <2>3. q.id = sq[k].id /\ sq[k].id \in Nat
    BY <2>1, <2>2 DEF Sqe
  <2> QED
    BY <2>3, DoneBefore
<1>4. \A i, j : RecvBetween(i, j)' <=> RecvBetween(i, j)
  BY DEF RecvBetween
<1> QED
  BY <1>2, <1>3, <1>4 DEF KernelOrder, DoneOrder

\* The order of what was handed over, where nothing moves but threads that
\* set no flag.
LEMMA OrderKept ==
    ASSUME InLine, UnlinkedRecv, KernelOrder, DoneOrder, Overtakes,
           UNCHANGED <<sq, inflight, done, calls, recvs>>,
           (\A t \in Threads : pc'[t] # "link")
               => \A t \in Threads : pc[t] # "link"
    PROVE  (InLine /\ UnlinkedRecv /\ KernelOrder /\ DoneOrder /\ Overtakes)'
BY DEF InLine, UnlinkedRecv, KernelOrder, DoneOrder, Overtakes, RecvBetween

LEMMA QueueOrdered ==
    ASSUME CInv, Inner, Ordered, NEW t \in Threads, Queue(t), ~overlapped'
    PROVE  Ordered'
<1> USE DEF At
<1>t. /\ calls \in Nat /\ sq \in Seq(Sqe) /\ Len(sq) \in Nat
      /\ DOMAIN sq = 1..Len(sq) /\ pc \in [Threads -> Places]
  BY DEF CInv, IInv, Types, Shapes
<1>1. /\ sq' = Prepared(calls + 1) /\ calls' = calls + 1
      /\ UNCHANGED <<inflight, done, res, count>>
      /\ overlapped' = (overlapped \/ \E u \in Threads \ {t} : pc[u] # "app")
      /\ pc[t] = "app"
  BY DEF Queue, Call, Enter
<1>2. \/ pc' = [pc EXCEPT ![t] = "link"] /\ recvs' = recvs
      \/ pc' = [pc EXCEPT ![t] = "count"] /\ recvs' = recvs \cup {calls + 1}
  BY DEF Queue, Call, Enter
<1>3. Idle /\ \A u \in Threads : pc[u] = "app"
  BY <1>1, Entered
<1>4. /\ DOMAIN sq' = 1..Len(sq) + 1 /\ Len(sq') = Len(sq) + 1
      /\ \A k \in DOMAIN sq : sq'[k] = sq[k]
      /\ sq'[Len(sq) + 1].id = calls + 1
  BY <1>1, <1>t DEF Prepared, Sqe
<1>5. InLine'
  <2>1. ASSUME NEW k \in DOMAIN sq'
        PROVE  sq'[k].id = calls' - Len(sq') + k
    <3>1. CASE k \in DOMAIN sq
      <4>1. sq'[k].id = calls - Len(sq) + k
        BY <1>4, <3>1 DEF Ordered, InLine
      <4> QED
        <5>1. k \in Nat /\ sq'[k] = sq[k]
          BY <1>4, <1>t, <3>1
        <5>2. calls' - Len(sq') = calls - Len(sq)
          BY <1>1, <1>4, <1>t
        <5> QED
          BY <4>1, <5>1, <5>2
    <3>2. CASE k = Len(sq) + 1
      BY <1>1, <1>4, <1>t, <3>2
    <3> QED
      BY <1>4, <1>t, <3>1, <3>2
  <2> QED
    BY <2>1 DEF InLine
<1>6. UnlinkedRecv'
  <2>1. ASSUME NEW k \in DOMAIN sq', ~sq'[k].linked,
               k < Len(sq') \/ \A u \in Threads : pc'[u] # "link"
        PROVE  sq'[k].id \in recvs'
    <3>1. CASE k \in DOMAIN sq
      <4>1. sq[k].id \in recvs
        BY <1>3, <1>4, <2>1, <3>1 DEF Ordered, UnlinkedRecv
      <4> QED
        BY <1>2, <1>4, <3>1, <4>1
    <3>2. CASE k = Len(sq) + 1
      <4>1. \A u \in Threads : pc'[u] # "link"
        BY <1>4, <1>t, <2>1, <3>2
      <4>2. recvs' = recvs \cup {calls + 1}
        BY <1>2, <1>t, <4>1
      <4> QED
        BY <1>4, <3>2, <4>2
    <3> QED
      BY <1>4, <1>t, <3>1, <3>2
  <2> QED
    BY <2>1 DEF UnlinkedRecv
<1>7. KernelOrder' /\ DoneOrder'
  BY <1>1, <1>3 DEF KernelOrder, DoneOrder, Idle
<1>8. recvs \subseteq recvs'
  BY <1>2
<1>9. Overtakes'
  BY <1>1, <1>8 DEF Ordered, Overtakes, RecvBetween
<1>10. NeverFull'
  BY <1>2, <1>3, <1>t DEF NeverFull, NoneRunning
<1> QED
  BY <1>5, <1>6, <1>7, <1>9, <1>10 DEF Ordered

\* Between two probes there is room, so no operation is the application's.
LEMMA NoOwnCall ==
    ASSUME CInv, Inner, Ordered, BatchSize <= Entries,
           NEW t \in Threads, OwnCall(t), ~overlapped'
    PROVE  FALSE
<1>1. /\ ~Room /\ pc[t] = "app"
      /\ overlapped' = (overlapped \/ \E u \in Threads \ {t} : pc[u] # "app")
  BY DEF OwnCall, Call, Enter
<1>2. NoneRunning /\ Len(sq) = count
  BY <1>1, Entered DEF NoneRunning
<1>3. count < BatchSize /\ count \in Nat
  BY <1>2 DEF Ordered, NeverFull, CInv, Shapes
<1> QED
  BY <1>1, <1>2, <1>3, PatchesAssumption DEF Room

LEMMA LinkOrdered ==
    ASSUME CInv, Inner, Ordered, NEW t \in Threads, SetLinkflag(t)
    PROVE  Ordered'
<1> USE DEF At
<1>t. /\ calls \in Nat /\ sq \in Seq(Sqe) /\ Len(sq) \in Nat /\ count \in Nat
      /\ DOMAIN sq = 1..Len(sq) /\ pc \in [Threads -> Places]
  BY DEF CInv, IInv, Types, Shapes
<1>1. /\ pc[t] = "link" /\ pc' = [pc EXCEPT ![t] = "count"]
      /\ sq' = IF sq = <<>> THEN sq ELSE Linked
      /\ UNCHANGED <<inflight, res, count, done, calls, recvs>>
  BY DEF SetLinkflag, history
<1>2. Len(sq) = count + 1
  BY <1>1 DEF Inner, EntryAt
<1>3. sq # <<>> /\ sq' = Linked
  BY <1>1, <1>2, <1>t
<1>4. /\ DOMAIN sq' = DOMAIN sq /\ \A k \in DOMAIN sq : sq'[k].id = sq[k].id
      /\ Len(sq') = Len(sq)
  BY <1>3, <1>t, LinkedIds DEF Linked
<1>5. /\ \A k \in DOMAIN sq : k # Len(sq) => sq'[k] = sq[k]
      /\ sq'[Len(sq)].linked
  <2>1. Len(sq) \in DOMAIN sq /\ sq[Len(sq)] \in Sqe
    BY <1>2, <1>t
  <2> QED
    BY <1>3, <2>1 DEF Linked, Sqe
<1>6. InLine'
  BY <1>1, <1>4 DEF Ordered, InLine
<1>7. UnlinkedRecv'
  <2>1. ASSUME NEW k \in DOMAIN sq', ~sq'[k].linked PROVE sq'[k].id \in recvs'
    <3>1. k \in DOMAIN sq /\ k # Len(sq) /\ ~sq[k].linked
      BY <1>4, <1>5, <2>1
    <3>2. k < Len(sq)
      BY <1>t, <3>1
    <3> QED
      BY <1>1, <1>4, <3>1, <3>2 DEF Ordered, UnlinkedRecv
  <2> QED
    BY <2>1 DEF UnlinkedRecv
<1>8. KernelOrder' /\ DoneOrder' /\ Overtakes'
  BY <1>1 DEF Ordered, KernelOrder, DoneOrder, Overtakes, RecvBetween
<1>9. pc'[t] = "count" /\ \A u \in Threads \ {t} : pc'[u] = pc[u]
  BY <1>1, <1>t
<1>10. NeverFull'
  BY <1>1, <1>9 DEF Ordered, NeverFull, NoneRunning
<1> QED
  BY <1>6, <1>7, <1>8, <1>10 DEF Ordered

LEMMA BatchOrdered ==
    ASSUME CInv, Inner, Ordered, NEW t \in Threads, SubmitBatch(t) \/ Flush(t),
           ~overlapped'
    PROVE  Ordered'
<1> USE DEF At
<1>t. pc \in [Threads -> Places] /\ res \in [Threads -> {0, 1}]
  BY DEF CInv, Shapes
<1>1. /\ \/ pc[t] = "test" /\ pc' = [pc EXCEPT ![t] = "wait"]
         \/ pc[t] = "app" /\ pc' = [pc EXCEPT ![t] = "flush"] /\ Enter(t, {})
      /\ Submit /\ UNCHANGED <<done, count>>
  BY DEF SubmitBatch, Flush, history
<1>2. recvs' = recvs
  BY DEF SubmitBatch, Flush, history, Enter
<1>3. Idle /\ \A u \in Threads \ {t} : pc[u] = "app"
  <2>1. CASE pc[t] = "test"
    BY <2>1 DEF Inner, Alone, EntryAt
  <2>2. CASE pc[t] = "app" /\ Enter(t, {})
    BY <2>2, Entered DEF Enter
  <2> QED
    BY <1>1, <2>1, <2>2
<1>4. \A u \in Threads : pc[u] # "link"
  BY <1>1, <1>3
<1>5. KernelOrder' /\ DoneOrder'
  BY <1>1, <1>2, <1>3, <1>4, SubmitOrdered DEF CInv, Ordered
<1>6. sq' = <<>>
  BY <1>1 DEF Submit
<1>7. InLine' /\ UnlinkedRecv'
  BY <1>6 DEF InLine, UnlinkedRecv
<1>8. Overtakes'
  BY <1>1, <1>2 DEF Ordered, Overtakes, RecvBetween
<1>9. pc'[t] \in {"wait", "flush"} /\ \A u \in Threads \ {t} : pc'[u] = "app"
  BY <1>1, <1>3, <1>t
<1>10. NeverFull'
  BY <1>9 DEF NeverFull, NoneRunning
<1> QED
  BY <1>5, <1>7, <1>8, <1>10 DEF Ordered

\* What a thread does between: the count, the test, the wait and the reset.
LEMMA RunOrdered ==
    ASSUME CInv, Inner, Ordered, NEW t \in Threads,
           \/ CountUp(t) \/ Insert(t) \/ NotFull(t) \/ Wait(t) \/ Reap(t)
           \/ WaitOver(t) \/ Find(t) \/ Reset(t)
    PROVE  Ordered'
<1> USE DEF At, Return
<1>t. /\ pc \in [Threads -> Places] /\ res \in [Threads -> {0, 1}]
  BY DEF CInv, Shapes
<1>1. UNCHANGED <<sq, inflight, done, calls, recvs>>
  BY DEF CountUp, Load, Store, Insert, NotFull, Wait, Reap, WaitAndSeen,
         WaitOver, Find, Reset, uring, history
<1>2. PICK to \in Places \ {"link"} : pc' = [pc EXCEPT ![t] = to]
  <2>1. CASE CountUp(t) \/ Insert(t) \/ NotFull(t) \/ WaitOver(t) \/ Reset(t)
    <3>1. \/ pc' = [pc EXCEPT ![t] = "plus"] \/ pc' = [pc EXCEPT ![t] = "copy"]
          \/ pc' = [pc EXCEPT ![t] = "paste"]
          \/ pc' = [pc EXCEPT ![t] = "insert"]
          \/ pc' = [pc EXCEPT ![t] = "test"] \/ pc' = [pc EXCEPT ![t] = "find"]
          \/ pc' = [pc EXCEPT ![t] = "reset"] \/ pc' = [pc EXCEPT ![t] = "app"]
      BY <2>1 DEF CountUp, Load, Store, Insert, NotFull, WaitOver, Reset
    <3> QED
      BY <3>1 DEF Places
  <2>2. CASE Wait(t) \/ Reap(t)
    <3>1. \/ pc' = [pc EXCEPT ![t] = "block"] \/ pc' = [pc EXCEPT ![t] = "drain"]
          \/ pc' = [pc EXCEPT ![t] = "wait"] \/ pc' = [pc EXCEPT ![t] = "flush"]
      BY <2>2 DEF Wait, Reap
    <3> QED
      BY <3>1 DEF Places
  <2>3. CASE Find(t)
    <3>1. pc' = [pc EXCEPT ![t] = "reset"] \/ pc' = [pc EXCEPT ![t] = "app"]
      BY <2>3 DEF Find
    <3> QED
      BY <3>1 DEF Places
  <2> QED
    BY <2>1, <2>2, <2>3
<1>3. pc[t] \notin {"app", "link"}
  <2>1. CASE Find(t)
    BY <2>1 DEF Find
  <2>2. CASE ~Find(t)
    BY <2>2 DEF CountUp, Load, Store, Insert, NotFull, Wait, Reap, WaitOver,
                Reset
  <2> QED
    BY <2>1, <2>2
<1>4. \A u \in Threads \ {t} : pc[u] = "app" /\ pc'[u] = "app"
  BY <1>2, <1>3, <1>t DEF Inner, Alone
<1>5. pc'[t] = to
  BY <1>2, <1>t
<1>6. (InLine /\ UnlinkedRecv /\ KernelOrder /\ DoneOrder /\ Overtakes)'
  <2>1. \A u \in Threads : pc[u] # "link"
    BY <1>3, <1>4
  <2> QED
    BY <1>1, <2>1, OrderKept DEF Ordered
<1>7. /\ pc'[t] = "app" => count' < BatchSize
      /\ pc'[t] = "find" /\ res'[t] = 0 => count' < BatchSize
  <2>1. CASE NotFull(t)
    BY <2>1, <1>t DEF NotFull
  <2>2. CASE WaitOver(t)
    <3>1. CASE At(t, "wait", "find")
      <4>1. res'[t] = 1 /\ pc'[t] = "find"
        BY <2>2, <3>1, <1>t DEF WaitOver, Inner, EntryAt
      <4> QED
        BY <4>1
    <3>2. CASE At(t, "flush", "reset")
      BY <3>2, <1>t
    <3> QED
      BY <2>2, <3>1, <3>2 DEF WaitOver
  <2>3. CASE Find(t)
    <3>1. pc[t] = "find" /\ count \in keys /\ count' = count
      BY <2>3 DEF Find, Inner, EntryAt
    <3>2. CASE res[t] = 1
      <4>1. pc' = [pc EXCEPT ![t] = "reset"]
        BY <2>3, <3>1, <3>2 DEF Find
      <4>2. pc'[t] = "reset"
        BY <4>1, <1>t
      <4> QED
        BY <4>2
    <3>3. CASE res[t] = 0
      <4>1. count < BatchSize
        BY <3>1, <3>3 DEF Ordered, NeverFull
      <4> QED
        BY <3>1, <4>1
    <3> QED
      BY <3>2, <3>3, <1>t
  <2>4. CASE Reset(t)
    <3>1. count' = 0
      BY <2>4 DEF Reset
    <3> QED
      BY <3>1, PatchesAssumption
  <2>5. CASE CountUp(t) \/ Insert(t) \/ Wait(t) \/ Reap(t)
    <3>1. pc'[t] \notin {"app", "find"}
      <4>1. CASE CountUp(t) \/ Insert(t)
        BY <4>1, <1>t DEF CountUp, Load, Store, Insert
      <4>2. CASE Wait(t) \/ Reap(t)
        BY <4>2, <1>t DEF Wait, Reap
      <4> QED
        BY <2>5, <4>1, <4>2
    <3> QED
      BY <3>1
  <2> QED
    BY <2>1, <2>2, <2>3, <2>4, <2>5
<1>8. NeverFull'
  BY <1>4, <1>7 DEF NeverFull, NoneRunning
<1> QED
  BY <1>6, <1>8 DEF Ordered

\* What the kernel performs next is the first of its chain.
LEMMA WorksOrdered ==
    ASSUME CInv, Ordered, Works
    PROVE  Ordered'
<1>1. PICK r \in Ready :
        \/ End({r}) /\ done' = Append(done, r.id) /\ UNCHANGED lost
        \/ End(ChainOf(r)) /\ UNCHANGED done
  BY DEF Works
<1>2. /\ UNCHANGED <<sq, pc, res, count, calls, recvs>>
      /\ inflight' \subseteq inflight /\ r \in inflight
  BY <1>1 DEF Works, End, thread, Ready
<1>3. InLine' /\ UnlinkedRecv' /\ KernelOrder' /\ NeverFull'
  BY <1>2 DEF Ordered, InLine, UnlinkedRecv, KernelOrder, NeverFull, NoneRunning,
              RecvBetween
<1>4. CASE done' = done
  BY <1>2, <1>3, <1>4 DEF Ordered, DoneOrder, Overtakes, RecvBetween
<1>5. CASE End({r}) /\ done' = Append(done, r.id)
  <2>1. done \in Seq(Nat) /\ Working \subseteq Nat
    BY DEF CInv, IInv, Types, Somewhere
  <2>2. \A q \in inflight : q.id \in Nat
    BY <2>1 DEF Working, Ids
  <2>3. /\ DOMAIN done' = 1..Len(done) + 1 /\ Len(done) \in Nat
        /\ DOMAIN done = 1..Len(done)
        /\ \A i \in DOMAIN done : done'[i] = done[i]
        /\ done'[Len(done) + 1] = r.id
    BY <1>2, <1>5, <2>1, <2>2
  <2>4. ASSUME NEW q \in inflight', r.id > q.id PROVE RecvBetween(q.id, r.id)
    <3>1. q \in inflight /\ q.id < r.id /\ q.id \in Nat /\ r.id \in Nat
      BY <1>2, <2>2, <2>4
    <3>2. q.chain # r.chain
      BY <3>1 DEF Ready
    <3> QED
      BY <1>2, <3>1, <3>2 DEF Ordered, KernelOrder
  <2>5. ASSUME NEW d \in DOMAIN done', NEW q \in inflight', done'[d] > q.id
        PROVE  RecvBetween(q.id, done'[d])
    <3>1. CASE d \in DOMAIN done
      BY <1>2, <2>3, <2>5, <3>1 DEF Ordered, DoneOrder
    <3>2. CASE d = Len(done) + 1
      BY <2>3, <2>4, <2>5, <3>2
    <3> QED
      BY <2>3, <3>1, <3>2
  <2>6. ASSUME NEW i \in DOMAIN done', NEW j \in DOMAIN done',
               i < j, done'[i] > done'[j]
        PROVE  RecvBetween(done'[j], done'[i])
    <3>1. i \in DOMAIN done
      BY <2>3, <2>6
    <3>2. CASE j \in DOMAIN done
      BY <2>3, <2>6, <3>1, <3>2 DEF Ordered, Overtakes
    <3>3. CASE j = Len(done) + 1
      BY <1>2, <2>3, <2>6, <3>1, <3>3 DEF Ordered, DoneOrder
    <3> QED
      BY <2>3, <3>2, <3>3
  <2>7. \A i, j : RecvBetween(i, j)' <=> RecvBetween(i, j)
    BY <1>2 DEF RecvBetween
  <2>8. DoneOrder' /\ Overtakes'
    BY <2>5, <2>6, <2>7 DEF DoneOrder, Overtakes
  <2> QED
    BY <1>3, <2>8 DEF Ordered
<1> QED
  BY <1>1, <1>4, <1>5

LEMMA OInvInit == PatchInit => OInv
<1> SUFFICES ASSUME PatchInit PROVE OInv
  OBVIOUS
<1>1. /\ pc = [t \in Threads |-> "app"] /\ count = 0
      /\ sq = <<>> /\ inflight = {} /\ done = <<>>
  BY DEF PatchInit, RingInit
<1>2. Ordered
  BY <1>1, PatchesAssumption DEF Ordered, InLine, UnlinkedRecv, KernelOrder,
                                 DoneOrder, Overtakes, NeverFull, NoneRunning
<1> QED
  BY <1>2, CInvInit DEF OInv

LEMMA OInvStep == OInv /\ [Patch]_vars => OInv'
<1> SUFFICES ASSUME OInv, [Patch]_vars PROVE OInv'
  OBVIOUS
<1>1. CInv /\ CInv'
  BY CInvStep DEF OInv
<1> SUFFICES ASSUME ~overlapped', BatchSize <= Entries PROVE Ordered'
  BY <1>1 DEF OInv
<1>2. ~overlapped
  BY OverlapStays
<1>3. Inner /\ Ordered
  BY <1>1, <1>2 DEF OInv, CInv
<1>4. ASSUME NEW t \in Threads, Queue(t) PROVE Ordered'
  BY <1>1, <1>3, <1>4, QueueOrdered
<1>5. ASSUME NEW t \in Threads, OwnCall(t) PROVE FALSE
  BY <1>1, <1>3, <1>5, NoOwnCall
<1>6. ASSUME NEW t \in Threads, SetLinkflag(t) PROVE Ordered'
  BY <1>1, <1>3, <1>6, LinkOrdered
<1>7. ASSUME NEW t \in Threads, SubmitBatch(t) \/ Flush(t) PROVE Ordered'
  BY <1>1, <1>3, <1>7, BatchOrdered
<1>8. ASSUME NEW t \in Threads,
             \/ CountUp(t) \/ Insert(t) \/ NotFull(t) \/ Wait(t) \/ Reap(t)
             \/ WaitOver(t) \/ Find(t) \/ Reset(t)
      PROVE  Ordered'
  BY <1>1, <1>3, <1>8, RunOrdered
<1>9. CASE Works
  BY <1>1, <1>3, <1>9, WorksOrdered
<1>10. CASE UNCHANGED vars
  <2>1. UNCHANGED <<sq, inflight, done, calls, recvs, pc, count, res>>
    BY <1>10 DEF vars, uring, thread, history
  <2>2. NeverFull'
    BY <1>3, <2>1 DEF Ordered, NeverFull, NoneRunning
  <2> QED
    BY <1>3, <2>1, <2>2, OrderKept DEF Ordered
<1> QED
  BY <1>4, <1>5, <1>6, <1>7, <1>8, <1>9, <1>10 DEF Patch, Run

\* backup.bpf.c, for any threads and any batch that fits the ring: until two
\* probes overlap, an operation overtakes an earlier one only from behind a
\* recv.
THEOREM PerformedAsCalled == PatchesSpec => []InCallOrder
<1>1. PatchInit => OInv
  BY OInvInit
<1>2. OInv /\ [Patch]_vars => OInv'
  BY OInvStep
<1>3. OInv => InCallOrder
  BY DEF OInv, Ordered, Overtakes, RecvBetween, InCallOrder
<1> QED
  BY <1>1, <1>2, <1>3, BackupPart, PTL DEF PatchSpec
=============================================================================
