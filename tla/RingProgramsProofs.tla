------------------------- MODULE RingProgramsProofs -------------------------
(***************************************************************************)
(* Theorems about the users of an io_uring, for any number of threads and  *)
(* any sizes of the batches, the rings and the file.                       *)
(*                                                                         *)
(* The write/fsync shim.  A call that is reported done was put into the    *)
(* ring if there was room.  There is because, until two probes overlap,    *)
(* one thread alone is in a probe and the SQEs prepared are at most as     *)
(* many as current_count says, give or take the one being counted: that is *)
(* the inductive invariant.  The other programs have theirs further down,  *)
(* and ProgramsInv puts them together.                                     *)
(***************************************************************************)
EXTENDS RingPrograms, FiniteSetTheorems, TLAPS

USE ShimAssumption

Sqe == [id : Nat, linked : BOOLEAN]

Where == done \cup Ids(inflight) \cup Ids(Elements(sq))

Types ==
    /\ pc \in [Threads -> {"app", "put", "load", "store", "counted",
                       "wait", "block", "reset"}]
    /\ last \in [Threads -> {0, 1}]
    /\ seen \in [Threads -> Nat] /\ op \in [Threads -> Nat]
    /\ count \in Nat /\ calls \in Nat
    /\ sq \in Seq(Sqe)

\* One thread at a time is in a probe.
Alone == \A t, u \in Threads : pc[t] # "app" /\ pc[u] # "app" => t = u

\* How full the ring is, at each place of a probe.
RoomAt(t) ==
    /\ pc[t] \in {"put", "load"} /\ last[t] = 0 => count < PatchSize
    /\ pc[t] = "put" => Len(sq) <= count /\ count <= PatchSize
    /\ pc[t] = "load" => Len(sq) <= count + 1
    /\ pc[t] = "store" => Len(sq) <= seen[t] + 1
    /\ pc[t] = "store" /\ last[t] = 0 => seen[t] < PatchSize
    /\ pc[t] = "counted" => Len(sq) <= count
    /\ pc[t] = "counted" /\ last[t] = 0 => count <= PatchSize
    /\ pc[t] \in {"wait", "block", "reset"} => Len(sq) = 0

RoomAtRest == NoneRunning => Len(sq) <= count /\ count <= PatchSize

Kept(t) == pc[t] \notin {"app", "put"} => op[t] \in Where

\* What holds until two probes overlap, in a ring with room for a batch.
Inner == /\ Alone /\ RoomAtRest
         /\ \A t \in Threads : RoomAt(t) /\ Kept(t)
         /\ acked \subseteq Where

Calm == PatchSize < Entries /\ ~overlapped

IInv == Types /\ (Calm => Inner)

-----------------------------------------------------------------------------
\* What is prepared is added to the ring.
LEMMA PreparedIds ==
    ASSUME sq \in Seq(Sqe), NEW i \in Nat
    PROVE  /\ Prepared(i) \in Seq(Sqe) /\ Len(Prepared(i)) = Len(sq) + 1
           /\ Ids(Elements(Prepared(i))) = Ids(Elements(sq)) \cup {i}
<1> DEFINE e == [id |-> i, linked |-> FALSE]
<1>1. e \in Sqe /\ e.id = i
  BY DEF Sqe
<1>2. Prepared(i) \in Seq(Sqe) /\ Len(Prepared(i)) = Len(sq) + 1
  BY <1>1 DEF Prepared
<1>3. /\ DOMAIN Prepared(i) = DOMAIN sq \cup {Len(sq) + 1}
      /\ \A k \in DOMAIN sq : Prepared(i)[k] = sq[k]
      /\ Prepared(i)[Len(sq) + 1] = e
  BY <1>1 DEF Prepared
<1>4. Elements(Prepared(i)) = Elements(sq) \cup {e}
  BY <1>3 DEF Elements
<1> QED
  BY <1>1, <1>2, <1>4 DEF Ids

\* Submitting keeps the requests.
LEMMA SubmittedIds == Ids(Submitted) = Ids(Elements(sq))
<1> DEFINE r(k) == [id |-> sq[k].id, chain |-> sq[ChainStart(k)].id]
<1>1. ASSUME NEW k \in DOMAIN sq
      PROVE  r(k).id = sq[k].id
  OBVIOUS
<1>2. Ids(Submitted) = {sq[k].id : k \in DOMAIN sq}
  <2>1. Submitted = {r(k) : k \in DOMAIN sq}
    BY DEF Submitted
  <2> HIDE DEF r
  <2> QED
    BY <1>1, <2>1 DEF Ids
<1>3. Ids(Elements(sq)) = {sq[k].id : k \in DOMAIN sq}
  BY DEF Ids, Elements
<1> QED
  BY <1>2, <1>3

LEMMA NoneElements == Elements(<<>>) = {} /\ Ids({}) = {}
BY DEF Elements, Ids

\* Every variable keeps its shape.
LEMMA TypesInit == ShimInit => Types
BY DEF ShimInit, RingInit, Types

LEMMA TypesStep == Types /\ [Shim]_vars => Types'
<1> SUFFICES ASSUME Types, [Shim]_vars PROVE Types'
  OBVIOUS
<1> USE DEF Types, At, Return
<1>1. ASSUME NEW t \in Threads, Test(t) PROVE Types'
  BY <1>1 DEF Test, Enter, uring
<1>2. ASSUME NEW t \in Threads, Put(t) PROVE Types'
  <2>1. op[t] \in Nat
    OBVIOUS
  <2> QED
    BY <1>2, <2>1, PreparedIds DEF Put, history
<1>3. ASSUME NEW t \in Threads, Load(t) PROVE Types'
  BY <1>3 DEF Load, uring, history
<1>4. ASSUME NEW t \in Threads, Store(t) PROVE Types'
  BY <1>4 DEF Store, uring, history
<1>5. ASSUME NEW t \in Threads, Queued(t) PROVE Types'
  BY <1>5 DEF Queued, uring
<1>6. ASSUME NEW t \in Threads, SubmitBatch(t) PROVE Types'
  BY <1>6 DEF SubmitBatch, Submit, history
<1>7. ASSUME NEW t \in Threads, Wait(t) \/ WaitOver(t) PROVE Types'
  BY <1>7 DEF Wait, WaitOver, uring, history
<1>8. ASSUME NEW t \in Threads, Reap(t) PROVE Types'
  BY <1>8 DEF Reap, WaitAndSeen, history
<1>9. ASSUME NEW t \in Threads, Reset(t) PROVE Types'
  BY <1>9 DEF Reset, uring
<1>10. CASE Works
  BY <1>10 DEF Works, End, thread
<1>11. CASE UNCHANGED vars
  BY <1>11 DEF vars, uring, thread, history
<1> QED
  BY <1>1, <1>2, <1>3, <1>4, <1>5, <1>6, <1>7, <1>8, <1>9, <1>10, <1>11 DEF Shim, Run

\* No request that is done or in the ring gets lost.
LEMMA WhereGrows == Types /\ [Shim]_vars => Where \subseteq Where'
<1> SUFFICES ASSUME Types, [Shim]_vars PROVE Where \subseteq Where'
  OBVIOUS
<1> USE DEF Where
<1>1. ASSUME NEW t \in Threads, Put(t) PROVE Where \subseteq Where'
  <2>1. op[t] \in Nat /\ sq \in Seq(Sqe)
    BY DEF Types
  <2>2. Ids(Elements(sq)) \subseteq Ids(Elements(sq'))
    BY <1>1, <2>1, PreparedIds DEF Put
  <2> QED
    BY <1>1, <2>2 DEF Put, history
<1>2. ASSUME NEW t \in Threads, SubmitBatch(t) PROVE Where \subseteq Where'
  <2>1. Ids(inflight') = Ids(inflight) \cup Ids(Submitted)
    BY <1>2 DEF SubmitBatch, Submit, Ids
  <2> QED
    BY <1>2, <2>1, SubmittedIds DEF SubmitBatch, history
<1>3. CASE Works
  <2>1. PICK r \in inflight : End({r}) /\ done' = done \cup {r.id}
    BY <1>3 DEF Works
  <2>2. Ids(inflight) \subseteq Ids(inflight') \cup {r.id}
    BY <2>1 DEF End, Ids
  <2> QED
    BY <2>1, <2>2 DEF End
<1>4. ASSUME NEW t \in Threads,
             \/ Test(t) \/ Load(t) \/ Store(t) \/ Queued(t)
             \/ Wait(t) \/ Reap(t) \/ WaitOver(t) \/ Reset(t)
      PROVE  Where' = Where
  BY <1>4 DEF Test, Load, Store, Queued, Wait, Reap, WaitOver, Reset, Enter,
              WaitAndSeen, uring, history
<1>5. CASE UNCHANGED vars
  BY <1>5 DEF vars, uring, history
<1> QED
  BY <1>1, <1>2, <1>3, <1>4, <1>5 DEF Shim, Run

LEMMA InvInit == ShimInit => IInv
<1> SUFFICES ASSUME ShimInit PROVE IInv
  OBVIOUS
<1>1. Types
  BY TypesInit
<1>2. \A t \in Threads : pc[t] = "app"
  BY DEF ShimInit
<1>3. Alone /\ RoomAtRest /\ \A t \in Threads : RoomAt(t) /\ Kept(t)
  BY <1>2 DEF ShimInit, RingInit, Alone, RoomAtRest, RoomAt, Kept
<1> QED
  BY <1>1, <1>3 DEF IInv, Inner, ShimInit

\* A step of the thread in a probe: the others are outside and stay there.
LEMMA Others ==
    ASSUME Types, Inner, NEW t \in Threads, pc[t] # "app",
           NEW to, pc' = [pc EXCEPT ![t] = to]
    PROVE  /\ \A u \in Threads \ {t} : pc[u] = "app" /\ pc'[u] = "app"
           /\ Alone'
           /\ \A u \in Threads \ {t} : RoomAt(u)' /\ Kept(u)'
           /\ pc'[t] = to
           /\ NoneRunning' => to = "app"
<1>1. \A u \in Threads \ {t} : pc[u] = "app"
  BY DEF Inner, Alone
<1>2. pc \in [Threads -> {"app", "put", "load", "store", "counted",
                          "wait", "block", "reset"}]
  BY DEF Types
<1>3. pc'[t] = to /\ \A u \in Threads \ {t} : pc'[u] = "app"
  BY <1>1, <1>2
<1>4. Alone'
  BY <1>3 DEF Alone
<1>5. \A u \in Threads \ {t} : RoomAt(u)' /\ Kept(u)'
  BY <1>3 DEF RoomAt, Kept
<1> QED
  BY <1>1, <1>3, <1>4, <1>5 DEF NoneRunning

\* A thread of its own.
LEMMA RunStep ==
    ASSUME Types, Types', Calm, Inner, NEW t \in Threads, Run(t)
    PROVE  Inner'
<1> USE DEF At, Return
<1>t. /\ last[t] \in {0, 1} /\ seen[t] \in Nat /\ op[t] \in Nat
      /\ count \in Nat /\ sq \in Seq(Sqe) /\ Len(sq) \in Nat
      /\ PatchSize \in Nat /\ Entries \in Nat /\ PatchSize < Entries
  BY DEF Types, Calm
<1>r. RoomAt(t) /\ Kept(t) /\ acked \subseteq Where
  BY DEF Inner
<1>w. Where \subseteq Where'
  BY WhereGrows DEF Shim
<1>1. CASE Put(t)
  <2>1. pc[t] = "put" /\ pc' = [pc EXCEPT ![t] = "load"] /\ UNCHANGED <<last, op, count, acked>>
    BY <1>1 DEF Put, history
  <2>2. Room
    BY <2>1, <1>t, <1>r DEF RoomAt, Room
  <2>3. Len(sq') = Len(sq) + 1 /\ op[t] \in Ids(Elements(sq'))
    BY <1>1, <2>2, <1>t, PreparedIds DEF Put
  <2>a. pc'[t] = "load" /\ last' = last /\ count' = count
    BY <2>1, Others
  <2>b. Len(sq) <= count /\ (last[t] = 0 => count < PatchSize)
    BY <2>1, <1>r DEF RoomAt
  <2>4. RoomAt(t)'
    BY <2>a, <2>b, <2>3, <1>t DEF RoomAt
  <2>5. Kept(t)'
    BY <2>1, <2>3 DEF Kept, Where
  <2> QED
    BY <2>1, <2>4, <2>5, <1>r, <1>w, Others DEF Inner, RoomAtRest
<1>2. CASE Load(t)
  <2>1. pc[t] = "load" /\ pc' = [pc EXCEPT ![t] = "store"]
        /\ UNCHANGED <<sq, last, op, count, acked>>
    BY <1>2 DEF Load, history, uring
  <2>2. seen'[t] = count
    BY <1>2 DEF Load, Types
  <2>4. RoomAt(t)'
    BY <2>1, <2>2, Others, <1>t, <1>r DEF RoomAt
  <2>5. Kept(t)'
    BY <2>1, <1>r, <1>w DEF Kept
  <2> QED
    BY <2>1, <2>4, <2>5, <1>r, <1>w, Others DEF Inner, RoomAtRest
<1>3. CASE Store(t)
  <2>1. pc[t] = "store" /\ pc' = [pc EXCEPT ![t] = "counted"] /\ count' = seen[t] + 1
        /\ UNCHANGED <<sq, last, op, acked>>
    BY <1>3 DEF Store, history, uring
  <2>a. pc'[t] = "counted" /\ last' = last /\ sq' = sq /\ count' = seen[t] + 1
    BY <2>1, Others
  <2>b. Len(sq) <= seen[t] + 1 /\ (last[t] = 0 => seen[t] < PatchSize)
    BY <2>1, <1>r DEF RoomAt
  <2>4. RoomAt(t)'
    BY <2>a, <2>b, <1>t DEF RoomAt
  <2>5. Kept(t)'
    BY <2>1, <1>r, <1>w DEF Kept
  <2> QED
    BY <2>1, <2>4, <2>5, <1>r, <1>w, Others DEF Inner, RoomAtRest
<1>4. CASE Queued(t)
  <2>1. pc[t] = "counted" /\ pc' = [pc EXCEPT ![t] = "app"] /\ last[t] = 0
        /\ UNCHANGED <<sq, count>> /\ acked' = acked \cup {op[t]}
    BY <1>4 DEF Queued, uring
  <2>2. RoomAtRest'
    BY <2>1, <1>t, <1>r DEF RoomAt, RoomAtRest
  <2>4. RoomAt(t)' /\ Kept(t)'
    <3>1. pc'[t] = "app"
      BY <2>1, Others
    <3> QED
      BY <3>1 DEF RoomAt, Kept
  <2>5. acked' \subseteq Where'
    BY <2>1, <1>r, <1>w DEF Kept
  <2> QED
    BY <2>1, <2>2, <2>4, <2>5, Others DEF Inner
<1>5. CASE SubmitBatch(t)
  <2>1. pc[t] = "counted" /\ pc' = [pc EXCEPT ![t] = "wait"] /\ sq' = <<>>
        /\ UNCHANGED <<op, acked>>
    BY <1>5 DEF SubmitBatch, Submit, history
  <2>4. RoomAt(t)'
    BY <2>1, Others DEF RoomAt
  <2>5. Kept(t)'
    BY <2>1, <1>r, <1>w DEF Kept
  <2> QED
    BY <2>1, <2>4, <2>5, <1>r, <1>w, Others DEF Inner, RoomAtRest
<1>6. CASE Wait(t) \/ WaitOver(t)
  <2>1. PICK to \in {"block", "reset"} :
           /\ pc[t] = "wait" /\ pc' = [pc EXCEPT ![t] = to]
           /\ UNCHANGED <<sq, op, count, acked>>
    BY <1>6 DEF Wait, WaitOver, uring, history
  <2>2. pc'[t] = to
    BY <2>1, Others
  <2>4. RoomAt(t)'
    BY <2>1, <2>2, <1>r DEF RoomAt
  <2>5. Kept(t)'
    BY <2>1, <1>r, <1>w DEF Kept
  <2> QED
    BY <2>1, <2>4, <2>5, <1>r, <1>w, Others DEF Inner, RoomAtRest
<1>7. CASE Reap(t)
  <2>1. pc[t] = "block" /\ pc' = [pc EXCEPT ![t] = "wait"]
        /\ UNCHANGED <<sq, op, count, acked>>
    BY <1>7 DEF Reap, WaitAndSeen, history
  <2>2. pc'[t] = "wait"
    BY <2>1, Others
  <2>4. RoomAt(t)'
    BY <2>1, <2>2, <1>r DEF RoomAt
  <2>5. Kept(t)'
    BY <2>1, <1>r, <1>w DEF Kept
  <2> QED
    BY <2>1, <2>4, <2>5, <1>r, <1>w, Others DEF Inner, RoomAtRest
<1>8. CASE Reset(t)
  <2>1. pc[t] = "reset" /\ pc' = [pc EXCEPT ![t] = "app"]
        /\ sq' = sq /\ count' = 0 /\ acked' = acked \cup {op[t]}
    BY <1>8 DEF Reset, uring
  <2>2. RoomAtRest'
    BY <2>1, <1>t, <1>r DEF RoomAt, RoomAtRest
  <2>4. RoomAt(t)' /\ Kept(t)'
    <3>1. pc'[t] = "app"
      BY <2>1, Others
    <3> QED
      BY <3>1 DEF RoomAt, Kept
  <2>5. acked' \subseteq Where'
    BY <2>1, <1>r, <1>w DEF Kept
  <2> QED
    BY <2>1, <2>2, <2>4, <2>5, Others DEF Inner
<1> QED
  BY <1>1, <1>2, <1>3, <1>4, <1>5, <1>6, <1>7, <1>8 DEF Run

\* A call that is probed, while no other probe is at work.
LEMMA TestStep ==
    ASSUME Types, Types', Calm, Calm', Inner, NEW t \in Threads, Test(t)
    PROVE  Inner'
<1> USE DEF At
<1>1. pc[t] = "app" /\ pc' = [pc EXCEPT ![t] = "put"]
      /\ \A u \in Threads \ {t} : pc[u] = "app"
  BY DEF Test, Enter, Calm
<1>2. pc'[t] = "put" /\ \A u \in Threads \ {t} : pc'[u] = "app"
  BY <1>1 DEF Types
<1>3. NoneRunning
  BY <1>1 DEF NoneRunning
<1>4. /\ Len(sq) <= count /\ count <= PatchSize
      /\ UNCHANGED <<sq, count, acked>> /\ Where' = Where
      /\ last'[t] = IF count < PatchSize THEN 0 ELSE 1
  BY <1>3 DEF Test, Enter, uring, Inner, RoomAtRest, Where, Types
<1>5. RoomAt(t)' /\ Kept(t)'
  BY <1>2, <1>4 DEF RoomAt, Kept
<1>6. \A u \in Threads \ {t} : RoomAt(u)' /\ Kept(u)'
  BY <1>2 DEF RoomAt, Kept
<1>7. Alone' /\ RoomAtRest'
  BY <1>2 DEF Alone, RoomAtRest, NoneRunning
<1> QED
  BY <1>4, <1>5, <1>6, <1>7 DEF Inner

\* The kernel, and a step that changes nothing.
LEMMA OtherStep ==
    ASSUME Types, Inner, Works \/ UNCHANGED vars
    PROVE  Inner'
<1>1. UNCHANGED <<pc, last, seen, op, count, sq, acked>>
  BY DEF Works, End, vars, thread, uring, history
<1>2. Where \subseteq Where'
  BY WhereGrows DEF Shim
<1>3. Alone' /\ RoomAtRest'
  BY <1>1 DEF Inner, Alone, RoomAtRest, NoneRunning
<1>4. \A t \in Threads : RoomAt(t)' /\ Kept(t)'
  BY <1>1, <1>2 DEF Inner, RoomAt, Kept
<1> QED
  BY <1>1, <1>2, <1>3, <1>4 DEF Inner

LEMMA InvStep == IInv /\ [Shim]_vars => IInv'
<1> SUFFICES ASSUME IInv, [Shim]_vars PROVE IInv'
  OBVIOUS
<1>1. Types /\ Types'
  BY TypesStep DEF IInv
<1> SUFFICES ASSUME Calm' PROVE Inner'
  BY <1>1 DEF IInv
<1>2. Calm
  <2>1. ASSUME NEW t \in Threads, Test(t) PROVE Calm
    BY <2>1 DEF Calm, Test, Enter
  <2>2. ASSUME NEW t \in Threads, Run(t) PROVE overlapped' = overlapped
    BY <2>2 DEF Run, Put, Load, Store, Queued, SubmitBatch, Wait, Reap,
                WaitOver, Reset, history
  <2>3. CASE Works \/ UNCHANGED vars
    BY <2>3 DEF Calm, Works, vars, history
  <2> QED
    BY <2>1, <2>2, <2>3 DEF Shim, Calm
<1>3. Inner
  BY <1>2 DEF IInv
<1>4. ASSUME NEW t \in Threads, Test(t) PROVE Inner'
  BY <1>1, <1>2, <1>3, <1>4, TestStep
<1>5. ASSUME NEW t \in Threads, Run(t) PROVE Inner'
  BY <1>1, <1>2, <1>3, <1>5, RunStep
<1>6. CASE Works \/ UNCHANGED vars
  BY <1>1, <1>3, <1>6, OtherStep
<1> QED
  BY <1>4, <1>5, <1>6 DEF Shim

LEMMA EInvForgets == IInv => NoWriteForgotten
  BY DEF IInv, Inner, Calm, NoWriteForgotten, Where

-----------------------------------------------------------------------------
(***************************************************************************)
(* The count.  Until two probes overlap it is not just a bound but exactly *)
(* what is outstanding: at each place of a probe it is known how much.     *)
(* That as many requests go to the kernel as SQEs were prepared takes that *)
(* their numbers differ, which they do because calls only grows.           *)
(***************************************************************************)
Idle == inflight = {} /\ cq = 0

ExactAt(t) ==
    /\ pc[t] = "put" => Idle /\ Len(sq) = count
    /\ pc[t] = "load" => Idle /\ Len(sq) = count + 1
    /\ pc[t] = "store" => Idle /\ Len(sq) = seen[t] + 1
    /\ pc[t] = "counted" => Idle /\ Len(sq) = count
    /\ pc[t] \in {"wait", "block"} =>
         /\ Len(sq) = 0 /\ IsFiniteSet(inflight)
         /\ seen[t] + Cardinality(inflight) + cq = count
    /\ pc[t] = "reset" => Idle /\ Len(sq) = 0

ExactAtRest == NoneRunning => Idle /\ Len(sq) = count

Newest(t) ==
    pc[t] = "put" => op[t] <= calls /\ \A k \in DOMAIN sq : sq[k].id < op[t]

Distinct ==
    /\ \A k \in DOMAIN sq : sq[k].id <= calls
    /\ \A i, j \in DOMAIN sq : sq[i].id = sq[j].id => i = j

Exact == /\ cq \in Nat /\ ExactAtRest /\ Distinct
         /\ \A t \in Threads : ExactAt(t) /\ Newest(t)

EInv == IInv /\ (Calm => Exact)

\* Requests with different numbers are as many as their SQEs.
LEMMA DistinctCard ==
    ASSUME NEW s \in Seq(Sqe), NEW c,
           \A i, j \in DOMAIN s : s[i].id = s[j].id => i = j
    PROVE  LET S == {[id |-> s[k].id, chain |-> c[k]] : k \in DOMAIN s}
           IN  IsFiniteSet(S) /\ Cardinality(S) = Len(s)
<1> DEFINE r(k) == [id |-> s[k].id, chain |-> c[k]]
           S == {r(k) : k \in DOMAIN s}
           f == [k \in 1..Len(s) |-> r(k)]
<1>1. DOMAIN s = 1..Len(s) /\ Len(s) \in Nat
  OBVIOUS
<1>2. S = {r(k) : k \in 1..Len(s)}
  BY <1>1
<1>3. \A k \in 1..Len(s) : r(k).id = s[k].id
  OBVIOUS
<1>4. f \in [1..Len(s) -> S]
  BY <1>2
<1>5. \A i, j \in 1..Len(s) : f[i] = f[j] => i = j
  <2>1. \A i \in 1..Len(s) : f[i].id = s[i].id
    BY <1>3
  <2> QED
    BY <1>1, <2>1
<1>6. \A x \in S : \E k \in 1..Len(s) : f[k] = x
  BY <1>2
<1>7. f \in Bijection(1..Len(s), S)
  <2> HIDE DEF f, S
  <2>1. DOMAIN f = 1..Len(s)
    BY <1>4
  <2>2. IsInjective(f)
    BY <1>5, <2>1 DEF IsInjective
  <2> QED
    BY <1>4, <1>6, <2>2 DEF Bijection, Injection, Surjection
<1>8. ExistsBijection(1..Len(s), S)
  BY <1>7 DEF ExistsBijection
<1>9. IsFiniteSet(1..Len(s)) /\ Cardinality(1..Len(s)) = Len(s)
  <2>1. ASSUME NEW n \in Nat PROVE IsFiniteSet(1..n) /\ Cardinality(1..n) = n
    <3>1. Cardinality(1..n) = IF 1 > n THEN 0 ELSE n - 1 + 1
      BY FS_Interval
    <3> QED
      BY <3>1, FS_Interval
  <2> QED
    BY <1>1, <2>1
<1>10. IsFiniteSet(S) /\ Cardinality(S) = Len(s)
  <2> HIDE DEF S
  <2> QED
    BY <1>8, <1>9, FS_Bijection
<1> QED
  BY <1>10

\* Distinct requests are submitted, as many as were prepared.
LEMMA SubmittedCard ==
    ASSUME sq \in Seq(Sqe), \A i, j \in DOMAIN sq : sq[i].id = sq[j].id => i = j
    PROVE  IsFiniteSet(Submitted) /\ Cardinality(Submitted) = Len(sq)
<1> DEFINE c == [k \in DOMAIN sq |-> sq[ChainStart(k)].id]
<1>1. Submitted = {[id |-> sq[k].id, chain |-> c[k]] : k \in DOMAIN sq}
  BY DEF Submitted
<1> HIDE DEF c
<1> QED
  BY <1>1, DistinctCard

\* No more numbers are in the ring than SQEs.
LEMMA IdsCard ==
    ASSUME sq \in Seq(Sqe)
    PROVE  /\ IsFiniteSet(Ids(Elements(sq)))
           /\ Cardinality(Ids(Elements(sq))) <= Len(sq)
<1> DEFINE f == [k \in 1..Len(sq) |-> sq[k].id]
<1>1. DOMAIN sq = 1..Len(sq) /\ Len(sq) \in Nat
  OBVIOUS
<1>2. Ids(Elements(sq)) = {sq[k].id : k \in 1..Len(sq)}
  BY <1>1 DEF Ids, Elements
<1>3. f \in [1..Len(sq) -> Ids(Elements(sq))]
  BY <1>2
<1>4. \A x \in Ids(Elements(sq)) : \E k \in 1..Len(sq) : f[k] = x
  BY <1>2
<1>5. f \in Surjection(1..Len(sq), Ids(Elements(sq)))
  BY <1>3, <1>4 DEF Surjection
<1>6. IsFiniteSet(1..Len(sq)) /\ Cardinality(1..Len(sq)) = Len(sq)
  <2>1. ASSUME NEW n \in Nat PROVE IsFiniteSet(1..n) /\ Cardinality(1..n) = n
    <3>1. Cardinality(1..n) = IF 1 > n THEN 0 ELSE n - 1 + 1
      BY FS_Interval
    <3> QED
      BY <3>1, FS_Interval
  <2> QED
    BY <1>1, <2>1
<1> QED
  BY <1>5, <1>6, FS_Surjection

LEMMA ExactInit == ShimInit => Exact
<1> SUFFICES ASSUME ShimInit PROVE Exact
  OBVIOUS
<1>1. sq = <<>> /\ inflight = {} /\ cq = 0 /\ count = 0 /\ \A t \in Threads : pc[t] = "app"
  BY DEF ShimInit, RingInit
<1> QED
  BY <1>1 DEF Exact, ExactAtRest, Distinct, ExactAt, Newest, Idle

\* Of the other threads, which are outside, nothing is said.
LEMMA ExactOthers ==
    ASSUME NEW t \in Threads, \A u \in Threads \ {t} : pc'[u] = "app",
           cq' \in Nat, ExactAtRest', Distinct', ExactAt(t)', Newest(t)'
    PROVE  Exact'
<1>1. \A u \in Threads \ {t} : ExactAt(u)' /\ Newest(u)'
  BY DEF ExactAt, Newest
<1> QED
  BY <1>1 DEF Exact

\* A place that leaves the ring as it is leaves its numbers distinct.
LEMMA SameRing ==
    ASSUME Distinct, UNCHANGED <<sq, calls>>
    PROVE  Distinct'
BY DEF Distinct

LEMMA ExactRun ==
    ASSUME Types, Types', Calm, Inner, Exact, NEW t \in Threads, Run(t)
    PROVE  Exact'
<1> USE DEF At, Return
<1>t. /\ seen[t] \in Nat /\ op[t] \in Nat /\ count \in Nat /\ calls \in Nat
      /\ sq \in Seq(Sqe) /\ Len(sq) \in Nat /\ cq \in Nat
      /\ PatchSize \in Nat /\ Entries \in Nat /\ PatchSize < Entries
  BY DEF Types, Calm, Exact
<1>r. RoomAt(t) /\ ExactAt(t) /\ Newest(t) /\ Distinct
  BY DEF Inner, Exact
<1>1. CASE Put(t)
  <2>1. pc[t] = "put" /\ pc' = [pc EXCEPT ![t] = "load"]
        /\ UNCHANGED <<inflight, cq, seen, count, calls>>
    BY <1>1 DEF Put, history
  <2>2. Room
    BY <2>1, <1>t, <1>r DEF RoomAt, Room
  <2>3. sq' = Prepared(op[t])
    BY <1>1, <2>2 DEF Put
  <2>4. /\ Len(sq') = Len(sq) + 1 /\ DOMAIN sq' = DOMAIN sq \cup {Len(sq) + 1}
        /\ \A k \in DOMAIN sq : sq'[k] = sq[k] /\ sq[k].id \in Nat
        /\ sq'[Len(sq) + 1].id = op[t]
    <3> DEFINE e == [id |-> op[t], linked |-> FALSE]
    <3>1. e \in Sqe /\ e.id = op[t]
      BY <1>t DEF Sqe
    <3>2. sq' = Append(sq, e)
      BY <2>3 DEF Prepared
    <3>3. \A k \in DOMAIN sq : sq[k] \in Sqe
      BY <1>t
    <3>4. \A k \in DOMAIN sq : sq[k].id \in Nat
      BY <3>3 DEF Sqe
    <3> HIDE DEF e
    <3>5. /\ Len(sq') = Len(sq) + 1 /\ DOMAIN sq' = DOMAIN sq \cup {Len(sq) + 1}
          /\ \A k \in DOMAIN sq : sq'[k] = sq[k]
          /\ sq'[Len(sq) + 1] = e
      BY <3>1, <3>2, <1>t
    <3> QED
      BY <3>1, <3>4, <3>5
  <2>5. pc'[t] = "load" /\ \A u \in Threads \ {t} : pc'[u] = "app"
    BY <2>1, Others
  <2>6. op[t] <= calls /\ \A k \in DOMAIN sq : sq[k].id < op[t]
    BY <2>1, <1>r DEF Newest
  <2>7. Distinct'
    <3>1. \A k \in DOMAIN sq' : sq'[k].id <= calls'
      BY <2>1, <2>4, <2>6, <1>r DEF Distinct
    <3>2. \A k \in DOMAIN sq : sq'[k].id # op[t]
      BY <2>4, <2>6, <1>t
    <3>3. \A i, j \in DOMAIN sq' : sq'[i].id = sq'[j].id => i = j
      BY <2>4, <3>2, <1>r DEF Distinct
    <3> QED
      BY <3>1, <3>3 DEF Distinct
  <2>8. Idle /\ Len(sq) = count
    BY <2>1, <1>r DEF ExactAt
  <2>9. ExactAt(t)'
    BY <2>1, <2>4, <2>5, <2>8 DEF ExactAt, Idle
  <2> QED
    BY <2>1, <2>5, <2>7, <2>9, <1>t, ExactOthers DEF ExactAtRest, NoneRunning, Newest
<1>2. CASE Load(t)
  <2>1. pc[t] = "load" /\ pc' = [pc EXCEPT ![t] = "store"]
        /\ UNCHANGED <<sq, inflight, cq, count, calls>> /\ seen'[t] = count
    BY <1>2 DEF Load, history, uring, Types
  <2>2. pc'[t] = "store" /\ \A u \in Threads \ {t} : pc'[u] = "app"
    BY <2>1, Others
  <2>3. ExactAt(t)'
    BY <2>1, <2>2, <1>r DEF ExactAt, Idle
  <2> QED
    BY <2>1, <2>2, <2>3, <1>t, <1>r, SameRing, ExactOthers DEF ExactAtRest, NoneRunning, Newest
<1>3. CASE Store(t)
  <2>1. pc[t] = "store" /\ pc' = [pc EXCEPT ![t] = "counted"]
        /\ UNCHANGED <<sq, inflight, cq, calls>> /\ count' = seen[t] + 1
    BY <1>3 DEF Store, history, uring
  <2>2. pc'[t] = "counted" /\ \A u \in Threads \ {t} : pc'[u] = "app"
    BY <2>1, Others
  <2>3. ExactAt(t)'
    BY <2>1, <2>2, <1>r DEF ExactAt, Idle
  <2> QED
    BY <2>1, <2>2, <2>3, <1>t, <1>r, SameRing, ExactOthers DEF ExactAtRest, NoneRunning, Newest
<1>4. CASE Queued(t)
  <2>1. pc[t] = "counted" /\ pc' = [pc EXCEPT ![t] = "app"]
        /\ UNCHANGED <<sq, inflight, cq, count, calls>>
    BY <1>4 DEF Queued, uring
  <2>2. pc'[t] = "app" /\ \A u \in Threads \ {t} : pc'[u] = "app"
    BY <2>1, Others
  <2>3. ExactAtRest'
    BY <2>1, <1>r DEF ExactAtRest, ExactAt, Idle
  <2> QED
    BY <2>1, <2>2, <2>3, <1>t, <1>r, SameRing, ExactOthers DEF ExactAt, Newest
<1>5. CASE SubmitBatch(t)
  <2>1. pc[t] = "counted" /\ pc' = [pc EXCEPT ![t] = "wait"] /\ sq' = <<>>
        /\ inflight' = inflight \cup Submitted
        /\ UNCHANGED <<cq, count, calls>> /\ seen'[t] = 0
    BY <1>5 DEF SubmitBatch, Submit, history, Types
  <2>2. pc'[t] = "wait" /\ \A u \in Threads \ {t} : pc'[u] = "app"
    BY <2>1, Others
  <2>3. inflight' = Submitted /\ cq = 0 /\ Len(sq) = count
    BY <2>1, <1>r DEF ExactAt, Idle
  <2>4. IsFiniteSet(inflight') /\ Cardinality(inflight') = count
    BY <2>3, <1>t, <1>r, SubmittedCard DEF Distinct
  <2>5. ExactAt(t)'
    BY <2>1, <2>2, <2>3, <2>4, <1>t DEF ExactAt
  <2>6. Distinct'
    BY <2>1 DEF Distinct
  <2> QED
    BY <2>1, <2>2, <2>5, <2>6, <1>t, ExactOthers DEF ExactAtRest, NoneRunning, Newest
<1>6. CASE Wait(t)
  <2>1. pc[t] = "wait" /\ pc' = [pc EXCEPT ![t] = "block"]
        /\ UNCHANGED <<sq, inflight, cq, seen, count, calls>>
    BY <1>6 DEF Wait, uring, history
  <2>2. pc'[t] = "block" /\ \A u \in Threads \ {t} : pc'[u] = "app"
    BY <2>1, Others
  <2>3. ExactAt(t)'
    BY <2>1, <2>2, <1>r DEF ExactAt
  <2> QED
    BY <2>1, <2>2, <2>3, <1>t, <1>r, SameRing, ExactOthers DEF ExactAtRest, NoneRunning, Newest
<1>7. CASE Reap(t)
  <2>1. pc[t] = "block" /\ pc' = [pc EXCEPT ![t] = "wait"] /\ cq > 0 /\ cq' = cq - 1
        /\ UNCHANGED <<sq, inflight, count, calls>> /\ seen'[t] = seen[t] + 1
    BY <1>7 DEF Reap, WaitAndSeen, history, Types
  <2>3. pc'[t] = "wait" /\ \A u \in Threads \ {t} : pc'[u] = "app"
    BY <2>1, Others
  <2>4. /\ Len(sq) = 0 /\ IsFiniteSet(inflight)
        /\ seen[t] + Cardinality(inflight) + cq = count
    BY <2>1, <1>r DEF ExactAt
  <2>5. Cardinality(inflight) \in Nat
    BY <2>4, FS_CardinalityType
  <2>6. seen[t] + 1 + Cardinality(inflight) + (cq - 1) = count /\ cq - 1 \in Nat
    <3>1. seen[t] \in Nat /\ count \in Nat /\ cq \in Nat
      BY <1>t
    <3>2. \A a, b, c, n \in Nat :
             c > 0 /\ a + b + c = n => a + 1 + b + (c - 1) = n /\ c - 1 \in Nat
      OBVIOUS
    <3> QED
      BY <2>1, <2>4, <2>5, <3>1, <3>2
  <2>7. ExactAt(t)'
    BY <2>1, <2>3, <2>4, <2>6 DEF ExactAt
  <2> QED
    BY <2>1, <2>3, <2>6, <2>7, <1>r, SameRing, ExactOthers DEF ExactAtRest, NoneRunning, Newest
<1>8. CASE WaitOver(t)
  <2>1. pc[t] = "wait" /\ pc' = [pc EXCEPT ![t] = "reset"] /\ seen[t] >= count
        /\ UNCHANGED <<sq, inflight, cq, calls>>
    BY <1>8 DEF WaitOver, uring, history
  <2>2. pc'[t] = "reset" /\ \A u \in Threads \ {t} : pc'[u] = "app"
    BY <2>1, Others
  <2>3. /\ Len(sq) = 0 /\ IsFiniteSet(inflight)
        /\ seen[t] + Cardinality(inflight) + cq = count
    BY <2>1, <1>r DEF ExactAt
  <2>4. Cardinality(inflight) \in Nat
    BY <2>3, FS_CardinalityType
  <2>5. Cardinality(inflight) = 0 /\ cq = 0
    BY <2>1, <2>3, <2>4, <1>t
  <2>6. Idle
    BY <2>3, <2>5, FS_EmptySet DEF Idle
  <2>7. ExactAt(t)'
    BY <2>1, <2>2, <2>3, <2>6 DEF ExactAt, Idle
  <2> QED
    BY <2>1, <2>2, <2>7, <1>t, <1>r, SameRing, ExactOthers DEF ExactAtRest, NoneRunning, Newest
<1>9. CASE Reset(t)
  <2>1. pc[t] = "reset" /\ pc' = [pc EXCEPT ![t] = "app"]
        /\ UNCHANGED <<sq, inflight, cq, calls>> /\ count' = 0
    BY <1>9 DEF Reset, uring
  <2>2. pc'[t] = "app" /\ \A u \in Threads \ {t} : pc'[u] = "app"
    BY <2>1, Others
  <2>3. ExactAtRest'
    BY <2>1, <1>r DEF ExactAtRest, ExactAt, Idle
  <2> QED
    BY <2>1, <2>2, <2>3, <1>t, <1>r, SameRing, ExactOthers DEF ExactAt, Newest
<1> QED
  BY <1>1, <1>2, <1>3, <1>4, <1>5, <1>6, <1>7, <1>8, <1>9 DEF Run

LEMMA ExactTest ==
    ASSUME Types, Types', Calm, Calm', Inner, Exact, NEW t \in Threads, Test(t)
    PROVE  Exact'
<1> USE DEF At
<1>1. pc[t] = "app" /\ pc' = [pc EXCEPT ![t] = "put"]
      /\ \A u \in Threads \ {t} : pc[u] = "app"
  BY DEF Test, Enter, Calm
<1>2. pc'[t] = "put" /\ \A u \in Threads \ {t} : pc'[u] = "app"
  BY <1>1 DEF Types
<1>3. NoneRunning
  BY <1>1 DEF NoneRunning
<1>4. /\ UNCHANGED <<sq, inflight, cq, count>>
      /\ calls' = calls + 1 /\ op'[t] = calls + 1
  BY DEF Test, Enter, uring, Types
<1>5. Idle /\ Len(sq) = count /\ Distinct /\ cq \in Nat
  BY <1>3 DEF Exact, ExactAtRest
<1>6. calls \in Nat /\ \A k \in DOMAIN sq : sq[k].id \in Nat
  <2>1. calls \in Nat /\ \A k \in DOMAIN sq : sq[k] \in Sqe
    BY DEF Types
  <2> QED
    BY <2>1 DEF Sqe
<1>7. \A k \in DOMAIN sq : sq[k].id < calls + 1 /\ sq[k].id <= calls + 1
  BY <1>5, <1>6 DEF Distinct
<1>8. Distinct' /\ Newest(t)'
  BY <1>4, <1>5, <1>6, <1>7 DEF Distinct, Newest
<1>9. ExactAt(t)'
  BY <1>2, <1>4, <1>5 DEF ExactAt, Idle
<1> QED
  BY <1>2, <1>4, <1>5, <1>8, <1>9, ExactOthers DEF ExactAtRest, NoneRunning

LEMMA ExactWorks ==
    ASSUME Types, Inner, Exact, Works
    PROVE  Exact'
<1>1. PICK r \in inflight : End({r})
  BY DEF Works
<1>2. /\ inflight' = inflight \ {r} /\ cq' = cq + Cardinality({r})
      /\ UNCHANGED <<sq, pc, seen, op, count, calls>>
  BY <1>1 DEF End, Works, thread
<1>3. cq' = cq + 1 /\ cq \in Nat
  BY <1>2, FS_Singleton DEF Exact
<1>4. ~Idle
  BY DEF Idle
<1>5. ~NoneRunning
  BY <1>4 DEF Exact, ExactAtRest
<1>6. ASSUME NEW t \in Threads PROVE ExactAt(t)' /\ Newest(t)'
  <2>1. pc[t] \notin {"put", "load", "store", "counted", "reset"} /\ ExactAt(t)
    BY <1>4 DEF Exact, ExactAt
  <2>2. Newest(t)'
    BY <1>2, <2>1 DEF Newest
  <2>3. CASE pc[t] \in {"wait", "block"}
    <3>1. /\ Len(sq) = 0 /\ IsFiniteSet(inflight)
          /\ seen[t] + Cardinality(inflight) + cq = count
      BY <2>1, <2>3 DEF ExactAt
    <3>2. IsFiniteSet(inflight') /\ Cardinality(inflight') = Cardinality(inflight) - 1
      BY <3>1, <1>2, FS_RemoveElement
    <3>3. Cardinality(inflight) \in Nat /\ seen[t] \in Nat
      BY <3>1, FS_CardinalityType DEF Types
    <3>4. seen[t] + (Cardinality(inflight) - 1) + (cq + 1) = count
      BY <3>1, <3>3, <1>3
    <3> QED
      BY <2>2, <2>3, <3>1, <3>2, <3>4, <1>2, <1>3 DEF ExactAt
  <2>4. CASE pc[t] \notin {"wait", "block"}
    BY <2>1, <2>2, <2>4, <1>2 DEF ExactAt
  <2> QED
    BY <2>3, <2>4
<1>7. ExactAtRest' /\ Distinct'
  BY <1>2, <1>5 DEF ExactAtRest, NoneRunning, Exact, Distinct
<1> QED
  BY <1>3, <1>6, <1>7 DEF Exact

LEMMA EInvStep == EInv /\ [Shim]_vars => EInv'
<1> SUFFICES ASSUME EInv, [Shim]_vars PROVE EInv'
  OBVIOUS
<1>1. IInv /\ IInv' /\ Types /\ Types'
  BY InvStep DEF EInv, IInv
<1> SUFFICES ASSUME Calm' PROVE Exact'
  BY <1>1 DEF EInv
<1>2. Calm
  <2>1. ASSUME NEW t \in Threads, Test(t) PROVE Calm
    BY <2>1 DEF Calm, Test, Enter
  <2>2. ASSUME NEW t \in Threads, Run(t) PROVE overlapped' = overlapped
    BY <2>2 DEF Run, Put, Load, Store, Queued, SubmitBatch, Wait, Reap,
                WaitOver, Reset, history
  <2>3. CASE Works \/ UNCHANGED vars
    BY <2>3 DEF Calm, Works, vars, history
  <2> QED
    BY <2>1, <2>2, <2>3 DEF Shim, Calm
<1>3. Inner /\ Exact
  BY <1>1, <1>2 DEF IInv, EInv
<1>4. ASSUME NEW t \in Threads, Test(t) PROVE Exact'
  BY <1>1, <1>2, <1>3, <1>4, ExactTest
<1>5. ASSUME NEW t \in Threads, Run(t) PROVE Exact'
  BY <1>1, <1>2, <1>3, <1>5, ExactRun
<1>6. CASE Works
  BY <1>1, <1>3, <1>6, ExactWorks
<1>7. CASE UNCHANGED vars
  BY <1>3, <1>7 DEF vars, uring, thread, history, Exact, ExactAtRest, NoneRunning,
                    Distinct, ExactAt, Newest, Idle
<1> QED
  BY <1>4, <1>5, <1>6, <1>7 DEF Shim

LEMMA EInvCounts == EInv /\ program = "rocksdb" => Counted
<1> SUFFICES ASSUME EInv, Calm, NoneRunning PROVE count = Due
  BY DEF Counted, Calm
<1>1. Idle /\ Len(sq) = count /\ count \in Nat
  BY DEF EInv, IInv, Types, Exact, ExactAtRest
<1>2. Cardinality(inflight) = 0 /\ cq = 0
  BY <1>1, FS_EmptySet DEF Idle
<1> QED
  BY <1>1, <1>2 DEF Due

\* What is reported done and not completed is in the ring.
LEMMA EInvUncompleted == EInv => NotCompleted
<1> SUFFICES ASSUME EInv, Calm, NoneRunning
             PROVE  /\ Cardinality(acked \ done) <= count
                    /\ Cardinality(acked \ done) <= PatchSize
  BY DEF NotCompleted, Calm
<1>1. /\ Idle /\ Len(sq) = count /\ count \in Nat /\ sq \in Seq(Sqe)
      /\ acked \subseteq Where /\ count <= PatchSize
  BY DEF EInv, IInv, Types, Exact, ExactAtRest, Inner, RoomAtRest
<1>2. acked \ done \subseteq Ids(Elements(sq))
  BY <1>1, NoneElements DEF Where, Idle
<1>3. IsFiniteSet(Ids(Elements(sq))) /\ Cardinality(Ids(Elements(sq))) <= count
  BY <1>1, IdsCard
<1>4. /\ IsFiniteSet(acked \ done)
      /\ Cardinality(acked \ done) <= Cardinality(Ids(Elements(sq)))
  BY <1>2, <1>3, FS_Subset
<1>5. Cardinality(acked \ done) \in Nat /\ Cardinality(Ids(Elements(sq))) \in Nat
  BY <1>3, <1>4, FS_CardinalityType
<1> QED
  BY <1>1, <1>3, <1>4, <1>5

-----------------------------------------------------------------------------
(***************************************************************************)
(* The pread shim.  It submits at once, so that current_count is, at each  *)
(* place of a probe, the requests in the kernel and the completions not    *)
(* seen, give or take the one being put.                                   *)
(***************************************************************************)
ReadPlaces ==
    {"app", "put", "send", "load", "store", "counted", "wait", "block", "reset"}

ReadTypes ==
    /\ pc \in [Threads -> ReadPlaces]
    /\ seen \in [Threads -> Nat] /\ op \in [Threads -> Nat]
    /\ count \in Nat /\ calls \in Nat /\ cq \in Nat
    /\ sq \in Seq(Sqe) /\ acked = {}

\* The requests whose completion was not seen, of those submitted.
Sent == Cardinality(inflight) + cq

ReadAt(t) ==
    /\ pc[t] \notin {"app", "send"} => sq = <<>>
    /\ pc[t] = "put" => count = Sent /\ count < PreadSize
    /\ pc[t] = "send" => count = Sent /\ count < PreadSize
                         /\ Len(sq) = 1 /\ sq[1].id = op[t]
    /\ pc[t] = "load" => Sent = count + 1 /\ count < PreadSize
    /\ pc[t] = "store" => Sent = seen[t] + 1 /\ seen[t] < PreadSize
    /\ pc[t] = "counted" => count = Sent /\ count <= PreadSize
    /\ pc[t] \in {"wait", "block"} => seen[t] + Sent = count
    /\ pc[t] = "reset" => Sent = 0

\* The read that is put is of no request in the kernel.
ReadNewest(t) == pc[t] \in {"put", "send"} => \A r \in inflight : r.id < op[t]

ReadAtRest == NoneRunning => sq = <<>> /\ count = Sent /\ count < PreadSize

Reads == /\ Alone /\ ReadAtRest /\ IsFiniteSet(inflight)
         /\ \A r \in inflight : r.id \in Nat /\ r.id <= calls
         /\ \A t \in Threads : ReadAt(t) /\ ReadNewest(t)
         /\ \A t \in Threads : op[t] <= calls

ReadInv == ReadTypes /\ (~overlapped => Reads)

LEMMA ReadTypesStep == ReadTypes /\ (PreadShimNext \/ UNCHANGED vars) => ReadTypes'
<1> SUFFICES ASSUME ReadTypes, PreadShimNext \/ UNCHANGED vars PROVE ReadTypes'
  OBVIOUS
<1> USE DEF ReadTypes, ReadPlaces, At, Return
<1>1. ASSUME NEW t \in Threads, Pread(t) PROVE ReadTypes'
  BY <1>1 DEF Pread, Enter, uring
<1>2. ASSUME NEW t \in Threads, PutRead(t) PROVE ReadTypes'
  <2>1. op[t] \in Nat
    OBVIOUS
  <2> QED
    BY <1>2, <2>1, PreparedIds DEF PutRead, history
<1>3. ASSUME NEW t \in Threads, SendRead(t) PROVE ReadTypes'
  BY <1>3 DEF SendRead, Submit, history
<1>4. ASSUME NEW t \in Threads, Load(t) PROVE ReadTypes'
  BY <1>4 DEF Load, uring, history
<1>5. ASSUME NEW t \in Threads, Store(t) PROVE ReadTypes'
  BY <1>5 DEF Store, uring, history
<1>6. ASSUME NEW t \in Threads, NotFull(t) PROVE ReadTypes'
  BY <1>6 DEF NotFull, uring, history
<1>7. ASSUME NEW t \in Threads, Full(t) PROVE ReadTypes'
  BY <1>7 DEF Full, uring, history
<1>8. ASSUME NEW t \in Threads, Wait(t) \/ WaitOver(t) PROVE ReadTypes'
  BY <1>8 DEF Wait, WaitOver, uring, history
<1>r. ASSUME NEW t \in Threads, Reap(t) PROVE ReadTypes'
  BY <1>r DEF Reap, WaitAndSeen, history
<1>9. ASSUME NEW t \in Threads, PreadReset(t) PROVE ReadTypes'
  BY <1>9 DEF PreadReset, uring, history
<1>10. CASE Works
  <2>1. PICK r \in inflight : End({r})
    BY <1>10 DEF Works
  <2>2. cq' = cq + 1
    BY <2>1, FS_Singleton DEF End
  <2> QED
    BY <1>10, <2>1, <2>2 DEF Works, End, thread
<1>11. CASE UNCHANGED vars
  BY <1>11 DEF vars, uring, thread, history
<1> QED
  BY <1>1, <1>2, <1>3, <1>4, <1>5, <1>6, <1>7, <1>8, <1>r, <1>9, <1>10, <1>11
  DEF PreadShimNext, RunPread

\* The other threads are in no probe, and stay so.
LEMMA ReadsOthers ==
    ASSUME NEW t \in Threads, \A u \in Threads \ {t} : pc'[u] = "app",
           ReadAtRest', ReadAt(t)', ReadNewest(t)', IsFiniteSet(inflight'),
           \A r \in inflight' : r.id \in Nat /\ r.id <= calls',
           \A u \in Threads : op'[u] <= calls'
    PROVE  Reads'
<1>1. \A u \in Threads \ {t} : ReadAt(u)' /\ ReadNewest(u)'
  BY DEF ReadAt, ReadNewest
<1> QED
  BY <1>1 DEF Reads, Alone

LEMMA ReadsRun ==
    ASSUME ReadTypes, Reads, NEW t \in Threads, RunPread(t)
    PROVE  Reads'
<1> USE DEF At, Return
<1>t. /\ seen \in [Threads -> Nat] /\ op \in [Threads -> Nat]
      /\ seen[t] \in Nat /\ op[t] \in Nat /\ count \in Nat /\ calls \in Nat
      /\ cq \in Nat /\ PreadSize \in Nat /\ PreadSize # 0
      /\ Cardinality(inflight) \in Nat /\ Sent \in Nat
      /\ IsFiniteSet(inflight)
      /\ \A r \in inflight : r.id \in Nat /\ r.id <= calls
      /\ \A u \in Threads : op[u] \in Nat /\ op[u] <= calls
      /\ ReadAt(t) /\ ReadNewest(t)
  BY FS_CardinalityType, ProgramsAssumption DEF ReadTypes, Reads, Sent
<1>p. /\ pc \in [Threads -> ReadPlaces]
      /\ pc[t] # "app" /\ \A u \in Threads \ {t} : pc[u] = "app"
  <2>1. pc[t] # "app"
    BY DEF RunPread, PutRead, SendRead, Load, Store, NotFull, Full, Wait, Reap,
           WaitOver, PreadReset
  <2> QED
    BY <2>1 DEF ReadTypes, Reads, Alone
\* A step within the probe.
<1>i. ASSUME NEW to \in ReadPlaces \ {"app"},
             pc' = [pc EXCEPT ![t] = to], ReadAt(t)', ReadNewest(t)',
             UNCHANGED <<inflight, op, calls>>
      PROVE  Reads'
  <2>1. \A u \in Threads \ {t} : pc'[u] = "app"
    BY <1>i, <1>p
  <2>2. pc'[t] = to
    BY <1>i, <1>p
  <2>3. ReadAtRest'
    BY <2>2 DEF ReadAtRest, NoneRunning
  <2> QED
    BY <1>i, <1>t, <2>1, <2>3, ReadsOthers
\* A step back to the application.
<1>r. ASSUME pc' = [pc EXCEPT ![t] = "app"], op' = [op EXCEPT ![t] = 0],
             sq' = <<>>, count' = Sent', count' < PreadSize,
             UNCHANGED <<inflight, calls>>
      PROVE  Reads'
  <2>1. \A u \in Threads : pc'[u] = "app"
    BY <1>r, <1>p
  <2>2. ReadAtRest' /\ ReadAt(t)' /\ ReadNewest(t)'
    BY <1>r, <2>1 DEF ReadAtRest, ReadAt, ReadNewest
  <2>3. \A u \in Threads : op'[u] <= calls'
    BY <1>r, <1>t
  <2> QED
    BY <1>r, <1>t, <2>1, <2>2, <2>3, ReadsOthers
<1>1. CASE PutRead(t)
  <2>1. /\ pc[t] = "put" /\ pc' = [pc EXCEPT ![t] = "send"]
        /\ sq' = IF Room THEN Prepared(op[t]) ELSE sq
        /\ UNCHANGED <<inflight, cq, op, count, calls>>
    BY <1>1 DEF PutRead, history
  <2>2. sq = <<>> /\ count = Sent /\ count < PreadSize
    BY <1>t, <2>1 DEF ReadAt
  <2>3. Len(sq') = 1 /\ sq'[1].id = op[t]
    <3>1. sq \in Seq(Sqe) /\ Room
      BY <2>2 DEF ReadTypes, Room
    <3>2. /\ sq' = Append(sq, [id |-> op[t], linked |-> FALSE])
          /\ [id |-> op[t], linked |-> FALSE] \in Sqe
      BY <1>t, <2>1, <3>1 DEF Prepared, Sqe
    <3> QED
      BY <2>2, <3>1, <3>2
  <2>4. pc'[t] = "send" /\ UNCHANGED Sent
    BY <1>p, <2>1 DEF Sent
  <2>5. ReadAt(t)' /\ ReadNewest(t)'
    BY <1>t, <2>1, <2>2, <2>3, <2>4 DEF ReadAt, ReadNewest
  <2> QED
    BY <1>i, <2>1, <2>5 DEF ReadPlaces
<1>2. CASE SendRead(t)
  <2>1. /\ pc[t] = "send" /\ pc' = [pc EXCEPT ![t] = "load"]
        /\ inflight' = inflight \cup Submitted /\ sq' = <<>>
        /\ UNCHANGED <<cq, op, count, calls>>
    BY <1>2 DEF SendRead, Submit, history
  <2>2. /\ Len(sq) = 1 /\ sq[1].id = op[t] /\ count = Sent
        /\ count < PreadSize /\ \A r \in inflight : r.id < op[t]
    BY <1>t, <2>1 DEF ReadAt, ReadNewest
  <2> DEFINE x == [id |-> op[t], chain |-> sq[ChainStart(1)].id]
  <2>3. DOMAIN sq = {1} /\ sq[1].id = op[t]
    BY <2>2 DEF ReadTypes
  <2>4. Submitted = {x} /\ x.id = op[t]
    BY <2>3 DEF Submitted
  <2>5. x \notin inflight
    BY <1>t, <2>2, <2>4
  <2> HIDE DEF x
  <2>6. /\ IsFiniteSet(inflight')
        /\ Cardinality(inflight') = Cardinality(inflight) + 1
    BY <1>t, <2>1, <2>4, <2>5, FS_AddElement
  <2>7. Sent' = count + 1 /\ pc'[t] = "load"
    BY <1>t, <1>p, <2>1, <2>2, <2>6 DEF Sent
  <2>8. \A r \in inflight' : r.id \in Nat /\ r.id <= calls'
    BY <1>t, <2>1, <2>4
  <2>9. ReadAt(t)' /\ ReadNewest(t)' /\ ReadAtRest'
    BY <2>1, <2>2, <2>7 DEF ReadAt, ReadNewest, ReadAtRest, NoneRunning
  <2>10. \A u \in Threads \ {t} : pc'[u] = "app"
    BY <1>p, <2>1
  <2> QED
    BY <1>t, <2>1, <2>6, <2>8, <2>9, <2>10, ReadsOthers
<1>3. CASE Load(t)
  <2>1. /\ pc[t] = "load" /\ pc' = [pc EXCEPT ![t] = "store"]
        /\ seen' = [seen EXCEPT ![t] = count]
        /\ UNCHANGED <<sq, inflight, cq, op, count, calls>>
    BY <1>3 DEF Load, uring, history
  <2>2. pc'[t] = "store" /\ seen'[t] = count /\ UNCHANGED Sent
    BY <1>t, <1>p, <2>1 DEF Sent
  <2>3. ReadAt(t)' /\ ReadNewest(t)'
    BY <1>t, <2>1, <2>2 DEF ReadAt, ReadNewest
  <2> QED
    BY <1>i, <2>1, <2>3 DEF ReadPlaces
<1>4. CASE Store(t)
  <2>1. /\ pc[t] = "store" /\ pc' = [pc EXCEPT ![t] = "counted"]
        /\ count' = seen[t] + 1
        /\ UNCHANGED <<sq, inflight, cq, seen, op, calls>>
    BY <1>4 DEF Store, uring, history
  <2>2. pc'[t] = "counted" /\ UNCHANGED Sent
    BY <1>p, <2>1 DEF Sent
  <2>3. ReadAt(t)' /\ ReadNewest(t)'
    BY <1>t, <2>1, <2>2 DEF ReadAt, ReadNewest
  <2> QED
    BY <1>i, <2>1, <2>3 DEF ReadPlaces
<1>5. CASE NotFull(t)
  <2>1. /\ pc[t] = "counted" /\ pc' = [pc EXCEPT ![t] = "app"]
        /\ op' = [op EXCEPT ![t] = 0] /\ count # PreadSize
        /\ UNCHANGED <<sq, inflight, cq, count, calls>>
    BY <1>5 DEF NotFull, uring, history
  <2>2. sq = <<>> /\ count = Sent /\ count < PreadSize /\ UNCHANGED Sent
    BY <1>t, <2>1 DEF ReadAt, Sent
  <2> QED
    BY <1>r, <2>1, <2>2
<1>6. CASE Full(t)
  <2>1. /\ pc[t] = "counted" /\ pc' = [pc EXCEPT ![t] = "wait"]
        /\ seen' = [seen EXCEPT ![t] = 0]
        /\ UNCHANGED <<sq, inflight, cq, op, count, calls>>
    BY <1>6 DEF Full, uring, history
  <2>2. pc'[t] = "wait" /\ seen'[t] = 0 /\ UNCHANGED Sent
    BY <1>t, <1>p, <2>1 DEF Sent
  <2>3. ReadAt(t)' /\ ReadNewest(t)'
    BY <1>t, <2>1, <2>2 DEF ReadAt, ReadNewest
  <2> QED
    BY <1>i, <2>1, <2>3 DEF ReadPlaces
<1>7. CASE Wait(t)
  <2>1. /\ pc[t] = "wait" /\ pc' = [pc EXCEPT ![t] = "block"]
        /\ UNCHANGED <<sq, inflight, cq, seen, op, count, calls>>
    BY <1>7 DEF Wait, uring, history
  <2>2. pc'[t] = "block" /\ UNCHANGED Sent
    BY <1>p, <2>1 DEF Sent
  <2>3. ReadAt(t)' /\ ReadNewest(t)'
    BY <1>t, <2>1, <2>2 DEF ReadAt, ReadNewest
  <2> QED
    BY <1>i, <2>1, <2>3 DEF ReadPlaces
<1>8. CASE Reap(t)
  <2>1. /\ pc[t] = "block" /\ pc' = [pc EXCEPT ![t] = "wait"]
        /\ seen' = [seen EXCEPT ![t] = seen[t] + 1]
        /\ cq > 0 /\ cq' = cq - 1
        /\ UNCHANGED <<sq, inflight, op, count, calls>>
    BY <1>8 DEF Reap, WaitAndSeen, history
  <2>2. pc'[t] = "wait" /\ seen'[t] = seen[t] + 1 /\ Sent' = Sent - 1
    BY <1>t, <1>p, <2>1 DEF Sent
  <2>4. sq' = <<>> /\ seen[t] + Sent = count /\ count' = count
    BY <1>t, <2>1 DEF ReadAt
  <2>5. seen'[t] + Sent' = count'
    BY <1>t, <2>2, <2>4
  <2>3. ReadAt(t)' /\ ReadNewest(t)'
    BY <2>2, <2>4, <2>5 DEF ReadAt, ReadNewest
  <2> QED
    BY <1>i, <2>1, <2>3 DEF ReadPlaces
<1>9. CASE WaitOver(t)
  <2>1. /\ pc[t] = "wait" /\ pc' = [pc EXCEPT ![t] = "reset"] /\ seen[t] >= count
        /\ UNCHANGED <<sq, inflight, cq, op, count, calls>>
    BY <1>9 DEF WaitOver, uring, history
  <2>2. pc'[t] = "reset" /\ Sent = 0 /\ UNCHANGED Sent
    BY <1>t, <1>p, <2>1 DEF ReadAt, Sent
  <2>3. ReadAt(t)' /\ ReadNewest(t)'
    BY <1>t, <2>1, <2>2 DEF ReadAt, ReadNewest
  <2> QED
    BY <1>i, <2>1, <2>3 DEF ReadPlaces
<1>10. CASE PreadReset(t)
  <2>1. /\ pc[t] = "reset" /\ pc' = [pc EXCEPT ![t] = "app"]
        /\ op' = [op EXCEPT ![t] = 0] /\ count' = 0
        /\ UNCHANGED <<sq, inflight, cq, calls>>
    BY <1>10 DEF PreadReset, uring, history
  <2>2. sq = <<>> /\ Sent = 0 /\ UNCHANGED Sent
    BY <1>t, <2>1 DEF ReadAt, Sent
  <2> QED
    BY <1>r, <1>t, <2>1, <2>2
<1> QED
  BY <1>1, <1>2, <1>3, <1>4, <1>5, <1>6, <1>7, <1>8, <1>9, <1>10 DEF RunPread

\* A new call gets a number that no read before it had.
LEMMA ReadsEnter ==
    ASSUME ReadTypes, ~overlapped', Reads, NEW t \in Threads, Pread(t)
    PROVE  Reads'
<1>1. /\ pc[t] = "app" /\ pc' = [pc EXCEPT ![t] = "put"]
      /\ op' = [op EXCEPT ![t] = calls + 1] /\ calls' = calls + 1
      /\ UNCHANGED <<sq, inflight, cq, count>>
  BY DEF Pread, Enter, At, uring
<1>2. \A u \in Threads \ {t} : pc[u] = "app"
  BY DEF Pread, Enter
<1>3. /\ pc'[t] = "put" /\ \A u \in Threads \ {t} : pc'[u] = "app"
      /\ op'[t] = calls + 1
  BY <1>1, <1>2 DEF ReadTypes
<1>4. sq = <<>> /\ count = Sent /\ count < PreadSize /\ UNCHANGED Sent
  BY <1>1, <1>2 DEF Reads, ReadAtRest, NoneRunning, Sent
<1>5. ReadAt(t)' /\ ReadAtRest'
  BY <1>1, <1>3, <1>4 DEF ReadAt, ReadAtRest, NoneRunning
<1>6. \A r \in inflight' : r.id \in Nat /\ r.id <= calls' /\ r.id < op'[t]
  BY <1>1, <1>3 DEF ReadTypes, Reads
<1>7. \A u \in Threads : op'[u] <= calls'
  BY <1>1 DEF ReadTypes, Reads
<1>8. ReadNewest(t)' /\ IsFiniteSet(inflight')
  BY <1>1, <1>6 DEF ReadNewest, Reads
<1> QED
  BY <1>3, <1>5, <1>6, <1>7, <1>8, ReadsOthers

\* The kernel turns a request into a completion.
LEMMA ReadsWorks ==
    ASSUME ReadTypes, Reads, Works
    PROVE  Reads'
<1>1. PICK r \in inflight : End({r})
  BY DEF Works
<1>2. /\ inflight' = inflight \ {r} /\ cq' = cq + Cardinality({r})
      /\ UNCHANGED <<sq, pc, seen, op, count, calls>>
  BY <1>1 DEF End, Works, thread
<1>3. /\ IsFiniteSet(inflight') /\ Cardinality(inflight') = Cardinality(inflight) - 1
      /\ Cardinality(inflight) \in Nat
  BY <1>2, FS_RemoveElement, FS_CardinalityType DEF Reads
<1>4. Sent' = Sent
  <2>1. cq' = cq + 1 /\ cq \in Nat
    BY <1>2, FS_Singleton DEF ReadTypes
  <2> QED
    BY <1>3, <2>1 DEF Sent
<1>5. ASSUME NEW t \in Threads PROVE ReadAt(t)' /\ ReadNewest(t)'
  BY <1>2, <1>4 DEF Reads, ReadAt, ReadNewest
<1>6. ReadAtRest' /\ Alone'
  BY <1>2, <1>4 DEF Reads, ReadAtRest, NoneRunning, Alone
<1> QED
  BY <1>2, <1>3, <1>5, <1>6 DEF Reads

LEMMA ReadInvInit == ShimInit => ReadInv
<1> SUFFICES ASSUME ShimInit PROVE ReadInv
  OBVIOUS
<1>1. /\ sq = <<>> /\ inflight = {} /\ cq = 0 /\ count = 0 /\ calls = 0
      /\ acked = {} /\ \A t \in Threads : pc[t] = "app" /\ op[t] = 0
  BY DEF ShimInit, RingInit
<1>2. ReadTypes
  BY DEF ReadTypes, ReadPlaces, ShimInit, RingInit
<1>3. IsFiniteSet(inflight) /\ Sent = 0
  BY <1>1, FS_EmptySet DEF Sent
<1>4. Reads
  BY <1>1, <1>3, ProgramsAssumption
  DEF Reads, Alone, ReadAtRest, ReadAt, ReadNewest
<1> QED
  BY <1>2, <1>4 DEF ReadInv

LEMMA ReadInvStep == ReadInv /\ (PreadShimNext \/ UNCHANGED vars) => ReadInv'
<1> SUFFICES ASSUME ReadInv, PreadShimNext \/ UNCHANGED vars, ~overlapped'
             PROVE  Reads'
  BY ReadTypesStep DEF ReadInv
<1>1. ASSUME NEW t \in Threads, Pread(t) PROVE Reads'
  <2>1. ~overlapped
    BY <1>1 DEF Pread, Enter
  <2> QED
    BY <1>1, <2>1, ReadsEnter DEF ReadInv
<1>2. ASSUME NEW t \in Threads, RunPread(t) PROVE Reads'
  <2>1. ~overlapped
    BY <1>2 DEF RunPread, PutRead, SendRead, Load, Store, NotFull, Full, Wait,
                Reap, WaitOver, PreadReset, history
  <2> QED
    BY <1>2, <2>1, ReadsRun DEF ReadInv
<1>3. CASE Works
  BY <1>3, ReadsWorks DEF ReadInv, Works
<1>4. CASE UNCHANGED vars
  BY <1>4 DEF ReadInv, Reads, ReadAtRest, ReadAt, ReadNewest, Alone, NoneRunning,
              Sent, vars, uring, thread, history
<1> QED
  BY <1>1, <1>2, <1>3, <1>4 DEF PreadShimNext

-----------------------------------------------------------------------------
(***************************************************************************)
(* The plain readers.  vanilla_uring_read.c prepares a batch, and after    *)
(* the submission each of its requests is in the kernel, or completed, or  *)
(* reaped.  read_uring.c never submits, so that its ring fills up and      *)
(* stays full: it never holds more than QueueDepth, less than a batch.     *)
(***************************************************************************)
PlainTypes ==
    /\ rsq \in Seq(Sqe) /\ IsFiniteSet(rinflight) /\ rcq \in Nat
    /\ batched \in Nat /\ reaped \in Nat /\ left \in Nat
    /\ reader \in {"vanilla", "read"}

Vanilla ==
    /\ at \in {"loop", "wait", "reap", "failed", "ended"}
    /\ at \in {"loop", "ended"} =>
         /\ rinflight = {} /\ rcq = 0 /\ reaped = 0
         /\ Len(rsq) = batched /\ batched <= BatchOf
         /\ \A k \in DOMAIN rsq : rsq[k].id = left + Len(rsq) + 1 - k
    /\ at = "wait" => /\ reaped = 0 /\ Len(rsq) = 0
                      /\ Cardinality(rinflight) + rcq = batched
    /\ at \in {"reap", "failed"} => /\ rinflight = {} /\ Len(rsq) = 0
                                    /\ rcq + reaped = batched

NeverFull ==
    /\ at \in {"loop", "sleep"} /\ rinflight = {}
    /\ Len(rsq) <= QueueDepth["read"]
    /\ at = "loop" => batched <= Len(rsq)

PlainInv ==
    /\ PlainTypes
    /\ reader = "vanilla" /\ BatchOf <= QueueDepth["vanilla"] => Vanilla
    /\ reader = "read" /\ QueueDepth["read"] < BatchOf => NeverFull

\* The instance brings its own copy of the definition.
LEMMA SameCardinality == \A S : Plain!Cardinality(S) = Cardinality(S)
  BY DEF Plain!Cardinality, Cardinality

\* Without typing the kernel's work, a type is kept by each step.
LEMMA PlainTypesStep ==
    ASSUME PlainTypes, Plain!Reader \/ Plain!KernelReads
    PROVE  PlainTypes'
<1> USE DEF PlainTypes
<1>0. ASSUME NEW i \in Nat
      PROVE  Plain!Prepared(i) \in Seq(Sqe) /\ Len(Plain!Prepared(i)) = Len(rsq) + 1
  <2>1. [id |-> i, linked |-> FALSE] \in Sqe
    BY DEF Sqe
  <2> QED
    BY <2>1 DEF Plain!Prepared
<1>1. CASE Plain!Prepare
  BY <1>0, <1>1 DEF Plain!Prepare
<1>2. CASE Plain!NoSqe
  BY <1>2 DEF Plain!NoSqe, Plain!uring
<1>3. CASE Plain!SubmitReads
  <2> DEFINE op1(k) == [id |-> rsq[k].id, chain |-> rsq[Plain!ChainStart(k)].id]
  <2>1. Plain!Submitted = {op1(k) : k \in 1..Len(rsq)} /\ Len(rsq) \in Nat
    BY DEF Plain!Submitted
  <2> HIDE DEF op1
  <2>2. IsFiniteSet(Plain!Submitted)
    <3> DEFINE f == [k \in 1..Len(rsq) |-> op1(k)]
    <3>1. f \in Surjection(1..Len(rsq), Plain!Submitted)
      BY <2>1 DEF Surjection
    <3> HIDE DEF f
    <3> QED
      BY <2>1, <3>1, FS_Interval, FS_Surjection
  <2>3. IsFiniteSet(rinflight \cup Plain!Submitted)
    BY <2>2, FS_Union
  <2> QED
    BY <1>3, <2>3 DEF Plain!SubmitReads, Plain!Submit
<1>4. CASE Plain!Waited
  BY <1>4 DEF Plain!Waited, Plain!uring
<1>5. CASE Plain!Reap
  BY <1>5 DEF Plain!Reap, Plain!WaitAndSeen
<1>6. CASE Plain!Reaped
  BY <1>6 DEF Plain!Reaped, Plain!uring
<1>7. CASE Plain!AllRead
  BY <1>7 DEF Plain!AllRead, Plain!uring
<1>8. CASE Plain!PrepareMore
  <2>1. rsq' = Plain!Prepared(batched) /\ batched' = batched + 1
        /\ UNCHANGED <<rinflight, rcq, reader, reaped, left>>
    BY <1>8 DEF Plain!PrepareMore
  <2> QED
    BY <1>0, <2>1
<1>9. CASE Plain!Break
  BY <1>9 DEF Plain!Break, Plain!uring
<1>10. CASE Plain!Again
  BY <1>10 DEF Plain!Again, Plain!uring
<1>11. CASE Plain!KernelReads
  <2>1. PICK r \in rinflight : Plain!End({r})
    BY <1>11 DEF Plain!KernelReads
  <2>2. Plain!Cardinality({r}) = 1
    BY FS_Singleton, SameCardinality
  <2>3. /\ rcq' = rcq + 1 /\ rinflight' = rinflight \ {r} /\ rsq' = rsq
        /\ IsFiniteSet(rinflight')
    BY <2>1, <2>2, FS_RemoveElement DEF Plain!End
  <2> QED
    BY <1>11, <2>3 DEF Plain!KernelReads
<1> QED
  BY <1>1, <1>2, <1>3, <1>4, <1>5, <1>6, <1>7, <1>8, <1>9, <1>10, <1>11
  DEF Plain!Reader

\* vanilla_uring_read.c goes through its batches.
LEMMA VanillaStep ==
    ASSUME PlainTypes, reader = "vanilla", BatchOf <= QueueDepth["vanilla"],
           Vanilla, Plain!Reader \/ Plain!KernelReads
    PROVE  Vanilla'
<1>t. /\ rsq \in Seq(Sqe) /\ Len(rsq) \in Nat /\ IsFiniteSet(rinflight)
      /\ rcq \in Nat /\ batched \in Nat /\ reaped \in Nat /\ left \in Nat
      /\ BatchOf \in Nat /\ QueueDepth["vanilla"] \in Nat
      /\ BatchOf <= QueueDepth["vanilla"]
      /\ Cardinality(rinflight) \in Nat
  BY FS_CardinalityType, ProgramsAssumption DEF PlainTypes
<1>1. CASE Plain!Prepare
  <2>1. /\ at = "loop" /\ at' = "loop" /\ left > 0 /\ batched < BatchOf
        /\ rsq' = Append(rsq, [id |-> left, linked |-> FALSE])
        /\ left' = left - 1 /\ batched' = batched + 1
        /\ UNCHANGED <<rinflight, rcq, reaped>>
    BY <1>1 DEF Plain!Prepare, Plain!Prepared
  <2>2. [id |-> left, linked |-> FALSE] \in Sqe
    BY <1>t DEF Sqe
  <2>3. /\ Len(rsq') = Len(rsq) + 1 /\ DOMAIN rsq' = 1..Len(rsq) + 1
        /\ \A k \in 1..Len(rsq) : rsq'[k] = rsq[k]
        /\ rsq'[Len(rsq) + 1] = [id |-> left, linked |-> FALSE]
    BY <1>t, <2>1, <2>2
  <2>4. /\ rinflight = {} /\ rcq = 0 /\ reaped = 0 /\ Len(rsq) = batched
        /\ \A k \in DOMAIN rsq : rsq[k].id = left + Len(rsq) + 1 - k
    BY <2>1 DEF Vanilla
  <2>5. ASSUME NEW k \in DOMAIN rsq'
        PROVE  rsq'[k].id = left' + Len(rsq') + 1 - k
    <3>1. CASE k \in 1..Len(rsq)
      <4>1. rsq'[k].id = left + Len(rsq) + 1 - k
        BY <1>t, <2>3, <2>4, <3>1
      <4> QED
        BY <1>t, <2>1, <2>3, <3>1, <4>1
    <3>2. CASE k = Len(rsq) + 1
      BY <1>t, <2>1, <2>3, <3>2
    <3> QED
      BY <1>t, <2>3, <3>1, <3>2
  <2>6. Len(rsq') = batched' /\ batched' <= BatchOf
    BY <1>t, <2>1, <2>3, <2>4
  <2> QED
    BY <2>1, <2>4, <2>5, <2>6 DEF Vanilla
<1>2. CASE Plain!NoSqe
  <2>1. /\ at = "loop" /\ batched < BatchOf /\ ~(Len(rsq) < QueueDepth["vanilla"])
    BY <1>2 DEF Plain!NoSqe, Plain!FreeSqe, Plain!To
  <2>2. Len(rsq) = batched
    BY <2>1 DEF Vanilla
  <2> QED
    BY <1>t, <2>1, <2>2
<1>3. CASE Plain!SubmitReads
  <2>1. /\ at = "loop" /\ at' = "wait"
        /\ rinflight' = rinflight \cup Plain!Submitted /\ rsq' = <<>>
        /\ UNCHANGED <<rcq, batched, reaped>>
    BY <1>3 DEF Plain!SubmitReads, Plain!To, Plain!Submit
  <2>2. /\ rinflight = {} /\ rcq = 0 /\ reaped = 0 /\ Len(rsq) = batched
        /\ \A k \in DOMAIN rsq : rsq[k].id = left + Len(rsq) + 1 - k
    BY <2>1 DEF Vanilla
  <2>3. \A i, j \in DOMAIN rsq : rsq[i].id = rsq[j].id => i = j
    BY <1>t, <2>2
  <2> DEFINE c == [k \in DOMAIN rsq |-> rsq[Plain!ChainStart(k)].id]
  <2>4. Plain!Submitted = {[id |-> rsq[k].id, chain |-> c[k]] : k \in DOMAIN rsq}
    BY DEF Plain!Submitted
  <2> HIDE DEF c
  <2>5. Cardinality(Plain!Submitted) = Len(rsq)
    BY <1>t, <2>3, <2>4, DistinctCard
  <2>6. rinflight' = Plain!Submitted
    BY <2>1, <2>2
  <2>7. Cardinality(rinflight') = batched
    BY <2>2, <2>5, <2>6
  <2> QED
    BY <1>t, <2>1, <2>2, <2>7 DEF Vanilla
<1>4. CASE Plain!Waited
  <2>1. /\ at = "wait" /\ at' = "reap" /\ rcq >= batched
        /\ UNCHANGED <<rsq, rinflight, rcq, batched, reaped>>
    BY <1>4 DEF Plain!Waited, Plain!To, Plain!uring
  <2>2. reaped = 0 /\ Len(rsq) = 0 /\ Cardinality(rinflight) + rcq = batched
    BY <2>1 DEF Vanilla
  <2>3. Cardinality(rinflight) = 0 /\ rcq = batched
    BY <1>t, <2>1, <2>2
  <2>4. rinflight = {}
    BY <1>t, <2>3, FS_EmptySet
  <2> QED
    BY <1>t, <2>1, <2>2, <2>3, <2>4 DEF Vanilla
<1>5. CASE Plain!Reap
  <2>1. /\ at = "reap" /\ at' \in {"reap", "failed"} /\ rcq > 0 /\ rcq' = rcq - 1
        /\ reaped' = reaped + 1 /\ UNCHANGED <<rsq, rinflight, batched>>
    BY <1>5 DEF Plain!Reap, Plain!WaitAndSeen
  <2>2. rinflight = {} /\ Len(rsq) = 0 /\ rcq + reaped = batched
    BY <2>1 DEF Vanilla
  <2>3. rcq' + reaped' = batched'
    BY <1>t, <2>1, <2>2
  <2> QED
    BY <2>1, <2>2, <2>3 DEF Vanilla
<1>6. CASE Plain!Reaped
  <2>1. /\ at = "reap" /\ at' = "loop" /\ reaped = batched
        /\ batched' = 0 /\ reaped' = 0 /\ UNCHANGED <<rsq, rinflight, rcq, left>>
    BY <1>6 DEF Plain!Reaped, Plain!To, Plain!uring
  <2>2. rinflight = {} /\ Len(rsq) = 0 /\ rcq = 0
    BY <1>t, <2>1 DEF Vanilla
  <2>3. DOMAIN rsq = {}
    BY <1>t, <2>2
  <2> QED
    BY <1>t, <2>1, <2>2, <2>3 DEF Vanilla
<1>7. CASE Plain!AllRead
  BY <1>7 DEF Plain!AllRead, Plain!To, Plain!uring, Vanilla
<1>8. CASE Plain!PrepareMore \/ Plain!Break
  BY <1>8 DEF Plain!PrepareMore, Plain!Break
<1>9. CASE Plain!Again
  BY <1>9 DEF Plain!Again, Plain!To, Vanilla
<1>10. CASE Plain!KernelReads
  <2>1. PICK r \in rinflight : Plain!End({r})
    BY <1>10 DEF Plain!KernelReads
  <2>2. /\ rcq' = rcq + 1 /\ rinflight' = rinflight \ {r} /\ rsq' = rsq
        /\ UNCHANGED <<at, batched, reaped, left>>
    <3>1. Plain!Cardinality({r}) = 1
      BY FS_Singleton, SameCardinality
    <3> QED
      BY <1>10, <2>1, <3>1 DEF Plain!End, Plain!KernelReads
  <2>3. at = "wait"
    BY DEF Vanilla
  <2>4. reaped = 0 /\ Len(rsq) = 0 /\ Cardinality(rinflight) + rcq = batched
    BY <2>3 DEF Vanilla
  <2>5. Cardinality(rinflight') = Cardinality(rinflight) - 1
    BY <1>t, <2>2, FS_RemoveElement
  <2>6. Cardinality(rinflight') + rcq' = batched'
    BY <1>t, <2>2, <2>4, <2>5
  <2> QED
    BY <2>2, <2>3, <2>4, <2>6 DEF Vanilla
<1> QED
  BY <1>1, <1>2, <1>3, <1>4, <1>5, <1>6, <1>7, <1>8, <1>9, <1>10 DEF Plain!Reader

\* read_uring.c finds no SQE before its batch is full, and starts again.
LEMMA NeverFullStep ==
    ASSUME PlainTypes, reader = "read", QueueDepth["read"] < BatchOf,
           NeverFull, Plain!Reader \/ Plain!KernelReads
    PROVE  NeverFull'
<1>t. /\ rsq \in Seq(Sqe) /\ Len(rsq) \in Nat /\ batched \in Nat
      /\ BatchOf \in Nat /\ QueueDepth["read"] \in Nat
      /\ QueueDepth["read"] < BatchOf
  BY ProgramsAssumption DEF PlainTypes
<1>1. CASE Plain!PrepareMore
  <2>1. /\ at = "loop" /\ Len(rsq) < QueueDepth["read"]
        /\ rsq' = Append(rsq, [id |-> batched, linked |-> FALSE])
        /\ batched' = batched + 1 /\ rinflight' = rinflight
    BY <1>1 DEF Plain!PrepareMore, Plain!Prepared, Plain!FreeSqe
  <2>2. Len(rsq') = Len(rsq) + 1
    <3>1. [id |-> batched, linked |-> FALSE] \in Sqe
      BY <1>t DEF Sqe
    <3> QED
      BY <1>t, <2>1, <3>1
  <2>3. batched <= Len(rsq)
    BY <2>1 DEF NeverFull
  <2>4. batched' < BatchOf /\ batched' <= Len(rsq') /\ Len(rsq') <= QueueDepth["read"]
    BY <1>t, <2>1, <2>2, <2>3
  <2>5. ~(batched' >= BatchOf)
    BY <1>t, <2>1, <2>4
  <2>6. at' = "loop"
    BY <1>1, <2>5, Zenon DEF Plain!PrepareMore
  <2> QED
    BY <2>1, <2>4, <2>6 DEF NeverFull
<1>2. CASE Plain!Break
  BY <1>2 DEF Plain!Break, Plain!To, Plain!uring, NeverFull
<1>3. CASE Plain!Again
  BY <1>t, <1>3 DEF Plain!Again, Plain!To, Plain!uring, NeverFull
<1>4. CASE Plain!KernelReads
  BY <1>4 DEF Plain!KernelReads, NeverFull
<1>5. CASE Plain!Prepare \/ Plain!NoSqe \/ Plain!SubmitReads \/ Plain!AllRead
  BY <1>5 DEF Plain!Prepare, Plain!NoSqe, Plain!SubmitReads, Plain!AllRead
<1>6. CASE Plain!Waited \/ Plain!Reap \/ Plain!Reaped
  BY <1>6 DEF Plain!Waited, Plain!Reap, Plain!Reaped, Plain!To, NeverFull
<1> QED
  BY <1>1, <1>2, <1>3, <1>4, <1>5, <1>6 DEF Plain!Reader

LEMMA PlainInvInit == Plain!ReaderInit => PlainInv
<1> SUFFICES ASSUME Plain!ReaderInit PROVE PlainInv
  OBVIOUS
<1>1. /\ rsq = <<>> /\ rinflight = {} /\ rcq = 0 /\ at = "loop"
      /\ batched = 0 /\ reaped = 0 /\ left = Chunks
      /\ reader \in {"vanilla", "read"}
  BY DEF Plain!ReaderInit, Plain!RingInit
<1>2. PlainTypes
  BY <1>1, FS_EmptySet, ProgramsAssumption DEF PlainTypes
<1>3. Vanilla /\ NeverFull
  BY <1>1, ProgramsAssumption DEF Vanilla, NeverFull
<1> QED
  BY <1>2, <1>3 DEF PlainInv

LEMMA PlainInvStep ==
    ASSUME PlainInv, Plain!Reader \/ Plain!KernelReads \/ UNCHANGED rvars
    PROVE  PlainInv'
<1>1. CASE Plain!Reader \/ Plain!KernelReads
  <2>1. reader' = reader
    BY <1>1 DEF Plain!Reader, Plain!KernelReads, Plain!Prepare, Plain!NoSqe,
                Plain!SubmitReads, Plain!Waited, Plain!Reap, Plain!Reaped,
                Plain!AllRead, Plain!PrepareMore, Plain!Break, Plain!Again
  <2> QED
    BY <1>1, <2>1, PlainTypesStep, VanillaStep, NeverFullStep DEF PlainInv
<1>2. CASE UNCHANGED rvars
  BY <1>2 DEF PlainInv, PlainTypes, Vanilla, NeverFull, rvars
<1> QED
  BY <1>1, <1>2

-----------------------------------------------------------------------------
(***************************************************************************)
(* The composition: each program keeps its own invariant, and the others   *)
(* have not begun.                                                         *)
(***************************************************************************)
ProgramsInv ==
    /\ program \in {"rocksdb", "pread", "plain"}
    /\ program # "pread" => EInv
    /\ program # "rocksdb" => ReadInv
    /\ PlainInv

LEMMA ProgramsAlways == ProgramsSpec => []ProgramsInv
<1>1. ProgramsInit => ProgramsInv
  <2>1. ShimInit => EInv
    BY InvInit, ExactInit DEF EInv
  <2> QED
    BY <2>1, ReadInvInit, PlainInvInit DEF ProgramsInit, ProgramsInv
<1>2. ProgramsInv /\ [ProgramsNext]_all => ProgramsInv'
  <2> SUFFICES ASSUME ProgramsInv, [ProgramsNext]_all PROVE ProgramsInv'
    OBVIOUS
  <2>1. CASE InRocksdb /\ Shim
    BY <2>1, EInvStep, PlainInvStep DEF ProgramsInv, InRocksdb, InShims, rvars
  <2>2. CASE InPread /\ PreadShimNext
    BY <2>2, ReadInvStep, PlainInvStep DEF ProgramsInv, InPread, InShims, rvars
  <2>3. CASE InPlain /\ (Plain!Reader \/ Plain!KernelReads)
    BY <2>3, EInvStep, ReadInvStep, PlainInvStep DEF ProgramsInv, InPlain
  <2>4. CASE UNCHANGED all
    BY <2>4, EInvStep, ReadInvStep, PlainInvStep DEF ProgramsInv, all
  <2> QED
    BY <2>1, <2>2, <2>3, <2>4 DEF ProgramsNext
<1> QED
  BY <1>1, <1>2, PTL DEF ProgramsSpec

\* What the pread shim's invariant means: it reports nothing done itself, and
\* between two probes what is outstanding is counted.
LEMMA ReadInvCounts == ReadInv => NoWriteForgotten /\ NotCompleted /\ Counted
<1> SUFFICES ASSUME ReadInv PROVE NoWriteForgotten /\ NotCompleted /\ Counted
  OBVIOUS
<1>1. acked = {} /\ acked \ done = {}
  BY DEF ReadInv, ReadTypes
<1>2. ASSUME ~overlapped, NoneRunning PROVE count = Due
  <2>1. /\ sq = <<>> /\ count = Sent /\ cq \in Nat
        /\ Cardinality(inflight) \in Nat
    BY <1>2, FS_CardinalityType DEF ReadInv, ReadTypes, Reads, ReadAtRest
  <2> QED
    BY <2>1 DEF Due, Sent
<1>3. NoWriteForgotten /\ Counted
  BY <1>1, <1>2 DEF NoWriteForgotten, Counted
<1>4. Cardinality(acked \ done) = 0 /\ count \in Nat /\ PatchSize \in Nat
  BY <1>1, FS_EmptySet DEF ReadInv, ReadTypes
<1> QED
  BY <1>3, <1>4 DEF NotCompleted

\* Whichever of the probes is loaded, for any threads and sizes: until two probes
\* overlap, and in a ring with room for a batch, every write and fsync reported
\* done has been completed or is in the ring.
THEOREM NothingForgotten == ProgramsSpec => []NoWriteForgotten
<1>1. ProgramsInv => NoWriteForgotten
  BY EInvForgets, ReadInvCounts DEF ProgramsInv, EInv
<1> QED
  BY <1>1, ProgramsAlways, PTL

\* Between two probes the calls reported done and not completed are at most what
\* current_count says, and at most patch_size.
THEOREM UncompletedIsCounted == ProgramsSpec => []NotCompleted
<1>1. ProgramsInv => NotCompleted
  BY EInvUncompleted, ReadInvCounts DEF ProgramsInv
<1> QED
  BY <1>1, ProgramsAlways, PTL

\* current_count is, between two probes, exactly the requests whose completion
\* was not seen: of the writes queued, in a ring with room for a batch, and of
\* the preads done in parallel, in any ring.
THEOREM CountIsOutstanding == ProgramsSpec => []Counted
<1>1. ProgramsInv => Counted
  BY EInvCounts, ReadInvCounts DEF ProgramsInv
<1> QED
  BY <1>1, ProgramsAlways, PTL

\* vanilla_uring_read.c never lacks an SQE and sees every completion of its
\* batches, for any file, and any batch that fits its ring.
THEOREM AllBatchesReaped == ProgramsSpec => []BatchesReaped
<1>1. PlainInv => BatchesReaped
  BY DEF PlainInv, Vanilla, BatchesReaped, Plain!BatchesReaped
<1> QED
  BY <1>1, ProgramsAlways, PTL DEF ProgramsInv

\* read_uring.c never comes to its wrong call, for any batch too large for its
\* ring and however often it starts again.
THEOREM WrongCallUnreached == ProgramsSpec => []NeverSubmits
<1>1. PlainInv => NeverSubmits
  BY DEF PlainInv, NeverFull, NeverSubmits, Plain!NeverSubmits
<1> QED
  BY <1>1, ProgramsAlways, PTL DEF ProgramsInv
=============================================================================
