------------------------- MODULE PreadPipelineProofs -------------------------
(***************************************************************************)
(* Theorems about the daemon, with any probes (Spec of PreadDaemonEnv) and *)
(* behind the probes of user.bpf.c (PipelineSpec), for every capacity of   *)
(* the rings, every size of the io_uring and any number of records.  What  *)
(* both share, the steps of daemon and kernel, is proved once, for prepare *)
(* records of any set S and submit records of any set T.                   *)
(***************************************************************************)
EXTENDS PreadPipeline, PreadDaemonEnv,
        SequenceTheorems, FiniteSetTheorems, TLAPS

(***************************************************************************)
(* Heads, tails and concatenations.                                        *)
(***************************************************************************)

\* The head and the tail of a nonempty sequence.
LEMMA HeadTail ==
    ASSUME NEW S, NEW s \in Seq(S), s # <<>>
    PROVE  /\ Head(s) \in S /\ Head(s) = s[1]
           /\ Tail(s) \in Seq(S) /\ Len(s) > 0 /\ Len(Tail(s)) = Len(s) - 1
OBVIOUS

\* Appending to the last part of a queue appends to the queue (OutputPread).
LEMMA AppendLast ==
    ASSUME NEW S, NEW a \in Seq(S), NEW b \in Seq(S), NEW r \in S
    PROVE  a \o Append(b, r) = Append(a \o b, r)
<1>1. a \o b \in Seq(S) /\ <<r>> \in Seq(S)
  BY ConcatProperties
<1>2. Append(b, r) = b \o <<r>> /\ Append(a \o b, r) = (a \o b) \o <<r>>
  BY <1>1, AppendIsConcat
<1> QED BY <1>1, <1>2, ConcatAssociative

\* Moving the head of the second part to the end of the first changes nothing.
LEMMA MoveHead ==
    ASSUME NEW S, NEW a \in Seq(S), NEW b \in Seq(S), b # <<>>
    PROVE  Append(a, Head(b)) \o Tail(b) = a \o b
<1>1. Head(b) \in S /\ Tail(b) \in Seq(S) /\ <<Head(b)>> \in Seq(S)
  BY HeadTail
<1>2. b = <<Head(b)>> \o Tail(b)
  OBVIOUS
<1>3. Append(a, Head(b)) = a \o <<Head(b)>>
  BY <1>1, AppendIsConcat
<1> QED BY <1>1, <1>2, <1>3, ConcatAssociative

\* Dropping the head of the second part removes one element of the queue.
LEMMA DropHead ==
    ASSUME NEW S, NEW a \in Seq(S), NEW b \in Seq(S), b # <<>>
    PROVE  a \o Tail(b) = SubSeq(a \o b, 1, Len(a))
                          \o SubSeq(a \o b, Len(a) + 2, Len(a \o b))
<1>1. SubSeq(a \o b, 1, Len(a)) = a
  OBVIOUS
<1>2. SubSeq(a \o b, Len(a) + 2, Len(a \o b)) = Tail(b)
  OBVIOUS
<1> QED BY <1>1, <1>2

\* Taking n elements off the first part takes them off the queue.
LEMMA TakeFront ==
    ASSUME NEW S, NEW a \in Seq(S), NEW b \in Seq(S), NEW n \in 1..Len(a)
    PROVE  /\ (a \o b)[1] = a[1]
           /\ SubSeq(a \o b, n + 1, Len(a \o b))
              = SubSeq(a, n + 1, Len(a)) \o b
<1> DEFINE p == a \o b
           l == SubSeq(p, n + 1, Len(p))
           f == SubSeq(a, n + 1, Len(a))
<1>1. /\ p \in Seq(S) /\ Len(p) = Len(a) + Len(b)
      /\ \A i \in 1..Len(a) + Len(b) :
            p[i] = IF i <= Len(a) THEN a[i] ELSE b[i - Len(a)]
  BY ConcatProperties
<1>2. Len(a) \in Nat /\ Len(b) \in Nat /\ n \in Nat
  OBVIOUS
<1> HIDE DEF p
<1>3. l \in Seq(S) /\ Len(l) = Len(a) + Len(b) - n
  BY <1>1, <1>2
<1>4. \A i \in 1..Len(l) : l[i] = p[i + n]
  BY <1>1, <1>2, <1>3
<1>5. f \in Seq(S) /\ Len(f) = Len(a) - n
  BY <1>2
<1>6. \A i \in 1..Len(f) : f[i] = a[i + n]
  BY <1>2, <1>5
<1> HIDE DEF l, f
<1>7. /\ f \o b \in Seq(S) /\ Len(f \o b) = Len(f) + Len(b)
      /\ \A i \in 1..Len(f) + Len(b) :
            (f \o b)[i] = IF i <= Len(f) THEN f[i] ELSE b[i - Len(f)]
  BY <1>5, ConcatProperties
<1>8. \A i \in 1..Len(l) : l[i] = (f \o b)[i]
  <2> SUFFICES ASSUME NEW i \in 1..Len(l) PROVE l[i] = (f \o b)[i]
    OBVIOUS
  <2>1. CASE i <= Len(f)
    BY <2>1, <1>1, <1>2, <1>3, <1>4, <1>5, <1>6, <1>7
  <2>2. CASE ~(i <= Len(f))
    <3>1. l[i] = p[i + n] /\ i + n \in 1..Len(a) + Len(b) /\ ~(i + n <= Len(a))
      BY <2>2, <1>2, <1>3, <1>4, <1>5
    <3>2. p[i + n] = b[(i + n) - Len(a)]
      BY <3>1, <1>1
    <3>3. (f \o b)[i] = b[i - Len(f)] /\ i - Len(f) = (i + n) - Len(a)
      BY <2>2, <1>2, <1>3, <1>5, <1>7
    <3> QED BY <3>1, <3>2, <3>3
  <2> QED BY <2>1, <2>2
<1>9. l = f \o b
  <2>1. Len(f \o b) = Len(l)
    BY <1>2, <1>3, <1>5, <1>7
  <2> QED BY <2>1, <1>3, <1>7, <1>8, SeqEqual
<1>10. p[1] = a[1]
  BY <1>1, <1>2
<1> QED BY <1>9, <1>10 DEF l, f, p

USE CapacityAssumption, EntriesAssumption

(***************************************************************************)
(* What the kernel leaves of the chains it works on.                       *)
(***************************************************************************)

\* The only index of a sequence of at most one element.
LEMMA OneElement ==
    ASSUME NEW T, NEW s \in Seq(T), Len(s) <= 1, NEW c \in DOMAIN s
    PROVE  c = 1 /\ Len(s) = 1 /\ s[1] \in T
<1>1. Len(s) \in Nat /\ DOMAIN s = 1..Len(s)
  OBVIOUS
<1> QED BY <1>1

\* Replacing the only element of a sequence.
LEMMA ExceptOne ==
    ASSUME NEW T, NEW s \in Seq(T), Len(s) = 1, NEW r \in T
    PROVE  /\ [s EXCEPT ![1] = r] \in Seq(T)
           /\ Len([s EXCEPT ![1] = r]) = 1
           /\ [s EXCEPT ![1] = r][1] = r
<1>1. [s EXCEPT ![1] = r] \in Seq(T)
  BY ExceptSeq
<1>2. Len([s EXCEPT ![1] = r]) = 1
  BY ExceptSeq
<1>3. [s EXCEPT ![1] = r][1] = r
  <2>1. DOMAIN s = 1..1
    OBVIOUS
  <2> QED BY <2>1
<1> QED BY <1>1, <1>2, <1>3

\* With one chain, what is left of it after its head is the whole of chains.
LEMMA ChainRestOne ==
    ASSUME NEW S, chains \in Seq(Seq(S)), Len(chains) = 1, NEW rest \in Seq(S)
    PROVE  \/ rest = <<>> /\ ChainRest(1, rest) = <<>>
           \/ /\ rest # <<>> /\ ChainRest(1, rest) \in Seq(Seq(S))
              /\ Len(ChainRest(1, rest)) = 1
              /\ ChainRest(1, rest)[1] = rest
<1>1. CASE rest = <<>>
  <2>1. SubSeq(chains, 1, 0) = <<>> /\ SubSeq(chains, 2, 1) = <<>>
    OBVIOUS
  <2>2. ChainRest(1, rest) = <<>> \o <<>>
    BY <1>1, <2>1 DEF ChainRest
  <2>3. <<>> \o <<>> = <<>>
    OBVIOUS
  <2> QED BY <1>1, <2>2, <2>3
<1>2. CASE rest # <<>>
  <2>1. ChainRest(1, rest) = [chains EXCEPT ![1] = rest]
    BY <1>2 DEF ChainRest
  <2> DEFINE T == Seq(S)
  <2>2. chains \in Seq(T) /\ rest \in T
    OBVIOUS
  <2> HIDE DEF T
  <2>3. /\ [chains EXCEPT ![1] = rest] \in Seq(T)
        /\ Len([chains EXCEPT ![1] = rest]) = 1
        /\ [chains EXCEPT ![1] = rest][1] = rest
    BY <2>2, ExceptOne
  <2> QED BY <1>2, <2>1, <2>3 DEF T
<1> QED BY <1>1, <1>2

\* A ring buffer keeps its type and its capacity when a record is output.
LEMMA OutputType ==
    ASSUME NEW S, NEW rb \in Seq(S), NEW cap \in Nat \ {0}, Len(rb) <= cap,
           NEW r \in S
    PROVE  Output(rb, cap, r) \in Seq(S) /\ Len(Output(rb, cap, r)) <= cap
BY DEF Output

(***************************************************************************)
(* The inductive invariant, action by action.                              *)
(***************************************************************************)
USE DEF DaemonTypes, DaemonPC, DaemonInv, RecordHeld, OneChain, BatchAccounted

\* The chain the kernel works on is a sequence of reads.
LEMMA ChainShape ==
    ASSUME NEW S, NEW T, DaemonInv(S, T)
    PROVE  /\ Chain \in Seq(S)
           /\ InKernel \in Nat /\ (InKernel = 0 <=> chains = <<>>)
<1>1. CASE chains = <<>>
  BY <1>1 DEF Chain, InKernel
<1>2. CASE chains # <<>>
  <2>1. chains[1] \in Seq(S) /\ chains[1] # <<>>
    BY <1>2
  <2> QED BY <1>2, <2>1 DEF Chain, InKernel
<1> QED BY <1>1, <1>2

\* The steps of the main loop that only move the daemon on.
LEMMA InvPoll ==
    ASSUME NEW S, NEW T, DaemonInv(S, T),
           \/ Loop \/ PollPrepare \/ PrepareDrained
           \/ PollSubmit \/ SubmitDrained
    PROVE  DaemonInv(S, T)'
<1> USE DEF rings, uring, Chain, InKernel
<1>1. CASE Loop
  BY <1>1 DEF Loop
<1>2. CASE PollPrepare
  BY <1>2 DEF PollPrepare
<1>3. CASE PrepareDrained
  BY <1>3 DEF PrepareDrained
<1>4. CASE PollSubmit
  BY <1>4 DEF PollSubmit
<1>5. CASE SubmitDrained
  BY <1>5 DEF SubmitDrained
<1> QED BY <1>1, <1>2, <1>3, <1>4, <1>5

\* A prepare record becomes an SQE and is counted, or is dropped uncounted.
LEMMA InvHandlePrepare ==
    ASSUME NEW S, NEW T, DaemonInv(S, T), HandlePrepare
    PROVE  DaemonInv(S, T)'
<1>0. /\ Head(prepareRb) \in S /\ Tail(prepareRb) \in Seq(S)
      /\ Len(Tail(prepareRb)) <= PrepareCapacity
  BY HeadTail DEF HandlePrepare
<1>1. CASE Len(sq) < Entries
  <2>0. sq' = Append(sq, Head(prepareRb)) /\ sq \in Seq(S)
    BY <1>1 DEF HandlePrepare
  <2>1. sq' \in Seq(S) /\ Len(sq') = Len(sq) + 1
    BY <1>0, <2>0
  <2>2. chains = <<>> /\ chains' = chains /\ cq' = cq /\ dpc' = dpc
    BY DEF HandlePrepare
  <2>3. exiting = 0 => batchCount' = Len(sq')
    BY <1>1, <2>1 DEF HandlePrepare
  <2> QED BY <1>0, <1>1, <2>1, <2>2, <2>3 DEF HandlePrepare
<1>2. CASE ~(Len(sq) < Entries)
  BY <1>0, <1>2 DEF HandlePrepare
<1> QED BY <1>1, <1>2

\* A submit record: every SQE counted goes to the kernel as one chain.
LEMMA InvHandleSubmit ==
    ASSUME NEW S, NEW T, DaemonInv(S, T), HandleSubmitEmpty \/ HandleSubmit
    PROVE  DaemonInv(S, T)'
<1>1. CASE HandleSubmitEmpty
  BY <1>1, HeadTail DEF HandleSubmitEmpty, daemon, uring
<1>2. CASE HandleSubmit /\ sq = <<>>
  BY <1>2 DEF HandleSubmit, rings, Chain, InKernel
<1>3. CASE HandleSubmit /\ sq # <<>>
  <2>1. chains = <<>>
    BY <1>3
  <2>2. chains' = <<sq>>
    BY <1>3, <2>1 DEF HandleSubmit
  <2>3. chains' \in Seq(Seq(S)) /\ Len(chains') = 1 /\ chains'[1] = sq
    BY <2>2
  <2> QED
    BY <1>3, <2>1, <2>2, <2>3 DEF HandleSubmit, rings, Chain, InKernel
<1> QED BY <1>1, <1>2, <1>3

\* The wait: a completion is seen, or the batch is complete and reset.
LEMMA InvWait ==
    ASSUME NEW S, NEW T, DaemonInv(S, T), WaitCqe \/ WaitDone
    PROVE  DaemonInv(S, T)'
<1>1. CASE WaitCqe
  <2>1. InKernel' = InKernel
    BY <1>1 DEF WaitCqe, Chain, InKernel
  <2> QED BY <1>1, <2>1, ChainShape DEF WaitCqe, rings
<1>2. CASE WaitDone
  <2>1. Tail(submitRb) \in Seq(T) /\ Len(Tail(submitRb)) <= SubmitCapacity
    BY <1>2, HeadTail DEF WaitDone
  <2>2. exiting = 0 => chains = <<>> /\ cq = 0
    BY <1>2, ChainShape DEF WaitDone
  <2> QED BY <1>2, <2>1, <2>2 DEF WaitDone, uring
<1> QED BY <1>1, <1>2

\* An interrupt, after which the accounting is no longer claimed.
LEMMA InvSigint ==
    ASSUME NEW S, NEW T, DaemonInv(S, T), Sigint
    PROVE  DaemonInv(S, T)'
<1>1. CASE submitRb' = submitRb
  BY <1>1 DEF Sigint, uring
<1>2. CASE submitRb' = Tail(submitRb) /\ dpc = "wait"
  <2>1. Tail(submitRb) \in Seq(T) /\ Len(Tail(submitRb)) <= SubmitCapacity
    BY <1>2, HeadTail
  <2>2. exiting' = 1
    BY DEF Sigint
  <2>3. dpc' = "submit"
    BY <1>2 DEF Sigint
  <2> QED BY <1>2, <2>1, <2>2, <2>3 DEF Sigint, uring
<1> QED BY <1>1, <1>2 DEF Sigint

\* A read that completes, or fails and cancels the rest of its chain.
LEMMA InvKernel ==
    ASSUME NEW S, NEW T, DaemonInv(S, T), Kernel
    PROVE  DaemonInv(S, T)'
<1>a. PICK c \in DOMAIN chains : CompleteRead(c) \/ FailRead(c)
  BY DEF Kernel
<1>b. /\ chains \in Seq(Seq(S)) /\ Len(chains) <= 1
      /\ performed \in Seq(S) /\ cq \in Nat
      /\ \A d \in DOMAIN chains : chains[d] # <<>>
  OBVIOUS
<1>c. /\ c = 1 /\ Len(chains) = 1
      /\ chains[1] \in Seq(S) /\ chains[1] # <<>>
  BY <1>b, OneElement
<1>d. chains # <<>> /\ InKernel = Len(chains[1])
  <2>1. chains # <<>>
    <3>1. Len(<<>>) = 0 /\ 0 # 1
      OBVIOUS
    <3> QED BY <1>c, <3>1, Zenon
  <2> QED BY <2>1 DEF Chain, InKernel
<1>e. waited \in Nat /\ cq \in Nat /\ InKernel \in Nat
  BY <1>c, <1>d
<1>1. CASE CompleteRead(c)
  <2> DEFINE rest == Tail(chains[1])
  <2>1. /\ rest \in Seq(S) /\ Len(rest) = Len(chains[1]) - 1
        /\ Head(chains[1]) \in S
    BY <1>c, HeadTail
  <2>2. /\ performed' = Append(performed, Head(chains[1])) /\ cq' = cq + 1
        /\ chains' = ChainRest(1, rest)
    BY <1>1, <1>c DEF CompleteRead
  <2>3. performed' \in Seq(S)
    BY <1>b, <2>1, <2>2
  <2> HIDE DEF rest
  <2>4. \/ rest = <<>> /\ chains' = <<>>
        \/ /\ rest # <<>> /\ chains' \in Seq(Seq(S))
           /\ Len(chains') = 1 /\ chains'[1] = rest
    BY <1>b, <1>c, <2>1, <2>2, ChainRestOne
  <2>5. /\ chains' \in Seq(Seq(S)) /\ Len(chains') <= 1
        /\ \A d \in DOMAIN chains' : chains'[d] # <<>>
    <3>1. CASE chains' = <<>>
      BY <3>1
    <3>2. CASE Len(chains') = 1 /\ chains'[1] = rest /\ rest # <<>>
               /\ chains' \in Seq(Seq(S))
      BY <3>2, OneElement
    <3> QED BY <2>4, <3>1, <3>2
  <2>6. InKernel' = InKernel - 1
    <3>1. Chain' = rest
      <4>1. CASE rest = <<>> /\ chains' = <<>>
        BY <4>1 DEF Chain
      <4>2. CASE Len(chains') = 1 /\ chains'[1] = rest
        <5>1. chains' # <<>>
          BY <4>2, EmptySeq
        <5> QED BY <4>2, <5>1 DEF Chain
      <4> QED BY <2>4, <4>1, <4>2
    <3> QED BY <1>d, <2>1, <3>1 DEF InKernel
  <2>7. sq = <<>> /\ sq' = sq /\ UNCHANGED <<daemon, rings>>
    BY <1>1, <1>d DEF CompleteRead
  <2>8. cq' + InKernel' = cq + InKernel /\ cq' \in Nat /\ InKernel' \in Nat
    <3>1. InKernel \in Nat /\ InKernel > 0
      BY <1>c, <1>d, HeadTail
    <3>2. cq \in Nat /\ cq' = cq + 1 /\ InKernel' = InKernel - 1
      BY <1>e, <2>2, <2>6
    <3> HIDE DEF DaemonInv
    <3> QED BY <3>1, <3>2
  <2>t. DaemonTypes(S, T)'
    BY <2>5, <2>3, <2>7, <2>8 DEF daemon, rings
  <2>r. RecordHeld' /\ OneChain'
    BY <1>d, <2>5, <2>7 DEF daemon, rings
  <2>c. BatchAccounted'
    <3>1. exiting = 0 => dpc = "wait" /\ batchCount = waited + (cq + InKernel)
      BY <1>d
    <3>2. waited + (cq' + InKernel') = waited + (cq + InKernel)
      BY <1>e, <2>8
    <3> QED BY <1>d, <2>5, <2>7, <3>1, <3>2 DEF daemon, rings
  <2> QED BY <2>t, <2>r, <2>c
<1>2. CASE FailRead(c)
  <2>1. /\ performed' = Append(performed, Head(chains[1]))
        /\ cq' = cq + Len(chains[1]) /\ chains' = ChainRest(1, <<>>)
    BY <1>2, <1>c DEF FailRead
  <2>2. performed' \in Seq(S)
    BY <1>b, <1>c, <2>1, HeadTail
  <2>3. chains' = <<>>
    BY <1>b, <1>c, <2>1, ChainRestOne, EmptySeq
  <2>4. InKernel' = 0
    BY <2>3 DEF Chain, InKernel
  <2>5. sq = <<>> /\ sq' = sq /\ UNCHANGED <<daemon, rings>>
    BY <1>2, <1>d DEF FailRead
  <2>6. cq' + InKernel' = cq + InKernel /\ cq' \in Nat /\ InKernel' \in Nat
    BY <1>b, <1>c, <1>d, <2>1, <2>4
  <2>t. DaemonTypes(S, T)'
    BY <2>3, <2>2, <2>5, <2>6 DEF daemon, rings
  <2>r. RecordHeld' /\ OneChain'
    BY <1>d, <2>3, <2>5 DEF daemon, rings
  <2>c. BatchAccounted'
    <3>1. exiting = 0 => dpc = "wait" /\ batchCount = waited + (cq + InKernel)
      BY <1>d
    <3>2. waited + (cq' + InKernel') = waited + (cq + InKernel)
      BY <1>e, <2>6
    <3> QED BY <1>d, <2>3, <2>5, <3>1, <3>2 DEF daemon, rings
  <2> QED BY <2>t, <2>r, <2>c
<1> QED BY <1>a, <1>1, <1>2

\* Every step of the daemon, the user and the kernel keeps the invariant; ...
LEMMA InvDaemon ==
    ASSUME NEW S, NEW T, DaemonInv(S, T), DaemonStep \/ Kernel \/ Sigint
    PROVE  DaemonInv(S, T)'
BY InvPoll, InvHandlePrepare, InvHandleSubmit, InvWait, InvKernel, InvSigint
   DEF DaemonStep

\* ... so does a record of a read from a probe, ...
LEMMA InvOutputPrepare ==
    ASSUME NEW S, NEW T, DaemonInv(S, T), NEW r \in S, OutputPrepare(r),
           UNCHANGED <<submitRb, daemon, uring>>
    PROVE  DaemonInv(S, T)'
<1>1. prepareRb \in Seq(S) /\ Len(prepareRb) <= PrepareCapacity
  OBVIOUS
<1>2. prepareRb' = Output(prepareRb, PrepareCapacity, r)
  BY DEF OutputPrepare
<1>3. prepareRb' \in Seq(S) /\ Len(prepareRb') <= PrepareCapacity
  BY <1>1, <1>2, OutputType
<1>4. InKernel' = InKernel
  BY DEF uring, Chain, InKernel
<1> QED BY <1>3, <1>4 DEF daemon, uring

\* ... and a record of a batch.
LEMMA InvOutputSubmit ==
    ASSUME NEW S, NEW T, DaemonInv(S, T), NEW r \in T, OutputSubmit(r),
           UNCHANGED <<prepareRb, daemon, uring>>
    PROVE  DaemonInv(S, T)'
<1>1. submitRb \in Seq(T) /\ Len(submitRb) <= SubmitCapacity
  OBVIOUS
<1>2. submitRb' = Output(submitRb, SubmitCapacity, r)
  BY DEF OutputSubmit
<1>3. submitRb' \in Seq(T) /\ Len(submitRb') <= SubmitCapacity
  BY <1>1, <1>2, OutputType
<1>4. submitRb # <<>> => submitRb' # <<>>
  <2>1. CASE submitRb' = submitRb
    BY <2>1
  <2>2. CASE submitRb' = Append(submitRb, r)
    <3>1. Len(submitRb') = Len(submitRb) + 1 /\ Len(submitRb) \in Nat
      BY <1>1, <2>2, AppendProperties
    <3>2. Len(submitRb') # 0
      BY <3>1
    <3> QED BY <1>3, <3>2, EmptySeq
  <2> QED BY <1>2, <2>1, <2>2 DEF Output
<1>5. InKernel' = InKernel
  BY DEF uring, Chain, InKernel
<1> QED BY <1>3, <1>4, <1>5 DEF daemon, uring

\* The invariant holds at the start and rests when nothing moves.
LEMMA InvStart ==
    ASSUME NEW S, NEW T
    PROVE  /\ RingsInit /\ DaemonInit => DaemonInv(S, T)
           /\ DaemonInv(S, T) /\ UNCHANGED <<rings, daemon, uring>>
              => DaemonInv(S, T)'
<1>1. RingsInit /\ DaemonInit => DaemonInv(S, T)
  BY DEF RingsInit, DaemonInit
<1>2. DaemonInv(S, T) /\ UNCHANGED <<rings, daemon, uring>> => DaemonInv(S, T)'
  BY DEF rings, daemon, uring, Chain, InKernel
<1> QED BY <1>1, <1>2

-----------------------------------------------------------------------------
(***************************************************************************)
(* What a step does to the queue of reads: the moves of ReadQueue, read on *)
(* PendingReads and performed.                                             *)
(***************************************************************************)
HIDE DEF DaemonPC, RecordHeld, BatchAccounted

Requests(r) == PendingReads' = Append(PendingReads, r) /\ performed' = performed

Performs(n) ==
    /\ n \in 1..Len(PendingReads)
    /\ performed' = Append(performed, PendingReads[1])
    /\ PendingReads' = SubSeq(PendingReads, n + 1, Len(PendingReads))

Drops(i) ==
    /\ Len(PendingReads) > Entries /\ i \in 1..Len(PendingReads)
    /\ PendingReads' = SubSeq(PendingReads, 1, i - 1)
                       \o SubSeq(PendingReads, i + 1, Len(PendingReads))
    /\ performed' = performed

\* The three parts of the queue are sequences of reads.
LEMMA PendingParts ==
    ASSUME NEW S, NEW T, DaemonInv(S, T)
    PROVE  /\ Chain \in Seq(S) /\ sq \in Seq(S) /\ prepareRb \in Seq(S)
           /\ Chain \o sq \in Seq(S) /\ PendingReads \in Seq(S)
           /\ PendingReads = (Chain \o sq) \o prepareRb
<1>1. Chain \in Seq(S) /\ sq \in Seq(S) /\ prepareRb \in Seq(S)
  BY ChainShape
<1>2. Chain \o sq \in Seq(S)
  BY <1>1
<1>3. PendingReads = (Chain \o sq) \o prepareRb
  BY DEF PendingReads
<1> QED BY <1>1, <1>2, <1>3

\* A prepare record is a request, or is refused by a full ring buffer.
LEMMA FifoOutput ==
    ASSUME NEW S, NEW T, DaemonInv(S, T), NEW r \in S, OutputPrepare(r),
           UNCHANGED uring
    PROVE  Requests(r) \/ UNCHANGED <<PendingReads, performed>>
<1>1. Chain' = Chain /\ sq' = sq /\ performed' = performed
  BY DEF uring, Chain
<1>2. PendingReads' = (Chain \o sq) \o prepareRb'
  BY <1>1 DEF PendingReads
<1>3. CASE prepareRb' = Append(prepareRb, r)
  <2> DEFINE a == Chain \o sq
             b == prepareRb
  <2>1. PendingReads = a \o b /\ PendingReads' = a \o Append(b, r)
    BY <1>2, <1>3, PendingParts
  <2>2. a \in Seq(S) /\ b \in Seq(S)
    BY PendingParts
  <2> HIDE DEF a, b
  <2>3. a \o Append(b, r) = Append(a \o b, r)
    <3> HIDE DEF DaemonInv
    <3> QED BY <2>2, AppendLast
  <2> QED BY <1>1, <2>1, <2>3 DEF Requests
<1>4. CASE prepareRb' = prepareRb
  BY <1>1, <1>2, <1>4, PendingParts
<1> QED BY <1>3, <1>4 DEF OutputPrepare, Output

\* Handling a prepare record moves a read from one part of the queue to the
\* next, or drops it when the submission ring is full.
LEMMA FifoPrepare ==
    ASSUME NEW S, NEW T, DaemonInv(S, T), HandlePrepare
    PROVE  (\E i \in 1..Len(PendingReads) : Drops(i))
           \/ UNCHANGED <<PendingReads, performed>>
<1>1. /\ chains = <<>> /\ chains' = chains /\ performed' = performed
      /\ prepareRb # <<>> /\ prepareRb' = Tail(prepareRb)
  BY DEF HandlePrepare
<1>2. Chain = <<>> /\ Chain' = <<>>
  BY <1>1 DEF Chain
<1>3. PendingReads = sq \o prepareRb /\ PendingReads' = sq' \o Tail(prepareRb)
  <2>1. <<>> \o sq = sq
    BY PendingParts
  <2>2. CASE sq' = sq
    BY <1>1, <1>2, <2>1, <2>2 DEF PendingReads
  <2>3. CASE sq' = Append(sq, Head(prepareRb))
    <3>1. <<>> \o sq' = sq'
      BY <1>1, <2>3, PendingParts, HeadTail
    <3> QED BY <1>1, <1>2, <2>1, <3>1 DEF PendingReads
  <2> QED BY <2>2, <2>3 DEF HandlePrepare
<1>4. CASE Len(sq) < Entries
  <2>1. sq' = Append(sq, Head(prepareRb))
    BY <1>4 DEF HandlePrepare
  <2> QED BY <1>1, <1>3, <2>1, PendingParts, MoveHead
<1>5. CASE ~(Len(sq) < Entries)
  <2> DEFINE i == Len(sq) + 1
  <2>1. sq' = sq
    BY <1>5 DEF HandlePrepare
  <2>2. PendingReads' = SubSeq(PendingReads, 1, i - 1)
                        \o SubSeq(PendingReads, i + 1, Len(PendingReads))
    <3>1. i - 1 = Len(sq) /\ i + 1 = Len(sq) + 2
      BY PendingParts
    <3>2. PendingReads' = SubSeq(PendingReads, 1, Len(sq))
                          \o SubSeq(PendingReads, Len(sq) + 2, Len(PendingReads))
      BY <1>1, <1>3, <2>1, PendingParts, DropHead
    <3> QED BY <3>1, <3>2
  <2>3. Len(PendingReads) > Entries /\ i \in 1..Len(PendingReads)
    <3>1. /\ Len(PendingReads) = Len(sq) + Len(prepareRb)
          /\ Len(sq) \in Nat /\ Len(prepareRb) \in Nat
      <4>1. sq \in Seq(S) /\ prepareRb \in Seq(S)
        BY PendingParts
      <4> QED BY <1>3, <4>1, ConcatProperties, LenProperties
    <3>2. Len(prepareRb) > 0
      BY <1>1, PendingParts, HeadTail
    <3>3. Len(sq) = Entries
      BY <1>5, <3>1
    <3> QED BY <3>1, <3>2, <3>3
  <2>4. Drops(i)
    BY <1>1, <2>2, <2>3 DEF Drops
  <2> QED BY <2>3, <2>4
<1> QED BY <1>4, <1>5

\* Submitting turns the SQEs into the chain: the queue is the same.
LEMMA FifoSubmit ==
    ASSUME NEW S, NEW T, DaemonInv(S, T), HandleSubmit
    PROVE  UNCHANGED <<PendingReads, performed>>
<1>1. CASE sq = <<>>
  BY <1>1 DEF HandleSubmit, PendingReads, Chain, rings
<1>2. CASE sq # <<>>
  <2>1. chains = <<>>
    BY <1>2
  <2>2. chains' = <<sq>> /\ sq' = <<>> /\ prepareRb' = prepareRb
    BY <1>2, <2>1 DEF HandleSubmit, rings
  <2>3. PendingReads' = (sq \o <<>>) \o prepareRb
    BY <2>2 DEF PendingReads, Chain
  <2>4. PendingReads = (<<>> \o sq) \o prepareRb
    BY <2>1 DEF PendingReads, Chain
  <2>5. sq \o <<>> = sq /\ <<>> \o sq = sq
    BY PendingParts
  <2> QED BY <2>3, <2>4, <2>5 DEF HandleSubmit
<1> QED BY <1>1, <1>2

\* A read that ends takes itself, or all of its chain, off the queue.
LEMMA FifoKernel ==
    ASSUME NEW S, NEW T, DaemonInv(S, T), Kernel
    PROVE  \E n \in 1..Len(PendingReads) : Performs(n)
<1>1. PICK c \in DOMAIN chains : CompleteRead(c) \/ FailRead(c)
  BY DEF Kernel
<1>2. /\ chains \in Seq(Seq(S)) /\ Len(chains) <= 1
      /\ \A d \in DOMAIN chains : chains[d] # <<>>
  OBVIOUS
<1>3. /\ c = 1 /\ Len(chains) = 1
      /\ chains[1] \in Seq(S) /\ chains[1] # <<>>
  BY <1>1, <1>2, OneElement
<1>4. chains # <<>> /\ sq = <<>>
  <2>1. chains # <<>>
    <3>1. Len(<<>>) = 0 /\ 0 # 1
      OBVIOUS
    <3> QED BY <1>3, <3>1, Zenon
  <2> QED BY <2>1
<1>5. /\ PendingReads = chains[1] \o prepareRb /\ prepareRb \in Seq(S)
      /\ sq' = <<>> /\ prepareRb' = prepareRb
  <2>1. chains[1] \o <<>> = chains[1]
    BY <1>3
  <2> QED BY <1>1, <1>4, <2>1, PendingParts
          DEF PendingReads, Chain, CompleteRead, FailRead, rings
<1>6. /\ 1 \in 1..Len(chains[1]) /\ Len(chains[1]) \in 1..Len(chains[1])
      /\ Len(chains[1]) <= Len(PendingReads)
      /\ Len(PendingReads) \in Nat /\ Len(chains[1]) \in Nat
  <2>1. Len(chains[1]) \in Nat /\ Len(chains[1]) > 0 /\ Len(prepareRb) \in Nat
    BY <1>3, <1>5, HeadTail
  <2>2. Len(PendingReads) = Len(chains[1]) + Len(prepareRb)
    BY <1>3, <1>5, ConcatProperties
  <2> QED BY <2>1, <2>2
<1>7. performed' = Append(performed, PendingReads[1])
  <2>1. performed' = Append(performed, Head(chains[1]))
    BY <1>1, <1>3 DEF CompleteRead, FailRead
  <2>2. PendingReads[1] = chains[1][1] /\ Head(chains[1]) = chains[1][1]
    BY <1>3, <1>5, <1>6, TakeFront, HeadTail
  <2> QED BY <2>1, <2>2
<1>8. CASE CompleteRead(c)
  <2>1. PendingReads' = Tail(chains[1]) \o prepareRb
    <3>1. Tail(chains[1]) \in Seq(S) /\ chains' = ChainRest(1, Tail(chains[1]))
      BY <1>3, <1>8, HeadTail DEF CompleteRead
    <3>a. \/ Tail(chains[1]) = <<>> /\ chains' = <<>>
          \/ Len(chains') = 1 /\ chains'[1] = Tail(chains[1])
      BY <1>2, <1>3, <3>1, ChainRestOne
    <3>2. Chain' = Tail(chains[1])
      <4>1. CASE Tail(chains[1]) = <<>> /\ chains' = <<>>
        BY <4>1 DEF Chain
      <4>2. CASE Len(chains') = 1 /\ chains'[1] = Tail(chains[1])
        <5>1. chains' # <<>>
          BY <4>2, EmptySeq
        <5> QED BY <4>2, <5>1 DEF Chain
      <4> QED BY <3>a, <4>1, <4>2
    <3>3. Tail(chains[1]) \o <<>> = Tail(chains[1])
      BY <3>1
    <3>4. PendingReads' = (Chain' \o sq') \o prepareRb'
      BY DEF PendingReads
    <3> QED BY <1>5, <3>2, <3>3, <3>4
  <2>2. Tail(chains[1]) = SubSeq(chains[1], 2, Len(chains[1]))
    BY <1>3, TailIsSubSeq
  <2>3. PendingReads' = SubSeq(PendingReads, 2, Len(PendingReads))
    <3>1. \A n \in 1..Len(chains[1]) :
             SubSeq(PendingReads, n + 1, Len(PendingReads))
             = SubSeq(chains[1], n + 1, Len(chains[1])) \o prepareRb
      <4> SUFFICES ASSUME NEW n \in 1..Len(chains[1])
                   PROVE  SubSeq(PendingReads, n + 1, Len(PendingReads))
                          = SubSeq(chains[1], n + 1, Len(chains[1])) \o prepareRb
        OBVIOUS
      <4>1. /\ chains[1] \in Seq(S) /\ prepareRb \in Seq(S)
            /\ PendingReads = chains[1] \o prepareRb
        BY <1>3, <1>5
      <4> QED BY <4>1, TakeFront
    <3>2. SubSeq(PendingReads, 2, Len(PendingReads))
          = SubSeq(chains[1], 2, Len(chains[1])) \o prepareRb
      <4>1. 1 + 1 = 2 /\ 1 \in 1..Len(chains[1])
        BY <1>6
      <4>2. SubSeq(PendingReads, 1 + 1, Len(PendingReads))
            = SubSeq(chains[1], 1 + 1, Len(chains[1])) \o prepareRb
        BY <3>1, <4>1, Zenon
      <4> QED BY <4>1, <4>2, Zenon
    <3> QED BY <2>1, <2>2, <3>2
  <2>4. Performs(1)
    BY <1>6, <1>7, <2>3 DEF Performs
  <2> QED BY <1>6, <2>4
<1>9. CASE FailRead(c)
  <2> DEFINE n == Len(chains[1])
  <2>1. PendingReads' = <<>> \o prepareRb
    <3>1. chains' = ChainRest(1, <<>>)
      BY <1>3, <1>9 DEF FailRead
    <3>2. chains' = <<>>
      BY <1>2, <1>3, <3>1, ChainRestOne, EmptySeq
    <3>3. PendingReads' = (<<>> \o sq') \o prepareRb'
      BY <3>2 DEF PendingReads, Chain
    <3> QED BY <1>5, <3>3
  <2>2. SubSeq(chains[1], n + 1, n) = <<>>
    BY <1>6, SubSeqEmpty
  <2>3. PendingReads' = SubSeq(PendingReads, n + 1, Len(PendingReads))
    BY <1>3, <1>5, <1>6, <2>1, <2>2, TakeFront
  <2>4. n \in 1..Len(PendingReads)
    BY <1>6
  <2>5. Performs(n)
    BY <1>7, <2>3, <2>4 DEF Performs
  <2> QED BY <2>4, <2>5
<1> QED BY <1>1, <1>8, <1>9

\* The other steps leave the reads pending and the reads performed as they are.
LEMMA FifoStutter ==
    ASSUME \/ Loop \/ PollPrepare \/ PrepareDrained \/ PollSubmit
           \/ SubmitDrained \/ HandleSubmitEmpty \/ WaitCqe \/ WaitDone
           \/ Sigint
    PROVE  UNCHANGED <<PendingReads, performed>>
<1>1. UNCHANGED <<chains, sq, prepareRb, performed>>
  BY DEF Loop, PollPrepare, PrepareDrained, PollSubmit, SubmitDrained,
         HandleSubmitEmpty, WaitCqe, WaitDone, Sigint, rings, uring, daemon
<1> QED BY <1>1 DEF PendingReads, Chain

\* All that the daemon, the user and the kernel do to the queue.
LEMMA FifoDaemon ==
    ASSUME NEW S, NEW T, DaemonInv(S, T), DaemonStep \/ Kernel \/ Sigint
    PROVE  \/ \E n \in 1..Len(PendingReads) : Performs(n)
           \/ \E i \in 1..Len(PendingReads) : Drops(i)
           \/ UNCHANGED <<PendingReads, performed>>
BY FifoPrepare, FifoSubmit, FifoKernel, FifoStutter DEF DaemonStep
HIDE DEF DaemonInv, DaemonTypes, OneChain

-----------------------------------------------------------------------------
(***************************************************************************)
(* The daemon with any probes.                                             *)
(***************************************************************************)
Numbers == 1..MaxRecords

IInv == /\ prepared \in 0..MaxRecords /\ submitted \in 0..MaxRecords
        /\ DaemonInv(Numbers, Numbers)

\* The probes of PreadDaemonEnv only output.
LEMMA InvOutput ==
    ASSUME IInv, OutputPread \/ OutputBatch
    PROVE  IInv'
<1> USE EnvAssumption DEF IInv, Numbers
<1>1. CASE OutputPread
  <2>1. prepared + 1 \in Numbers /\ prepared' \in 0..MaxRecords
    BY <1>1 DEF OutputPread
  <2> QED BY <1>1, <2>1, InvOutputPrepare DEF OutputPread
<1>2. CASE OutputBatch
  <2>1. submitted + 1 \in Numbers /\ submitted' \in 0..MaxRecords
    BY <1>2 DEF OutputBatch
  <2> QED BY <1>2, <2>1, InvOutputSubmit DEF OutputBatch
<1> QED BY <1>1, <1>2

\* The invariant the daemon's accounting rests on holds in every behaviour,
\* whatever the probes and the kernel do and wherever a SIGINT interrupts it.
THEOREM Accounting == Spec => []IInv
<1> USE EnvAssumption
<1>1. Init => IInv
  BY InvStart DEF Init, IInv
<1>2. IInv /\ UNCHANGED vars => IInv'
  BY InvStart DEF IInv, vars
<1>3. IInv /\ [Next]_vars => IInv'
  BY <1>2, InvDaemon, InvOutput DEF Next, IInv, Daemon, Io, CtrlC
<1> QED BY <1>1, <1>3, PTL DEF Spec

\* batch_count never disagrees with the requests prepared, under way and
\* completed until an interrupt: no wait is for a completion nobody posts.
THEOREM BatchAccountedAlways == Spec => []BatchAccounted
<1>1. IInv => BatchAccounted
  BY DEF IInv, DaemonInv
<1> QED BY <1>1, Accounting, PTL

\* Every variable keeps its type, no ring buffer exceeds its capacity and the
\* submission ring is never overfilled.
THEOREM Types == Spec => []TypeOK
<1>1. IInv => TypeOK
  BY DEF IInv, DaemonInv, TypeOK, Numbers
<1> QED BY <1>1, Accounting, PTL

\* Every behaviour of the daemon, with any probes, any failures of the reads
\* and any interrupts, is a behaviour of the queue of reads.
THEOREM DaemonIsReadQueue == Spec => IsReadQueue
<1>1. Init => Promise!Init
  BY DEF Init, RingsInit, DaemonInit, Promise!Init, PendingReads, Chain
<1>2. IInv /\ [Next]_vars => [Promise!Next]_<<PendingReads, performed>>
  <2> SUFFICES ASSUME IInv, [Next]_vars
               PROVE  Promise!Next \/ UNCHANGED <<PendingReads, performed>>
    OBVIOUS
  <2>1. DaemonInv(Numbers, Numbers)
    BY DEF IInv
  <2>2. CASE OutputPread
    <3>1. prepared + 1 \in Numbers
      BY <2>2, EnvAssumption DEF OutputPread, IInv, Numbers
    <3>2. Requests(prepared + 1) \/ UNCHANGED <<PendingReads, performed>>
      BY <2>1, <2>2, <3>1, FifoOutput DEF OutputPread
    <3> QED
      BY <3>1, <3>2 DEF Requests, Promise!Next, Promise!Request, Numbers
  <2>3. CASE Daemon \/ Io \/ CtrlC
    BY <2>1, <2>3, FifoDaemon
       DEF Daemon, Io, CtrlC, Performs, Drops, Promise!Next, Promise!Perform,
           Promise!Drop
  <2>4. CASE OutputBatch \/ UNCHANGED vars
    BY <2>4 DEF OutputBatch, vars, rings, uring, PendingReads, Chain
  <2> QED BY <2>2, <2>3, <2>4 DEF Next
<1> QED BY <1>1, <1>2, Accounting, PTL DEF Spec, IsReadQueue, Promise!Spec

-----------------------------------------------------------------------------
(***************************************************************************)
(* The daemon behind the probes of user.bpf.c, any number of threads.      *)
(* What the daemon needs of them is that every record is one it can read:  *)
(* a size of the client's, and a number no larger than the preads there    *)
(* were, although global_seq++ is a load and a store that overlap as they  *)
(* please.                                                                 *)
(***************************************************************************)
Words ==
    /\ processOf \in [Threads -> Pids] /\ tpc \in [Threads -> ThreadPC]
    /\ overridden \in {0, 1} /\ globalSeq \in Nat /\ preads \in 0..MaxPreads
    /\ reg \in [Threads -> Nat] /\ size \in [Threads -> Nat]
    /\ fdInfo \in [Pids -> Nat]
    /\ handed \in [Pids -> Nat] /\ skipped \in [Pids -> Nat]

Outputting == {"tell", "loadSeq", "storeSeq", "emit"}

Sized == \A t \in Threads : tpc[t] \in Outputting => size[t] \in Sizes

\* The threads in preadRaw that have not stored the next number yet.
Unnumbered == {t \in Threads : tpc[t] \in {"tell", "loadSeq", "storeSeq"}}

Numbered ==
    /\ IsFiniteSet(Unnumbered)
    /\ globalSeq + Cardinality(Unnumbered) <= preads
    /\ \A t \in Threads : /\ At(t, "storeSeq") =>
                                reg[t] + Cardinality(Unnumbered) <= preads
                          /\ At(t, "emit") => reg[t] <= MaxPreads

ProbeInv == Words /\ Sized /\ Numbered

\* The words keep their shapes, ...
LEMMA WordsStep ==
    ASSUME Words, NEW t \in Threads, ProbeStep(t)
    PROVE  /\ Words' /\ processOf' = processOf
           /\ \A u \in Threads \ {t} :
                tpc'[u] = tpc[u] /\ reg'[u] = reg[u] /\ size'[u] = size[u]
           /\ \A p \in Pids \ {Pid(t)} :
                skipped'[p] = skipped[p] /\ handed'[p] = handed[p]
<1> USE ProbesAssumption DEF Words, At, Goto, Pid, ThreadPC
<1>0. processOf' = processOf /\ processOf[t] \in Pids
  BY DEF ProbeStep
<1>1. CASE ReadS(t) \/ ReadSTell(t) \/ PreadRawPlain(t) \/ BatchSubmitPlain(t)
           \/ BatchSubmit(t) \/ BatchTest(t) \/ BatchReport(t) \/ BatchFlush(t)
           \/ BatchReset(t)
  BY <1>0, <1>1 DEF ReadS, ReadSTell, PreadRawPlain, BatchSubmitPlain,
                    BatchSubmit, BatchTest, BatchReport, BatchFlush, BatchReset,
                    shared, history
<1>2. CASE PreadRaw(t)
  <2>1. PICK n \in Sizes : size' = [size EXCEPT ![t] = n]
    BY <1>2 DEF PreadRaw
  <2> QED BY <1>0, <1>2, <2>1 DEF PreadRaw, shared
<1>3. CASE PreadTell(t)
  <2>1. overridden * size[t] \in Nat
    OBVIOUS
  <2>2. PICK m \in Nat : skipped' = [skipped EXCEPT ![Pid(t)] = @ + m]
    BY <1>3, <2>1 DEF PreadTell
  <2>3. /\ tpc' = [tpc EXCEPT ![t] = "loadSeq"]
        /\ UNCHANGED <<shared, reg, size, preads, handed>>
    BY <1>3 DEF PreadTell
  <2> QED BY <1>0, <2>2, <2>3 DEF shared
<1>4. CASE LoadSeq(t)
  BY <1>0, <1>4 DEF LoadSeq, shared, history
<1>5. CASE StoreSeq(t) \/ Lookup(t)
  BY <1>0, <1>5 DEF StoreSeq, Lookup, shared, history
<1>6. CASE Emit(t)
  BY <1>0, <1>6 DEF Emit, shared
<1>7. CASE LoadTotal(t)
  BY <1>0, <1>7 DEF LoadTotal, shared, history
<1>8. CASE StoreTotal(t) \/ Insert(t)
  BY <1>0, <1>8 DEF StoreTotal, Insert, history
<1> QED
  BY <1>1, <1>2, <1>3, <1>4, <1>5, <1>6, <1>7, <1>8 DEF ProbeStep

\* ... the numbers stay below the preads begun, since a thread that is about
\* to store one is counted, whatever it has loaded, ...
LEMMA NumberedStep ==
    ASSUME ProbeInv, NEW t \in Threads, ProbeStep(t)
    PROVE  ProbeInv'
<1> DEFINE N == Cardinality(Unnumbered)
<1>0. /\ Words /\ Words'
      /\ \A u \in Threads \ {t} :
           tpc'[u] = tpc[u] /\ reg'[u] = reg[u] /\ size'[u] = size[u]
  BY WordsStep DEF ProbeInv
<1>1. IsFiniteSet(Unnumbered) /\ N \in Nat
  BY FS_CardinalityType DEF ProbeInv, Numbered
<1>2. globalSeq + N <= preads /\ globalSeq \in Nat /\ preads \in Nat
      /\ preads' \in 0..MaxPreads /\ MaxPreads \in Nat
  BY <1>0, ProbesAssumption DEF ProbeInv, Numbered, Words
<1>3. \A u \in Threads : /\ reg[u] \in Nat
                         /\ tpc[u] = "storeSeq" => reg[u] + N <= preads
                         /\ tpc[u] = "emit" => reg[u] <= MaxPreads
                         /\ tpc[u] \in Outputting => size[u] \in Sizes
  BY <1>0 DEF ProbeInv, Numbered, Words, At, Sized
<1>4. CASE PreadRaw(t)
  <2>1. /\ tpc[t] = "idle" /\ tpc'[t] = "tell" /\ preads' = preads + 1
        /\ globalSeq' = globalSeq /\ size'[t] \in Sizes
    BY <1>0, <1>4 DEF PreadRaw, At, Goto, shared, Words
  <2>2. Unnumbered' = Unnumbered \cup {t} /\ t \notin Unnumbered
    BY <1>0, <2>1 DEF Unnumbered
  <2>3. IsFiniteSet(Unnumbered') /\ Cardinality(Unnumbered') = N + 1
    BY <1>1, <2>2, FS_AddElement
  <2>4. Numbered'
    BY <1>0, <1>1, <1>2, <1>3, <2>1, <2>3 DEF Numbered, At
  <2>5. Sized'
    BY <1>0, <1>3, <2>1 DEF Sized
  <2> QED BY <1>0, <2>4, <2>5 DEF ProbeInv
<1>5. CASE StoreSeq(t)
  <2>1. /\ tpc[t] = "storeSeq" /\ tpc'[t] = "emit" /\ preads' = preads
        /\ globalSeq' = reg[t] + 1 /\ size' = size /\ reg' = reg
    BY <1>0, <1>5 DEF StoreSeq, At, Goto, history, Words
  <2>2. Unnumbered' = Unnumbered \ {t} /\ t \in Unnumbered
    BY <1>0, <2>1 DEF Unnumbered
  <2>3. IsFiniteSet(Unnumbered') /\ Cardinality(Unnumbered') = N - 1
    BY <1>1, <2>2, FS_RemoveElement
  <2>4. Cardinality(Unnumbered') \in Nat
    BY <2>3, FS_CardinalityType
  <2>5. Numbered'
    BY <1>0, <1>1, <1>2, <1>3, <2>1, <2>3, <2>4 DEF Numbered, At
  <2>6. Sized'
    BY <1>0, <1>3, <2>1 DEF Sized, Outputting
  <2> QED BY <1>0, <2>5, <2>6 DEF ProbeInv
<1>6. CASE ~PreadRaw(t) /\ ~StoreSeq(t)
  <2>1. /\ preads' = preads /\ globalSeq' = globalSeq /\ size' = size
        /\ tpc'[t] = "storeSeq" => reg'[t] = globalSeq
        /\ tpc'[t] # "emit"
        /\ tpc'[t] \in {"tell", "loadSeq", "storeSeq"}
             <=> tpc[t] \in {"tell", "loadSeq", "storeSeq"}
    <3> USE <1>0, <1>6 DEF At, Goto, Words, shared, history
    <3>1. CASE ReadS(t) \/ ReadSTell(t) \/ PreadRawPlain(t)
               \/ BatchSubmitPlain(t) \/ BatchSubmit(t) \/ BatchFlush(t)
               \/ BatchReset(t)
      BY <3>1 DEF ReadS, ReadSTell, PreadRawPlain, BatchSubmitPlain,
                  BatchSubmit, BatchFlush, BatchReset
    <3>2. CASE PreadTell(t) \/ LoadSeq(t) \/ Emit(t)
      BY <3>2 DEF PreadTell, LoadSeq, Emit
    <3>3. CASE Lookup(t) \/ LoadTotal(t) \/ StoreTotal(t) \/ Insert(t)
               \/ BatchTest(t) \/ BatchReport(t)
      BY <3>3 DEF Lookup, LoadTotal, StoreTotal, Insert, BatchTest,
                  BatchReport
    <3> QED BY <3>1, <3>2, <3>3 DEF ProbeStep
  <2>2. Unnumbered' = Unnumbered
    BY <1>0, <2>1 DEF Unnumbered
  <2>3. Numbered'
    BY <1>0, <1>1, <1>2, <1>3, <2>1, <2>2 DEF Numbered, At
  <2>4. Sized'
    BY <1>0, <1>3, <2>1 DEF Sized, Outputting
  <2> QED BY <1>0, <2>3, <2>4 DEF ProbeInv
<1> QED BY <1>4, <1>5, <1>6

\* ... and so the rings hold only records that the daemon can read.
Emitted(t) == [pid |-> Pid(t), seq |-> reg[t], size |-> size[t]]

LEMMA ProbeRings ==
    ASSUME ProbeInv, NEW t \in Threads, ProbeStep(t)
    PROVE  \/ /\ Emit(t) /\ OutputPrepare(Emitted(t)) /\ submitRb' = submitRb
              /\ Emitted(t) \in PreadRecord
           \/ /\ OutputSubmit(Pid(t)) /\ Pid(t) \in Pids
              /\ UNCHANGED <<prepareRb, handed, skipped>> /\ ~Emit(t)
           \/ UNCHANGED rings /\ ~Emit(t)
<1>0. tpc[t] \in ThreadPC /\ Pid(t) \in Pids /\ reg[t] \in Nat
      /\ MaxPreads \in Nat
  BY ProbesAssumption DEF ProbeInv, Words, Pid
<1>1. CASE Emit(t)
  <2>1. size[t] \in Sizes /\ reg[t] \in 0..MaxPreads
    BY <1>0, <1>1 DEF ProbeInv, Sized, Numbered, Emit, At, Outputting
  <2>2. Emitted(t) \in PreadRecord
    BY <1>0, <2>1 DEF Emitted, PreadRecord
  <2> QED BY <1>1, <2>2 DEF Emit, Emitted
<1>2. CASE BatchFlush(t)
  BY <1>0, <1>2 DEF BatchFlush, Emit, At, history
<1>3. CASE ~Emit(t) /\ ~BatchFlush(t)
  BY <1>3 DEF ProbeStep, ReadS, ReadSTell, PreadRawPlain, PreadRaw, PreadTell,
              LoadSeq, StoreSeq, Lookup, LoadTotal, StoreTotal, Insert,
              BatchSubmitPlain, BatchSubmit, BatchTest, BatchReport, BatchReset
<1> QED BY <1>1, <1>2, <1>3

PipeInv == ProbeInv /\ DaemonInv(PreadRecord, Pids)

\* A step of the probes keeps the daemon's invariant.
LEMMA ProbesKeepDaemon ==
    ASSUME PipeInv, NEW t \in Threads, ProbeStep(t), UNCHANGED <<daemon, uring>>
    PROVE  DaemonInv(PreadRecord, Pids)'
<1>1. DaemonInv(PreadRecord, Pids) /\ ProbeInv
  BY DEF PipeInv
<1>2. CASE OutputPrepare(Emitted(t)) /\ submitRb' = submitRb
           /\ Emitted(t) \in PreadRecord
  BY <1>1, <1>2, InvOutputPrepare
<1>3. CASE OutputSubmit(Pid(t)) /\ Pid(t) \in Pids /\ UNCHANGED prepareRb
  BY <1>1, <1>3, InvOutputSubmit
<1>4. CASE UNCHANGED rings
  BY <1>1, <1>4, InvStart
<1> QED BY <1>1, <1>2, <1>3, <1>4, ProbeRings

LEMMA PipeStart == PipelineInit => PipeInv
<1> SUFFICES ASSUME PipelineInit PROVE PipeInv
  OBVIOUS
<1>1. DaemonInv(PreadRecord, Pids)
  BY InvStart DEF PipelineInit
<1>2. Words /\ \A t \in Threads : tpc[t] = "idle"
  BY ProbesAssumption DEF PipelineInit, ProbesInit, Words, ThreadPC, Absent
<1>3. Unnumbered = {}
  BY <1>2 DEF Unnumbered
<1>4. IsFiniteSet(Unnumbered) /\ Cardinality(Unnumbered) = 0
  BY <1>3, FS_EmptySet
<1>5. globalSeq = 0 /\ preads = 0
  BY DEF PipelineInit, ProbesInit
<1> QED
  BY <1>1, <1>2, <1>4, <1>5 DEF PipeInv, ProbeInv, Sized, Outputting, Numbered, At

LEMMA PipeStep == PipeInv /\ [PipelineNext]_pipeline => PipeInv'
<1> SUFFICES ASSUME PipeInv, [PipelineNext]_pipeline PROVE PipeInv'
  OBVIOUS
<1>1. ASSUME NEW t \in Threads, ProbeStep(t), UNCHANGED <<daemon, uring>>
      PROVE  PipeInv'
  BY <1>1, ProbesKeepDaemon, NumberedStep DEF PipeInv
<1>2. CASE UNCHANGED probes
           /\ (DaemonStep \/ Kernel \/ Sigint \/ UNCHANGED pipeline)
  <2>1. UNCHANGED <<processOf, tpc, overridden, globalSeq, preads, reg, size,
                    fdInfo, handed, skipped>>
    BY <1>2 DEF probes, shared, local, history
  <2>2. ProbeInv'
    BY <2>1 DEF PipeInv, ProbeInv, Words, Sized, Numbered, Unnumbered, At
  <2>3. CASE DaemonStep \/ Kernel \/ Sigint
    BY <2>2, <2>3, InvDaemon DEF PipeInv
  <2>4. CASE UNCHANGED pipeline
    BY <2>2, <2>4, InvStart DEF PipeInv, pipeline
  <2> QED BY <1>2, <2>3, <2>4
<1> QED BY <1>1, <1>2 DEF PipelineNext, pipeline

\* The invariant of the whole path: the probes' words and the daemon's books.
LEMMA PipeAlways == PipelineSpec => []PipeInv
BY PipeStart, PipeStep, PTL DEF PipelineSpec

\* Behind the probes, however many threads hit them, batch_count is what the
\* ring and the kernel hold, until the user interrupts the daemon.
THEOREM PipelineAccounted == PipelineSpec => []BatchAccounted
<1>1. PipeInv => BatchAccounted
  BY DEF PipeInv, DaemonInv
<1> QED BY <1>1, PipeAlways, PTL

\* What a step does to the reads, from the client's output to the kernel.
LEMMA PipeMoves ==
    ASSUME PipeInv, [PipelineNext]_pipeline
    PROVE  \/ \E t \in Threads : /\ ProbeStep(t) /\ Emit(t)
                                 /\ Emitted(t) \in PreadRecord
                                 /\ Requests(Emitted(t))
           \/ /\ \E t \in Threads : ProbeStep(t)
              /\ UNCHANGED <<PendingReads, performed>>
           \/ /\ UNCHANGED probes
              /\ \/ \E n \in 1..Len(PendingReads) : Performs(n)
                 \/ \E i \in 1..Len(PendingReads) : Drops(i)
                 \/ UNCHANGED <<PendingReads, performed>>
<1>0. ProbeInv /\ DaemonInv(PreadRecord, Pids)
  BY DEF PipeInv
<1>1. ASSUME NEW t \in Threads, ProbeStep(t), UNCHANGED <<daemon, uring>>
      PROVE  \/ /\ Emit(t) /\ Emitted(t) \in PreadRecord /\ Requests(Emitted(t))
             \/ UNCHANGED <<PendingReads, performed>>
  <2>1. CASE Emit(t) /\ OutputPrepare(Emitted(t)) /\ Emitted(t) \in PreadRecord
    BY <1>0, <1>1, <2>1, FifoOutput
  <2>2. CASE UNCHANGED prepareRb
    BY <1>1, <2>2 DEF uring, PendingReads, Chain
  <2> QED BY <1>0, <1>1, <2>1, <2>2, ProbeRings DEF rings
<1>2. CASE (DaemonStep \/ Kernel \/ Sigint) /\ UNCHANGED probes
  BY <1>0, <1>2, FifoDaemon
<1>3. CASE UNCHANGED pipeline
  BY <1>3 DEF pipeline, probes, rings, uring, PendingReads, Chain
<1> QED BY <1>1, <1>2, <1>3 DEF PipelineNext

\* For any number of client threads the probes, the ring buffers, the daemon
\* and the kernel together are a queue of reads.
THEOREM PipelineIsReadQueue == PipelineSpec => PipeIsReadQueue
<1>1. PipelineInit => Pipe!Init
  BY DEF PipelineInit, RingsInit, DaemonInit, Pipe!Init, PendingReads, Chain
<1>2. PipeInv /\ [PipelineNext]_pipeline
      => [Pipe!Next]_<<PendingReads, performed>>
  BY PipeMoves DEF Requests, Performs, Drops, Pipe!Next, Pipe!Request,
                   Pipe!Perform, Pipe!Drop
<1> QED
  BY <1>1, <1>2, PipeAlways, PTL DEF PipelineSpec, PipeIsReadQueue, Pipe!Spec

-----------------------------------------------------------------------------
(***************************************************************************)
(* The reads performed and under way, as one sequence: a step appends a    *)
(* new read or takes some out of the middle, and the others keep their     *)
(* order.                                                                  *)
(***************************************************************************)

\* u is s without n elements behind the first a.
Cut(u, s, a, n) ==
    /\ Len(u) = Len(s) - n
    /\ \A k \in 1..Len(u) : u[k] = s[IF k <= a THEN k ELSE k + n]

Thinned(u, s) == \E a, n \in Nat : Cut(u, s, a, n)

\* A read that is performed moves to the front; the rest of its chain goes.
LEMMA CutPerformed ==
    ASSUME NEW S, NEW d \in Seq(S), NEW q \in Seq(S), NEW n \in 1..Len(q)
    PROVE  Thinned(Append(d, q[1]) \o SubSeq(q, n + 1, Len(q)), d \o q)
<1> DEFINE e == Append(d, q[1])
           f == SubSeq(q, n + 1, Len(q))
           u == e \o f
           s == d \o q
<1>1. /\ Len(d) \in Nat /\ Len(q) \in Nat /\ n \in Nat /\ n >= 1 /\ n <= Len(q)
      /\ q[1] \in S
  OBVIOUS
<1>2. /\ e \in Seq(S) /\ Len(e) = Len(d) + 1
      /\ \A k \in 1..Len(e) : e[k] = IF k <= Len(d) THEN d[k] ELSE q[1]
  BY <1>1
<1>3. /\ f \in Seq(S) /\ Len(f) = Len(q) - n
      /\ \A k \in 1..Len(f) : f[k] = q[k + n]
  BY <1>1
<1> HIDE DEF e, f
<1>4. /\ Len(u) = Len(e) + Len(f)
      /\ \A k \in 1..Len(e) + Len(f) :
            u[k] = IF k <= Len(e) THEN e[k] ELSE f[k - Len(e)]
  BY <1>2, <1>3, ConcatProperties
<1>5. /\ Len(s) = Len(d) + Len(q)
      /\ \A k \in 1..Len(d) + Len(q) :
            s[k] = IF k <= Len(d) THEN d[k] ELSE q[k - Len(d)]
  BY ConcatProperties
<1> HIDE DEF u, s
<1>6. n - 1 \in Nat /\ Len(d) + 1 \in Nat /\ Len(u) = Len(s) - (n - 1)
  BY <1>1, <1>2, <1>3, <1>4, <1>5
<1>7. ASSUME NEW k \in 1..Len(u)
      PROVE  u[k] = s[IF k <= Len(d) + 1 THEN k ELSE k + (n - 1)]
  <2>0. k \in Nat /\ k >= 1 /\ k <= (Len(d) + 1) + (Len(q) - n)
    BY <1>1, <1>2, <1>3, <1>4
  <2>1. CASE k <= Len(d)
    <3>1. u[k] = e[k] /\ e[k] = d[k]
      BY <1>1, <1>2, <1>3, <1>4, <2>0, <2>1
    <3>2. s[k] = d[k] /\ k <= Len(d) + 1
      BY <1>1, <1>5, <2>0, <2>1
    <3> QED BY <3>1, <3>2
  <2>2. CASE k = Len(d) + 1
    <3>1. u[k] = e[k] /\ e[k] = q[1]
      <4>1. Len(f) \in Nat /\ k \in 1..Len(e) + Len(f) /\ k <= Len(e)
        BY <1>1, <1>2, <1>3, <2>0, <2>2
      <4>2. k \in 1..Len(e) /\ ~(k <= Len(d))
        BY <1>1, <1>2, <2>0, <2>2
      <4> QED BY <1>2, <1>4, <4>1, <4>2
    <3>2. s[k] = q[1]
      <4>1. /\ k \in 1..Len(d) + Len(q) /\ ~(k <= Len(d))
            /\ k - Len(d) = 1
        BY <1>1, <2>0, <2>2
      <4> QED BY <1>5, <4>1
    <3> QED BY <2>2, <3>1, <3>2
  <2>3. CASE k > Len(d) + 1
    <3>1. /\ u[k] = f[k - Len(e)] /\ k - Len(e) \in 1..Len(f)
      BY <1>1, <1>2, <1>3, <1>4, <2>0, <2>3
    <3>2. f[k - Len(e)] = q[(k - Len(e)) + n]
      BY <1>3, <3>1
    <3>3. s[k + (n - 1)] = q[(k + (n - 1)) - Len(d)]
      BY <1>1, <1>5, <2>0, <2>3
    <3>4. (k + (n - 1)) - Len(d) = (k - Len(e)) + n
      BY <1>1, <1>2, <2>0
    <3>5. ~(k <= Len(d) + 1)
      BY <1>1, <2>0, <2>3
    <3> QED BY <3>1, <3>2, <3>3, <3>4, <3>5
  <2> QED BY <1>1, <2>0, <2>1, <2>2, <2>3
<1> QED BY <1>6, <1>7 DEF Thinned, Cut, u, s, e, f

\* One that is dropped leaves a gap.
LEMMA CutDropped ==
    ASSUME NEW S, NEW d \in Seq(S), NEW q \in Seq(S), NEW i \in 1..Len(q)
    PROVE  Thinned(d \o (SubSeq(q, 1, i - 1) \o SubSeq(q, i + 1, Len(q))), d \o q)
<1> DEFINE g == SubSeq(q, 1, i - 1)
           h == SubSeq(q, i + 1, Len(q))
           f == g \o h
           u == d \o f
           s == d \o q
<1>1. Len(d) \in Nat /\ Len(q) \in Nat /\ i \in Nat /\ i >= 1 /\ i <= Len(q)
  OBVIOUS
<1>2. /\ g \in Seq(S) /\ Len(g) = i - 1 /\ \A k \in 1..Len(g) : g[k] = q[k]
  BY <1>1
<1>3. /\ h \in Seq(S) /\ Len(h) = Len(q) - i
      /\ \A k \in 1..Len(h) : h[k] = q[k + i]
  BY <1>1
<1> HIDE DEF g, h
<1>4. /\ f \in Seq(S) /\ Len(f) = Len(g) + Len(h)
      /\ \A k \in 1..Len(g) + Len(h) :
            f[k] = IF k <= Len(g) THEN g[k] ELSE h[k - Len(g)]
  BY <1>2, <1>3, ConcatProperties
<1> HIDE DEF f
<1>5. /\ Len(u) = Len(d) + Len(f)
      /\ \A k \in 1..Len(d) + Len(f) :
            u[k] = IF k <= Len(d) THEN d[k] ELSE f[k - Len(d)]
  BY <1>4, ConcatProperties
<1>6. /\ Len(s) = Len(d) + Len(q)
      /\ \A k \in 1..Len(d) + Len(q) :
            s[k] = IF k <= Len(d) THEN d[k] ELSE q[k - Len(d)]
  BY ConcatProperties
<1> HIDE DEF u, s
<1> DEFINE a == Len(d) + (i - 1)
<1>7. a \in Nat /\ Len(u) = Len(s) - 1 /\ Len(f) = Len(q) - 1
  BY <1>1, <1>2, <1>3, <1>4, <1>5, <1>6
<1>8. ASSUME NEW k \in 1..Len(u)
      PROVE  u[k] = s[IF k <= a THEN k ELSE k + 1]
  <2>0. k \in Nat /\ k >= 1 /\ k <= Len(d) + (Len(q) - 1)
    BY <1>1, <1>5, <1>7
  <2>1. CASE k <= Len(d)
    <3>1. u[k] = d[k] /\ s[k] = d[k] /\ k <= a
      BY <1>1, <1>5, <1>6, <1>7, <2>0, <2>1
    <3> QED BY <3>1
  <2>2. CASE k > Len(d) /\ k <= a
    <3>1. /\ u[k] = f[k - Len(d)] /\ s[k] = q[k - Len(d)]
          /\ k - Len(d) \in 1..(i - 1)
      BY <1>1, <1>5, <1>6, <1>7, <2>0, <2>2
    <3>2. f[k - Len(d)] = g[k - Len(d)] /\ k - Len(d) \in 1..Len(g)
      <4>1. k - Len(d) \in 1..Len(g)
        BY <1>2, <3>1
      <4>2. Len(h) \in Nat /\ Len(g) \in Nat
        BY <1>1, <1>2, <1>3
      <4>3. k - Len(d) \in 1..Len(g) + Len(h) /\ k - Len(d) <= Len(g)
        BY <4>1, <4>2
      <4> QED BY <1>4, <4>1, <4>3
    <3>3. g[k - Len(d)] = q[k - Len(d)]
      BY <1>2, <3>2
    <3> QED BY <2>2, <3>1, <3>2, <3>3
  <2>3. CASE k > a
    <3>1. u[k] = f[k - Len(d)] /\ s[k + 1] = q[(k + 1) - Len(d)]
      BY <1>1, <1>5, <1>6, <1>7, <2>0, <2>3
    <3>2. /\ f[k - Len(d)] = h[(k - Len(d)) - Len(g)]
          /\ (k - Len(d)) - Len(g) \in 1..Len(h)
      <4>1. k - Len(d) \in 1..Len(g) + Len(h) /\ ~(k - Len(d) <= Len(g))
        BY <1>1, <1>2, <1>3, <2>0, <2>3
      <4>2. (k - Len(d)) - Len(g) \in 1..Len(h)
        BY <1>1, <1>2, <1>3, <2>0, <2>3
      <4> QED BY <1>4, <4>1, <4>2
    <3>3. h[(k - Len(d)) - Len(g)] = q[((k - Len(d)) - Len(g)) + i]
      BY <1>3, <3>2
    <3>4. ((k - Len(d)) - Len(g)) + i = (k + 1) - Len(d)
      BY <1>1, <1>2, <2>0
    <3>5. ~(k <= a)
      BY <1>7, <2>0, <2>3
    <3> QED BY <3>1, <3>2, <3>3, <3>4, <3>5
  <2> QED BY <1>1, <1>7, <2>0, <2>1, <2>2, <2>3
<1>9. Cut(u, s, a, 1)
  BY <1>7, <1>8 DEF Cut
<1> QED BY <1>7, <1>9 DEF Thinned, u, s, f, g, h

\* What a step does to the reads performed and under way.
LEMMA UnderWayMoves ==
    ASSUME PipeInv, [PipelineNext]_pipeline
    PROVE  /\ UnderWay \in Seq(PreadRecord) /\ UnderWay' \in Seq(PreadRecord)
           /\ \/ \E t \in Threads : /\ ProbeStep(t) /\ Emit(t)
                                    /\ Emitted(t) \in PreadRecord
                                    /\ UnderWay' = Append(UnderWay, Emitted(t))
              \/ (\E t \in Threads : ProbeStep(t)) /\ UnderWay' = UnderWay
              \/ UNCHANGED probes /\ Thinned(UnderWay', UnderWay)
<1> DEFINE S == PreadRecord
<1>1. performed \in Seq(S) /\ PendingReads \in Seq(S)
  BY PendingParts DEF PipeInv, DaemonInv, DaemonTypes
<1>2. performed' \in Seq(S) /\ PendingReads' \in Seq(S)
  <2>1. DaemonInv(S, Pids)'
    BY PipeStep DEF PipeInv
  <2>2. /\ performed' \in Seq(S) /\ chains' \in Seq(Seq(S))
        /\ sq' \in Seq(S) /\ prepareRb' \in Seq(S)
    BY <2>1 DEF DaemonInv, DaemonTypes
  <2>3. Chain' \in Seq(S)
    <3>1. CASE chains' = <<>>
      BY <3>1 DEF Chain
    <3>2. CASE chains' # <<>>
      <4>1. chains'[1] \in Seq(S)
        BY <2>2, <3>2
      <4> QED BY <3>2, <4>1 DEF Chain
    <3> QED BY <3>1, <3>2
  <2>4. Chain' \o sq' \in Seq(S)
    BY <2>2, <2>3, ConcatProperties
  <2> QED BY <2>2, <2>4, ConcatProperties DEF PendingReads
<1> HIDE DEF S
<1>3. UnderWay \in Seq(S) /\ UnderWay' \in Seq(S)
  BY <1>1, <1>2, ConcatProperties DEF UnderWay
<1>4. ASSUME NEW t \in Threads, Emitted(t) \in S, Requests(Emitted(t))
      PROVE  UnderWay' = Append(UnderWay, Emitted(t))
  BY <1>1, <1>4, AppendLast DEF Requests, UnderWay
<1>5. ASSUME UNCHANGED <<PendingReads, performed>>
      PROVE  UnderWay' = UnderWay /\ Thinned(UnderWay', UnderWay)
  <2>1. UnderWay' = UnderWay /\ Len(UnderWay) \in Nat
    BY <1>3, <1>5 DEF UnderWay
  <2>2. Cut(UnderWay, UnderWay, 0, 0)
    BY <1>3, <2>1 DEF Cut
  <2> QED BY <2>1, <2>2 DEF Thinned
<1>6. ASSUME NEW n \in 1..Len(PendingReads), Performs(n)
      PROVE  Thinned(UnderWay', UnderWay)
  BY <1>1, <1>6, CutPerformed DEF Performs, UnderWay
<1>7. ASSUME NEW i \in 1..Len(PendingReads), Drops(i)
      PROVE  Thinned(UnderWay', UnderWay)
  BY <1>1, <1>7, CutDropped DEF Drops, UnderWay
<1> QED BY <1>3, <1>4, <1>5, <1>6, <1>7, PipeMoves DEF S

-----------------------------------------------------------------------------
(***************************************************************************)
(* One client thread: the numbers of the reads rise along the queue, ...   *)
(***************************************************************************)
OneThread == \A t, u \in Threads : t = u

Increasing(s) == \A i, j \in 1..Len(s) : i < j => s[i].seq < s[j].seq
Below(s, m)   == \A k \in 1..Len(s) : s[k].seq < m

OrderInv ==
    /\ PipeInv
    /\ Increasing(UnderWay) /\ Below(UnderWay, globalSeq)
    /\ \A t \in Threads :
         /\ At(t, "storeSeq") => reg[t] = globalSeq
         /\ At(t, "emit") => globalSeq = reg[t] + 1 /\ Below(UnderWay, reg[t])

\* Taking reads out keeps the order and the bound of the others.
LEMMA ThinnedOrder ==
    ASSUME NEW s \in Seq(PreadRecord), NEW u \in Seq(PreadRecord), Thinned(u, s)
    PROVE  /\ Increasing(s) => Increasing(u)
           /\ \A m : Below(s, m) => Below(u, m)
<1>1. PICK a \in Nat, n \in Nat : Cut(u, s, a, n)
  BY DEF Thinned
<1>2. Len(u) \in Nat /\ Len(s) \in Nat /\ Len(u) = Len(s) - n
  BY <1>1 DEF Cut
<1> DEFINE At0(k) == IF k <= a THEN k ELSE k + n
<1>3. \A k \in 1..Len(u) : At0(k) \in 1..Len(s) /\ u[k] = s[At0(k)]
  BY <1>1, <1>2 DEF Cut
<1>4. \A i, j \in 1..Len(u) : i < j => At0(i) < At0(j)
  BY <1>2
<1> HIDE DEF At0
<1>5. Increasing(s) => Increasing(u)
  BY <1>3, <1>4 DEF Increasing
<1>6. \A m : Below(s, m) => Below(u, m)
  BY <1>3 DEF Below
<1> QED BY <1>5, <1>6

\* A read with a larger number than all others goes to the end.
LEMMA AppendOrder ==
    ASSUME NEW s \in Seq(PreadRecord), NEW r \in PreadRecord,
           Increasing(s), Below(s, r.seq)
    PROVE  Increasing(Append(s, r)) /\ Below(Append(s, r), r.seq + 1)
<1> DEFINE u == Append(s, r)
<1>1. /\ Len(s) \in Nat /\ Len(u) = Len(s) + 1
      /\ \A k \in 1..Len(s) : u[k] = s[k]
      /\ u[Len(s) + 1] = r
  BY AppendProperties
<1>2. r.seq \in Nat /\ \A k \in 1..Len(s) : s[k].seq \in Nat
  <2>1. \A k \in 1..Len(s) : s[k] \in PreadRecord
    OBVIOUS
  <2> QED BY <2>1, ProbesAssumption DEF PreadRecord
<1> HIDE DEF u
<1>3. ASSUME NEW i \in 1..Len(u), NEW j \in 1..Len(u), i < j
      PROVE  u[i].seq < u[j].seq
  <2>1. i \in 1..Len(s) /\ (j \in 1..Len(s) \/ j = Len(s) + 1)
    BY <1>1, <1>3
  <2>2. CASE j \in 1..Len(s)
    BY <1>1, <1>3, <2>1, <2>2 DEF Increasing
  <2>3. CASE j = Len(s) + 1
    BY <1>1, <2>1, <2>3 DEF Below
  <2> QED BY <2>1, <2>2, <2>3
<1>4. ASSUME NEW k \in 1..Len(u) PROVE u[k].seq < r.seq + 1
  <2>1. CASE k \in 1..Len(s)
    <3>1. u[k].seq = s[k].seq /\ s[k].seq < r.seq /\ s[k].seq \in Nat
      BY <1>1, <1>2, <2>1 DEF Below
    <3> QED BY <1>2, <3>1
  <2>2. CASE k = Len(s) + 1
    BY <1>1, <1>2, <2>2
  <2> QED BY <1>1, <2>1, <2>2
<1> QED BY <1>3, <1>4 DEF Increasing, Below, u

\* A step of the only thread keeps the order: it takes the next number, keeps
\* it until the output, and nobody else takes one.
LEMMA OrderProbe ==
    ASSUME OneThread, OrderInv, PipeInv', NEW t \in Threads, ProbeStep(t),
           UnderWay \in Seq(PreadRecord),
           \/ /\ Emit(t) /\ Emitted(t) \in PreadRecord
              /\ UnderWay' = Append(UnderWay, Emitted(t))
           \/ UnderWay' = UnderWay
    PROVE  OrderInv'
<1>0. Words /\ Words' /\ \A u \in Threads : u = t
  BY DEF OneThread, OrderInv, PipeInv, ProbeInv
<1>1. /\ Increasing(UnderWay) /\ Below(UnderWay, globalSeq)
      /\ tpc[t] = "storeSeq" => reg[t] = globalSeq
      /\ tpc[t] = "emit" => globalSeq = reg[t] + 1 /\ Below(UnderWay, reg[t])
  BY DEF OrderInv, At
<1>2. globalSeq \in Nat /\ reg[t] \in Nat
  BY <1>0 DEF Words
<1>3. CASE Emit(t) /\ Emitted(t) \in PreadRecord
           /\ UnderWay' = Append(UnderWay, Emitted(t))
  <2>1. tpc[t] = "emit" /\ tpc'[t] = "lookup" /\ globalSeq' = globalSeq
    BY <1>0, <1>3 DEF Emit, At, Goto, shared, Words
  <2>2. Emitted(t).seq = reg[t]
    BY DEF Emitted
  <2>3. Increasing(UnderWay') /\ Below(UnderWay', globalSeq')
    BY <1>1, <1>3, <2>1, <2>2, AppendOrder
  <2> QED BY <1>0, <2>1, <2>3 DEF OrderInv, At
<1>4. CASE UnderWay' = UnderWay /\ StoreSeq(t)
  <2>1. /\ tpc[t] = "storeSeq" /\ tpc'[t] = "emit"
        /\ globalSeq' = reg[t] + 1 /\ reg' = reg
    BY <1>0, <1>4 DEF StoreSeq, At, Goto, Words
  <2>2. Below(UnderWay, globalSeq')
    <3>1. \A k \in 1..Len(UnderWay) :
            UnderWay[k].seq \in Nat /\ UnderWay[k].seq < globalSeq
      <4>1. \A k \in 1..Len(UnderWay) : UnderWay[k] \in PreadRecord
        OBVIOUS
      <4> QED BY <1>1, <4>1, ProbesAssumption DEF Below, PreadRecord
    <3> QED BY <1>1, <1>2, <2>1, <3>1 DEF Below
  <2> QED BY <1>0, <1>1, <1>4, <2>1, <2>2 DEF OrderInv, At
<1>5. CASE UnderWay' = UnderWay /\ ~StoreSeq(t)
  <2>1. /\ globalSeq' = globalSeq /\ tpc'[t] # "emit"
        /\ tpc'[t] = "storeSeq" => reg'[t] = globalSeq
    <3> USE <1>0, <1>5 DEF At, Goto, Words, shared
    <3>1. CASE ReadS(t) \/ ReadSTell(t) \/ PreadRawPlain(t) \/ PreadRaw(t)
               \/ BatchSubmitPlain(t) \/ BatchSubmit(t) \/ BatchFlush(t)
               \/ BatchReset(t)
      BY <3>1 DEF ReadS, ReadSTell, PreadRawPlain, PreadRaw, BatchSubmitPlain,
                  BatchSubmit, BatchFlush, BatchReset
    <3>2. CASE PreadTell(t) \/ LoadSeq(t) \/ Emit(t)
      BY <3>2 DEF PreadTell, LoadSeq, Emit
    <3>3. CASE Lookup(t) \/ LoadTotal(t) \/ StoreTotal(t) \/ Insert(t)
               \/ BatchTest(t) \/ BatchReport(t)
      BY <3>3 DEF Lookup, LoadTotal, StoreTotal, Insert, BatchTest,
                  BatchReport
    <3> QED BY <3>1, <3>2, <3>3 DEF ProbeStep
  <2> QED BY <1>0, <1>1, <1>5, <2>1 DEF OrderInv, At
<1> QED BY <1>3, <1>4, <1>5

LEMMA OrderStep ==
    ASSUME OneThread, OrderInv, [PipelineNext]_pipeline
    PROVE  OrderInv'
<1>1. PipeInv /\ PipeInv'
  BY PipeStep DEF OrderInv
<1>2. UnderWay \in Seq(PreadRecord) /\ UnderWay' \in Seq(PreadRecord)
  BY <1>1, UnderWayMoves
<1>3. ASSUME NEW t \in Threads, ProbeStep(t),
             \/ /\ Emit(t) /\ Emitted(t) \in PreadRecord
                /\ UnderWay' = Append(UnderWay, Emitted(t))
             \/ UnderWay' = UnderWay
      PROVE  OrderInv'
  BY <1>1, <1>2, <1>3, OrderProbe
<1>4. CASE UNCHANGED probes /\ Thinned(UnderWay', UnderWay)
  <2>1. UNCHANGED <<tpc, reg, globalSeq>>
    BY <1>4 DEF probes, shared, local
  <2>2. /\ Increasing(UnderWay')
        /\ \A m : Below(UnderWay, m) => Below(UnderWay', m)
    BY <1>2, <1>4, ThinnedOrder DEF OrderInv
  <2> QED BY <1>1, <2>1, <2>2 DEF OrderInv, At
<1> QED BY <1>1, <1>3, <1>4, UnderWayMoves

\* With one client thread the reads are performed in the order of its calls,
\* each at most once, whatever is dropped, fails or is interrupted on the way.
THEOREM OneThreadInOrder == OneThread => (PipelineSpec => []PerformedInOrder)
<1> SUFFICES ASSUME OneThread PROVE PipelineSpec => []PerformedInOrder
  OBVIOUS
<1>1. PipelineInit => OrderInv
  <2> SUFFICES ASSUME PipelineInit PROVE OrderInv
    OBVIOUS
  <2>1. UnderWay = <<>>
    BY DEF PipelineInit, RingsInit, DaemonInit, UnderWay, PendingReads, Chain
  <2>2. \A t \in Threads : tpc[t] = "idle"
    BY DEF PipelineInit, ProbesInit
  <2> QED BY <2>1, <2>2, PipeStart DEF OrderInv, Increasing, Below, At
<1>2. OrderInv /\ [PipelineNext]_pipeline => OrderInv'
  BY OrderStep
<1>3. OrderInv => PerformedInOrder
  <2> SUFFICES ASSUME OrderInv PROVE PerformedInOrder
    OBVIOUS
  <2>1. performed \in Seq(PreadRecord) /\ PendingReads \in Seq(PreadRecord)
    BY PendingParts DEF OrderInv, PipeInv, DaemonInv, DaemonTypes
  <2>2. /\ Len(UnderWay) = Len(performed) + Len(PendingReads)
        /\ \A k \in 1..Len(performed) : UnderWay[k] = performed[k]
    BY <2>1, ConcatProperties DEF UnderWay
  <2>3. DOMAIN performed = 1..Len(performed)
        /\ Len(performed) \in Nat /\ Len(PendingReads) \in Nat
    BY <2>1
  <2>4. DOMAIN performed \subseteq 1..Len(UnderWay)
    BY <2>2, <2>3
  <2> QED BY <2>2, <2>3, <2>4 DEF OrderInv, Increasing, PerformedInOrder
<1> QED BY <1>1, <1>2, <1>3, PTL DEF PipelineSpec

-----------------------------------------------------------------------------
(***************************************************************************)
(* ... and between its calls what it skipped is what it handed over.  The  *)
(* bytes of a process are a finite set of positions in the reads.          *)
(***************************************************************************)
BytesIn(p, s) ==
    UNION {{k} \X (1..s[k].size) : k \in {k \in DOMAIN s : s[k].pid = p}}

\* A read of n bytes has n of them.
LEMMA BytesCount ==
    ASSUME NEW k, NEW n \in Nat
    PROVE  IsFiniteSet({k} \X (1..n)) /\ Cardinality({k} \X (1..n)) = n
<1>1. IsFiniteSet(1..n) /\ Cardinality(1..n) = n
  BY FS_Interval
<1>2. IsFiniteSet({k}) /\ Cardinality({k}) = 1
  BY FS_Singleton
<1>3. /\ IsFiniteSet({k} \X (1..n))
      /\ Cardinality({k} \X (1..n)) = Cardinality({k}) * Cardinality(1..n)
  BY <1>1, <1>2, FS_Product
<1> QED BY <1>1, <1>2, <1>3

\* A byte is a place in the sequence and a number up to the size found there.
LEMMA BytesMember ==
    ASSUME NEW p, NEW s \in Seq(PreadRecord), NEW x
    PROVE  x \in BytesIn(p, s) <=>
             /\ x = <<x[1], x[2]>> /\ x[1] \in 1..Len(s)
             /\ s[x[1]].pid = p /\ x[2] \in 1..s[x[1]].size
<1>1. DOMAIN s = 1..Len(s)
  OBVIOUS
<1>2. ASSUME x \in BytesIn(p, s)
      PROVE  /\ x = <<x[1], x[2]>> /\ x[1] \in 1..Len(s)
             /\ s[x[1]].pid = p /\ x[2] \in 1..s[x[1]].size
  <2>1. PICK k \in 1..Len(s) : s[k].pid = p /\ x \in {k} \X (1..s[k].size)
    BY <1>1, <1>2 DEF BytesIn
  <2> QED BY <2>1
<1>3. ASSUME x = <<x[1], x[2]>>, x[1] \in 1..Len(s),
             s[x[1]].pid = p, x[2] \in 1..s[x[1]].size
      PROVE  x \in BytesIn(p, s)
  <2>1. x \in {x[1]} \X (1..s[x[1]].size)
    BY <1>3
  <2>2. x[1] \in {k \in DOMAIN s : s[k].pid = p}
    BY <1>1, <1>3
  <2> QED BY <2>1, <2>2 DEF BytesIn
<1> QED BY <1>2, <1>3

\* Taking reads out leaves no more bytes: each that is left had its place.
LEMMA ThinnedBytes ==
    ASSUME NEW p, NEW s \in Seq(PreadRecord), NEW u \in Seq(PreadRecord),
           Thinned(u, s), IsFiniteSet(BytesIn(p, s))
    PROVE  /\ IsFiniteSet(BytesIn(p, u))
           /\ Cardinality(BytesIn(p, u)) <= Cardinality(BytesIn(p, s))
<1>1. PICK a \in Nat, n \in Nat : Cut(u, s, a, n)
  BY DEF Thinned
<1>2. Len(u) \in Nat /\ Len(s) \in Nat /\ Len(u) = Len(s) - n
  BY <1>1 DEF Cut
<1> DEFINE Place(k) == IF k <= a THEN k ELSE k + n
           f == [x \in BytesIn(p, u) |-> <<Place(x[1]), x[2]>>]
<1>3. \A k \in 1..Len(u) : Place(k) \in 1..Len(s) /\ u[k] = s[Place(k)]
  BY <1>1, <1>2 DEF Cut
<1>4. \A i, j \in 1..Len(u) : Place(i) = Place(j) => i = j
  BY <1>2
<1> HIDE DEF Place
<1>5. ASSUME NEW x \in BytesIn(p, u)
      PROVE  /\ <<Place(x[1]), x[2]>> \in BytesIn(p, s)
             /\ x = <<x[1], x[2]>> /\ x[1] \in 1..Len(u)
  <2>1. /\ x = <<x[1], x[2]>> /\ x[1] \in 1..Len(u)
        /\ u[x[1]].pid = p /\ x[2] \in 1..u[x[1]].size
    BY BytesMember
  <2> DEFINE y == <<Place(x[1]), x[2]>>
  <2>2. /\ y = <<y[1], y[2]>> /\ y[1] \in 1..Len(s)
        /\ s[y[1]].pid = p /\ y[2] \in 1..s[y[1]].size
    BY <1>3, <2>1
  <2>3. y \in BytesIn(p, s)
    BY <2>2, BytesMember
  <2> QED BY <2>1, <2>3
<1>6. f \in [BytesIn(p, u) -> BytesIn(p, s)]
  BY <1>5
<1>7. ASSUME NEW x \in BytesIn(p, u), NEW y \in BytesIn(p, u), f[x] = f[y]
      PROVE  x = y
  <2>1. Place(x[1]) = Place(y[1]) /\ x[2] = y[2]
    BY <1>7
  <2>2. x[1] = y[1]
    BY <1>4, <1>5, <2>1
  <2> QED BY <1>5, <2>1, <2>2
<1>8. f \in Injection(BytesIn(p, u), BytesIn(p, s))
  BY <1>6, <1>7 DEF Injection, IsInjective
<1> HIDE DEF f
<1> QED BY <1>8, FS_Injection

\* A new read brings its size.
LEMMA AppendBytes ==
    ASSUME NEW p, NEW s \in Seq(PreadRecord), NEW r \in PreadRecord,
           IsFiniteSet(BytesIn(p, s))
    PROVE  /\ IsFiniteSet(BytesIn(p, Append(s, r)))
           /\ r.pid # p => BytesIn(p, Append(s, r)) = BytesIn(p, s)
           /\ Cardinality(BytesIn(p, Append(s, r)))
                <= Cardinality(BytesIn(p, s)) + r.size
<1> DEFINE u == Append(s, r)
           new == {Len(s) + 1} \X (1..r.size)
<1>1. /\ u \in Seq(PreadRecord) /\ Len(s) \in Nat /\ Len(u) = Len(s) + 1
      /\ \A k \in 1..Len(s) : u[k] = s[k]
      /\ u[Len(s) + 1] = r
  BY AppendProperties
<1>2. r.size \in Nat
  BY ProbesAssumption DEF PreadRecord
<1> HIDE DEF u
<1>3. \A x : x \in BytesIn(p, u) <=>
               x \in BytesIn(p, s) \/ (r.pid = p /\ x \in new)
  <2> TAKE x
  <2>1. x \in BytesIn(p, u) <=>
             /\ x = <<x[1], x[2]>> /\ x[1] \in 1..Len(u)
             /\ u[x[1]].pid = p /\ x[2] \in 1..u[x[1]].size
    BY <1>1, BytesMember
  <2>2. x \in BytesIn(p, s) <=>
             /\ x = <<x[1], x[2]>> /\ x[1] \in 1..Len(s)
             /\ s[x[1]].pid = p /\ x[2] \in 1..s[x[1]].size
    BY BytesMember
  <2>3. x \in new <=> /\ x = <<x[1], x[2]>> /\ x[1] = Len(s) + 1
                      /\ x[2] \in 1..r.size
    OBVIOUS
  <2>4. CASE x[1] \in 1..Len(s)
    BY <1>1, <2>1, <2>2, <2>3, <2>4
  <2>5. CASE x[1] = Len(s) + 1
    BY <1>1, <2>1, <2>2, <2>3, <2>5
  <2>6. CASE x[1] \notin 1..Len(s) /\ x[1] # Len(s) + 1
    <3>1. x[1] \notin 1..Len(u)
      BY <1>1, <2>6
    <3> QED BY <2>1, <2>2, <2>3, <2>6, <3>1
  <2> QED BY <2>4, <2>5, <2>6
<1>4. IsFiniteSet(new) /\ Cardinality(new) = r.size
  BY <1>2, BytesCount
<1>5. Cardinality(BytesIn(p, s)) \in Nat
  BY FS_CardinalityType
<1> HIDE DEF new
<1>6. CASE r.pid # p
  <2>1. BytesIn(p, u) = BytesIn(p, s)
    BY <1>3, <1>6
  <2> QED BY <1>2, <1>5, <1>6, <2>1 DEF u
<1>7. CASE r.pid = p
  <2>1. BytesIn(p, u) = BytesIn(p, s) \cup new
    BY <1>3, <1>7
  <2>2. /\ IsFiniteSet(BytesIn(p, s) \cup new)
        /\ Cardinality(BytesIn(p, s) \cup new)
             = Cardinality(BytesIn(p, s)) + Cardinality(new)
               - Cardinality(BytesIn(p, s) \cap new)
    BY <1>4, FS_Union
  <2>3. IsFiniteSet(BytesIn(p, s) \cap new)
    BY FS_Intersection
  <2>4. Cardinality(BytesIn(p, s) \cap new) \in Nat
    BY <2>3, FS_CardinalityType
  <2> QED BY <1>2, <1>4, <1>5, <1>7, <2>1, <2>2, <2>4 DEF u
<1> QED BY <1>6, <1>7

\* The thread has been told to skip a read that it has not output yet.
Owing == {"loadSeq", "storeSeq", "emit"}
Owed(t) == IF tpc[t] \in Owing THEN size[t] ELSE 0

Bounded(p) == /\ IsFiniteSet(BytesIn(p, UnderWay))
              /\ Cardinality(BytesIn(p, UnderWay)) \in Nat
              /\ Cardinality(BytesIn(p, UnderWay)) <= handed[p]

OnceInv ==
    /\ PipeInv
    /\ \A p \in Pids : Bounded(p)
    /\ \A p \in Pids : (\A t \in Threads : Pid(t) # p) => skipped[p] = handed[p]
    /\ \A t \in Threads : /\ At(t, "tell") => overridden = 1
                          /\ skipped[Pid(t)] = handed[Pid(t)] + Owed(t)

\* The bytes under way stay within what was handed over: an output that does
\* not fit hands over bytes that never are under way.
LEMMA BoundedProbe ==
    ASSUME OnceInv, NEW t \in Threads, ProbeStep(t),
           UnderWay \in Seq(PreadRecord),
           \/ /\ Emit(t) /\ Emitted(t) \in PreadRecord
              /\ UnderWay' = Append(UnderWay, Emitted(t))
           \/ UnderWay' = UnderWay,
           NEW p \in Pids
    PROVE  Bounded(p)'
<1>1. /\ Words /\ Words' /\ Bounded(p)
      /\ \A q \in Pids \ {Pid(t)} : handed'[q] = handed[q]
  BY WordsStep DEF OnceInv, PipeInv, ProbeInv
<1>2. handed[p] \in Nat /\ size[t] \in Nat /\ Pid(t) \in Pids
  BY <1>1 DEF Words, Pid
<1>3. Emit(t) => handed'[Pid(t)] = handed[Pid(t)] + size[t]
  BY <1>1, <1>2 DEF Emit, Words
<1>4. ~Emit(t) => handed' = handed
  BY DEF ProbeStep, ReadS, ReadSTell, PreadRawPlain, PreadRaw, PreadTell,
         LoadSeq, StoreSeq, Lookup, LoadTotal, StoreTotal, Insert,
         BatchSubmitPlain, BatchSubmit, BatchTest, BatchReport, BatchFlush, BatchReset,
         history
<1>5. CASE UnderWay' = UnderWay
  <2>1. handed'[p] >= handed[p] /\ handed'[p] \in Nat
    BY <1>1, <1>2, <1>3, <1>4
  <2> QED BY <1>1, <1>2, <1>5, <2>1 DEF Bounded, BytesIn
<1>6. CASE Emit(t) /\ Emitted(t) \in PreadRecord
           /\ UnderWay' = Append(UnderWay, Emitted(t))
  <2>1. Emitted(t).pid = Pid(t) /\ Emitted(t).size = size[t]
    BY DEF Emitted
  <2>2. IsFiniteSet(BytesIn(p, UnderWay)) /\ UnderWay \in Seq(PreadRecord)
    BY <1>1 DEF Bounded
  <2>3. /\ IsFiniteSet(BytesIn(p, UnderWay'))
        /\ Pid(t) # p => BytesIn(p, UnderWay') = BytesIn(p, UnderWay)
        /\ Cardinality(BytesIn(p, UnderWay'))
             <= Cardinality(BytesIn(p, UnderWay)) + size[t]
    BY <1>6, <2>1, <2>2, AppendBytes
  <2>4. Cardinality(BytesIn(p, UnderWay')) \in Nat
    BY <2>3, FS_CardinalityType
  <2>5. Cardinality(BytesIn(p, UnderWay')) <= handed'[p]
    <3>1. CASE Pid(t) = p
      <4>1. handed'[p] = handed[p] + size[t]
        BY <1>3, <1>6, <3>1
      <4> QED BY <1>1, <1>2, <2>3, <2>4, <4>1 DEF Bounded
    <3>2. CASE Pid(t) # p
      BY <1>1, <2>3, <3>2 DEF Bounded
    <3> QED BY <3>1, <3>2
  <2>6. BytesIn(p, UnderWay)' = BytesIn(p, UnderWay')
    BY DEF BytesIn
  <2> QED BY <2>3, <2>4, <2>5, <2>6 DEF Bounded
<1> QED BY <1>5, <1>6

\* Nobody else lowers the flag between the thread's test and its copy, so what
\* it is told to skip is what it outputs.
LEMMA OnceProbe ==
    ASSUME OneThread, OnceInv, PipeInv', NEW t \in Threads, ProbeStep(t),
           \A p \in Pids : Bounded(p)'
    PROVE  OnceInv'
<1>0. /\ Words /\ Words' /\ processOf' = processOf /\ \A u \in Threads : u = t
      /\ \A q \in Pids \ {Pid(t)} :
           skipped'[q] = skipped[q] /\ handed'[q] = handed[q]
  BY WordsStep DEF OneThread, OnceInv, PipeInv, ProbeInv
<1>1. /\ Pid(t) \in Pids /\ Pid(t)' = Pid(t) /\ size[t] \in Nat
      /\ handed[Pid(t)] \in Nat /\ skipped[Pid(t)] \in Nat
      /\ tpc[t] = "tell" => overridden = 1
      /\ skipped[Pid(t)] = handed[Pid(t)] + Owed(t)
  BY <1>0 DEF OnceInv, At, Words, Pid
<1>2. ASSUME NEW p \in Pids, \A u \in Threads : Pid(u)' # p
      PROVE  skipped'[p] = handed'[p]
  <2>1. \A u \in Threads : Pid(u) # p
    BY <1>0, <1>2 DEF Pid
  <2> QED BY <1>0, <2>1 DEF OnceInv
<1>3. /\ tpc'[t] = "tell" => overridden' = 1
      /\ skipped'[Pid(t)] = handed'[Pid(t)] + Owed(t)'
  <2> USE <1>0, <1>1 DEF At, Goto, Words, Owed, Owing
  <2>1. CASE ReadS(t) \/ ReadSTell(t) \/ PreadRawPlain(t)
             \/ BatchSubmitPlain(t) \/ BatchSubmit(t) \/ BatchFlush(t)
             \/ BatchReset(t) \/ BatchTest(t) \/ BatchReport(t)
    <3>1. /\ tpc'[t] # "tell" /\ tpc'[t] \notin Owing /\ tpc[t] \notin Owing
          /\ skipped' = skipped /\ handed' = handed
      BY <2>1 DEF ReadS, ReadSTell, PreadRawPlain, BatchSubmitPlain,
                  BatchSubmit, BatchFlush, BatchReset, BatchTest, BatchReport,
                  history
    <3> QED BY <3>1
  <2>2. CASE PreadRaw(t)
    <3>1. /\ tpc'[t] = "tell" /\ tpc[t] = "idle" /\ overridden' = 1
          /\ skipped' = skipped /\ handed' = handed
      BY <2>2 DEF PreadRaw, shared
    <3> QED BY <3>1
  <2>3. CASE PreadTell(t)
    <3>1. tpc'[t] = "loadSeq" /\ tpc[t] = "tell" /\ handed' = handed
          /\ size' = size
      BY <2>3 DEF PreadTell
    <3>2. overridden * size[t] = size[t]
      BY <3>1
    <3>3. skipped'[Pid(t)] = skipped[Pid(t)] + size[t]
      BY <2>3, <3>2 DEF PreadTell
    <3> QED BY <3>1, <3>3
  <2>4. CASE LoadSeq(t) \/ StoreSeq(t)
    <3>1. /\ tpc'[t] \in Owing /\ tpc[t] \in Owing /\ size' = size
          /\ skipped' = skipped /\ handed' = handed
      BY <2>4 DEF LoadSeq, StoreSeq, history
    <3> QED BY <3>1
  <2>5. CASE Emit(t)
    <3>1. /\ tpc'[t] = "lookup" /\ tpc[t] = "emit" /\ skipped' = skipped
          /\ handed'[Pid(t)] = handed[Pid(t)] + size[t]
      BY <2>5 DEF Emit
    <3> QED BY <3>1
  <2>6. CASE Lookup(t) \/ LoadTotal(t) \/ StoreTotal(t) \/ Insert(t)
    <3>1. /\ tpc'[t] # "tell" /\ tpc'[t] \notin Owing /\ tpc[t] \notin Owing
          /\ skipped' = skipped /\ handed' = handed
      BY <2>6 DEF Lookup, LoadTotal, StoreTotal, Insert, history
    <3> QED BY <3>1
  <2> QED BY <2>1, <2>2, <2>3, <2>4, <2>5, <2>6 DEF ProbeStep
<1> QED BY <1>0, <1>1, <1>2, <1>3 DEF OnceInv, At

LEMMA OnceStep ==
    ASSUME OneThread, OnceInv, [PipelineNext]_pipeline
    PROVE  OnceInv'
<1>1. PipeInv /\ PipeInv'
  BY PipeStep DEF OnceInv
<1>2. UnderWay \in Seq(PreadRecord) /\ UnderWay' \in Seq(PreadRecord)
  BY <1>1, UnderWayMoves
<1>3. ASSUME NEW t \in Threads, ProbeStep(t),
             \/ /\ Emit(t) /\ Emitted(t) \in PreadRecord
                /\ UnderWay' = Append(UnderWay, Emitted(t))
             \/ UnderWay' = UnderWay
      PROVE  OnceInv'
  <2>1. \A p \in Pids : Bounded(p)'
    BY <1>2, <1>3, BoundedProbe
  <2> QED BY <1>1, <1>3, <2>1, OnceProbe
<1>4. CASE UNCHANGED probes /\ Thinned(UnderWay', UnderWay)
  <2>1. UNCHANGED <<processOf, tpc, overridden, size, handed, skipped>>
    BY <1>4 DEF probes, shared, local, history
  <2>2. ASSUME NEW p \in Pids PROVE Bounded(p)'
    <3>1. Bounded(p) /\ handed[p] \in Nat
      BY <1>1 DEF OnceInv, PipeInv, ProbeInv, Words
    <3>2. /\ IsFiniteSet(BytesIn(p, UnderWay'))
          /\ Cardinality(BytesIn(p, UnderWay'))
               <= Cardinality(BytesIn(p, UnderWay))
      BY <1>2, <1>4, <3>1, ThinnedBytes DEF Bounded
    <3>3. Cardinality(BytesIn(p, UnderWay')) \in Nat
      BY <3>2, FS_CardinalityType
    <3>4. BytesIn(p, UnderWay)' = BytesIn(p, UnderWay')
      BY DEF BytesIn
    <3> QED BY <2>1, <3>1, <3>2, <3>3, <3>4 DEF Bounded
  <2> QED BY <1>1, <2>1, <2>2 DEF OnceInv, At, Pid, Owed
<1> QED BY <1>1, <1>3, <1>4, UnderWayMoves

\* With one client thread no read is done twice: what the daemon holds or has
\* performed the client has skipped, and between its calls it has skipped what
\* it handed over.  That each skipped read is done is not claimed: a record that
\* a full ring buffer refuses is lost.
THEOREM OneThreadNotTwice == OneThread => (PipelineSpec => []NotTwice)
<1> SUFFICES ASSUME OneThread PROVE PipelineSpec => []NotTwice
  OBVIOUS
<1>1. PipelineInit => OnceInv
  <2> SUFFICES ASSUME PipelineInit PROVE OnceInv
    OBVIOUS
  <2>1. UnderWay = <<>>
    BY DEF PipelineInit, RingsInit, DaemonInit, UnderWay, PendingReads, Chain
  <2>2. /\ \A t \in Threads : tpc[t] = "idle"
        /\ processOf \in [Threads -> Pids]
        /\ \A p \in Pids : handed[p] = 0 /\ skipped[p] = 0
    BY ProbesAssumption DEF PipelineInit, ProbesInit
  <2>3. \A p \in Pids : BytesIn(p, UnderWay) = {}
    BY <2>1 DEF BytesIn
  <2>4. \A p \in Pids : Bounded(p)
    BY <2>2, <2>3, FS_EmptySet DEF Bounded
  <2> QED BY <2>2, <2>4, PipeStart DEF OnceInv, At, Owed, Owing, Pid
<1>2. OnceInv /\ [PipelineNext]_pipeline => OnceInv'
  BY OnceStep
<1>3. OnceInv => NotTwice
  <2> SUFFICES ASSUME OnceInv, NEW p \in Pids
               PROVE  /\ BytesOf(p, UnderWay) <= skipped[p]
                      /\ (\A t \in Threads : At(t, "idle"))
                           => skipped[p] = handed[p]
    BY DEF NotTwice
  <2>1. /\ handed[p] \in Nat /\ skipped[p] \in Nat /\ Bounded(p)
        /\ \A t \in Threads : size[t] \in Nat
    BY DEF OnceInv, PipeInv, ProbeInv, Words
  <2>2. BytesOf(p, UnderWay) = Cardinality(BytesIn(p, UnderWay))
    BY DEF BytesOf, BytesIn
  <2>3. CASE \A t \in Threads : Pid(t) # p
    BY <2>1, <2>2, <2>3 DEF OnceInv, Bounded
  <2>4. ASSUME NEW t \in Threads, Pid(t) = p
        PROVE  /\ BytesOf(p, UnderWay) <= skipped[p]
               /\ At(t, "idle") => skipped[p] = handed[p]
    <3>1. skipped[p] = handed[p] + Owed(t) /\ Owed(t) \in Nat
      BY <2>1, <2>4 DEF OnceInv, Owed
    <3>2. At(t, "idle") => Owed(t) = 0
      BY DEF At, Owed, Owing
    <3> QED BY <2>1, <2>2, <3>1, <3>2 DEF Bounded
  <2> QED BY <2>3, <2>4
<1> QED BY <1>1, <1>2, <1>3, PTL DEF PipelineSpec
=============================================================================
