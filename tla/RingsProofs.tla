---------------------------- MODULE RingsProofs ----------------------------
(***************************************************************************)
(* A simple_ring of any size is a packet queue.  The type invariant is all *)
(* the invariant this needs; the work is in the arithmetic of the indices, *)
(* which is settled once, in the lemmas on Wrap.                           *)
(*                                                                         *)
(* The pipeline of main, for any rings of two slots or more and any number *)
(* of packets: at most one packet is in the rings, and it is in the buffer *)
(* too until the kernel has written it (OnePacket).                        *)
(***************************************************************************)
EXTENDS Rings, SequenceTheorems, TLAPS

\* Wrap is the index itself, or the index less the size of the array.
LEMMA WrapOnce ==
    \A m \in 0..2 * Size - 1 : Wrap(m) = IF m < Size THEN m ELSE m - Size
<1> SUFFICES ASSUME NEW m \in 0..2 * Size - 1
             PROVE  Wrap(m) = IF m < Size THEN m ELSE m - Size
  OBVIOUS
<1>1. CASE m < Size
  BY <1>1, SizeAssumption, SMT DEF Wrap
<1>2. CASE m >= Size
  BY <1>2, SizeAssumption, SMT DEF Wrap
<1> QED
  BY <1>1, <1>2, SizeAssumption

\* The next index: one up, or from the last slot back to the first.
LEMMA NextIndex ==
    ASSUME NEW m \in Indices
    PROVE  /\ Wrap(m + 1) = IF m + 1 = Size THEN 0 ELSE m + 1
           /\ Wrap(m + 1) \in Indices
<1>1. m + 1 \in 0..2 * Size - 1
  BY SizeAssumption DEF Indices
<1>2. Wrap(m + 1) = IF m + 1 < Size THEN m + 1 ELSE m + 1 - Size
  BY <1>1, WrapOnce, SizeAssumption DEF Indices
<1> QED
  BY <1>2, SizeAssumption DEF Indices

\* The slots in use and where the m-th packet is, written out.
LaidOut ==
    /\ Count = IF ring.head >= ring.tail THEN ring.head - ring.tail
               ELSE ring.head - ring.tail + Size
    /\ Count \in Indices
    /\ \A m \in 1..Count :
          Wrap(ring.tail + m - 1) = IF ring.tail + m - 1 < Size
                                       THEN ring.tail + m - 1
                                       ELSE ring.tail + m - 1 - Size

\* The remainder never wraps more than once.
LEMMA Layout == TypeOK => LaidOut
<1> SUFFICES ASSUME TypeOK PROVE LaidOut
  OBVIOUS
<1>1. ring.head \in 0..Size - 1 /\ ring.tail \in 0..Size - 1 /\ Size \in Nat \ {0}
  BY SizeAssumption DEF TypeOK, Indices
<1>2. ring.head - ring.tail + Size \in 0..2 * Size - 1
  BY <1>1
<1>3. Count = IF ring.head >= ring.tail THEN ring.head - ring.tail
              ELSE ring.head - ring.tail + Size
  BY <1>1, <1>2, WrapOnce DEF Count
<1>4. Count \in Indices
  BY <1>1, <1>3 DEF Indices
<1>5. ASSUME NEW m \in 1..Count
      PROVE  Wrap(ring.tail + m - 1) =
                IF ring.tail + m - 1 < Size THEN ring.tail + m - 1
                ELSE ring.tail + m - 1 - Size
  <2>1. ring.tail + m - 1 \in 0..2 * Size - 1
    BY <1>1, <1>4 DEF Indices
  <2> QED
    BY <1>1, <2>1, WrapOnce
<1> QED
  BY <1>3, <1>4, <1>5 DEF LaidOut

-----------------------------------------------------------------------------
\* init_ring zeroes both indices.
LEMMA TypeInit == Init => TypeOK
  BY SizeAssumption DEF Init, TypeOK, RingInit, Indices

\* enqueue_packet advances head around the array.
LEMMA TypeEnqueue ==
    ASSUME TypeOK, NEW p \in Packets, Enqueue(p)
    PROVE  TypeOK'
<1>1. ring.head \in Indices /\ Wrap(ring.head + 1) \in Indices
  BY NextIndex DEF TypeOK
<1> QED
  BY <1>1 DEF TypeOK, Enqueue, RingEnqueue

\* dequeue_packet advances tail around the array.
LEMMA TypeDequeue ==
    ASSUME TypeOK, Dequeue
    PROVE  TypeOK'
<1>1. ring.tail \in Indices /\ Wrap(ring.tail + 1) \in Indices
  BY NextIndex DEF TypeOK
<1> QED
  BY <1>1 DEF TypeOK, Dequeue, RingDequeue, RingFront

\* head and tail stay inside the array.
THEOREM RingTypes == Spec => []TypeOK
<1>1. TypeOK /\ [Next]_vars => TypeOK'
  <2>1. TypeOK /\ UNCHANGED vars => TypeOK'
    BY DEF TypeOK, vars
  <2> QED
    BY <2>1, TypeEnqueue, TypeDequeue DEF Next
<1> QED
  BY <1>1, TypeInit, PTL DEF Spec

-----------------------------------------------------------------------------
\* Each call is the operation of the queue.

Slots == Packets \cup {Zeroed}

InSlots ==
    /\ Contents \in Seq(Slots)
    /\ Len(Contents) = Count
    /\ \A m \in 1..Count : Contents[m] = ring.buf[Wrap(ring.tail + m - 1)]

\* Each packet is in a slot of the array.
LEMMA WrapIndex ==
    ASSUME TypeOK, NEW m \in 1..Count
    PROVE  Wrap(ring.tail + m - 1) \in Indices
<1>1. LaidOut
  BY Layout
<1>2. ring.tail \in 0..Size - 1 /\ Size \in Nat /\ Count \in 0..Size - 1
  BY <1>1, SizeAssumption DEF LaidOut, TypeOK, Indices
<1>3. Wrap(ring.tail + m - 1) =
        IF ring.tail + m - 1 < Size THEN ring.tail + m - 1
        ELSE ring.tail + m - 1 - Size
  BY <1>1 DEF LaidOut
<1> QED
  BY <1>2, <1>3 DEF Indices

\* What the ring holds is a sequence of Count packets.
LEMMA ContentsIsSeq == TypeOK => InSlots
<1> SUFFICES ASSUME TypeOK PROVE InSlots
  OBVIOUS
<1>1. Count \in Nat /\ LaidOut
  BY Layout, SizeAssumption DEF LaidOut, Indices
<1>2. ASSUME NEW m \in 1..Count
      PROVE  ring.buf[Wrap(ring.tail + m - 1)] \in Slots
  <2>1. Wrap(ring.tail + m - 1) \in Indices
    BY WrapIndex
  <2> QED
    BY <2>1 DEF TypeOK, Slots
<1> QED
  <2>1. Contents \in [1..Count -> Slots]
    BY <1>2 DEF Contents
  <2>2. Contents \in Seq(Slots)
    BY <1>1, <2>1, SeqDef
  <2>3. Len(Contents) = Count
    BY <1>1, <2>1, <2>2, LenProperties
  <2> QED
    BY <2>2, <2>3 DEF Contents, InSlots

\* is_full holds with one slot unused, is_empty with none used.
LEMMA FullAndEmpty ==
    ASSUME TypeOK
    PROVE  /\ RingIsFull(ring) <=> Count = Size - 1
           /\ RingIsEmpty(ring) <=> Count = 0
<1>1. ring.head \in 0..Size - 1 /\ ring.tail \in 0..Size - 1 /\ Size \in Nat \ {0}
  BY SizeAssumption DEF TypeOK, Indices
<1>2. Wrap(ring.head + 1) = IF ring.head + 1 = Size THEN 0 ELSE ring.head + 1
  BY <1>1, NextIndex DEF Indices
<1> QED
  BY <1>1, <1>2, Layout DEF LaidOut, RingIsFull, RingIsEmpty

\* enqueue_packet appends to the contents, or refuses when they are full.
LEMMA EnqueueIsPut ==
    ASSUME TypeOK, NEW p \in Packets, Enqueue(p)
    PROVE  Promise!Put(p)
<1>1. CASE RingIsFull(ring)
  <2>1. ring' = ring /\ answer' = <<-1>>
    BY <1>1 DEF Enqueue, RingEnqueue
  <2>2. Len(Contents) = Size - 1 /\ Contents' = Contents
    BY <1>1, <2>1, FullAndEmpty, ContentsIsSeq DEF InSlots, Contents, Count
  <2> QED
    BY <2>1, <2>2 DEF Promise!Put
<1>2. CASE ~RingIsFull(ring)
  <2>1. /\ ring' = [ring EXCEPT !.buf[ring.head] = p,
                                !.head = Wrap(ring.head + 1)]
        /\ answer' = <<0>>
    BY <1>2 DEF Enqueue, RingEnqueue
  <2>2. /\ ring.head \in 0..Size - 1 /\ ring.tail \in 0..Size - 1
        /\ Size \in Nat \ {0} /\ ring.buf \in [0..Size - 1 -> Slots]
    BY SizeAssumption DEF TypeOK, Indices, Slots
  <2>3. /\ ring'.tail = ring.tail
        /\ ring'.head = IF ring.head + 1 = Size THEN 0 ELSE ring.head + 1
        /\ \A k \in 0..Size - 1 :
              ring'.buf[k] = IF k = ring.head THEN p ELSE ring.buf[k]
    BY <2>1, <2>2, NextIndex DEF TypeOK, Indices
  <2>4. LaidOut /\ LaidOut' /\ InSlots /\ InSlots'
    <3>1. TypeOK'
      BY TypeEnqueue
    <3>2. (TypeOK => LaidOut)' /\ (TypeOK => InSlots)'
      BY Layout, ContentsIsSeq, PTL
    <3> QED
      BY <3>1, <3>2, Layout, ContentsIsSeq
  <2>5. Count < Size - 1 /\ Count' = Count + 1 /\ Count \in Nat
    <3>1. /\ Count = IF ring.head >= ring.tail THEN ring.head - ring.tail
                    ELSE ring.head - ring.tail + Size
          /\ Count \in 0..Size - 1
          /\ Count' = IF ring'.head >= ring'.tail THEN ring'.head - ring'.tail
                     ELSE ring'.head - ring'.tail + Size
      BY <2>4 DEF LaidOut, Indices
    <3>2. Count # Size - 1
      BY <1>2, FullAndEmpty
    <3> QED
      <4>1. CASE ring.head + 1 = Size
        <5>1. ring'.head = 0 /\ ring'.tail = ring.tail
          BY <2>3, <4>1
        <5>2. Count = ring.head - ring.tail /\ ring.head = Size - 1
          BY <2>2, <3>1, <4>1
        <5>3. ring.tail # 0
          BY <2>2, <3>2, <5>2
        <5>4. Count' = 0 - ring.tail + Size
          BY <2>2, <3>1, <5>1, <5>3
        <5> QED
          BY <2>2, <5>2, <5>3, <5>4
      <4>2. CASE ring.head + 1 # Size
        <5>1. ring'.head = ring.head + 1 /\ ring'.tail = ring.tail
          BY <2>3, <4>2
        <5>2. CASE ring.head >= ring.tail
          BY <2>2, <3>1, <4>2, <5>1, <5>2
        <5>3. CASE ring.head < ring.tail
          <6>1. Count = ring.head - ring.tail + Size
            BY <2>2, <3>1, <5>3
          <6>2. ring.head + 1 < ring.tail
            BY <2>2, <3>2, <5>3, <6>1
          <6>3. Count' = ring.head + 1 - ring.tail + Size
            <7>1. ~(ring'.head >= ring'.tail)
              BY <2>2, <5>1, <6>2
            <7> QED
              <8>1. Count' = ring'.head - ring'.tail + Size
                BY <3>1, <7>1
              <8>2. ring.head \in Int /\ ring.tail \in Int /\ Size \in Int
                BY <2>2
              <8> QED
                BY <5>1, <8>1, <8>2
          <6> QED
            <7>1. Count \in Nat /\ Count < Size - 1
              BY <2>2, <3>1, <3>2
            <7>2. Count' = Count + 1
              BY <2>2, <6>1, <6>3
            <7> QED
              BY <7>1, <7>2
        <5> QED
          BY <2>2, <5>2, <5>3
      <4> QED
        BY <4>1, <4>2
  <2>6. ASSUME NEW m \in 1..Count + 1
        PROVE  Contents'[m] = Append(Contents, p)[m]
    <3>1. Contents'[m] = ring'.buf[Wrap(ring.tail + m - 1)]
      BY <2>3, <2>4, <2>5 DEF InSlots
    <3>2. Wrap(ring.tail + m - 1) =
            IF ring.tail + m - 1 < Size THEN ring.tail + m - 1
            ELSE ring.tail + m - 1 - Size
      BY <2>3, <2>4, <2>5 DEF LaidOut
    <3>3. CASE m = Count + 1
      <4>1. Wrap(ring.tail + m - 1) = ring.head
        <5>1. Count = IF ring.head >= ring.tail THEN ring.head - ring.tail
                      ELSE ring.head - ring.tail + Size
          BY <2>4 DEF LaidOut
        <5>2. CASE ring.head >= ring.tail
          <6>1. ring.tail + m - 1 = ring.head
            BY <2>2, <2>5, <3>3, <5>1, <5>2
          <6> QED
            BY <2>2, <3>2, <6>1
        <5>3. CASE ring.head < ring.tail
          <6>1. ring.tail + m - 1 = ring.head + Size
            <7>1. Count = ring.head - ring.tail + Size
              BY <2>2, <5>1, <5>3
            <7> QED
              BY <2>2, <3>3, <7>1
          <6>2. ~(ring.tail + m - 1 < Size)
            BY <2>2, <6>1
          <6> QED
            <7>1. Wrap(ring.tail + m - 1) = ring.tail + m - 1 - Size
              BY <3>2, <6>2
            <7> QED
              BY <2>2, <6>1, <7>1
        <5> QED
          BY <2>2, <5>2, <5>3
      <4> QED
        BY <2>2, <2>3, <2>4, <2>5, <3>1, <3>3, <4>1, AppendProperties DEF InSlots, Slots
    <3>4. CASE m # Count + 1
      <4>1. Wrap(ring.tail + m - 1) # ring.head
        <5>1. Count = IF ring.head >= ring.tail THEN ring.head - ring.tail
                      ELSE ring.head - ring.tail + Size
          BY <2>4 DEF LaidOut
        <5>2. m \in Nat /\ m >= 1 /\ m <= Count
          BY <2>5, <3>4
        <5>3. CASE ring.head >= ring.tail
          <6>1. ring.tail + m - 1 < ring.head
            BY <2>2, <5>1, <5>2, <5>3
          <6> QED
            BY <2>2, <3>2, <5>2, <6>1
        <5>4. CASE ring.head < ring.tail
          <6>1. /\ ring.head < ring.tail + m - 1
                /\ ring.tail + m - 1 - Size < ring.head
            BY <2>2, <5>1, <5>2, <5>4
          <6> QED
            BY <2>2, <3>2, <5>2, <6>1
        <5> QED
          BY <2>2, <5>3, <5>4
      <4>2. m \in 1..Count /\ Wrap(ring.tail + m - 1) \in 0..Size - 1
        <5>1. m \in 1..Count
          BY <2>5, <3>4
        <5>2. Wrap(ring.tail + m - 1) \in Indices
          BY <5>1, WrapIndex
        <5> QED
          BY <5>1, <5>2 DEF Indices
      <4> QED
        BY <2>3, <2>4, <3>1, <4>1, <4>2, AppendProperties DEF InSlots, Slots
    <3> QED
      BY <3>3, <3>4
  <2>7. Contents' = Append(Contents, p)
    <3>1. Contents' \in Seq(Slots) /\ Len(Contents') = Count + 1
      BY <2>4, <2>5 DEF InSlots
    <3>2. /\ Append(Contents, p) \in Seq(Slots)
          /\ Len(Append(Contents, p)) = Count + 1
      BY <2>4, AppendProperties DEF InSlots, Slots
    <3> HIDE DEF Contents
    <3> QED
      BY <2>5, <2>6, <3>1, <3>2, SeqEqual
  <2> QED
    BY <2>1, <2>4, <2>5, <2>7 DEF InSlots, Promise!Put
<1> QED
  BY <1>1, <1>2

\* dequeue_packet takes the oldest packet, or refuses when there is none.
LEMMA DequeueIsTake ==
    ASSUME TypeOK, Dequeue
    PROVE  Promise!Take
<1>1. LaidOut /\ LaidOut' /\ InSlots /\ InSlots'
  <2>1. TypeOK'
    BY TypeDequeue
  <2>2. (TypeOK => LaidOut)' /\ (TypeOK => InSlots)'
    BY Layout, ContentsIsSeq, PTL
  <2> QED
    BY <2>1, <2>2, Layout, ContentsIsSeq
<1>2. CASE RingIsEmpty(ring)
  <2>1. ring' = ring /\ answer' = <<-1>>
    BY <1>2 DEF Dequeue, RingDequeue
  <2>2. Contents = <<>> /\ Contents' = Contents
    BY <1>1, <1>2, <2>1, FullAndEmpty, EmptySeq DEF InSlots, Contents, Count
  <2> QED
    BY <2>1, <2>2 DEF Promise!Take
<1>3. CASE ~RingIsEmpty(ring)
  <2>1. /\ ring' = [ring EXCEPT !.tail = Wrap(ring.tail + 1)]
        /\ answer' = <<0, ring.buf[ring.tail]>>
    BY <1>3 DEF Dequeue, RingDequeue, RingFront
  <2>2. /\ ring.head \in 0..Size - 1 /\ ring.tail \in 0..Size - 1
        /\ Size \in Nat \ {0}
    BY SizeAssumption DEF TypeOK, Indices
  <2>3. /\ ring'.head = ring.head /\ ring'.buf = ring.buf
        /\ ring'.tail = IF ring.tail + 1 = Size THEN 0 ELSE ring.tail + 1
    BY <2>1, <2>2, NextIndex DEF TypeOK, Indices
  <2>4. Count \in 1..Size - 1 /\ Count' = Count - 1
    <3>1. /\ Count = IF ring.head >= ring.tail THEN ring.head - ring.tail
                    ELSE ring.head - ring.tail + Size
          /\ Count \in 0..Size - 1
          /\ Count' = IF ring'.head >= ring'.tail THEN ring'.head - ring'.tail
                     ELSE ring'.head - ring'.tail + Size
      BY <1>1 DEF LaidOut, Indices
    <3>2. Count # 0
      BY <1>3, FullAndEmpty
    <3> QED
      BY <2>2, <2>3, <3>1, <3>2
  <2>5. Contents # <<>> /\ Head(Contents) = Contents[1]
    BY <1>1, <2>4, EmptySeq DEF InSlots
  <2>6. Contents[1] = ring.buf[ring.tail]
    <3>1. Contents[1] = ring.buf[Wrap(ring.tail + 1 - 1)]
      BY <1>1, <2>4 DEF InSlots
    <3>2. Wrap(ring.tail + 1 - 1) = IF ring.tail + 1 - 1 < Size
                                    THEN ring.tail + 1 - 1
                                    ELSE ring.tail + 1 - 1 - Size
      BY <1>1, <2>4 DEF LaidOut
    <3> QED
      BY <2>2, <3>1, <3>2
  <2>7. ASSUME NEW m \in 1..Count - 1
        PROVE  Contents'[m] = Tail(Contents)[m]
    <3>1. Contents'[m] = ring.buf[Wrap(ring'.tail + m - 1)]
      BY <1>1, <2>3, <2>4 DEF InSlots
    <3>2. Contents[m + 1] = ring.buf[Wrap(ring.tail + (m + 1) - 1)]
      BY <1>1, <2>4 DEF InSlots
    <3>3. Wrap(ring'.tail + m - 1) = IF ring'.tail + m - 1 < Size
                                     THEN ring'.tail + m - 1
                                     ELSE ring'.tail + m - 1 - Size
      BY <1>1, <2>4 DEF LaidOut
    <3>4. Wrap(ring.tail + (m + 1) - 1) = IF ring.tail + (m + 1) - 1 < Size
                                          THEN ring.tail + (m + 1) - 1
                                          ELSE ring.tail + (m + 1) - 1 - Size
      <4>1. m + 1 \in 1..Count
        BY <2>4
      <4> QED
        BY <1>1, <4>1 DEF LaidOut
    <3>5. Wrap(ring'.tail + m - 1) = Wrap(ring.tail + (m + 1) - 1)
      BY <2>2, <2>3, <2>4, <3>3, <3>4
    <3> QED
      BY <1>1, <2>4, <2>5, <3>1, <3>2, <3>5, HeadTailProperties DEF InSlots
  <2>8. Contents' = Tail(Contents)
    <3>1. Contents' \in Seq(Slots) /\ Len(Contents') = Count - 1
      BY <1>1, <2>4 DEF InSlots, Slots
    <3>2. Tail(Contents) \in Seq(Slots) /\ Len(Tail(Contents)) = Count - 1
      BY <1>1, <2>5, HeadTailProperties DEF InSlots
    <3> HIDE DEF Contents
    <3> QED
      BY <2>4, <2>7, <3>1, <3>2, SeqEqual
  <2> QED
    BY <2>1, <2>5, <2>6, <2>8 DEF Promise!Take
<1> QED
  BY <1>2, <1>3

\* A ring of any size is a queue of one packet less, whatever is called.
THEOREM RingIsPacketQueue == Spec => IsPacketQueue
<1>1. Init => Promise!Init
  <2> SUFFICES ASSUME Init PROVE Promise!Init
    OBVIOUS
  <2>1. TypeOK /\ RingIsEmpty(ring)
    BY TypeInit DEF Init, RingInit, RingIsEmpty
  <2>2. Contents = <<>>
    BY <2>1, ContentsIsSeq, FullAndEmpty, EmptySeq DEF InSlots
  <2> QED
    BY <2>2 DEF Init, Promise!Init
<1>2. TypeOK /\ [Next]_vars => [Promise!Next]_<<Contents, answer>>
  <2>1. UNCHANGED vars => UNCHANGED <<Contents, answer>>
    BY DEF vars, Contents, Count
  <2> QED
    BY <2>1, EnqueueIsPut, DequeueIsTake DEF Next, Promise!Next
<1> QED
  BY <1>1, <1>2, RingTypes, PTL DEF Spec, IsPacketQueue, Promise!Spec

\* Both hold of the composition, in which the ring of any caller may rest.
THEOREM RingInRings == RingsSpec => []TypeOK /\ IsPacketQueue
<1>1. RingsInit => Init
  BY DEF RingsInit
<1>2. [RingsNext]_allVars => [Next]_vars
  BY DEF RingsNext, AnyCall, Main, Writes, allVars
<1> QED
  BY <1>1, <1>2, RingTypes, RingIsPacketQueue, PTL DEF RingsSpec, Spec

-----------------------------------------------------------------------------
\* The pipeline of main.

Pkt == [n : Nat, processed : BOOLEAN]

Slot == 0..PipelineSize - 1

PRing == [buf : [Slot -> Pkt \cup {Zeroed}], head : Slot, tail : Slot]

HoldsNone(r) == r.head = r.tail

HoldsOne(r, p) == /\ r.head # r.tail /\ Pipeline!Wrap(r.tail + 1) = r.head
                  /\ r.buf[r.tail] = p

\* The writes the kernel has ended are of the packets below this.
Ended == IF pc = "wait" /\ cq = 1 THEN i + 1 ELSE i

\* Where the packet is.
OnePacket ==
    /\ pc \in {"receive", "process", "write", "wait", "done"}
    /\ i \in Nat /\ i <= PipelinePackets
    /\ ring3 \in PRing /\ ring4 \in PRing /\ sq = 0
    /\ pc # "process" => HoldsNone(ring3)
    /\ pc # "write" => HoldsNone(ring4)
    /\ pc = "process" => /\ pkt = [n |-> i, processed |-> FALSE]
                         /\ HoldsOne(ring3, pkt)
    /\ pc \in {"write", "wait"} => pkt = [n |-> i, processed |-> TRUE]
    /\ pc = "write" => HoldsOne(ring4, pkt)
    /\ pc \in {"process", "write", "wait"} => i < PipelinePackets
    /\ pc = "done" => i = PipelinePackets
    /\ inflight \in Nat /\ cq \in Nat
    /\ inflight + cq = IF pc = "wait" THEN 1 ELSE 0

\* What has been written.
InOrder ==
    /\ written \in Seq(Pkt)
    /\ \A k \in DOMAIN written : written[k].processed /\ written[k].n < Ended
    /\ \A j, k \in DOMAIN written : j < k => written[j].n < written[k].n
    /\ {written[k].n : k \in DOMAIN written} \cup failed = 0..Ended - 1

PipelineInv == OnePacket /\ InOrder

LEMMA NextSlot ==
    ASSUME NEW h \in Slot
    PROVE  /\ Pipeline!Wrap(h + 1) = IF h + 1 = PipelineSize THEN 0 ELSE h + 1
           /\ Pipeline!Wrap(h + 1) \in Slot /\ Pipeline!Wrap(h + 1) # h
<1>1. PipelineSize \in Nat /\ PipelineSize > 1 /\ h \in 0..PipelineSize - 1
  BY PipelineAssumption DEF Slot
<1>2. CASE h + 1 = PipelineSize
  BY <1>1, <1>2, SMT DEF Pipeline!Wrap, Slot
<1>3. CASE h + 1 < PipelineSize
  BY <1>1, <1>3, SMT DEF Pipeline!Wrap, Slot
<1> QED
  BY <1>1, <1>2, <1>3

\* An empty ring has room, and then holds the packet.
LEMMA PutOne ==
    ASSUME NEW r \in PRing, NEW p \in Pkt, HoldsNone(r)
    PROVE  /\ Pipeline!RingEnqueue(r, p) \in PRing
           /\ HoldsOne(Pipeline!RingEnqueue(r, p), p)
<1> DEFINE s == Pipeline!RingEnqueue(r, p)
<1>1. r.head \in Slot /\ r.head = r.tail /\ r.buf \in [Slot -> Pkt \cup {Zeroed}]
  BY DEF PRing, HoldsNone
<1>2. Pipeline!Wrap(r.head + 1) \in Slot /\ Pipeline!Wrap(r.head + 1) # r.head
  BY <1>1, NextSlot
<1>3. s = [r EXCEPT !.buf[r.head] = p, !.head = Pipeline!Wrap(r.head + 1)]
  BY <1>1, <1>2 DEF Pipeline!RingEnqueue, Pipeline!RingIsFull
<1>4. s \in PRing
  BY <1>1, <1>2, <1>3 DEF PRing
<1>5. s.head = Pipeline!Wrap(r.head + 1) /\ s.tail = r.tail /\ s.buf[r.head] = p
  BY <1>1, <1>3 DEF PRing
<1> QED
  BY <1>1, <1>2, <1>4, <1>5 DEF HoldsOne

\* Taking the only packet leaves the ring empty.
LEMMA TakeOne ==
    ASSUME NEW r \in PRing, NEW p, HoldsOne(r, p)
    PROVE  /\ ~Pipeline!RingIsEmpty(r) /\ Pipeline!RingFront(r) = p
           /\ Pipeline!RingDequeue(r) \in PRing
           /\ HoldsNone(Pipeline!RingDequeue(r))
<1>1. ~Pipeline!RingIsEmpty(r) /\ Pipeline!RingFront(r) = p
  BY DEF HoldsOne, Pipeline!RingIsEmpty, Pipeline!RingFront
<1>2. Pipeline!RingDequeue(r) = [r EXCEPT !.tail = r.head]
  BY <1>1 DEF HoldsOne, Pipeline!RingDequeue
<1> QED
  BY <1>1, <1>2 DEF PRing, HoldsNone

LEMMA NoneIsEmpty == \A r : HoldsNone(r) <=> Pipeline!RingIsEmpty(r)
  BY DEF HoldsNone, Pipeline!RingIsEmpty

\* Each step of main moves the packet on.
LEMMA MainMoves ==
    ASSUME OnePacket, Pipeline!Main
    PROVE  OnePacket' /\ UNCHANGED <<written, failed>> /\ Ended' = Ended
<1>t. /\ i \in Nat /\ i <= PipelinePackets /\ PipelinePackets \in Nat
      /\ PipelineEntries \in Nat /\ PipelineEntries # 0
      /\ ring3 \in PRing /\ ring4 \in PRing /\ sq = 0
      /\ inflight \in Nat /\ cq \in Nat
      /\ inflight + cq = IF pc = "wait" THEN 1 ELSE 0
  BY PipelineAssumption DEF OnePacket
<1>f. \A b \in BOOLEAN : [n |-> i, processed |-> b] \in Pkt
  BY <1>t DEF Pkt
<1>1. CASE Pipeline!Receive
  <2>1. /\ pc = "receive" /\ i < PipelinePackets /\ pc' = "process"
        /\ pkt' = [n |-> i, processed |-> FALSE]
        /\ ring3' = Pipeline!RingEnqueue(ring3, pkt')
        /\ UNCHANGED <<i, ring4, sq, inflight, cq, written, failed>>
    BY <1>1 DEF Pipeline!Receive, Pipeline!uring, Pipeline!output
  <2>2. HoldsNone(ring3) /\ HoldsNone(ring4)
    BY <2>1 DEF OnePacket
  <2>3. ring3' \in PRing /\ HoldsOne(ring3', pkt')
    BY <1>t, <1>f, <2>1, <2>2, PutOne
  <2> QED
    BY <1>t, <2>1, <2>2, <2>3 DEF OnePacket, Ended
<1>2. CASE Pipeline!Finish
  <2>1. /\ pc = "receive" /\ i = PipelinePackets /\ pc' = "done"
        /\ UNCHANGED <<i, pkt, ring3, ring4, sq, inflight, cq, written, failed>>
    BY <1>2 DEF Pipeline!Finish, Pipeline!uring, Pipeline!output
  <2>2. HoldsNone(ring3) /\ HoldsNone(ring4)
    BY <2>1 DEF OnePacket
  <2> QED
    BY <1>t, <2>1, <2>2 DEF OnePacket, Ended
<1>3. CASE Pipeline!Process
  <2>1. /\ pc = "process" /\ pc' = "write"
        /\ UNCHANGED <<i, sq, inflight, cq, written, failed>>
    BY <1>3 DEF Pipeline!Process, Pipeline!uring, Pipeline!output
  <2>2. /\ pkt = [n |-> i, processed |-> FALSE] /\ HoldsOne(ring3, pkt)
        /\ HoldsNone(ring4) /\ i < PipelinePackets
    BY <2>1 DEF OnePacket
  <2>3. /\ ~Pipeline!RingIsEmpty(ring3) /\ Pipeline!RingFront(ring3) = pkt
        /\ Pipeline!RingDequeue(ring3) \in PRing
        /\ HoldsNone(Pipeline!RingDequeue(ring3))
    BY <1>t, <2>2, TakeOne
  <2>4. /\ pkt' = [pkt EXCEPT !.processed = TRUE]
        /\ ring3' = Pipeline!RingDequeue(ring3)
        /\ ring4' = Pipeline!RingEnqueue(ring4, pkt')
    BY <1>3, <2>3 DEF Pipeline!Process
  <2>5. pkt' = [n |-> i, processed |-> TRUE]
    BY <2>2, <2>4
  <2>6. ring4' \in PRing /\ HoldsOne(ring4', pkt')
    BY <1>t, <1>f, <2>2, <2>4, <2>5, PutOne
  <2> QED
    BY <1>t, <2>1, <2>2, <2>3, <2>4, <2>5, <2>6 DEF OnePacket, Ended
<1>4. CASE Pipeline!Write
  <2>1. pc = "write" /\ UNCHANGED <<ring3, cq, written, failed>>
    BY <1>4 DEF Pipeline!Write, Pipeline!output
  <2>2. /\ pkt = [n |-> i, processed |-> TRUE] /\ HoldsOne(ring4, pkt)
        /\ HoldsNone(ring3) /\ i < PipelinePackets
    BY <2>1 DEF OnePacket
  <2>3. /\ ~Pipeline!RingIsEmpty(ring4) /\ Pipeline!RingFront(ring4) = pkt
        /\ Pipeline!RingDequeue(ring4) \in PRing
        /\ HoldsNone(Pipeline!RingDequeue(ring4))
    BY <1>t, <2>2, TakeOne
  <2>4. sq # PipelineEntries
    BY <1>t
  <2>5. /\ pkt' = pkt /\ ring4' = Pipeline!RingDequeue(ring4) /\ pc' = "wait"
        /\ inflight' = inflight + sq + 1 /\ sq' = 0 /\ i' = i
    BY <1>4, <2>3, <2>4 DEF Pipeline!Write
  <2>6. inflight' = 1 /\ cq' = 0
    BY <1>t, <2>1, <2>5
  <2> QED
    BY <1>t, <2>1, <2>2, <2>3, <2>5, <2>6 DEF OnePacket, Ended
<1>5. CASE Pipeline!Seen
  <2>1. /\ pc = "wait" /\ cq > 0 /\ cq' = cq - 1 /\ pc' = "receive" /\ i' = i + 1
        /\ UNCHANGED <<pkt, ring3, ring4, sq, inflight, written, failed>>
    BY <1>5 DEF Pipeline!Seen, Pipeline!output
  <2>2. HoldsNone(ring3) /\ HoldsNone(ring4) /\ i < PipelinePackets
    BY <2>1 DEF OnePacket
  <2>3. cq = 1 /\ inflight = 0
    BY <1>t, <2>1
  <2>4. Ended = i + 1 /\ Ended' = i + 1
    BY <2>1, <2>3 DEF Ended
  <2> QED
    BY <1>t, <2>1, <2>2, <2>3, <2>4 DEF OnePacket
<1> QED
  BY <1>1, <1>2, <1>3, <1>4, <1>5 DEF Pipeline!Main

\* The kernel finds the packet in the buffer as main has left it.
LEMMA KernelTakes ==
    ASSUME PipelineInv, Pipeline!KernelWrites
    PROVE  PipelineInv'
<1>1. /\ inflight > 0 /\ inflight' = inflight - 1 /\ cq' = cq + 1
      /\ UNCHANGED <<pc, i, pkt, ring3, ring4, sq>>
  BY DEF Pipeline!KernelWrites, Pipeline!app
<1>2. /\ inflight \in Nat /\ cq \in Nat /\ i \in Nat
      /\ inflight + cq = IF pc = "wait" THEN 1 ELSE 0
  BY DEF PipelineInv, OnePacket
<1>3. pc = "wait" /\ inflight = 1 /\ cq = 0
  BY <1>1, <1>2
<1>4. pkt = [n |-> i, processed |-> TRUE]
  BY <1>3 DEF PipelineInv, OnePacket
<1>5. inflight' = 0 /\ cq' = 1 /\ Ended = i /\ Ended' = i + 1
  BY <1>1, <1>3 DEF Ended
<1>6. OnePacket'
  BY <1>1, <1>3, <1>5 DEF PipelineInv, OnePacket
<1>7. /\ written \in Seq(Pkt)
      /\ \A k \in DOMAIN written : written[k].processed /\ written[k].n < i
      /\ \A j, k \in DOMAIN written : j < k => written[j].n < written[k].n
      /\ {written[k].n : k \in DOMAIN written} \cup failed = 0..i - 1
  BY <1>5 DEF PipelineInv, InOrder
<1>8. 0..i = (0..i - 1) \cup {i}
  BY <1>2
<1>9. CASE written' = Append(written, pkt) /\ UNCHANGED failed
  <2>1. pkt \in Pkt /\ pkt.n = i /\ pkt.processed
    BY <1>2, <1>4 DEF Pkt
  <2>2. /\ written' \in Seq(Pkt)
        /\ DOMAIN written = 1..Len(written) /\ Len(written) \in Nat
        /\ DOMAIN written' = 1..Len(written) + 1
        /\ \A k \in 1..Len(written) : written'[k] = written[k]
        /\ written'[Len(written) + 1] = pkt
    BY <1>7, <1>9, <2>1
  <2>3. \A k \in DOMAIN written' : written'[k].processed /\ written'[k].n < i + 1
    <3> SUFFICES ASSUME NEW k \in DOMAIN written'
                 PROVE  written'[k].processed /\ written'[k].n < i + 1
      OBVIOUS
    <3>1. CASE k \in 1..Len(written)
      <4>1. written'[k] = written[k] /\ written[k] \in Pkt
        BY <1>7, <2>2, <3>1
      <4>2. written[k].processed /\ written[k].n < i /\ written[k].n \in Nat
        BY <1>7, <2>2, <3>1, <4>1 DEF Pkt
      <4> QED
        BY <1>2, <4>1, <4>2
    <3>2. CASE k = Len(written) + 1
      BY <1>2, <2>1, <2>2, <3>2
    <3> QED
      BY <2>2, <3>1, <3>2
  <2>4. \A j, k \in DOMAIN written' : j < k => written'[j].n < written'[k].n
    <3> SUFFICES ASSUME NEW j \in DOMAIN written', NEW k \in DOMAIN written', j < k
                 PROVE  written'[j].n < written'[k].n
      OBVIOUS
    <3>1. j \in 1..Len(written)
      BY <2>2
    <3>2. CASE k \in 1..Len(written)
      BY <1>7, <2>2, <3>1, <3>2
    <3>3. CASE k = Len(written) + 1
      BY <1>7, <2>1, <2>2, <3>1, <3>3
    <3> QED
      BY <2>2, <3>2, <3>3
  <2>5. {written'[k].n : k \in DOMAIN written'} =
            {written[k].n : k \in DOMAIN written} \cup {i}
    BY <2>1, <2>2
  <2>6. {written'[k].n : k \in DOMAIN written'} \cup failed' = 0..Ended' - 1
    <3>1. {written'[k].n : k \in DOMAIN written'} \cup failed' = (0..i - 1) \cup {i}
      BY <1>7, <1>9, <2>5
    <3>2. Ended' - 1 = i
      BY <1>2, <1>5
    <3> QED
      BY <1>8, <3>1, <3>2
  <2> QED
    BY <1>5, <1>6, <2>2, <2>3, <2>4, <2>6 DEF PipelineInv, InOrder
<1>10. CASE failed' = failed \cup {pkt.n} /\ UNCHANGED written
  <2>1. \A k \in DOMAIN written : written[k].processed /\ written[k].n < i + 1
    <3> SUFFICES ASSUME NEW k \in DOMAIN written
                 PROVE  written[k].processed /\ written[k].n < i + 1
      OBVIOUS
    <3>1. written[k] \in Pkt /\ written[k].processed /\ written[k].n < i
      BY <1>7
    <3> QED
      BY <1>2, <3>1 DEF Pkt
  <2>2. pkt.n = i /\ Ended' - 1 = i
    BY <1>2, <1>4, <1>5
  <2>3. {written[k].n : k \in DOMAIN written} \cup failed' = 0..Ended' - 1
    BY <1>7, <1>8, <1>10, <2>2
  <2> QED
    BY <1>5, <1>6, <1>7, <1>10, <2>1, <2>3 DEF PipelineInv, InOrder
<1> QED
  BY <1>9, <1>10 DEF Pipeline!KernelWrites

\* For any rings of two slots or more and any number of packets: every packet is
\* written once, processed and in order, unless its own write failed.
THEOREM PipelineWrites == RingsSpec => []EachWrittenOnce
<1>1. RingsInit => PipelineInv
  <2> SUFFICES ASSUME Pipeline!Init PROVE PipelineInv
    BY DEF RingsInit
  <2>1. Pipeline!RingInit \in PRing /\ HoldsNone(Pipeline!RingInit)
    BY PipelineAssumption DEF Pipeline!RingInit, PRing, Slot, HoldsNone
  <2>2. OnePacket /\ Ended = 0
    BY <2>1, PipelineAssumption DEF Pipeline!Init, OnePacket, Ended
  <2>3. written = <<>> /\ failed = {}
    BY DEF Pipeline!Init
  <2>4. InOrder
    BY <2>2, <2>3 DEF InOrder
  <2> QED
    BY <2>2, <2>4 DEF PipelineInv
<1>2. PipelineInv /\ [RingsNext]_allVars => PipelineInv'
  <2> SUFFICES ASSUME PipelineInv, [RingsNext]_allVars PROVE PipelineInv'
    OBVIOUS
  <2>1. CASE Main
    <3>1. OnePacket' /\ UNCHANGED <<written, failed>> /\ Ended' = Ended
      BY <2>1, MainMoves DEF Main, PipelineInv
    <3> QED
      BY <3>1 DEF PipelineInv, InOrder
  <2>2. CASE Writes
    BY <2>2, KernelTakes DEF Writes
  <2>3. CASE UNCHANGED main
    BY <2>3 DEF main, PipelineInv, OnePacket, InOrder, Ended
  <2> QED
    BY <2>1, <2>2, <2>3 DEF RingsNext, AnyCall, allVars
<1>3. PipelineInv => EachWrittenOnce
  BY DEF PipelineInv, OnePacket, InOrder, Ended, EachWrittenOnce,
         Pipeline!EachWrittenOnce
<1> QED
  BY <1>1, <1>2, <1>3, PTL DEF RingsSpec
=============================================================================
