--------------------------- MODULE TransferProofs ---------------------------
(***************************************************************************)
(* Theorems about the transfers, for any file, any sockets and any rings   *)
(* that take a batch.  The inductive invariant (TInv, at the end) has the  *)
(* shapes of the variables, which come first, and one part for each        *)
(* client: where each chunk is (BlockingInv), how many requests there are  *)
(* and what has become of the sends (UringInv), how many requests there    *)
(* are (CopyInv).                                                          *)
(***************************************************************************)
EXTENDS Transfer, FiniteSetTheorems, SequenceTheorems, TLAPS

\* A read is of a chunk the file has.
Valid == {r \in Request : r.op = "read" => r.at \in 1..Blocks}

Completion == [op : Ops, res : -1..1]

ServerTypes ==
    /\ spc \in {"read", "send", "exit"} /\ present \in {0, 1}
    /\ shut \in {0, 1} /\ gone \in {0, 1} /\ closed \in {0, 1}
    /\ response \in Seq(Int) /\ c2s \in Seq(Int) /\ s2c \in Seq(Int)
    /\ pos \in Nat /\ (present = 1 => pos <= Len(response))

RingTypes ==
    /\ sq \in Seq(Valid) /\ inflight \subseteq Valid /\ cq \in Seq(Completion)
    /\ buf \in Int /\ recvFile \in Seq(Int)
    /\ sent \in Seq(Int) /\ arrived \in Seq(Int) /\ lost \in Nat

AppTypes ==
    /\ off \in Nat /\ batchCount \in Nat /\ reaped \in Nat
    /\ received \in {0, 1}

Shapes == ServerTypes /\ RingTypes /\ AppTypes

Held == {sq[k] : k \in DOMAIN sq} \cup inflight

\* What the server stores a chunk into.
LEMMA Stored ==
    ASSUME response \in Seq(Int), pos \in Nat, pos <= Len(response), NEW x \in Int
    PROVE  LET r == SubSeq(response, 1, pos) \o <<x>>
                    \o SubSeq(response, pos + 2, Len(response))
           IN  /\ r \in Seq(Int) /\ pos + 1 <= Len(r)
               /\ \A k \in 1..pos : r[k] = response[k]
               /\ r[pos + 1] = x
<1> DEFINE a == SubSeq(response, 1, pos)
           c == SubSeq(response, pos + 2, Len(response))
           b == a \o <<x>>
<1>1. Len(response) \in Nat
  OBVIOUS
<1>2. a \in Seq(Int) /\ Len(a) = pos /\ \A k \in 1..pos : a[k] = response[k]
  BY <1>1
<1>3. c \in Seq(Int)
  BY <1>1
<1> HIDE DEF a, c
<1>4. /\ b \in Seq(Int) /\ Len(b) = pos + 1 /\ b[pos + 1] = x
      /\ \A k \in 1..pos : b[k] = response[k]
  BY <1>2
<1> HIDE DEF b
<1>5. Len(c) \in Nat
  BY <1>3
<1>6. /\ b \o c \in Seq(Int) /\ Len(b \o c) = Len(b) + Len(c)
      /\ \A k \in 1..Len(b) + Len(c) :
            (b \o c)[k] = IF k <= Len(b) THEN b[k] ELSE c[k - Len(b)]
  BY <1>3, <1>4, ConcatProperties
<1>7. /\ b \o c \in Seq(Int) /\ pos + 1 <= Len(b \o c)
      /\ \A k \in 1..pos : (b \o c)[k] = response[k]
      /\ (b \o c)[pos + 1] = x
  BY <1>4, <1>5, <1>6
<1> QED
  BY <1>7, Zenon DEF a, b, c

\* The server keeps its shapes.
LEMMA ServerShapes ==
    ASSUME ServerTypes, ServerStep
    PROVE  ServerTypes'
<1> USE DEF ServerTypes
<1>1. CASE Store
  <2>1. c2s # <<>> /\ c2s' = Tail(c2s) /\ pos' = pos + 1
        /\ UNCHANGED <<spc, present, s2c, shut, gone, closed>>
    BY <1>1 DEF Store
  <2>2. Head(c2s) \in Int /\ Tail(c2s) \in Seq(Int)
    BY <2>1
  <2>3. CASE present = 0
    BY <1>1, <2>1, <2>2, <2>3 DEF Store
  <2>4. CASE present = 1
    <3>1. response' = SubSeq(response, 1, pos) \o <<Head(c2s)>>
                      \o SubSeq(response, pos + 2, Len(response))
      BY <1>1, <2>4 DEF Store
    <3>2. response' \in Seq(Int) /\ pos + 1 <= Len(response')
      BY <2>2, <2>4, <3>1, Stored
    <3> QED
      BY <2>1, <2>2, <3>2
  <2> QED
    BY <2>3, <2>4
<1>2. CASE StreamEnds
  BY <1>2 DEF StreamEnds
<1>3. CASE SendBack
  <2>1. response[pos + 1] \in Int
    BY <1>3 DEF SendBack
  <2> QED
    BY <1>3, <2>1 DEF SendBack
<1>4. CASE SendBroken
  BY <1>4 DEF SendBroken
<1>5. CASE CloseAll
  BY <1>5 DEF CloseAll
<1> QED
  BY <1>1, <1>2, <1>3, <1>4, <1>5 DEF ServerStep

\* A request ends.
LEMMA CompleteShapes ==
    ASSUME RingTypes, NEW r \in inflight, NEW res \in -1..1, Complete(r, res)
    PROVE  /\ sq' \in Seq(Valid) /\ inflight' \subseteq Valid
           /\ cq' \in Seq(Completion) /\ Len(cq') = Len(cq) + 1
<1>1. r.op \in Ops
  BY DEF RingTypes, Valid, Request
<1>2. [op |-> r.op, res |-> res] \in Completion
  BY <1>1 DEF Completion
<1> QED
  BY <1>2 DEF Complete, RingTypes

LEMMA KernelShapes ==
    ASSUME ServerTypes, RingTypes, Kernel
    PROVE  ServerTypes' /\ RingTypes'
<1> USE CompleteShapes
<1>1. PICK r \in inflight :
        KernelRead(r) \/ KernelSend(r) \/ KernelRecv(r) \/ KernelWrite(r)
  BY DEF Kernel
<1>2. r \in Valid
  BY DEF RingTypes
<1>3. PICK res \in -1..1 : Complete(r, res)
  BY <1>1 DEF KernelRead, KernelSend, KernelRecv, KernelWrite
<1>4. /\ sq' \in Seq(Valid) /\ inflight' \subseteq Valid
      /\ cq' \in Seq(Completion)
  BY <1>3
<1>5. CASE KernelRead(r)
  <2>1. File[r.at] \in Int
    BY <1>2, <1>5 DEF KernelRead, Valid, File
  <2> QED
    BY <1>4, <1>5, <2>1 DEF KernelRead, RingTypes, ServerTypes, server, sock
<1>6. CASE KernelSend(r)
  <2>1. /\ c2s' \in Seq(Int) /\ sent' \in Seq(Int) /\ lost' \in Nat
    <3>1. CASE /\ c2s' = Append(c2s, buf) /\ sent' = Append(sent, buf)
               /\ lost' = lost
      BY <3>1 DEF RingTypes, ServerTypes
    <3>2. CASE lost' = lost + 1 /\ UNCHANGED <<c2s, sent>>
      BY <3>2 DEF RingTypes, ServerTypes
    <3> QED
      BY <1>6, <3>1, <3>2 DEF KernelSend
  <2> QED
    BY <1>4, <1>6, <2>1 DEF KernelSend, RingTypes, ServerTypes, server
<1>7. CASE KernelRecv(r)
  <2>1. s2c' \in Seq(Int) /\ arrived' \in Seq(Int) /\ buf' \in Int
    <3>1. CASE /\ s2c # <<>> /\ buf' = Head(s2c) /\ s2c' = Tail(s2c)
               /\ arrived' = Append(arrived, Head(s2c))
      BY <3>1 DEF RingTypes, ServerTypes
    <3>2. CASE UNCHANGED <<buf, arrived, s2c>>
      BY <3>2 DEF RingTypes, ServerTypes
    <3> QED
      BY <1>7, <3>1, <3>2 DEF KernelRecv
  <2> QED
    BY <1>4, <1>7, <2>1 DEF KernelRecv, RingTypes, ServerTypes, server
<1>8. CASE KernelWrite(r)
  <2>1. recvFile' \in Seq(Int)
    <3>1. CASE recvFile' = recvFile
      BY <3>1 DEF RingTypes
    <3>2. CASE recvFile' = [k \in 1..r.at |-> IF k = r.at THEN buf
                 ELSE IF k <= Len(recvFile) THEN recvFile[k] ELSE Hole]
      <4>1. r.at \in Nat
        BY <1>2 DEF Valid, Request
      <4>2. \A k \in 1..r.at : recvFile'[k] \in Int
        BY <3>2, <4>1 DEF RingTypes, Hole
      <4>3. recvFile' \in [1..r.at -> Int]
        BY <3>2, <4>2
      <4> QED
        BY <4>1, <4>3, SeqDef
    <3> QED
      BY <1>8, <3>1, <3>2 DEF KernelWrite
  <2> QED
    BY <1>4, <1>8, <2>1 DEF KernelWrite, RingTypes, ServerTypes, server, sock,
                            history
<1> QED
  BY <1>1, <1>5, <1>6, <1>7, <1>8

\* The blocking client keeps them.
LEMMA BlockingShapes ==
    ASSUME Shapes, BlockingRuns \/ Timeout,
           off \in 0..Blocks
    PROVE  Shapes'
<1> USE DEF Shapes, ServerTypes, RingTypes, AppTypes, onlyUring, uring, history
<1>u. UNCHANGED onlyUring
  BY DEF BlockingRuns, Timeout
<1>1. CASE Blocking!ReadFile
  <2>1. Blocking!File[off + 1] \in Int
    BY <1>1 DEF Blocking!ReadFile, Blocking!File
  <2> QED
    BY <1>u, <1>1, <2>1 DEF Blocking!ReadFile, Blocking!server, Blocking!sock
<1>2. CASE Blocking!Send
  BY <1>u, <1>2 DEF Blocking!Send, Blocking!server
<1>3. CASE Blocking!FileEnds
  BY <1>u, <1>3 DEF Blocking!FileEnds, Blocking!server
<1>4. CASE Blocking!Recv
  <2>1. buf' \in Int /\ s2c' \in Seq(Int)
    BY <1>4 DEF Blocking!Recv
  <2>2. recvFile' = Append(recvFile, buf') \/ recvFile' = recvFile
    BY <1>4 DEF Blocking!Recv
  <2>3. recvFile' \in Seq(Int)
    <3>1. Append(recvFile, buf') \in Seq(Int)
      BY <2>1
    <3> QED
      BY <2>2, <3>1
  <2>4. gone' \in {0, 1}
    BY <1>4, Zenon DEF Blocking!Recv
  <2> QED
    BY <1>u, <1>4, <2>1, <2>3, <2>4 DEF Blocking!Recv, Blocking!server
<1>5. CASE Blocking!RecvEof
  BY <1>u, <1>5 DEF Blocking!RecvEof, Blocking!server
<1>6. CASE Blocking!RecvTimeout
  BY <1>u, <1>6 DEF Blocking!RecvTimeout, Blocking!server
<1> QED
  BY <1>1, <1>2, <1>3, <1>4, <1>5, <1>6
     DEF BlockingRuns, Blocking!ClientRuns, Timeout

\* A request is put into the ring, or the client gives up.
LEMMA PrepareShapes ==
    ASSUME sq \in Seq(Valid), gone \in {0, 1}, NEW r \in Valid, NEW l,
           Uring!Prepare(r, l)
    PROVE  sq' \in Seq(Valid) /\ gone' \in {0, 1}
BY DEF Uring!Prepare

LEMMA SubmitShapes ==
    ASSUME sq \in Seq(Valid), inflight \subseteq Valid, 
           inflight' = inflight \cup {sq[k] : k \in DOMAIN sq}, sq' = <<>>
    PROVE  sq' \in Seq(Valid) /\ inflight' \subseteq Valid
OBVIOUS

\* A completion is taken.
LEMMA TakeShapes ==
    ASSUME cq \in Seq(Completion), cq # <<>>
    PROVE  /\ Tail(cq) \in Seq(Completion) /\ Len(Tail(cq)) = Len(cq) - 1
           /\ Len(cq) > 0 /\ Head(cq) = cq[1] /\ Head(cq).res \in -1..1
<1>1. Head(cq) \in Completion
  OBVIOUS
<1>2. Head(cq).res \in -1..1
  BY <1>1 DEF Completion
<1> QED
  BY <1>2

LEMMA UringShapes ==
    ASSUME Shapes, Uring!Client, off <= Blocks \/ cpc \notin {"read", "send"},
           cpc = "send" => off >= 1
    PROVE  Shapes'
<1> USE DEF Shapes, ServerTypes, RingTypes, AppTypes
<1>1. CASE Uring!PrepRead
  <2>1. [op |-> "read", at |-> off + 1] \in Valid
    BY <1>1, TransferAssumption DEF Uring!PrepRead, Valid, Request, Ops
  <2>2. sq' \in Seq(Valid) /\ gone' \in {0, 1}
    BY <1>1, <2>1, PrepareShapes DEF Uring!PrepRead
  <2>3. off' \in Nat /\ batchCount' \in Nat
    BY <1>1 DEF Uring!PrepRead
  <2> QED
    BY <1>1, <2>2, <2>3 DEF Uring!PrepRead, Uring!history, Uring!server
<1>2. CASE Uring!PrepSend
  <2>1. [op |-> "send", at |-> off] \in Valid
    BY DEF Valid, Request, Ops
  <2>2. sq' \in Seq(Valid) /\ gone' \in {0, 1}
    BY <1>2, <2>1, PrepareShapes DEF Uring!PrepSend
  <2>3. batchCount' \in Nat
    BY <1>2 DEF Uring!PrepSend
  <2> QED
    BY <1>2, <2>2, <2>3 DEF Uring!PrepSend, Uring!history, Uring!server
<1>3. CASE Uring!NotFull \/ Uring!Waited
  BY <1>3 DEF Uring!NotFull, Uring!Waited, Uring!ring, Uring!uring,
              Uring!history, Uring!server, Uring!sock
<1>4. CASE Uring!Submit \/ Uring!SubmitOne
  <2>1. inflight' = inflight \cup {sq[k] : k \in DOMAIN sq} /\ sq' = <<>>
    BY <1>4 DEF Uring!Submit, Uring!SubmitOne, Uring!SubmitAll
  <2>2. sq' \in Seq(Valid) /\ inflight' \subseteq Valid
    BY <2>1, SubmitShapes
  <2> QED
    BY <1>4, <2>2 DEF Uring!Submit, Uring!SubmitOne, Uring!history,
                      Uring!server, Uring!sock
<1>5. CASE Uring!Peek
  <2>1. cq' \in Seq(Completion) /\ reaped' \in Nat /\ gone' \in {0, 1}
    <3>1. CASE cq = <<>>
      BY <1>5, <3>1 DEF Uring!Peek
    <3>2. CASE cq # <<>>
      <4>1. reaped' = reaped + 1 /\ cq' = Tail(cq) /\ gone' = gone
        BY <1>5, <3>2 DEF Uring!Peek
      <4> QED
        BY <3>2, <4>1, TakeShapes
    <3> QED
      BY <3>1, <3>2
  <2> QED
    BY <1>5, <2>1 DEF Uring!Peek, Uring!history, Uring!server
<1>6. CASE Uring!Reaped
  BY <1>6 DEF Uring!Reaped, Uring!ring, Uring!uring, Uring!history,
              Uring!server, Uring!sock
<1>7. CASE Uring!Shutdown
  BY <1>7 DEF Uring!Shutdown, Uring!uring, Uring!history, Uring!server
<1>8. CASE Uring!PrepRecv
  <2>1. [op |-> "recv", at |-> 0] \in Valid
    BY DEF Valid, Request, Ops
  <2>2. sq' \in Seq(Valid) /\ gone' \in {0, 1}
    BY <1>8, <2>1, PrepareShapes DEF Uring!PrepRecv
  <2> QED
    BY <1>8, <2>2 DEF Uring!PrepRecv, Uring!history, Uring!server
<1>9. CASE Uring!WaitRecv
  <2>1. cq' \in Seq(Completion) /\ Head(cq).res \in -1..1
    BY <1>9, TakeShapes DEF Uring!WaitRecv
  <2>2. gone' \in {0, 1} /\ received' \in {0, 1}
    <3>1. CASE Head(cq).res <= 0
      BY <1>9, <3>1 DEF Uring!WaitRecv
    <3>2. CASE ~(Head(cq).res <= 0)
      BY <1>9, <2>1, <3>2 DEF Uring!WaitRecv
    <3> QED
      BY <3>1, <3>2
  <2> QED
    BY <1>9, <2>1, <2>2 DEF Uring!WaitRecv, Uring!history, Uring!server
<1>10. CASE Uring!PrepWrite
  <2>1. [op |-> "write", at |-> off + 1] \in Valid
    BY DEF Valid, Request, Ops
  <2>2. sq' \in Seq(Valid) /\ gone' \in {0, 1}
    BY <1>10, <2>1, PrepareShapes DEF Uring!PrepWrite
  <2> QED
    BY <1>10, <2>2 DEF Uring!PrepWrite, Uring!history, Uring!server
<1>11. CASE Uring!WaitWrite
  <2>1. cq' \in Seq(Completion)
    BY <1>11, TakeShapes DEF Uring!WaitWrite
  <2>2. off' \in Nat
    BY <1>11 DEF Uring!WaitWrite
  <2> QED
    BY <1>11, <2>1, <2>2 DEF Uring!WaitWrite, Uring!history, Uring!server,
                             Uring!sock
<1> QED
  BY <1>1, <1>2, <1>3, <1>4, <1>5, <1>6, <1>7, <1>8, <1>9, <1>10, <1>11
     DEF Uring!Client

LEMMA CopyShapes ==
    ASSUME Shapes, Copy!Client, UNCHANGED received
    PROVE  Shapes'
<1> USE DEF Shapes, ServerTypes, RingTypes, AppTypes
<1>1. ASSUME NEW op \in {"read", "recv"}, Copy!Ask(op), buf' \in Int,
             op = "read" => off < Blocks
      PROVE  Shapes'
  <2>1. [op |-> op, at |-> off + 1] \in Valid
    BY <1>1, TransferAssumption DEF Valid, Request, Ops
  <2>2. sq' \in Seq(Valid) /\ inflight' \subseteq Valid /\ gone' \in {0, 1}
    <3>1. CASE gone' = 1 /\ UNCHANGED <<sq, inflight>>
      BY <3>1
    <3>2. CASE /\ inflight' = inflight \cup {sq[k] : k \in DOMAIN sq}
                                      \cup {[op |-> op, at |-> off + 1]}
               /\ sq' = <<>> /\ gone' = gone
      BY <2>1, <3>2
    <3>3. CASE /\ sq' = Append(sq, [op |-> op, at |-> off + 1])
               /\ gone' = 1 /\ UNCHANGED inflight
      BY <2>1, <3>3
    <3> QED
      BY <1>1, <3>1, <3>2, <3>3 DEF Copy!Ask
  <2> QED
    BY <1>1, <2>2 DEF Copy!Ask, Copy!history, Copy!net, Copy!server
<1>2. CASE Copy!AskRead
  BY <1>1, <1>2 DEF Copy!AskRead, Copy!Stale
<1>3. CASE Copy!AskRecv
  BY <1>1, <1>3 DEF Copy!AskRecv
<1>4. CASE Copy!FileEnds \/ Copy!NotFull \/ Copy!Waited
  BY <1>4 DEF Copy!FileEnds, Copy!NotFull, Copy!Waited, Copy!ring, Copy!uring,
              Copy!history, Copy!server, Copy!sock
<1>5. CASE Copy!Answer
  <2>1. cq' \in Seq(Completion) /\ Head(cq).res \in -1..1
    BY <1>5, TakeShapes DEF Copy!Answer
  <2>2. /\ sq' \in Seq(Valid) /\ gone' \in {0, 1} /\ off' \in Nat
        /\ batchCount' \in Nat
    <3>1. CASE Head(cq).res <= 0
      BY <1>5, <3>1 DEF Copy!Answer
    <3>2. CASE ~(Head(cq).res <= 0)
      <4>1. off' = off + Head(cq).res
        BY <1>5, <3>2 DEF Copy!Answer
      <4>2. CASE Len(sq) = CopyEntries
        <5>1. sq' = sq /\ gone' = 1 /\ batchCount' = batchCount
          BY <1>5, <3>2, <4>2 DEF Copy!Answer
        <5>2. Head(cq).res = 1
          BY <2>1, <3>2
        <5> QED
          BY <4>1, <5>1, <5>2
      <4>3. CASE Len(sq) # CopyEntries
        <5> DEFINE r == [op |-> IF phase = "send" THEN "send" ELSE "write",
                         at |-> off + 1]
        <5>1. r \in Valid
          BY DEF Valid, Request, Ops
        <5>2. /\ sq' = Append(sq, r) /\ gone' = gone
              /\ batchCount' = batchCount + 1
          BY <1>5, <3>2, <4>3 DEF Copy!Answer
        <5>3. off' \in Nat
          <6>1. Head(cq).res = 1
            BY <2>1, <3>2
          <6> QED
            BY <4>1, <6>1
        <5> HIDE DEF r
        <5> QED
          BY <5>1, <5>2, <5>3
      <4> QED
        BY <4>2, <4>3
    <3> QED
      BY <3>1, <3>2
  <2> QED
    BY <1>5, <2>1, <2>2 DEF Copy!Answer, Copy!history, Copy!net, Copy!server
<1>6. CASE Copy!Submit
  <2>1. inflight' = inflight \cup {sq[k] : k \in DOMAIN sq} /\ sq' = <<>>
    BY <1>6 DEF Copy!Submit, Copy!SubmitAll
  <2>2. sq' \in Seq(Valid) /\ inflight' \subseteq Valid
    BY <2>1, SubmitShapes
  <2> QED
    BY <1>6, <2>2 DEF Copy!Submit, Copy!history, Copy!net, Copy!server
<1>7. CASE Copy!Peek
  <2>1. cq' \in Seq(Completion) /\ reaped' \in Nat /\ gone' \in {0, 1}
    <3>1. CASE cq = <<>>
      BY <1>7, <3>1 DEF Copy!Peek
    <3>2. CASE cq # <<>>
      <4>1. reaped' = reaped + 1 /\ cq' = Tail(cq) /\ gone' = gone
        BY <1>7, <3>2 DEF Copy!Peek
      <4> QED
        BY <3>2, <4>1, TakeShapes
    <3> QED
      BY <3>1, <3>2
  <2> QED
    BY <1>7, <2>1 DEF Copy!Peek, Copy!history, Copy!net, Copy!server
<1>8. CASE Copy!Reaped
  BY <1>8 DEF Copy!Reaped, Copy!ring, Copy!uring, Copy!history, Copy!server,
              Copy!sock
<1>9. CASE Copy!Shutdown
  BY <1>9 DEF Copy!Shutdown, Copy!uring, Copy!history, Copy!server
<1>10. CASE Copy!Finish
  BY <1>10 DEF Copy!Finish, Copy!uring, Copy!history, Copy!net, Copy!server
<1> QED
  BY <1>2, <1>3, <1>4, <1>5, <1>6, <1>7, <1>8, <1>9, <1>10 DEF Copy!Client
-----------------------------------------------------------------------------
(***************************************************************************)
(* The blocking client.  While the server stores, what is under way is the *)
(* rest of what was handed over; while it sends, what is under way is the  *)
(* next of its file.  The file is whole by then, because the server goes   *)
(* on only when the client has shut its side down and nothing is left.     *)
(***************************************************************************)
Handed == IF cpc = "send" THEN off - 1 ELSE off

Places ==
    /\ cpc \in {"read", "send", "recv", "exit"} /\ off \in 0..Blocks
    /\ cpc \in {"recv", "exit"} => off = Blocks
    /\ cpc \in {"read", "send"} => shut = 0 /\ spc = "read"
    /\ cpc = "send" => off >= 1 /\ buf = off
    /\ cpc # "exit" => gone = 0 /\ cause = "none"
    /\ closed = 1 <=> spc = "exit"

Storing ==
    spc = "read" =>
        /\ recvFile = <<>> /\ s2c = <<>> /\ pos + Len(c2s) = Handed
        /\ \A k \in DOMAIN c2s : c2s[k] = pos + k
        /\ present = 1 => \A k \in 1..pos : response[k] = k

Returning ==
    spc # "read" /\ present = 1 =>
        /\ Blocks <= Len(response) /\ \A k \in 1..Blocks : response[k] = k
        /\ cpc = "recv" =>
              /\ Len(recvFile) + Len(s2c) = pos
              /\ \A k \in DOMAIN s2c : s2c[k] = response[Len(recvFile) + k]
        /\ cpc = "recv" /\ spc = "exit" => pos = Len(response)

\* Without its file the server has nothing to send.
WithoutFile ==
    present = 0 => /\ response = <<>> /\ s2c = <<>> /\ recvFile = <<>>
                   /\ spc # "send"

IsBeginning == /\ Len(recvFile) <= Len(response)
               /\ \A k \in DOMAIN recvFile : recvFile[k] = response[k]

AtEnd == cpc = "exit" /\ cause = "eof" /\ present = 1 =>
             Len(recvFile) = Len(response) /\ spc = "exit"

BlockingInv == inflight = {} /\ Places /\ Storing /\ Returning /\ WithoutFile
               /\ IsBeginning /\ AtEnd

LEMMA BlockingInit == Init /\ program = "blocking" => BlockingInv
<1> SUFFICES ASSUME Init, program = "blocking" PROVE BlockingInv
  OBVIOUS
<1>1. /\ inflight = {} /\ cpc = "read" /\ off = 0 /\ cause = "none"
      /\ spc = "read" /\ present \in {0, 1} /\ pos = 0
      /\ c2s = <<>> /\ s2c = <<>> /\ shut = 0 /\ gone = 0 /\ closed = 0
      /\ recvFile = <<>> 
  BY DEF Init, RingInit, ServerInit
<1>2. PICK n \in 0..MaxOld * present : response = [k \in 1..n |-> Stale]
  BY DEF Init, RingInit, ServerInit
<1>3. n \in Nat /\ Len(response) = n /\ (present = 0 => response = <<>>)
  BY <1>1, <1>2, TransferAssumption
<1>4. Places
  BY <1>1, TransferAssumption DEF Places
<1>5. Storing /\ Returning /\ WithoutFile /\ IsBeginning /\ AtEnd
  BY <1>1, <1>3 DEF Storing, Returning, WithoutFile, IsBeginning, AtEnd, Handed
<1> QED
  BY <1>1, <1>4, <1>5 DEF BlockingInv

\* The client's steps.
LEMMA BlockingClientStep ==
    ASSUME Shapes, BlockingInv, BlockingRuns \/ Timeout
    PROVE  BlockingInv'
<1>t. /\ off \in Nat /\ pos \in Nat /\ Len(c2s) \in Nat /\ c2s \in Seq(Int)
      /\ s2c \in Seq(Int) /\ recvFile \in Seq(Int) /\ response \in Seq(Int)
      /\ Len(s2c) \in Nat /\ Len(recvFile) \in Nat /\ Len(response) \in Nat
      /\ present \in {0, 1} /\ spc \in {"read", "send", "exit"}
      /\ closed \in {0, 1}
  BY DEF Shapes, AppTypes, ServerTypes, RingTypes
<1>u. inflight' = inflight
  BY DEF BlockingRuns, Timeout, onlyUring, uring
<1> USE DEF BlockingInv, Handed
<1>1. CASE Blocking!ReadFile
  <2>1. /\ cpc = "read" /\ cpc' = "send" /\ off < Blocks /\ off' = off + 1
        /\ buf' = off + 1
        /\ UNCHANGED <<recvFile, cause, spc, present, response, pos, c2s, s2c,
                       shut, gone, closed>>
    <3>1. /\ cpc = "read" /\ cpc' = "send" /\ off < Blocks /\ off' = off + 1
          /\ buf' = Blocking!File[off + 1]
          /\ UNCHANGED <<recvFile, cause, Blocking!server, Blocking!sock>>
      BY <1>1, Zenon DEF Blocking!ReadFile
    <3>2. off + 1 \in 1..Blocks
      BY <3>1, <1>t, TransferAssumption
    <3>3. Blocking!File[off + 1] = off + 1
      BY <3>2 DEF Blocking!File
    <3> QED
      BY <3>1, <3>3 DEF Blocking!server, Blocking!sock
  <2>2. Places'
    BY <2>1, <1>t, TransferAssumption DEF Places
  <2>3. Storing' /\ Returning'
    BY <2>1, <1>t DEF Places, Storing, Returning
  <2>4. WithoutFile' /\ IsBeginning' /\ AtEnd'
    BY <2>1 DEF WithoutFile, IsBeginning, AtEnd
  <2> QED
    BY <1>u, <2>2, <2>3, <2>4
<1>2. CASE Blocking!Send
  <2>1. /\ cpc = "send" /\ cpc' = "read" /\ c2s' = Append(c2s, buf)
        /\ UNCHANGED <<off, buf, recvFile, cause, spc, present, response, pos,
                       s2c, shut, gone, closed>>
    BY <1>2 DEF Blocking!Send, Blocking!server
  <2>2. buf = off /\ off >= 1 /\ spc = "read" /\ pos + Len(c2s) = off - 1
    BY <2>1 DEF Places, Storing
  <2>3. Places'
    BY <2>1 DEF Places
  <2>4. /\ Len(c2s') = Len(c2s) + 1 /\ DOMAIN c2s' = 1..Len(c2s) + 1
        /\ \A k \in 1..Len(c2s) : c2s'[k] = c2s[k]
        /\ c2s'[Len(c2s) + 1] = off
    BY <2>1, <2>2, <1>t
  <2>5. \A k \in DOMAIN c2s' : c2s'[k] = pos + k
    <3>1. \A k \in 1..Len(c2s) : c2s[k] = pos + k
      BY <2>2, <1>t DEF Storing
    <3>2. ASSUME NEW k \in 1..Len(c2s) + 1 PROVE c2s'[k] = pos + k
      <4>1. CASE k \in 1..Len(c2s)
        BY <2>4, <3>1, <4>1
      <4>2. CASE k = Len(c2s) + 1
        <5>1. pos + k = off
          BY <2>2, <4>2, <1>t
        <5> QED
          BY <2>4, <4>2, <5>1
      <4> QED
        BY <4>1, <4>2, <1>t
    <3> QED
      BY <2>4, <3>2
  <2>6. Storing'
    <3>1. pos' + Len(c2s') = Handed'
      <4>1. Handed' = off
        BY <2>1
      <4>2. pos + (Len(c2s) + 1) = off
        BY <2>2, <1>t
      <4> QED
        BY <2>1, <2>4, <4>1, <4>2
    <3> QED
      BY <2>1, <2>2, <2>5, <3>1 DEF Storing
  <2>8. Returning'
    BY <2>1, <2>2 DEF Returning
  <2>7. WithoutFile' /\ IsBeginning' /\ AtEnd'
    BY <2>1 DEF WithoutFile, IsBeginning, AtEnd
  <2> QED
    BY <1>u, <2>3, <2>6, <2>7, <2>8
<1>3. CASE Blocking!FileEnds
  <2>1. /\ cpc = "read" /\ cpc' = "recv" /\ off = Blocks
        /\ UNCHANGED <<off, buf, recvFile, cause, spc, present, response, pos,
                       c2s, s2c, gone, closed>>
    BY <1>3 DEF Blocking!FileEnds, Blocking!server
  <2>2. Places' /\ spc = "read"
    BY <2>1 DEF Places
  <2>3. Storing' /\ Returning'
    BY <2>1, <2>2 DEF Storing, Returning
  <2>4. WithoutFile' /\ IsBeginning' /\ AtEnd'
    BY <2>1 DEF WithoutFile, IsBeginning, AtEnd
  <2> QED
    BY <1>u, <2>2, <2>3, <2>4
<1>4. CASE Blocking!Recv
  <2>1. /\ cpc = "recv" /\ s2c # <<>> /\ s2c' = Tail(s2c)
        /\ UNCHANGED <<off, spc, present, response, pos, c2s, shut, closed>>
    BY <1>4 DEF Blocking!Recv, Blocking!server
  <2>2. spc # "read" /\ present = 1
    BY <2>1, <1>t DEF Storing, WithoutFile
  <2>3. /\ Len(recvFile) + Len(s2c) = pos
        /\ \A k \in DOMAIN s2c : s2c[k] = response[Len(recvFile) + k]
        /\ pos <= Len(response)
    BY <2>1, <2>2 DEF Returning, Shapes, ServerTypes
  <2>4. /\ Len(s2c') = Len(s2c) - 1 /\ Len(s2c) > 0
        /\ \A k \in DOMAIN s2c' : k + 1 \in DOMAIN s2c /\ s2c'[k] = s2c[k + 1]
        /\ Head(s2c) = s2c[1] /\ 1 \in DOMAIN s2c
    BY <2>1, <1>t
  <2>5. CASE cpc' = "recv" /\ recvFile' = Append(recvFile, buf') /\ cause' = cause
    <3>1. buf' = response[Len(recvFile) + 1]
      BY <1>4, <2>3, <2>4 DEF Blocking!Recv
    <3>2. gone' = 0
      BY <1>4, <2>5, Zenon DEF Blocking!Recv
    <3>3. buf' \in Int
      <4>1. Len(recvFile) + 1 \in 1..Len(response)
        <5>1. /\ Len(recvFile) \in Nat /\ Len(s2c) \in Nat
              /\ Len(response) \in Nat
          BY <1>t
        <5>2. Len(recvFile) + Len(s2c) <= Len(response)
          BY <2>3
        <5> QED
          BY <2>4, <5>1, <5>2
      <4> QED
        BY <3>1, <4>1, <1>t
    <3>4. /\ Len(recvFile') = Len(recvFile) + 1
          /\ DOMAIN recvFile' = 1..Len(recvFile) + 1
          /\ \A k \in 1..Len(recvFile) : recvFile'[k] = recvFile[k]
          /\ recvFile'[Len(recvFile) + 1] = buf'
      BY <2>5, <3>3, <1>t
    <3>5. Places'
      BY <2>1, <2>5, <3>2 DEF Places
    <3>6. \A k \in DOMAIN s2c' : s2c'[k] = response[Len(recvFile') + k]
      <4>1. ASSUME NEW k \in DOMAIN s2c'
            PROVE  s2c'[k] = response[Len(recvFile') + k]
        <5>1. s2c'[k] = response[Len(recvFile) + (k + 1)]
          BY <2>3, <2>4
        <5>2. k \in Nat
          BY <2>1, <1>t
        <5>3. Len(recvFile) + (k + 1) = Len(recvFile') + k
          BY <3>4, <5>2, <1>t
        <5> QED
          BY <5>1, <5>3
      <4> QED
        BY <4>1
    <3>7. Storing' /\ Returning'
      <4>1. Len(recvFile') + Len(s2c') = pos
        <5>1. (Len(recvFile) + 1) + (Len(s2c) - 1) = pos
          BY <2>3, <1>t
        <5> QED
          BY <2>4, <3>4, <5>1
      <4>2. cpc' = "recv"
        BY <2>5
      <4> QED
        BY <2>1, <2>2, <3>6, <4>1, <4>2 DEF Storing, Returning
    <3>8. WithoutFile' /\ AtEnd'
      BY <2>1, <2>2, <2>5 DEF WithoutFile, AtEnd
    <3>9. IsBeginning'
      <4>1. Len(recvFile) + 1 <= Len(response)
        BY <2>3, <2>4, <1>t
      <4>2. \A k \in 1..Len(recvFile) : recvFile[k] = response[k]
        BY <1>t DEF IsBeginning
      <4>3. ASSUME NEW k \in 1..Len(recvFile) + 1
            PROVE  recvFile'[k] = response[k]
        <5>1. CASE k \in 1..Len(recvFile)
          BY <3>4, <4>2, <5>1
        <5>2. CASE k = Len(recvFile) + 1
          BY <3>1, <3>4, <5>2
        <5> QED
          BY <5>1, <5>2, <1>t
      <4> QED
        BY <2>1, <3>4, <4>1, <4>3 DEF IsBeginning
    <3> QED
      BY <1>u, <3>5, <3>7, <3>8, <3>9
  <2>6. CASE cpc' = "exit" /\ cause' = "write" /\ recvFile' = recvFile
    <3>1. Places'
      BY <2>1, <2>6 DEF Places
    <3>2. Storing' /\ Returning' /\ WithoutFile' /\ IsBeginning' /\ AtEnd'
      BY <2>1, <2>2, <2>6 DEF Storing, Returning, WithoutFile, IsBeginning, AtEnd
    <3> QED
      BY <1>u, <3>1, <3>2
  <2> QED
    BY <1>4, <2>5, <2>6 DEF Blocking!Recv
<1>5. CASE Blocking!RecvEof \/ Blocking!RecvTimeout
  <2>1. /\ cpc = "recv" /\ s2c = <<>> /\ cpc' = "exit"
        /\ UNCHANGED <<off, recvFile, spc, present, response, pos, c2s, s2c,
                       shut, closed>>
        /\ closed = 1 \/ cause' = "timeout"
    BY <1>5 DEF Blocking!RecvEof, Blocking!RecvTimeout, Blocking!server
  <2>2. Places'
    BY <2>1 DEF Places
  <2>3. Storing' /\ Returning' /\ WithoutFile' /\ IsBeginning'
    BY <2>1 DEF Storing, Returning, WithoutFile, IsBeginning
  <2>4. AtEnd'
    <3>1. SUFFICES ASSUME closed = 1, present = 1
                   PROVE  Len(recvFile) = Len(response) /\ spc = "exit"
      BY <2>1 DEF AtEnd
    <3>2. spc = "exit"
      BY <3>1 DEF Places
    <3> QED
      BY <2>1, <3>1, <3>2, <1>t DEF Returning
  <2> QED
    BY <1>u, <2>2, <2>3, <2>4
<1> QED
  BY <1>1, <1>2, <1>3, <1>4, <1>5 DEF BlockingRuns, Blocking!ClientRuns, Timeout

\* The server's.
LEMMA BlockingServerStep ==
    ASSUME Shapes, BlockingInv, Server
    PROVE  BlockingInv'
<1>t. /\ off \in Nat /\ pos \in Nat /\ Len(c2s) \in Nat /\ c2s \in Seq(Int)
      /\ s2c \in Seq(Int) /\ recvFile \in Seq(Int) /\ response \in Seq(Int)
      /\ Len(s2c) \in Nat /\ Len(recvFile) \in Nat /\ Len(response) \in Nat
      /\ present \in {0, 1} /\ spc \in {"read", "send", "exit"}
      /\ (present = 1 => pos <= Len(response))
  BY DEF Shapes, AppTypes, ServerTypes, RingTypes
<1>u. UNCHANGED <<inflight, cpc, off, cause, buf, recvFile>>
  BY DEF Server, app, uring
<1> USE DEF BlockingInv, Handed
<1>1. CASE Store
  <2>1. /\ spc = "read" /\ c2s # <<>> /\ c2s' = Tail(c2s) /\ pos' = pos + 1
        /\ UNCHANGED <<spc, present, s2c, shut, gone, closed>>
    BY <1>1 DEF Store
  <2>2. /\ Len(c2s') = Len(c2s) - 1 /\ DOMAIN c2s' = 1..Len(c2s) - 1
        /\ \A k \in 1..Len(c2s) - 1 : c2s'[k] = c2s[k + 1]
        /\ Head(c2s) = c2s[1] /\ 1 \in DOMAIN c2s /\ c2s[1] \in Int
        /\ DOMAIN c2s = 1..Len(c2s)
    BY <2>1, <1>t
  <2>3. /\ recvFile = <<>> /\ s2c = <<>> /\ pos + Len(c2s) = Handed
        /\ \A k \in DOMAIN c2s : c2s[k] = pos + k
        /\ present = 1 => \A k \in 1..pos : response[k] = k
    BY <2>1 DEF Storing
  <2>4. Places'
    BY <1>u, <2>1 DEF Places
  <2>5. Storing'
    <3>1. pos' + Len(c2s') = Handed'
      <4>1. (pos + 1) + (Len(c2s) - 1) = pos + Len(c2s)
        BY <1>t
      <4> QED
        BY <1>u, <2>1, <2>2, <2>3, <4>1
    <3>2. ASSUME NEW k \in DOMAIN c2s' PROVE c2s'[k] = pos' + k
      <4>1. k \in 1..Len(c2s) - 1 /\ k + 1 \in 1..Len(c2s) /\ k \in Nat
        BY <2>2, <1>t
      <4>2. c2s'[k] = pos + (k + 1)
        BY <2>2, <2>3, <4>1
      <4> QED
        BY <2>1, <4>1, <4>2, <1>t
    <3>3. ASSUME present = 1, NEW k \in 1..pos + 1 PROVE response'[k] = k
      <4>1. response' = SubSeq(response, 1, pos) \o <<Head(c2s)>>
                        \o SubSeq(response, pos + 2, Len(response))
        BY <1>1, <3>3 DEF Store
      <4>2. /\ \A i \in 1..pos : response'[i] = response[i]
            /\ response'[pos + 1] = Head(c2s)
        BY <1>t, <2>2, <3>3, <4>1, Stored
      <4>3. Head(c2s) = pos + 1
        BY <2>2, <2>3
      <4>4. CASE k \in 1..pos
        BY <2>3, <3>3, <4>2, <4>4
      <4>5. CASE k = pos + 1
        BY <4>2, <4>3, <4>5
      <4> QED
        BY <4>4, <4>5, <1>t
    <3> QED
      BY <1>u, <2>1, <2>3, <3>1, <3>2, <3>3 DEF Storing
  <2>6. Returning' /\ AtEnd'
    BY <1>u, <2>1 DEF Returning, AtEnd
  <2>7. WithoutFile'
    <3>1. present = 0 => response' = response
      BY <1>1 DEF Store
    <3> QED
      BY <1>u, <2>1, <3>1 DEF WithoutFile
  <2>8. IsBeginning'
    <3>1. Len(response') \in Nat
      BY <1>1, ServerShapes DEF Shapes, ServerTypes, ServerStep
    <3> QED
      BY <1>u, <2>3, <3>1 DEF IsBeginning
  <2> QED
    BY <1>u, <2>4, <2>5, <2>6, <2>7, <2>8
<1>2. CASE StreamEnds
  <2>1. /\ spc = "read" /\ c2s = <<>> /\ shut = 1 /\ pos' = 0
        /\ spc' = (IF present = 1 THEN "send" ELSE "exit")
        /\ closed' = (IF present = 1 THEN 0 ELSE 1)
        /\ UNCHANGED <<present, response, c2s, s2c, shut, gone>>
    BY <1>2 DEF StreamEnds
  <2>2. cpc \in {"recv", "exit"} /\ off = Blocks
    BY <2>1 DEF Places
  <2>3. recvFile = <<>> /\ s2c = <<>> /\ pos + Len(c2s) = Blocks
    BY <2>1, <2>2 DEF Storing
  <2>4. pos = Blocks
    BY <2>1, <2>3, <1>t
  <2>5. Places'
    BY <1>t, <1>u, <2>1, <2>2 DEF Places
  <2>6. Storing' /\ WithoutFile' /\ IsBeginning' /\ AtEnd'
    BY <1>t, <1>u, <2>1 DEF Storing, WithoutFile, IsBeginning, AtEnd
  <2>7. Returning'
    <3>1. SUFFICES ASSUME present = 1 PROVE Returning'
      BY <2>1 DEF Returning
    <3>2. Blocks <= Len(response) /\ \A k \in 1..Blocks : response[k] = k
      BY <1>t, <2>1, <2>4, <3>1 DEF Storing
    <3>3. Len(recvFile) + Len(s2c) = 0 /\ DOMAIN s2c = {}
      BY <2>3
    <3> QED
      BY <1>u, <2>1, <3>1, <3>2, <3>3 DEF Returning
  <2> QED
    BY <1>u, <2>5, <2>6, <2>7
<1>3. CASE SendBack
  <2>1. /\ spc = "send" /\ pos < Len(response)
        /\ s2c' = Append(s2c, response[pos + 1]) /\ pos' = pos + 1
        /\ UNCHANGED <<spc, present, response, c2s, shut, gone, closed>>
    BY <1>3 DEF SendBack
  <2>2. present = 1
    BY <1>t, <2>1 DEF WithoutFile
  <2>3. response[pos + 1] \in Int
    BY <1>t, <2>1
  <2>4. /\ Len(s2c') = Len(s2c) + 1 /\ DOMAIN s2c' = 1..Len(s2c) + 1
        /\ \A k \in 1..Len(s2c) : s2c'[k] = s2c[k]
        /\ s2c'[Len(s2c) + 1] = response[pos + 1] /\ DOMAIN s2c = 1..Len(s2c)
    BY <1>t, <2>1, <2>3
  <2>5. Places' /\ Storing' /\ WithoutFile' /\ IsBeginning' /\ AtEnd'
    BY <1>u, <2>1, <2>2 DEF Places, Storing, WithoutFile, IsBeginning, AtEnd
  <2>6. ASSUME cpc = "recv"
        PROVE  /\ Len(recvFile) + Len(s2c') = pos'
               /\ \A k \in DOMAIN s2c' : s2c'[k] = response[Len(recvFile) + k]
    <3>1. /\ Len(recvFile) + Len(s2c) = pos
          /\ \A k \in DOMAIN s2c : s2c[k] = response[Len(recvFile) + k]
      BY <2>1, <2>2, <2>6 DEF Returning
    <3>2. Len(recvFile) + (Len(s2c) + 1) = pos + 1
      <4>1. Len(recvFile) + Len(s2c) = pos
        BY <3>1
      <4>2. Len(recvFile) \in Nat /\ Len(s2c) \in Nat
        BY <1>t
      <4> QED
        BY <4>1, <4>2
    <3>3. ASSUME NEW k \in 1..Len(s2c) + 1
          PROVE  s2c'[k] = response[Len(recvFile) + k]
      <4>1. CASE k \in 1..Len(s2c)
        BY <2>4, <3>1, <4>1
      <4>2. CASE k = Len(s2c) + 1
        BY <2>4, <3>2, <4>2
      <4> QED
        BY <4>1, <4>2, <1>t
    <3> QED
      BY <2>1, <2>4, <3>2, <3>3
  <2>7. Returning'
    BY <1>u, <2>1, <2>2, <2>6 DEF Returning
  <2> QED
    BY <1>u, <2>5, <2>7
<1>4. CASE SendBroken \/ CloseAll
  <2>1. /\ spc = "send" /\ spc' = "exit" /\ closed' = 1
        /\ UNCHANGED <<present, response, pos, c2s, s2c, shut, gone>>
        /\ gone = 1 \/ pos = Len(response)
    BY <1>4 DEF SendBroken, CloseAll
  <2>2. cpc = "recv" => gone = 0
    BY DEF Places
  <2>3. Places' /\ Storing' /\ WithoutFile' /\ IsBeginning' /\ AtEnd'
    BY <1>u, <2>1 DEF Places, Storing, WithoutFile, IsBeginning, AtEnd
  <2>4. Returning'
    BY <1>u, <2>1, <2>2 DEF Returning
  <2> QED
    BY <1>u, <2>3, <2>4
<1> QED
  BY <1>1, <1>2, <1>3, <1>4 DEF Server, ServerStep

\* What the invariant says of the two files.
LEMMA BlockingFiles ==
    ASSUME Shapes, BlockingInv
    PROVE  Blocking!ReceivedInOrder /\ Blocking!RoundTrip
<1>t. /\ recvFile \in Seq(Int) /\ response \in Seq(Int)
      /\ Len(recvFile) \in Nat /\ Len(response) \in Nat
      /\ present \in {0, 1} /\ spc \in {"read", "send", "exit"}
      /\ Blocks \in Nat
  BY TransferAssumption DEF Shapes, ServerTypes, RingTypes
<1>1. Len(recvFile) <= Len(response)
      /\ \A k \in 1..Len(recvFile) : recvFile[k] = response[k]
  BY <1>t DEF BlockingInv, IsBeginning
<1>2. Blocking!IsPrefixOf(recvFile, response)
  <2>1. SubSeq(response, 1, Len(recvFile)) = recvFile
    <3> DEFINE s == SubSeq(response, 1, Len(recvFile))
    <3>1. /\ s \in Seq(Int) /\ Len(s) = Len(recvFile)
          /\ \A k \in 1..Len(recvFile) : s[k] = response[k]
      BY <1>t, <1>1
    <3> HIDE DEF s
    <3>2. s = recvFile
      BY <1>t, <1>1, <3>1, SeqEqual
    <3> QED
      BY <3>2 DEF s
  <2> QED
    BY <1>1, <2>1 DEF Blocking!IsPrefixOf
<1>3. recvFile # <<>> =>
          /\ Blocks <= Len(response) /\ \A k \in 1..Blocks : response[k] = k
  BY <1>t DEF BlockingInv, Storing, WithoutFile, Returning
<1>4. \A k \in DOMAIN recvFile : k <= Blocks => recvFile[k] = k
  <2> SUFFICES ASSUME NEW k \in 1..Len(recvFile), k <= Blocks
               PROVE  recvFile[k] = k
    BY <1>t
  <2>1. recvFile # <<>>
    BY <1>t
  <2>2. k \in 1..Blocks
    BY <1>t
  <2> QED
    BY <1>1, <1>3, <2>1, <2>2
<1>5. ASSUME cpc = "exit", cause = "eof", present = 1
      PROVE  Blocking!IsPrefixOf(Blocking!File, recvFile)
  <2>1. Len(recvFile) = Len(response) /\ spc = "exit"
    BY <1>5 DEF BlockingInv, AtEnd
  <2>2. Blocks <= Len(response) /\ \A k \in 1..Blocks : response[k] = k
    BY <1>5, <2>1 DEF BlockingInv, Returning
  <2>3. /\ Blocking!File \in Seq(Int) /\ Len(Blocking!File) = Blocks
        /\ \A k \in 1..Blocks : Blocking!File[k] = k
    <3>1. Blocking!File \in [1..Blocks -> Int]
      BY <1>t DEF Blocking!File
    <3>2. Blocking!File \in Seq(Int)
      BY <1>t, <3>1, SeqDef
    <3> QED
      BY <1>t, <3>1, <3>2 DEF Blocking!File
  <2>4. SubSeq(recvFile, 1, Blocks) = Blocking!File
    <3> DEFINE s == SubSeq(recvFile, 1, Blocks)
    <3>1. /\ s \in Seq(Int) /\ Len(s) = Blocks
          /\ \A k \in 1..Blocks : s[k] = recvFile[k]
      BY <1>t, <2>1, <2>2
    <3> HIDE DEF s
    <3>2. \A k \in 1..Blocks : s[k] = k
      BY <1>t, <1>1, <2>1, <2>2, <3>1
    <3> HIDE DEF Blocking!File
    <3>3. s = Blocking!File
      BY <2>3, <3>1, <3>2, SeqEqual
    <3> QED
      BY <3>3 DEF s
  <2> QED
    BY <2>1, <2>2, <2>3, <2>4 DEF Blocking!IsPrefixOf
<1> QED
  BY <1>2, <1>4, <1>5 DEF Blocking!ReceivedInOrder, Blocking!RoundTrip
-----------------------------------------------------------------------------
(***************************************************************************)
(* The io_uring client.  The requests of a batch are distinct, a read and  *)
(* a send for each chunk, so what is outstanding can be counted; a batch   *)
(* has as many of the one as of the other, so the ring is never full       *)
(* between the two; and every chunk handed over is sent, lost, or still to *)
(* be sent by a request of the ring.                                       *)
(***************************************************************************)
Sends == {r \in Held : r.op = "send"}

Preparing ==
    /\ inflight = {} /\ cq = <<>> /\ reaped = 0 /\ Len(sq) = batchCount
    /\ cpc \in {"read", "full"} => batchCount % 2 = 0
    /\ cpc = "read" => batchCount < BatchSize
    /\ cpc = "send" => /\ batchCount % 2 = 1 /\ off >= 1
                       /\ batchCount < BatchSize + (BatchSize % 2)
                       /\ \A r \in Sends : r.at < off

Sending ==
    /\ cpc \in {"read", "send", "full", "wait", "reap"}
    /\ off <= Blocks /\ shut = 0 /\ arrived = <<>> /\ recvFile = <<>>
    /\ IsFiniteSet(Held) /\ \A r \in Held : r.op \in {"read", "send"} /\ r.at <= off
    /\ Cardinality(Held) + Len(cq) + reaped = batchCount
    /\ Len(sent) + lost + Cardinality(Sends) = Handed
    /\ cpc \in {"read", "send", "full"} => Preparing
    /\ cpc = "wait" => sq = <<>> /\ reaped = 0
    /\ cpc = "reap" => sq = <<>> /\ inflight = {}

\* Then there is one request at a time: a chunk has arrived when its completion
\* says so, and stays in the buffer until it is written.
NoneHeld == inflight = {} /\ cq = <<>>

Waits(r) == /\ sq = <<>>
            /\ \/ inflight = {r} /\ cq = <<>>
               \/ inflight = {} /\ Len(cq) = 1

InBuffer == Len(arrived) = off + 1 /\ buf = arrived[off + 1]

Receiving ==
    /\ cpc \in {"recv", "submitRecv", "waitRecv", "write", "submitWrite",
                "waitWrite", "exit"}
    /\ Len(sent) + lost = Blocks
    /\ \A k \in DOMAIN recvFile :
          recvFile[k] # Hole => k <= Len(arrived) /\ recvFile[k] = arrived[k]
    /\ cpc = "recv" => sq = <<>> /\ NoneHeld /\ Len(arrived) = off
    /\ cpc = "submitRecv" => /\ sq = <<[op |-> "recv", at |-> 0]>>
                             /\ NoneHeld /\ Len(arrived) = off
    /\ cpc = "waitRecv" => /\ Waits([op |-> "recv", at |-> 0])
                           /\ cq = <<>> => Len(arrived) = off
                           /\ cq # <<>> /\ cq[1].res > 0 => InBuffer
    /\ cpc = "write" => sq = <<>> /\ NoneHeld
    /\ cpc = "submitWrite" => sq = <<[op |-> "write", at |-> off + 1]>> /\ NoneHeld
    /\ cpc = "waitWrite" => Waits([op |-> "write", at |-> off + 1])
    /\ cpc \in {"write", "submitWrite", "waitWrite"} => InBuffer /\ received = 1
    /\ cpc = "exit" => inflight = {}

UringInv == Sending \/ Receiving

\* A request is added to those the ring holds.
LEMMA Added ==
    ASSUME sq \in Seq(Valid), NEW r \in Valid, r \notin Held, IsFiniteSet(Held),
           sq' = Append(sq, r), UNCHANGED inflight
    PROVE  /\ Held' = Held \cup {r} /\ IsFiniteSet(Held')
           /\ Cardinality(Held') = Cardinality(Held) + 1
           /\ Cardinality(Sends') = Cardinality(Sends)
                                    + (IF r.op = "send" THEN 1 ELSE 0)
           /\ Cardinality(Held) \in Nat /\ Cardinality(Sends) \in Nat
<1>1. Held' = Held \cup {r}
  <2>1. /\ Len(sq) \in Nat /\ DOMAIN sq = 1..Len(sq)
        /\ DOMAIN sq' = 1..Len(sq) + 1 /\ sq'[Len(sq) + 1] = r
        /\ \A k \in 1..Len(sq) : sq'[k] = sq[k]
    OBVIOUS
  <2>2. {sq'[k] : k \in DOMAIN sq'} = {sq[k] : k \in DOMAIN sq} \cup {r}
    <3>1. ASSUME NEW k \in DOMAIN sq'
          PROVE  sq'[k] \in {sq[i] : i \in DOMAIN sq} \cup {r}
      <4>1. k \in 1..Len(sq) \/ k = Len(sq) + 1
        BY <2>1
      <4> QED
        BY <2>1, <4>1
    <3>2. ASSUME NEW k \in DOMAIN sq PROVE sq[k] \in {sq'[i] : i \in DOMAIN sq'}
      <4>1. k \in 1..Len(sq) + 1
        BY <2>1
      <4> QED
        BY <2>1, <4>1
    <3>3. Len(sq) + 1 \in DOMAIN sq'
      BY <2>1
    <3> QED
      BY <2>1, <3>1, <3>2, <3>3
  <2> QED
    BY <2>2 DEF Held
<1>2. /\ IsFiniteSet(Held') /\ Cardinality(Held') = Cardinality(Held) + 1
      /\ Cardinality(Held) \in Nat
  BY <1>1, FS_AddElement, FS_CardinalityType
<1>3. IsFiniteSet(Sends) /\ Cardinality(Sends) \in Nat
  BY FS_Subset, FS_CardinalityType DEF Sends
<1>4. CASE r.op = "send"
  <2>1. Sends' = Sends \cup {r} /\ r \notin Sends
    BY <1>1, <1>4 DEF Sends
  <2> QED
    BY <1>1, <1>2, <1>3, <1>4, <2>1, FS_AddElement
<1>5. CASE r.op # "send"
  <2>1. Sends' = Sends
    BY <1>1, <1>5 DEF Sends
  <2> QED
    BY <1>1, <1>2, <1>3, <1>5, <2>1
<1> QED
  BY <1>4, <1>5

\* One is taken away.
LEMMA Removed ==
    ASSUME NEW r \in inflight, sq = <<>>, sq' = <<>>, inflight' = inflight \ {r},
           IsFiniteSet(Held)
    PROVE  /\ Held' = Held \ {r} /\ IsFiniteSet(Held')
           /\ Cardinality(Held') = Cardinality(Held) - 1
           /\ Cardinality(Sends') = Cardinality(Sends)
                                    - (IF r.op = "send" THEN 1 ELSE 0)
           /\ Cardinality(Held) \in Nat /\ Cardinality(Sends) \in Nat
<1>1. Held = inflight /\ Held' = inflight' /\ r \in Held
  BY DEF Held
<1>2. /\ IsFiniteSet(Held') /\ Cardinality(Held') = Cardinality(Held) - 1
      /\ Cardinality(Held) \in Nat /\ Held' = Held \ {r}
  BY <1>1, FS_RemoveElement, FS_CardinalityType
<1>3. IsFiniteSet(Sends) /\ Cardinality(Sends) \in Nat
  BY FS_Subset, FS_CardinalityType DEF Sends
<1>4. CASE r.op = "send"
  <2>1. Sends' = Sends \ {r} /\ r \in Sends
    BY <1>1, <1>2, <1>4 DEF Sends
  <2>2. Cardinality(Sends') = Cardinality(Sends) - 1
    BY <1>3, <2>1, FS_RemoveElement
  <2> QED
    BY <1>2, <1>3, <1>4, <2>2
<1>5. CASE r.op # "send"
  <2>1. Sends' = Sends
    BY <1>1, <1>2, <1>5 DEF Sends
  <2> QED
    BY <1>2, <1>3, <1>5, <2>1
<1> QED
  BY <1>4, <1>5

LEMMA UringInit == Init /\ program = "uring" => UringInv
<1> SUFFICES ASSUME Init, program = "uring" PROVE UringInv
  OBVIOUS
<1>1. /\ inflight = {} /\ sq = <<>> /\ cq = <<>> /\ cpc = "read" /\ off = 0
      /\ batchCount = 0 /\ reaped = 0 /\ shut = 0 /\ recvFile = <<>>
      /\ sent = <<>> /\ lost = 0 /\ arrived = <<>>
  BY DEF Init, RingInit, ServerInit
<1>2. Held = {} /\ Sends = {}
  BY <1>1 DEF Held, Sends
<1>3. IsFiniteSet({}) /\ Cardinality({}) = 0
  BY FS_EmptySet
<1>4. Preparing
  BY <1>1, <1>2, RingAssumption DEF Preparing
<1> QED
  BY <1>1, <1>2, <1>3, <1>4, TransferAssumption DEF UringInv, Sending, Handed

\* Of an even number of requests, one more leaves room for another.
LEMMA Parity ==
    ASSUME NEW b \in Nat, NEW n \in Nat
    PROVE  /\ n % 2 \in {0, 1}
           /\ b % 2 = 0 => (b + 1) % 2 = 1
           /\ b % 2 = 1 => (b + 1) % 2 = 0
           /\ b % 2 = 0 /\ b < n => b + 1 < n + (n % 2)
<1>1. \A m \in Nat : m % 2 \in {0, 1} /\ (m + 1) % 2 = 1 - (m % 2)
  OBVIOUS
<1>2. n % 2 \in {0, 1} /\ b % 2 \in {0, 1} /\ (b + 1) % 2 = 1 - (b % 2)
  BY <1>1
<1>3. ASSUME b % 2 = 0, b < n PROVE b + 1 < n + (n % 2)
  <2>0. b < n
    BY <1>3
  <2>1. CASE n % 2 = 1
    <3>1. b + 1 < n + 1
      BY <2>0
    <3> QED
      BY <2>1, <3>1
  <2>2. CASE n % 2 = 0
    <3>1. n # b + 1
      BY <1>2, <1>3, <2>2
    <3>2. b + 1 < n + 0
      BY <2>0, <3>1
    <3> QED
      BY <2>2, <3>2
  <2> QED
    BY <1>2, <2>1, <2>2
<1> QED
  BY <1>2, <1>3

\* The client's steps while it sends.
LEMMA SendingStep ==
    ASSUME Shapes, Sending, Uring!Client
    PROVE  UringInv'
<1>t. /\ sq \in Seq(Valid) /\ Len(sq) \in Nat /\ cq \in Seq(Completion)
      /\ Len(cq) \in Nat /\ off \in Nat /\ batchCount \in Nat /\ reaped \in Nat
      /\ Len(sent) \in Nat /\ lost \in Nat /\ Blocks \in Nat
      /\ BatchSize \in Nat \ {0} /\ Entries \in Nat
      /\ BatchSize + (BatchSize % 2) <= Entries
  BY TransferAssumption, RingAssumption, DepthAssumption
     DEF Shapes, RingTypes, AppTypes
<1>s. /\ off <= Blocks /\ shut = 0 /\ arrived = <<>> /\ recvFile = <<>>
      /\ IsFiniteSet(Held)
      /\ \A r \in Held : r.op \in {"read", "send"} /\ r.at <= off
      /\ Cardinality(Held) + Len(cq) + reaped = batchCount
      /\ Len(sent) + lost + Cardinality(Sends) = Handed
      /\ Cardinality(Held) \in Nat
  BY FS_CardinalityType DEF Sending
<1>c. IsFiniteSet(Sends) /\ Cardinality(Sends) \in Nat
  BY <1>s, FS_Subset, FS_CardinalityType DEF Sends
<1>1. CASE Uring!PrepRead
  <2> DEFINE r == [op |-> "read", at |-> off + 1]
  <2>1. /\ cpc = "read" /\ off < Blocks
        /\ UNCHANGED <<reaped, inflight, cq, recvFile, shut, arrived, sent, lost>>
    BY <1>1 DEF Uring!PrepRead, Uring!history
  <2>2. /\ inflight = {} /\ cq = <<>> /\ reaped = 0 /\ Len(sq) = batchCount
        /\ batchCount % 2 = 0 /\ batchCount < BatchSize
    BY <2>1 DEF Sending, Preparing
  <2>3. Len(sq) < Entries
    BY <2>2, <1>t, Parity
  <2>4. /\ cpc' = "send" /\ sq' = Append(sq, r) /\ batchCount' = batchCount + 1
        /\ off' = off + 1
    BY <1>1, <2>3 DEF Uring!PrepRead, Uring!Prepare, Uring!Goto
  <2>5. r \in Valid
    BY <2>1, <1>t DEF Valid, Request, Ops
  <2>6. r \notin Held
    BY <1>s, <1>t
  <2>7. /\ Held' = Held \cup {r} /\ IsFiniteSet(Held')
        /\ Cardinality(Held') = Cardinality(Held) + 1
        /\ Cardinality(Sends') = Cardinality(Sends) + 0
    <3> HIDE DEF r
    <3>1. sq' = Append(sq, r) /\ UNCHANGED inflight
      BY <2>1, <2>4
    <3>2. r.op = "read"
      BY DEF r
    <3> QED
      BY <3>1, <3>2, <2>5, <2>6, <1>s, <1>t, Added
  <2>8. Handed = off /\ Handed' = off
    BY <2>1, <2>4, <1>t DEF Handed
  <2>9. \A q \in Held' : q.op \in {"read", "send"} /\ q.at <= off'
    <3> SUFFICES ASSUME NEW q \in Held'
                 PROVE  q.op \in {"read", "send"} /\ q.at <= off'
      OBVIOUS
    <3>1. CASE q = r
      BY <2>4, <3>1, <1>t
    <3>2. CASE q \in Held
      <4>1. q \in Valid
        BY <3>2, <1>t DEF Held, Shapes, RingTypes
      <4>2. q.at \in Int
        BY <4>1, <1>t DEF Valid, Request
      <4> QED
        BY <2>4, <3>2, <4>2, <1>s, <1>t
    <3> QED
      BY <2>7, <3>1, <3>2
  <2>10. \A q \in Sends' : q.at < off'
    <3>1. \A q \in Sends' : q \in Held
      BY <2>7 DEF Sends
    <3>2. \A q \in Held : q.at \in Nat
      BY DEF Held, Shapes, RingTypes, Valid, Request
    <3> QED
      BY <2>4, <3>1, <3>2, <1>s, <1>t
  <2>11. Len(sq') = Len(sq) + 1
    BY <2>4, <1>t
  <2>12. batchCount' % 2 = 1 /\ batchCount' < BatchSize + (BatchSize % 2)
    <3>1. BatchSize \in Nat /\ batchCount \in Nat
      BY <1>t
    <3> QED
      BY <2>2, <2>4, <3>1, Parity
  <2>13. off' >= 1
    BY <2>4, <1>t
  <2>14. Preparing'
    BY <2>1, <2>2, <2>4, <2>10, <2>11, <2>12, <2>13 DEF Preparing
  <2>15. off' <= Blocks
    BY <2>1, <2>4, <1>t
  <2>16. Len(sent') + lost' + Cardinality(Sends') = Handed'
    BY <2>1, <2>7, <2>8, <1>s, <1>c
  <2>17. Cardinality(Held') + Len(cq') + reaped' = batchCount'
    <3>1. (Cardinality(Held) + 1) + Len(cq) + reaped = batchCount + 1
      BY <1>s, <1>t
    <3> QED
      BY <2>1, <2>4, <2>7, <3>1
  <2> QED
    BY <2>1, <2>4, <2>7, <2>9, <2>14, <2>15, <2>16, <2>17, <1>s
       DEF UringInv, Sending
<1>2. CASE Uring!PrepSend
  <2> DEFINE r == [op |-> "send", at |-> off]
  <2>1. /\ cpc = "send"
        /\ UNCHANGED <<off, reaped, inflight, cq, recvFile, shut, arrived, sent,
                       lost>>
    BY <1>2 DEF Uring!PrepSend, Uring!history
  <2>2. /\ inflight = {} /\ cq = <<>> /\ reaped = 0 /\ Len(sq) = batchCount
        /\ batchCount % 2 = 1 /\ batchCount < BatchSize + (BatchSize % 2)
        /\ off >= 1 /\ \A q \in Sends : q.at < off
    BY <2>1 DEF Sending, Preparing
  <2>3. Len(sq) < Entries
    BY <2>2, <1>t
  <2>4. cpc' = "full" /\ sq' = Append(sq, r) /\ batchCount' = batchCount + 1
    BY <1>2, <2>3 DEF Uring!PrepSend, Uring!Prepare, Uring!Goto
  <2>5. r \in Valid
    BY <1>t DEF Valid, Request, Ops
  <2>6. r \notin Held
    BY <2>2, <1>t DEF Sends
  <2>7. /\ Held' = Held \cup {r} /\ IsFiniteSet(Held')
        /\ Cardinality(Held') = Cardinality(Held) + 1
        /\ Cardinality(Sends') = Cardinality(Sends) + 1
    <3> HIDE DEF r
    <3>1. sq' = Append(sq, r) /\ UNCHANGED inflight
      BY <2>1, <2>4
    <3>2. r.op = "send"
      BY DEF r
    <3> QED
      BY <3>1, <3>2, <2>5, <2>6, <1>s, <1>t, Added
  <2>8. Handed = off - 1 /\ Handed' = off
    BY <2>1, <2>4, <1>t DEF Handed
  <2>9. \A q \in Held' : q.op \in {"read", "send"} /\ q.at <= off'
    BY <2>1, <2>7, <1>s, <1>t
  <2>11. Len(sq') = Len(sq) + 1
    BY <2>4, <1>t
  <2>12. batchCount' % 2 = 0
    BY <2>2, <2>4, <1>t, Parity
  <2>14. Preparing'
    BY <2>1, <2>2, <2>4, <2>11, <2>12 DEF Preparing
  <2>16. Len(sent') + lost' + Cardinality(Sends') = Handed'
    <3>1. Len(sent) + lost + Cardinality(Sends) = off - 1
      BY <2>8, <1>s
    <3>2. Len(sent) + lost + (Cardinality(Sends) + 1) = off
      BY <3>1, <1>t, <1>c
    <3> QED
      BY <2>1, <2>7, <2>8, <3>2
  <2>17. Cardinality(Held') + Len(cq') + reaped' = batchCount'
    <3>1. (Cardinality(Held) + 1) + Len(cq) + reaped = batchCount + 1
      BY <1>s, <1>t
    <3> QED
      BY <2>1, <2>4, <2>7, <3>1
  <2> QED
    BY <2>1, <2>4, <2>7, <2>9, <2>14, <2>16, <2>17, <1>s DEF UringInv, Sending
<1>3. CASE Uring!NotFull
  <2>1. /\ cpc = "full" /\ batchCount < BatchSize /\ cpc' = "read"
        /\ UNCHANGED <<off, batchCount, reaped, sq, inflight, cq, recvFile, shut,
                       arrived, sent, lost>>
    BY <1>3 DEF Uring!NotFull, Uring!Goto, Uring!ring, Uring!uring,
                Uring!history, Uring!sock
  <2>2. Held' = Held /\ Sends' = Sends /\ Handed' = Handed
    BY <2>1 DEF Held, Sends, Handed
  <2>3. Preparing'
    BY <2>1 DEF Sending, Preparing
  <2> QED
    BY <2>1, <2>2, <2>3, <1>s DEF UringInv, Sending
<1>4. CASE Uring!Submit
  <2>1. /\ cpc \in {"full", "read"} /\ cpc' = "wait" /\ sq' = <<>>
        /\ inflight' = inflight \cup {sq[k] : k \in DOMAIN sq}
        /\ UNCHANGED <<off, batchCount, reaped, cq, recvFile, shut, arrived, sent,
                       lost>>
    BY <1>4 DEF Uring!Submit, Uring!SubmitAll, Uring!Goto, Uring!history,
                Uring!sock
  <2>2. Held' = Held /\ Sends' = Sends /\ Handed' = Handed
    <3>1. Held' = Held
      BY <2>1 DEF Held
    <3> QED
      BY <2>1, <3>1 DEF Sends, Handed
  <2>3. reaped = 0
    BY <2>1 DEF Sending, Preparing
  <2> QED
    BY <2>1, <2>2, <2>3, <1>s DEF UringInv, Sending
<1>5. CASE Uring!Waited
  <2>1. /\ cpc = "wait" /\ cpc' = "reap" /\ Len(cq) >= batchCount
        /\ UNCHANGED <<off, batchCount, reaped, sq, inflight, cq, recvFile, shut,
                       arrived, sent, lost>>
    BY <1>5 DEF Uring!Waited, Uring!Goto, Uring!ring, Uring!uring,
                Uring!history, Uring!sock
  <2>2. Held' = Held /\ Sends' = Sends /\ Handed' = Handed
    BY <2>1 DEF Held, Sends, Handed
  <2>3. sq = <<>> /\ reaped = 0
    BY <2>1 DEF Sending
  <2>4. Cardinality(Held) = 0
    BY <2>1, <2>3, <1>s, <1>t
  <2>5. inflight = {}
    BY <2>4, <1>s, FS_EmptySet DEF Held
  <2> QED
    BY <2>1, <2>2, <2>3, <2>5, <1>s DEF UringInv, Sending
<1>6. CASE Uring!Peek
  <2>1. /\ cpc = "reap" /\ reaped < batchCount
        /\ UNCHANGED <<off, batchCount, sq, inflight, recvFile, shut, arrived,
                       sent, lost>>
    BY <1>6 DEF Uring!Peek, Uring!history
  <2>2. sq = <<>> /\ inflight = {}
    BY <2>1 DEF Sending
  <2>3. Held = {}
    BY <2>2 DEF Held
  <2>4. Cardinality(Held) = 0
    BY <2>3, FS_EmptySet
  <2>5. cq # <<>>
    <3>1. Len(cq) # 0
      BY <2>1, <2>4, <1>s, <1>t
    <3> QED
      BY <3>1
  <2>6. reaped' = reaped + 1 /\ cq' = Tail(cq) /\ cpc' = cpc
    BY <1>6, <2>5 DEF Uring!Peek
  <2>7. Len(cq') = Len(cq) - 1
    BY <2>5, <2>6, <1>t
  <2>8. Held' = Held /\ Sends' = Sends /\ Handed' = Handed
    BY <2>1, <2>6 DEF Held, Sends, Handed
  <2>9. Cardinality(Held') + Len(cq') + reaped' = batchCount'
    <3>1. Cardinality(Held) + (Len(cq) - 1) + (reaped + 1) = batchCount
      BY <1>s, <1>t
    <3> QED
      BY <2>1, <2>6, <2>7, <2>8, <3>1
  <2> QED
    BY <2>1, <2>2, <2>6, <2>8, <2>9, <1>s DEF UringInv, Sending
<1>7. CASE Uring!Reaped
  <2>1. /\ cpc = "reap" /\ cpc' = "read" /\ reaped = batchCount
        /\ batchCount' = 0 /\ reaped' = 0
        /\ UNCHANGED <<off, sq, inflight, cq, recvFile, shut, arrived, sent, lost>>
    BY <1>7 DEF Uring!Reaped, Uring!Goto, Uring!ring, Uring!uring,
                Uring!history, Uring!sock
  <2>2. sq = <<>> /\ inflight = {}
    BY <2>1 DEF Sending
  <2>3. Held' = Held /\ Sends' = Sends /\ Handed' = Handed
    BY <2>1 DEF Held, Sends, Handed
  <2>4. Len(cq) = 0 /\ Cardinality(Held) = 0
    BY <2>1, <1>s, <1>t
  <2>5. cq = <<>>
    BY <2>4, <1>t
  <2>6. Preparing'
    BY <2>1, <2>2, <2>5, <1>t DEF Preparing
  <2>7. Cardinality(Held') + Len(cq') + reaped' = batchCount'
    BY <2>1, <2>3, <2>4
  <2> QED
    BY <2>1, <2>3, <2>6, <2>7, <1>s DEF UringInv, Sending
<1>8. CASE Uring!Shutdown
  <2>1. /\ cpc = "read" /\ cpc' = "recv" /\ off = Blocks /\ batchCount = 0
        /\ off' = 0
        /\ UNCHANGED <<sq, inflight, cq, recvFile, arrived, sent, lost>>
    BY <1>8 DEF Uring!Shutdown, Uring!Goto, Uring!uring, Uring!history
  <2>2. inflight = {} /\ cq = <<>> /\ Len(sq) = 0
    BY <2>1 DEF Sending, Preparing
  <2>3. sq = <<>>
    BY <2>2, <1>t
  <2>4. Sends = {}
    BY <2>2, <2>3 DEF Sends, Held
  <2>5. Len(sent) + lost + 0 = Blocks
    BY <2>1, <2>4, <1>s, FS_EmptySet DEF Handed
  <2> QED
    BY <2>1, <2>2, <2>3, <2>5, <1>s, <1>t DEF UringInv, Receiving, NoneHeld
<1>9. /\ ~Uring!PrepRecv /\ ~Uring!SubmitOne /\ ~Uring!WaitRecv
      /\ ~Uring!PrepWrite /\ ~Uring!WaitWrite
  BY DEF Sending, Uring!PrepRecv, Uring!SubmitOne, Uring!WaitRecv,
         Uring!PrepWrite, Uring!WaitWrite
<1> QED
  BY <1>1, <1>2, <1>3, <1>4, <1>5, <1>6, <1>7, <1>8, <1>9 DEF Uring!Client

\* The kernel works while the client waits for its batch.
LEMMA SendingKernel ==
    ASSUME Shapes, Sending, Kernel, UNCHANGED app
    PROVE  Sending'
<1>t. /\ cq \in Seq(Completion) /\ Len(cq) \in Nat /\ reaped \in Nat
      /\ sent \in Seq(Int) /\ Len(sent) \in Nat /\ lost \in Nat /\ buf \in Int
  BY DEF Shapes, RingTypes, AppTypes
<1>1. inflight # {}
  BY DEF Kernel
<1>2. cpc = "wait" /\ sq = <<>> /\ reaped = 0
  BY <1>1 DEF Sending, Preparing
<1>3. PICK r \in inflight :
        KernelRead(r) \/ KernelSend(r) \/ KernelRecv(r) \/ KernelWrite(r)
  BY DEF Kernel
<1>4. r \in Held /\ r.op \in {"read", "send"}
  BY DEF Held, Sending
<1>5. /\ IsFiniteSet(Held) /\ \A q \in Held : q.op \in {"read", "send"} /\ q.at <= off
      /\ Cardinality(Held) + Len(cq) + reaped = batchCount
      /\ Len(sent) + lost + Cardinality(Sends) = Handed
  BY DEF Sending
<1>6. PICK res \in -1..1 : Complete(r, res)
  BY <1>3 DEF KernelRead, KernelSend, KernelRecv, KernelWrite
<1>7. /\ inflight' = inflight \ {r} /\ sq' = sq
      /\ cq' = Append(cq, [op |-> r.op, res |-> res])
  BY <1>6 DEF Complete
<1>8. Len(cq') = Len(cq) + 1
  BY <1>6, CompleteShapes DEF Shapes
<1>9. /\ Held' = Held \ {r} /\ IsFiniteSet(Held')
      /\ Cardinality(Held') = Cardinality(Held) - 1
      /\ Cardinality(Sends') = Cardinality(Sends)
                               - (IF r.op = "send" THEN 1 ELSE 0)
      /\ Cardinality(Held) \in Nat /\ Cardinality(Sends) \in Nat
  BY <1>2, <1>5, <1>7, Removed
<1>10. UNCHANGED <<cpc, off, batchCount, reaped>> /\ Handed' = Handed
  BY DEF app, Handed
<1>11. /\ UNCHANGED <<shut, arrived, recvFile>>
       /\ Len(sent') + lost' + Cardinality(Sends') = Handed
  <2>1. CASE KernelRead(r)
    <3>1. UNCHANGED <<shut, arrived, recvFile, sent, lost>> /\ r.op = "read"
      BY <2>1 DEF KernelRead, sock
    <3>2. Cardinality(Sends') = Cardinality(Sends) - 0
      BY <1>9, <3>1
    <3> QED
      BY <1>5, <1>9, <3>1, <3>2
  <2>2. CASE KernelSend(r)
    <3>1. UNCHANGED <<shut, arrived, recvFile>> /\ r.op = "send"
      BY <2>2 DEF KernelSend
    <3>2. Cardinality(Sends') = Cardinality(Sends) - 1
      BY <1>9, <3>1
    <3>3. CASE sent' = Append(sent, buf) /\ lost' = lost
      <4>1. Len(sent') = Len(sent) + 1
        BY <1>t, <3>3
      <4>2. (Len(sent) + 1) + lost + (Cardinality(Sends) - 1)
              = Len(sent) + lost + Cardinality(Sends)
        BY <1>t, <1>9
      <4> QED
        BY <1>5, <3>1, <3>2, <3>3, <4>1, <4>2
    <3>4. CASE sent' = sent /\ lost' = lost + 1
      <4>1. Len(sent) + (lost + 1) + (Cardinality(Sends) - 1)
              = Len(sent) + lost + Cardinality(Sends)
        BY <1>t, <1>9
      <4> QED
        BY <1>5, <3>1, <3>2, <3>4, <4>1
    <3> QED
      BY <2>2, <3>3, <3>4 DEF KernelSend
  <2> QED
    BY <1>3, <1>4, <2>1, <2>2 DEF KernelRecv, KernelWrite
<1>12. Cardinality(Held') + Len(cq') + reaped' = batchCount'
  <2>1. (Cardinality(Held) - 1) + (Len(cq) + 1) + reaped = batchCount
    BY <1>t, <1>5, <1>9
  <2> QED
    BY <1>8, <1>9, <1>10, <2>1
<1> QED
  BY <1>2, <1>5, <1>7, <1>9, <1>10, <1>11, <1>12 DEF Sending

\* The client's steps while it receives.
LEMMA ReceivingStep ==
    ASSUME Shapes, Receiving, Uring!Client
    PROVE  Receiving'
<1>t. /\ sq \in Seq(Valid) /\ cq \in Seq(Completion) /\ off \in Nat
      /\ Entries \in Nat \ {0}
  BY RingAssumption DEF Shapes, RingTypes, AppTypes
<1>e. Len(<<>>) < Entries
  BY <1>t
<1>s. /\ Len(sent) + lost = Blocks
      /\ \A k \in DOMAIN recvFile :
            recvFile[k] # Hole => k <= Len(arrived) /\ recvFile[k] = arrived[k]
  BY DEF Receiving
<1>1. CASE Uring!PrepRecv
  <2>1. /\ cpc = "recv"
        /\ UNCHANGED <<off, inflight, cq, recvFile, arrived, sent, lost>>
    BY <1>1 DEF Uring!PrepRecv, Uring!history
  <2>2. sq = <<>> /\ NoneHeld /\ Len(arrived) = off
    BY <2>1 DEF Receiving
  <2>3. cpc' = "submitRecv" /\ sq' = Append(sq, [op |-> "recv", at |-> 0])
    BY <1>1, <1>e, <2>2 DEF Uring!PrepRecv, Uring!Prepare, Uring!Goto
  <2>4. sq' = <<[op |-> "recv", at |-> 0]>>
    BY <2>2, <2>3
  <2> QED
    BY <1>s, <2>1, <2>2, <2>3, <2>4 DEF Receiving, NoneHeld
<1>2. CASE Uring!SubmitOne
  <2>1. /\ cpc \in {"submitRecv", "submitWrite"} /\ sq' = <<>>
        /\ inflight' = inflight \cup {sq[k] : k \in DOMAIN sq}
        /\ cpc' = (IF cpc = "submitRecv" THEN "waitRecv" ELSE "waitWrite")
        /\ UNCHANGED <<off, received, cq, buf, recvFile, arrived, sent, lost>>
    BY <1>2 DEF Uring!SubmitOne, Uring!SubmitAll, Uring!Goto, Uring!history
  <2>2. CASE cpc = "submitRecv"
    <3>1. sq = <<[op |-> "recv", at |-> 0]>> /\ NoneHeld /\ Len(arrived) = off
      BY <2>2 DEF Receiving
    <3>2. {sq[k] : k \in DOMAIN sq} = {[op |-> "recv", at |-> 0]}
      BY <3>1
    <3>3. inflight' = {[op |-> "recv", at |-> 0]} /\ cq' = <<>>
      BY <2>1, <3>1, <3>2 DEF NoneHeld
    <3>4. cpc' = "waitRecv" /\ Len(arrived') = off'
      BY <2>1, <2>2, <3>1
    <3>5. Waits([op |-> "recv", at |-> 0])'
      <4>1. sq' = <<>> /\ off' = off
        BY <2>1
      <4> QED
        BY <3>3, <4>1 DEF Waits
    <3> QED
      BY <1>s, <2>1, <3>3, <3>4, <3>5 DEF Receiving
  <2>3. CASE cpc = "submitWrite"
    <3>1. /\ sq = <<[op |-> "write", at |-> off + 1]>> /\ NoneHeld
          /\ InBuffer /\ received = 1
      BY <2>3 DEF Receiving
    <3>2. {sq[k] : k \in DOMAIN sq} = {[op |-> "write", at |-> off + 1]}
      BY <3>1
    <3>3. inflight' = {[op |-> "write", at |-> off + 1]} /\ cq' = <<>>
      BY <2>1, <3>1, <3>2 DEF NoneHeld
    <3>4. InBuffer'
      BY <2>1, <3>1 DEF InBuffer
    <3>5. cpc' = "waitWrite" /\ received' = 1
      BY <2>1, <2>3, <3>1
    <3>6. Waits([op |-> "write", at |-> off + 1])'
      <4>1. sq' = <<>> /\ off' = off
        BY <2>1
      <4> QED
        BY <3>3, <4>1 DEF Waits
    <3> QED
      BY <1>s, <2>1, <3>4, <3>5, <3>6 DEF Receiving
  <2> QED
    BY <2>1, <2>2, <2>3
<1>3. CASE Uring!WaitRecv
  <2>1. /\ cpc = "waitRecv" /\ cq # <<>> /\ cq' = Tail(cq)
        /\ UNCHANGED <<off, sq, inflight, buf, recvFile, arrived, sent, lost>>
    BY <1>3 DEF Uring!WaitRecv, Uring!history
  <2>2. /\ sq = <<>> /\ inflight = {} /\ Len(cq) = 1
        /\ cq[1].res > 0 => InBuffer
    BY <2>1 DEF Receiving, Waits
  <2>3. cq' = <<>> /\ Head(cq) = cq[1] /\ cq[1] \in Completion
    BY <1>t, <2>1, <2>2
  <2>4. CASE cq[1].res <= 0
    <3>1. cpc' = "exit"
      BY <1>3, <2>3, <2>4 DEF Uring!WaitRecv, Uring!Goto
    <3> QED
      BY <1>s, <2>1, <2>2, <3>1 DEF Receiving
  <2>5. CASE ~(cq[1].res <= 0)
    <3>1. cpc' = "write" /\ received' = cq[1].res
      BY <1>3, <2>3, <2>5 DEF Uring!WaitRecv, Uring!Goto
    <3>2. cq[1].res = 1
      BY <2>3, <2>5 DEF Completion
    <3>3. InBuffer'
      BY <2>1, <2>2, <3>2 DEF InBuffer
    <3> QED
      BY <1>s, <2>1, <2>2, <2>3, <3>1, <3>2, <3>3 DEF Receiving, NoneHeld
  <2> QED
    BY <2>4, <2>5
<1>4. CASE Uring!PrepWrite
  <2>1. /\ cpc = "write"
        /\ UNCHANGED <<off, received, inflight, cq, buf, recvFile, arrived, sent,
                       lost>>
    BY <1>4 DEF Uring!PrepWrite, Uring!history
  <2>2. sq = <<>> /\ NoneHeld /\ InBuffer /\ received = 1
    BY <2>1 DEF Receiving
  <2>3. cpc' = "submitWrite" /\ sq' = Append(sq, [op |-> "write", at |-> off + 1])
    BY <1>4, <1>e, <2>2 DEF Uring!PrepWrite, Uring!Prepare, Uring!Goto
  <2>4. sq' = <<[op |-> "write", at |-> off + 1]>>
    BY <2>2, <2>3
  <2>5. InBuffer'
    BY <2>1, <2>2 DEF InBuffer
  <2> QED
    BY <1>s, <2>1, <2>2, <2>3, <2>4, <2>5 DEF Receiving, NoneHeld
<1>5. CASE Uring!WaitWrite
  <2>1. /\ cpc = "waitWrite" /\ cq # <<>> /\ cq' = Tail(cq) /\ cpc' = "recv"
        /\ off' = off + received
        /\ UNCHANGED <<sq, inflight, recvFile, arrived, sent, lost>>
    BY <1>5 DEF Uring!WaitWrite, Uring!Goto, Uring!history
  <2>2. sq = <<>> /\ inflight = {} /\ Len(cq) = 1 /\ InBuffer /\ received = 1
    BY <2>1 DEF Receiving, Waits
  <2>3. cq' = <<>>
    BY <1>t, <2>1, <2>2
  <2>4. Len(arrived) = off'
    BY <2>1, <2>2 DEF InBuffer
  <2> QED
    BY <1>s, <2>1, <2>2, <2>3, <2>4 DEF Receiving, NoneHeld
<1>6. /\ ~Uring!PrepRead /\ ~Uring!PrepSend /\ ~Uring!NotFull /\ ~Uring!Submit
      /\ ~Uring!Waited /\ ~Uring!Peek /\ ~Uring!Reaped /\ ~Uring!Shutdown
  BY DEF Receiving, Uring!PrepRead, Uring!PrepSend, Uring!NotFull,
         Uring!Submit, Uring!Waited, Uring!Peek, Uring!Reaped, Uring!Shutdown
<1> QED
  BY <1>1, <1>2, <1>3, <1>4, <1>5, <1>6 DEF Uring!Client

\* The kernel works on the one request.
LEMMA ReceivingKernel ==
    ASSUME Shapes, Receiving, Kernel, UNCHANGED app
    PROVE  Receiving'
<1>t. /\ off \in Nat /\ buf \in Int /\ recvFile \in Seq(Int)
      /\ arrived \in Seq(Int) /\ s2c \in Seq(Int)
      /\ Len(arrived) \in Nat /\ Len(recvFile) \in Nat
  BY DEF Shapes, RingTypes, AppTypes, ServerTypes
<1>s. /\ Len(sent) + lost = Blocks
      /\ \A k \in DOMAIN recvFile :
            recvFile[k] # Hole => k <= Len(arrived) /\ recvFile[k] = arrived[k]
  BY DEF Receiving
<1>a. UNCHANGED <<cpc, off, received>>
  BY DEF app
<1>1. PICK r \in inflight :
        KernelRead(r) \/ KernelSend(r) \/ KernelRecv(r) \/ KernelWrite(r)
  BY DEF Kernel
<1>2. cpc \in {"waitRecv", "waitWrite"}
  BY <1>1 DEF Receiving, NoneHeld
<1>3. PICK res \in -1..1 : Complete(r, res)
  BY <1>1 DEF KernelRead, KernelSend, KernelRecv, KernelWrite
<1>4. CASE cpc = "waitRecv"
  <2>1. sq = <<>> /\ inflight = {r} /\ cq = <<>> /\ r = [op |-> "recv", at |-> 0]
        /\ Len(arrived) = off
    BY <1>1, <1>4 DEF Receiving, Waits
  <2>2. KernelRecv(r)
    BY <1>1, <2>1 DEF KernelRead, KernelSend, KernelWrite
  <2>3. UNCHANGED <<sent, lost, recvFile>>
    BY <2>2 DEF KernelRecv
  <2>4. CASE /\ s2c # <<>> /\ Complete(r, 1) /\ buf' = Head(s2c)
             /\ arrived' = Append(arrived, Head(s2c))
    <3>1. /\ sq' = <<>> /\ inflight' = {}
          /\ cq' = Append(cq, [op |-> r.op, res |-> 1])
      BY <2>1, <2>4 DEF Complete
    <3>2. Len(cq') = 1
      BY <2>1, <3>1
    <3>3. Head(s2c) \in Int
      BY <1>t, <2>4
    <3>4. /\ Len(arrived') = Len(arrived) + 1
          /\ arrived'[Len(arrived) + 1] = Head(s2c)
          /\ \A k \in 1..Len(arrived) : arrived'[k] = arrived[k]
      BY <1>t, <2>4, <3>3
    <3>5. InBuffer'
      BY <1>a, <2>1, <2>4, <3>4 DEF InBuffer
    <3>6. Waits([op |-> "recv", at |-> 0])' /\ cq' # <<>>
      BY <3>1, <3>2 DEF Waits
    <3>7. \A k \in DOMAIN recvFile' :
            recvFile'[k] # Hole => k <= Len(arrived') /\ recvFile'[k] = arrived'[k]
      <4>1. ASSUME NEW k \in DOMAIN recvFile, recvFile[k] # Hole
            PROVE  k <= Len(arrived') /\ recvFile[k] = arrived'[k]
        <5>1. k <= Len(arrived) /\ recvFile[k] = arrived[k]
          BY <1>s, <4>1
        <5>2. k \in 1..Len(arrived)
          BY <1>t, <5>1
        <5> QED
          BY <1>t, <3>4, <5>1, <5>2
      <4> QED
        BY <2>3, <4>1
    <3> QED
      BY <1>a, <1>s, <1>4, <2>3, <3>5, <3>6, <3>7 DEF Receiving
  <2>5. ASSUME NEW e \in {0, -1}, Complete(r, e), UNCHANGED <<buf, arrived>>
        PROVE  Receiving'
    <3>1. /\ sq' = <<>> /\ inflight' = {}
          /\ cq' = Append(cq, [op |-> r.op, res |-> e])
      BY <2>1, <2>5 DEF Complete
    <3>2. Len(cq') = 1 /\ cq'[1].res \in {0, -1}
      BY <2>1, <3>1
    <3>3. Waits([op |-> "recv", at |-> 0])' /\ cq' # <<>>
      BY <3>1, <3>2 DEF Waits
    <3> QED
      BY <1>a, <1>s, <1>4, <2>3, <2>5, <3>2, <3>3 DEF Receiving
  <2> QED
    BY <2>2, <2>4, <2>5 DEF KernelRecv
<1>5. CASE cpc = "waitWrite"
  <2>1. /\ sq = <<>> /\ inflight = {r} /\ cq = <<>>
        /\ r = [op |-> "write", at |-> off + 1]
        /\ InBuffer /\ received = 1
    BY <1>1, <1>5 DEF Receiving, Waits
  <2>2. KernelWrite(r)
    BY <1>1, <2>1 DEF KernelRead, KernelSend, KernelRecv
  <2>3. UNCHANGED <<buf, arrived, sent, lost>>
    BY <2>2 DEF KernelWrite, history
  <2>4. /\ sq' = <<>> /\ inflight' = {}
        /\ cq' = Append(cq, [op |-> r.op, res |-> res])
    BY <1>3, <2>1 DEF Complete
  <2>5. Len(cq') = 1
    BY <2>1, <2>4
  <2>6. Waits([op |-> "write", at |-> off + 1])'
    BY <2>4, <2>5 DEF Waits
  <2>7. InBuffer'
    BY <1>a, <2>1, <2>3 DEF InBuffer
  <2>8. \A k \in DOMAIN recvFile' :
          recvFile'[k] # Hole => k <= Len(arrived') /\ recvFile'[k] = arrived'[k]
    <3>1. CASE recvFile' = recvFile
      BY <1>s, <2>3, <3>1
    <3>2. CASE recvFile' = [k \in 1..r.at |-> IF k = r.at THEN buf
                               ELSE IF k <= Len(recvFile) THEN recvFile[k]
                               ELSE Hole]
      <4>1. /\ DOMAIN recvFile' = 1..off + 1 /\ r.at = off + 1
            /\ \A k \in 1..off + 1 : recvFile'[k] =
                  IF k = off + 1 THEN buf
                  ELSE IF k <= Len(recvFile) THEN recvFile[k] ELSE Hole
        BY <2>1, <3>2
      <4>2. Len(arrived) = off + 1 /\ buf = arrived[off + 1]
        BY <2>1 DEF InBuffer
      <4>3. ASSUME NEW k \in 1..off + 1, recvFile'[k] # Hole
            PROVE  k <= Len(arrived) /\ recvFile'[k] = arrived[k]
        <5>1. k <= Len(arrived) /\ k \in Nat /\ k >= 1
          BY <1>t, <4>2
        <5>2. CASE k = off + 1
          BY <4>1, <4>2, <5>1, <5>2
        <5>3. CASE k # off + 1
          <6>1. k <= Len(recvFile) /\ recvFile'[k] = recvFile[k]
            BY <4>1, <4>3, <5>3
          <6>2. k \in DOMAIN recvFile
            BY <1>t, <5>1, <6>1
          <6> QED
            BY <1>s, <4>3, <6>1, <6>2
        <5> QED
          BY <5>2, <5>3
      <4> QED
        BY <2>3, <4>1, <4>3
    <3> QED
      BY <2>2, <3>1, <3>2 DEF KernelWrite
  <2> QED
    BY <1>a, <1>s, <1>5, <2>1, <2>3, <2>6, <2>7, <2>8 DEF Receiving
<1> QED
  BY <1>2, <1>4, <1>5

LEMMA UringServerStep ==
    ASSUME UringInv, Server
    PROVE  UringInv'
<1>1. UNCHANGED <<cpc, off, batchCount, reaped, received, sq, inflight, cq, buf,
                  recvFile, arrived, sent, lost>>
  BY DEF Server, app, uring, history
<1>2. shut' = shut
  BY DEF Server, ServerStep, Store, StreamEnds, SendBack, SendBroken, CloseAll
<1>3. Held' = Held /\ Sends' = Sends /\ Handed' = Handed
  BY <1>1 DEF Held, Sends, Handed
<1>4. Sending => Sending'
  BY <1>1, <1>2, <1>3 DEF Sending, Preparing
<1>5. Receiving => Receiving'
  BY <1>1 DEF Receiving, NoneHeld, Waits, InBuffer
<1> QED
  BY <1>4, <1>5 DEF UringInv

LEMMA UringProperties ==
    ASSUME Shapes, UringInv
    PROVE  /\ cpc # "failed" /\ Uring!BatchAccounted
           /\ shut = 1 => Len(sent) + lost = Blocks
           /\ \A k \in DOMAIN recvFile :
                recvFile[k] # Hole => k <= Len(arrived) /\ recvFile[k] = arrived[k]
<1>t. batchCount \in Nat /\ reaped \in Nat /\ Len(cq) \in Nat /\ Len(sq) \in Nat
  BY DEF Shapes, AppTypes, RingTypes
<1>1. \A S : Uring!Cardinality(S) = Cardinality(S)
  BY DEF Uring!Cardinality, Cardinality
<1>2. CASE Sending
  <2>1. Uring!BatchAccounted
    <3>1. Cardinality({}) = 0
      BY FS_EmptySet
    <3>2. CASE cpc \in {"read", "send", "full"}
      <4>1. inflight = {} /\ cq = <<>> /\ reaped = 0 /\ Len(sq) = batchCount
        BY <1>2, <3>2 DEF Sending, Preparing
      <4>2. Uring!Outstanding = batchCount + 0 + 0
        BY <1>1, <3>1, <4>1 DEF Uring!Outstanding
      <4> QED
        BY <1>t, <4>1, <4>2 DEF Uring!BatchAccounted
    <3>3. CASE cpc \in {"wait", "reap"}
      <4>1. sq = <<>> /\ Cardinality(Held) + Len(cq) + reaped = batchCount
            /\ IsFiniteSet(Held)
        BY <1>2, <3>3 DEF Sending
      <4>2. Held = inflight
        BY <4>1 DEF Held
      <4>3. Uring!Outstanding = 0 + Cardinality(Held) + Len(cq)
        BY <1>1, <4>1, <4>2 DEF Uring!Outstanding
      <4>4. 0 + Cardinality(Held) + Len(cq) = batchCount - reaped
        BY <1>t, <4>1, FS_CardinalityType
      <4> QED
        BY <4>3, <4>4 DEF Uring!BatchAccounted
    <3> QED
      BY <1>2, <3>2, <3>3 DEF Sending
  <2> QED
    BY <1>2, <2>1 DEF Sending
<1>3. CASE Receiving
  BY <1>3 DEF Receiving, Uring!BatchAccounted
<1> QED
  BY <1>2, <1>3 DEF UringInv
-----------------------------------------------------------------------------
(***************************************************************************)
(* The older client.  It hands over at most one request with each question *)
(* and takes one completion for each, so it is the number that matters:    *)
(* what is outstanding grows by one for each chunk.  A request has not     *)
(* been made before because the offset has moved on.                       *)
(***************************************************************************)
Asked == IF cpc = "answer" THEN 1 ELSE 0

Going ==
    /\ cpc \in {"ask", "answer", "rest", "full", "wait", "reap", "exit"}
    /\ IsFiniteSet(inflight)
    /\ Len(sq) + Cardinality(inflight) + Len(cq) + reaped = batchCount + Asked
    /\ sq = <<>> \/ (Len(sq) = 1 /\ sq[1] \notin inflight)
    /\ cpc \in {"answer", "wait", "reap"} => sq = <<>>
    /\ cpc = "reap" => inflight = {}
    /\ cpc # "reap" => reaped = 0
    /\ cpc \in {"ask", "full"} => \A r \in Held : r.at <= off
    /\ cpc = "answer" => \A r \in Held :
          r.at <= off \/ (r.at = off + 1 /\ r.op \in {"read", "recv"})

\* A client whose submission was refused is gone; its ring is of no account.
CopyInv == cpc = "refused" \/ Going

\* The kernel takes what is prepared.
LEMMA Taken ==
    ASSUME IsFiniteSet(inflight), sq \in Seq(Valid),
           sq = <<>> \/ (Len(sq) = 1 /\ sq[1] \notin inflight)
    PROVE  /\ inflight \cup {sq[k] : k \in DOMAIN sq} = Held
           /\ IsFiniteSet(Held)
           /\ Cardinality(Held) = Cardinality(inflight) + Len(sq)
           /\ Cardinality(inflight) \in Nat
<1>1. inflight \cup {sq[k] : k \in DOMAIN sq} = Held
  BY DEF Held
<1>2. Cardinality(inflight) \in Nat
  BY FS_CardinalityType
<1>3. CASE sq = <<>>
  <2>1. Held = inflight /\ Len(sq) = 0
    BY <1>3 DEF Held
  <2> QED
    BY <1>1, <1>2, <2>1
<1>4. CASE Len(sq) = 1 /\ sq[1] \notin inflight
  <2>1. DOMAIN sq = {1}
    BY <1>4
  <2>2. Held = inflight \cup {sq[1]}
    BY <2>1 DEF Held
  <2> QED
    BY <1>1, <1>2, <1>4, <2>2, FS_AddElement
<1> QED
  BY <1>3, <1>4

LEMMA CopyInit == Init /\ program = "copy" => CopyInv
<1> SUFFICES ASSUME Init, program = "copy" PROVE Going
  BY DEF CopyInv
<1>1. /\ inflight = {} /\ sq = <<>> /\ cq = <<>> /\ cpc = "ask" /\ off = 0
      /\ batchCount = 0 /\ reaped = 0
  BY DEF Init, RingInit
<1>2. Held = {}
  BY <1>1 DEF Held
<1>3. IsFiniteSet({}) /\ Cardinality({}) = 0
  BY FS_EmptySet
<1> QED
  BY <1>1, <1>2, <1>3 DEF Going, Asked

\* The client's steps.
LEMMA CopyGoes ==
    ASSUME Shapes, Going, Copy!Client, cpc' # "refused"
    PROVE  Going'
<1>t. /\ sq \in Seq(Valid) /\ Len(sq) \in Nat /\ cq \in Seq(Completion)
      /\ Len(cq) \in Nat /\ off \in Nat /\ batchCount \in Nat /\ reaped \in Nat
      /\ CopyEntries \in Nat /\ CopyEntries > 1
  BY CopyAssumption, DepthAssumption DEF Shapes, RingTypes, AppTypes
<1>s. /\ IsFiniteSet(inflight)
      /\ Len(sq) + Cardinality(inflight) + Len(cq) + reaped = batchCount + Asked
      /\ sq = <<>> \/ (Len(sq) = 1 /\ sq[1] \notin inflight)
      /\ Cardinality(inflight) \in Nat
  BY FS_CardinalityType DEF Going
<1>h. /\ inflight \cup {sq[k] : k \in DOMAIN sq} = Held /\ IsFiniteSet(Held)
      /\ Cardinality(Held) = Cardinality(inflight) + Len(sq)
  BY <1>s, <1>t, Taken
<1>0. IsFiniteSet({}) /\ Cardinality({}) = 0
  BY FS_EmptySet
<1>1. ASSUME NEW op \in {"read", "recv"}, Copy!Ask(op)
      PROVE  Going'
  <2> DEFINE r == [op |-> op, at |-> off + 1]
  <2>1. cpc = "ask" /\ UNCHANGED <<off, batchCount, reaped, cq>>
    BY <1>1 DEF Copy!Ask
  <2>2. Len(sq) # CopyEntries
    <3>1. Len(sq) = 0 \/ Len(sq) = 1
      BY <1>s
    <3>2. \A n \in Nat : n > 1 => n # 0 /\ n # 1
      OBVIOUS
    <3>3. CopyEntries # 0 /\ CopyEntries # 1
      BY <1>t, <3>2
    <3> QED
      BY <3>1, <3>3, Zenon
  <2>3. inflight' = Held \cup {r} /\ sq' = <<>> /\ cpc' = "answer"
    <3>1. PICK c \in {"failed", "answer", "refused"} :
            /\ cpc' = c
            /\ c = "failed" => Len(sq) = CopyEntries
            /\ c = "answer" => /\ sq' = <<>>
                               /\ inflight' = inflight \cup {sq[k] : k \in DOMAIN sq}
                                                      \cup {r}
      BY <1>1 DEF Copy!Ask, Copy!Goto
    <3>2. c = "answer"
      BY <2>2, <3>1
    <3> QED
      BY <1>h, <3>1, <3>2
  <2>4. \A q \in Held : q.at <= off
    BY <2>1 DEF Going
  <2>5. r \notin Held
    BY <2>4, <1>t
  <2>6. /\ IsFiniteSet(inflight')
        /\ Cardinality(inflight') = Cardinality(Held) + 1
    BY <1>h, <2>3, <2>5, FS_AddElement
  <2>7. reaped = 0 /\ Asked = 0 /\ Asked' = 1
    BY <2>1, <2>3 DEF Going, Asked
  <2>8. Len(sq') + Cardinality(inflight') + Len(cq') + reaped'
          = batchCount' + Asked'
    <3>1. 0 + (Cardinality(inflight) + Len(sq) + 1) + Len(cq) + reaped
            = batchCount + 1
      BY <1>s, <1>t, <2>7
    <3>2. Len(sq') = 0
      BY <2>3
    <3> QED
      BY <1>h, <2>1, <2>6, <2>7, <3>1, <3>2
  <2>9. Held' = Held \cup {r}
    BY <2>3 DEF Held
  <2>10. \A q \in Held' :
            q.at <= off' \/ (q.at = off' + 1 /\ q.op \in {"read", "recv"})
    BY <2>1, <2>4, <2>9
  <2> QED
    BY <2>1, <2>3, <2>6, <2>7, <2>8, <2>10 DEF Going
<1>2. CASE Copy!FileEnds
  <2>1. /\ cpc = "ask" /\ cpc' = "rest"
        /\ UNCHANGED <<off, batchCount, reaped, sq, inflight, cq>>
    BY <1>2 DEF Copy!FileEnds, Copy!Goto, Copy!ring, Copy!uring
  <2>2. Asked' = Asked
    BY <2>1 DEF Asked
  <2> QED
    BY <1>s, <2>1, <2>2 DEF Going
<1>3. CASE Copy!Answer
  <2>1. /\ cpc = "answer" /\ cq # <<>> /\ cq' = Tail(cq)
        /\ UNCHANGED <<reaped, inflight>>
    BY <1>3 DEF Copy!Answer
  <2>2. sq = <<>> /\ reaped = 0 /\ Asked = 1 /\ Len(sq) = 0
    BY <2>1 DEF Going, Asked
  <2>3. Len(cq') = Len(cq) - 1 /\ Head(cq).res \in -1..1
    BY <1>t, <2>1, TakeShapes
  <2>4. \A q \in inflight :
            q.at <= off \/ (q.at = off + 1 /\ q.op \in {"read", "recv"})
    BY <2>1 DEF Going, Held
  <2>5. CASE Head(cq).res <= 0
    <3>1. cpc' = "rest" /\ UNCHANGED <<off, batchCount, sq>>
      BY <1>3, <2>5 DEF Copy!Answer, Copy!Goto
    <3>2. Asked' = 0
      BY <3>1 DEF Asked
    <3>3. Len(sq') + Cardinality(inflight') + Len(cq') + reaped'
            = batchCount' + Asked'
      <4>1. Len(sq) + Cardinality(inflight) + (Len(cq) - 1) + reaped
              = batchCount + 0
        BY <1>s, <1>t, <2>2
      <4> QED
        BY <2>1, <2>3, <3>1, <3>2, <4>1
    <3> QED
      BY <1>s, <2>1, <2>2, <3>1, <3>3 DEF Going
  <2>6. CASE ~(Head(cq).res <= 0)
    <3> DEFINE r == [op |-> IF phase = "send" THEN "send" ELSE "write",
                     at |-> off + 1]
    <3>1. Head(cq).res = 1
      BY <2>3, <2>6
    <3>2. Len(sq) # CopyEntries
      BY <1>t, <2>2
    <3>3. /\ cpc' = "full" /\ off' = off + 1 /\ batchCount' = batchCount + 1
          /\ sq' = Append(sq, r)
      BY <1>3, <2>6, <3>1, <3>2 DEF Copy!Answer, Copy!Goto
    <3>4. sq' = <<r>> /\ Len(sq') = 1 /\ sq'[1] = r /\ DOMAIN sq' = {1}
      BY <2>2, <3>3
    <3>5. r.at = off + 1 /\ r.op \notin {"read", "recv"}
      OBVIOUS
    <3>6. r \notin inflight
      BY <1>t, <2>4, <3>5
    <3>7. Asked' = 0
      BY <3>3 DEF Asked
    <3>8. Len(sq') + Cardinality(inflight') + Len(cq') + reaped'
            = batchCount' + Asked'
      <4>1. 1 + Cardinality(inflight) + (Len(cq) - 1) + reaped
              = (batchCount + 1) + 0
        BY <1>s, <1>t, <2>2
      <4> QED
        BY <2>1, <2>3, <3>3, <3>4, <3>7, <4>1
    <3>9. Held' = inflight \cup {r}
      BY <2>1, <3>4 DEF Held
    <3>10. \A q \in Held' : q.at <= off'
      <4>1. \A q \in inflight : q \in Valid
        BY DEF Shapes, RingTypes
      <4>2. \A q \in inflight : q.at \in Nat
        BY <4>1 DEF Valid, Request
      <4> QED
        BY <1>t, <2>4, <3>3, <3>5, <3>9, <4>2
    <3> QED
      BY <1>s, <2>1, <2>2, <3>3, <3>4, <3>6, <3>8, <3>10 DEF Going
  <2> QED
    BY <2>5, <2>6
<1>4. CASE Copy!NotFull
  <2>1. /\ cpc = "full" /\ cpc' = "ask"
        /\ UNCHANGED <<off, batchCount, reaped, sq, inflight, cq>>
    BY <1>4 DEF Copy!NotFull, Copy!Goto, Copy!ring, Copy!uring
  <2>2. Asked' = Asked /\ Held' = Held
    BY <2>1 DEF Asked, Held
  <2> QED
    BY <1>s, <2>1, <2>2 DEF Going
<1>5. CASE Copy!Submit
  <2>1. /\ cpc \in {"full", "rest"} /\ cpc' = "wait"
        /\ inflight' = Held /\ sq' = <<>>
        /\ UNCHANGED <<off, batchCount, reaped, cq>>
    BY <1>5, <1>h DEF Copy!Submit, Copy!SubmitAll, Copy!Goto
  <2>2. Asked = 0 /\ Asked' = 0 /\ reaped = 0
    BY <2>1 DEF Asked, Going
  <2>3. Len(sq') + Cardinality(inflight') + Len(cq') + reaped'
          = batchCount' + Asked'
    <3>1. 0 + (Cardinality(inflight) + Len(sq)) + Len(cq) + reaped
            = batchCount + 0
      BY <1>s, <1>t, <2>2
    <3>2. Len(sq') = 0
      BY <2>1
    <3> QED
      BY <1>h, <2>1, <2>2, <3>1, <3>2
  <2> QED
    BY <1>h, <2>1, <2>2, <2>3 DEF Going
<1>6. CASE Copy!Waited
  <2>1. /\ cpc = "wait" /\ cpc' = "reap" /\ Len(cq) >= batchCount
        /\ UNCHANGED <<off, batchCount, reaped, sq, inflight, cq>>
    BY <1>6 DEF Copy!Waited, Copy!Goto, Copy!ring, Copy!uring
  <2>2. sq = <<>> /\ reaped = 0 /\ Asked = 0 /\ Asked' = 0 /\ Len(sq) = 0
    BY <2>1 DEF Going, Asked
  <2>3. Cardinality(inflight) = 0
    BY <1>s, <1>t, <2>1, <2>2
  <2>4. inflight = {}
    BY <1>s, <2>3, FS_EmptySet
  <2> QED
    BY <1>s, <2>1, <2>2, <2>4 DEF Going
<1>7. CASE Copy!Peek
  <2>1. /\ cpc = "reap" /\ reaped < batchCount
        /\ UNCHANGED <<off, batchCount, sq, inflight>>
    BY <1>7 DEF Copy!Peek
  <2>2. sq = <<>> /\ inflight = {} /\ Asked = 0 /\ Len(sq) = 0
    BY <2>1 DEF Going, Asked
  <2>3. cq # <<>>
    <3>1. Len(cq) # 0
      BY <1>0, <1>s, <1>t, <2>1, <2>2
    <3> QED
      BY <3>1
  <2>4. reaped' = reaped + 1 /\ cq' = Tail(cq) /\ cpc' = cpc
    BY <1>7, <2>3 DEF Copy!Peek
  <2>5. Len(cq') = Len(cq) - 1
    BY <1>t, <2>3, <2>4, TakeShapes
  <2>6. Asked' = Asked
    BY <2>4 DEF Asked
  <2>7. Len(sq') + Cardinality(inflight') + Len(cq') + reaped'
          = batchCount' + Asked'
    <3>1. Len(sq) + Cardinality(inflight) + (Len(cq) - 1) + (reaped + 1)
            = batchCount + Asked
      BY <1>s, <1>t, <2>2
    <3> QED
      BY <2>1, <2>4, <2>5, <2>6, <3>1
  <2> QED
    BY <1>s, <2>1, <2>2, <2>4, <2>7 DEF Going
<1>8. CASE Copy!Reaped
  <2>1. /\ cpc = "reap" /\ cpc' \in {"rest", "ask"} /\ reaped = batchCount
        /\ batchCount' = 0 /\ reaped' = 0
        /\ UNCHANGED <<off, sq, inflight, cq>>
    BY <1>8 DEF Copy!Reaped, Copy!Goto, Copy!ring, Copy!uring
  <2>2. sq = <<>> /\ inflight = {} /\ Asked = 0 /\ Asked' = 0
    BY <2>1 DEF Going, Asked
  <2>3. Len(sq) + Cardinality(inflight) + Len(cq) + 0 = 0 + 0
    BY <1>s, <1>t, <2>1, <2>2
  <2>4. Held' = {}
    BY <2>1, <2>2 DEF Held
  <2> QED
    BY <1>s, <2>1, <2>2, <2>3, <2>4 DEF Going
<1>9. CASE Copy!Shutdown
  <2>1. /\ cpc = "rest" /\ cpc' = "ask" /\ batchCount = 0
        /\ UNCHANGED <<batchCount, reaped, sq, inflight, cq>>
    BY <1>9 DEF Copy!Shutdown, Copy!Goto, Copy!uring
  <2>2. reaped = 0 /\ Asked = 0 /\ Asked' = 0
    BY <2>1 DEF Going, Asked
  <2>3. Len(sq) = 0 /\ Cardinality(inflight) = 0
    BY <1>s, <1>t, <2>1, <2>2
  <2>4. inflight = {} /\ sq = <<>>
    BY <1>s, <1>t, <2>3, FS_EmptySet
  <2>5. Held' = {}
    BY <2>1, <2>4 DEF Held
  <2> QED
    BY <1>s, <2>1, <2>2, <2>5 DEF Going
<1>10. CASE Copy!Finish
  <2>1. /\ cpc = "rest" /\ cpc' = "exit"
        /\ UNCHANGED <<off, batchCount, reaped, sq, inflight, cq>>
    BY <1>10 DEF Copy!Finish, Copy!Goto, Copy!uring
  <2>2. Asked' = Asked
    BY <2>1 DEF Asked
  <2> QED
    BY <1>s, <2>1, <2>2 DEF Going
<1>11. CASE Copy!AskRead \/ Copy!AskRecv
  BY <1>1, <1>11 DEF Copy!AskRead, Copy!AskRecv
<1> QED
  BY <1>2, <1>3, <1>4, <1>5, <1>6, <1>7, <1>8, <1>9, <1>10, <1>11 DEF Copy!Client

LEMMA CopyStep ==
    ASSUME Shapes, CopyInv, Copy!Client
    PROVE  CopyInv'
<1>1. CASE cpc = "refused"
  BY <1>1 DEF Copy!Client, Copy!AskRead, Copy!AskRecv, Copy!Ask, Copy!FileEnds,
              Copy!Answer, Copy!NotFull, Copy!Submit, Copy!Waited, Copy!Peek,
              Copy!Reaped, Copy!Shutdown, Copy!Finish
<1> QED
  BY <1>1, CopyGoes DEF CopyInv

LEMMA CopyKernel ==
    ASSUME Shapes, CopyInv, Kernel, UNCHANGED app
    PROVE  CopyInv'
<1> SUFFICES ASSUME Going PROVE Going'
  BY DEF CopyInv, app
<1>1. PICK r \in inflight :
        KernelRead(r) \/ KernelSend(r) \/ KernelRecv(r) \/ KernelWrite(r)
  BY DEF Kernel
<1>2. PICK res \in -1..1 : Complete(r, res)
  BY <1>1 DEF KernelRead, KernelSend, KernelRecv, KernelWrite
<1>3. inflight' = inflight \ {r} /\ sq' = sq
  BY <1>2 DEF Complete
<1>4. Len(cq') = Len(cq) + 1
  BY <1>2, CompleteShapes DEF Shapes
<1>5. UNCHANGED <<cpc, off, batchCount, reaped>> /\ Asked' = Asked
  BY DEF app, Asked
<1>6. /\ IsFiniteSet(inflight)
      /\ Len(sq) + Cardinality(inflight) + Len(cq) + reaped = batchCount + Asked
  BY DEF Going
<1>7. /\ IsFiniteSet(inflight')
      /\ Cardinality(inflight') = Cardinality(inflight) - 1
      /\ Cardinality(inflight) \in Nat
  BY <1>3, <1>6, FS_RemoveElement, FS_CardinalityType
<1>8. Len(sq') + Cardinality(inflight') + Len(cq') + reaped' = batchCount' + Asked'
  <2>1. Len(sq) \in Nat /\ Len(cq) \in Nat /\ reaped \in Nat
    BY DEF Shapes, RingTypes, AppTypes
  <2>2. Len(sq) + (Cardinality(inflight) - 1) + (Len(cq) + 1) + reaped
          = batchCount + Asked
    <3>1. PICK a \in Nat, b \in Nat, c \in Nat, d \in Nat :
             a = Len(sq) /\ b = Cardinality(inflight) /\ c = Len(cq) /\ d = reaped
      BY <1>7, <2>1, Zenon
    <3>2. a + (b - 1) + (c + 1) + d = a + b + c + d
      OBVIOUS
    <3> QED
      BY <1>6, <3>1, <3>2
  <2> QED
    BY <1>3, <1>4, <1>5, <1>7, <2>2
<1>9. cpc # "reap"
  BY <1>1 DEF Going
<1>10. Held' \subseteq Held
  BY <1>3 DEF Held
<1> QED
  BY <1>3, <1>5, <1>7, <1>8, <1>9, <1>10 DEF Going

LEMMA CopyServerStep ==
    ASSUME CopyInv, Server
    PROVE  CopyInv'
<1>1. UNCHANGED <<cpc, off, batchCount, reaped, sq, inflight, cq>>
  BY DEF Server, app, uring
<1>2. Held' = Held /\ Asked' = Asked
  BY <1>1 DEF Held, Asked
<1> QED
  BY <1>1, <1>2 DEF CopyInv, Going

LEMMA CopyProperties ==
    ASSUME Shapes, CopyInv
    PROVE  cpc # "failed" /\ Copy!BatchAccounted
<1> SUFFICES ASSUME Going PROVE cpc # "failed" /\ Copy!BatchAccounted
  BY DEF CopyInv, Copy!BatchAccounted
<1>1. \A S : Copy!Cardinality(S) = Cardinality(S)
  BY DEF Copy!Cardinality, Cardinality
<1>2. /\ Len(sq) + Cardinality(inflight) + Len(cq) + reaped = batchCount + Asked
      /\ Cardinality(inflight) \in Nat
  BY FS_CardinalityType DEF Going
<1>3. /\ Len(sq) \in Nat /\ Len(cq) \in Nat /\ reaped \in Nat
      /\ batchCount \in Nat /\ Asked \in Nat
  BY DEF Shapes, RingTypes, AppTypes, Asked
<1>4. Len(sq) + Cardinality(inflight) + Len(cq) = batchCount - reaped + Asked
  BY <1>2, <1>3
<1> QED
  BY <1>1, <1>4 DEF Going, Copy!BatchAccounted, Copy!Outstanding, Asked
-----------------------------------------------------------------------------
(***************************************************************************)
(* The transfer, with whichever client was started.                        *)
(***************************************************************************)
TInv ==
    /\ Shapes
    /\ program = "blocking" => BlockingInv
    /\ program = "uring" => UringInv
    /\ program = "copy" => CopyInv
    /\ program \in Programs

LEMMA TransferInit == Init => TInv
<1> SUFFICES ASSUME Init PROVE TInv
  OBVIOUS
<1>1. /\ sq = <<>> /\ inflight = {} /\ cq = <<>> /\ buf = Stale
      /\ recvFile = <<>> /\ sent = <<>> /\ arrived = <<>> /\ lost = 0
      /\ spc = "read" /\ present \in {0, 1} /\ pos = 0 /\ c2s = <<>>
      /\ s2c = <<>> /\ shut = 0 /\ gone = 0 /\ closed = 0
      /\ off = 0 /\ batchCount = 0 /\ reaped = 0 /\ received = 0
      /\ program \in Programs
  BY DEF Init, RingInit, ServerInit
<1>2. response \in Seq(Int)
  <2>1. PICK n \in 0..MaxOld * present : response = [k \in 1..n |-> Stale]
    BY DEF Init, RingInit, ServerInit
  <2>2. n \in Nat
    BY <1>1, <2>1, TransferAssumption
  <2>3. response \in [1..n -> Int]
    BY <2>1 DEF Stale
  <2> QED
    BY <2>2, <2>3, SeqDef
<1>3. Shapes
  <2>1. ServerTypes
    BY <1>1, <1>2 DEF ServerTypes
  <2>2. RingTypes
    BY <1>1 DEF RingTypes, Stale
  <2> QED
    BY <1>1, <2>1, <2>2 DEF Shapes, AppTypes
<1> QED
  BY <1>1, <1>3, BlockingInit, UringInit, CopyInit DEF TInv

LEMMA TransferStep == TInv /\ [Next]_vars => TInv'
<1> SUFFICES ASSUME TInv, [Next]_vars PROVE TInv'
  OBVIOUS
<1>1. CASE BlockingRuns /\ UNCHANGED program
  <2>1. program = "blocking" /\ BlockingInv /\ Shapes
    BY <1>1 DEF BlockingRuns, TInv
  <2>2. Shapes'
    BY <1>1, <2>1, BlockingShapes DEF BlockingInv, Places
  <2> QED
    BY <1>1, <2>1, <2>2, BlockingClientStep DEF TInv
<1>2. CASE Timeout
  <2>1. program = "blocking" /\ BlockingInv /\ Shapes /\ program' = program
    BY <1>2 DEF Timeout, TInv
  <2>2. Shapes'
    BY <1>2, <2>1, BlockingShapes DEF BlockingInv, Places
  <2> QED
    BY <1>2, <2>1, <2>2, BlockingClientStep DEF TInv
<1>3. CASE UringRuns /\ UNCHANGED program
  <2>1. program = "uring" /\ UringInv /\ Shapes /\ Uring!Client
    BY <1>3 DEF UringRuns, TInv
  <2>2. Shapes'
    BY <2>1, UringShapes DEF UringInv, Sending, Preparing, Receiving
  <2>3. UringInv'
    BY <2>1, SendingStep, ReceivingStep DEF UringInv
  <2> QED
    BY <1>3, <2>1, <2>2, <2>3 DEF TInv
<1>4. CASE CopyRuns /\ UNCHANGED program
  <2>1. /\ program = "copy" /\ CopyInv /\ Shapes /\ Copy!Client
        /\ UNCHANGED received
    BY <1>4 DEF CopyRuns, TInv
  <2>2. Shapes' /\ CopyInv'
    BY <2>1, CopyShapes, CopyStep
  <2> QED
    BY <1>4, <2>1, <2>2 DEF TInv
<1>5. CASE Io
  <2>1. Kernel /\ UNCHANGED app /\ program' = program
    BY <1>5 DEF Io
  <2>2. Shapes'
    BY <2>1, KernelShapes DEF TInv, Shapes, AppTypes, app
  <2>3. program # "blocking"
    BY <2>1 DEF TInv, BlockingInv, Kernel
  <2>4. program = "uring" => UringInv'
    BY <2>1, SendingKernel, ReceivingKernel DEF TInv, UringInv
  <2>5. program = "copy" => CopyInv'
    BY <2>1, CopyKernel DEF TInv
  <2> QED
    BY <2>1, <2>2, <2>3, <2>4, <2>5 DEF TInv
<1>6. CASE Server
  <2>1. program' = program
    BY <1>6 DEF Server
  <2>2. Shapes'
    BY <1>6, ServerShapes
       DEF TInv, Server, Shapes, RingTypes, AppTypes, app, uring, history
  <2> QED
    BY <1>6, <2>1, <2>2, BlockingServerStep, UringServerStep, CopyServerStep
       DEF TInv
<1>7. CASE UNCHANGED vars
  <2>1. /\ UNCHANGED program /\ UNCHANGED app /\ UNCHANGED ring
    BY <1>7 DEF vars
  <2>2. Shapes'
    BY <2>1 DEF TInv, Shapes, ServerTypes, RingTypes, AppTypes, app, ring, uring,
                history, server, sock
  <2>3. Held' = Held /\ Sends' = Sends /\ Handed' = Handed /\ Asked' = Asked
    BY <2>1 DEF Held, Sends, Handed, Asked, app, ring, uring
  <2>4. BlockingInv => BlockingInv'
    BY <2>1, <2>3 DEF BlockingInv, Places, Storing, Returning, WithoutFile,
       IsBeginning, AtEnd, app, ring, uring, server, sock
  <2>5. UringInv => UringInv'
    BY <2>1, <2>3 DEF UringInv, Sending, Preparing, Receiving, NoneHeld, Waits,
       InBuffer, app, ring, uring, history, sock
  <2>6. CopyInv => CopyInv'
    BY <2>1, <2>3 DEF CopyInv, Going, app, ring, uring
  <2> QED
    BY <2>1, <2>2, <2>4, <2>5, <2>6 DEF TInv
<1> QED
  BY <1>1, <1>2, <1>3, <1>4, <1>5, <1>6, <1>7 DEF Next, Client

LEMMA TransferInv == Spec => []TInv
<1>1. Init => TInv
  BY TransferInit
<1>2. TInv /\ [Next]_vars => TInv'
  BY TransferStep
<1> QED
  BY <1>1, <1>2, PTL DEF Spec

\* client.c: what it stores is always a beginning of what the server has, and
\* of temp.txt as far as that goes, wherever it stops and for whatever reason.
THEOREM StoresABeginning == Spec => []ReceivedInOrder
<1>1. TInv => ReceivedInOrder
  BY BlockingFiles DEF TInv, ReceivedInOrder
<1> QED
  BY <1>1, TransferInv, PTL

\* client.c: a file that the server could store comes back whole when the stream
\* ends before the client gives up.
THEOREM ComesBackWhole == Spec => []RoundTrip
<1>1. TInv => RoundTrip
  BY BlockingFiles DEF TInv, RoundTrip
<1> QED
  BY <1>1, TransferInv, PTL

\* Both io_uring clients: the ring is never full and no batch is waited for that
\* is not all there, whatever the order and the results of the requests.
THEOREM BatchesAreCounted == Spec => []BatchAccounted
<1>1. TInv => BatchAccounted
  <2>1. TInv /\ program = "blocking" => cpc # "failed"
    BY DEF TInv, BlockingInv, Places
  <2> QED
    BY <2>1, UringProperties, CopyProperties DEF TInv, BatchAccounted, Programs
<1> QED
  BY <1>1, TransferInv, PTL

\* uring_client.c: the server is told that all was sent only when a send was
\* performed, or failed, for each chunk of the file.
THEOREM NoneLeftBehind == Spec => []AllSent
<1>1. TInv => AllSent
  BY UringProperties DEF TInv, AllSent
<1> QED
  BY <1>1, TransferInv, PTL

\* uring_client.c: what was written to recv.txt is where it belongs.
THEOREM WrittenWhereItBelongs == Spec => []StoredInPlace
<1>1. TInv => StoredInPlace
  BY UringProperties DEF TInv, StoredInPlace
<1> QED
  BY <1>1, TransferInv, PTL
=============================================================================
