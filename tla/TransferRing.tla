---------------------------- MODULE TransferRing ----------------------------
(***************************************************************************)
(* What the io_uring clients of iouring_hotpatch have in common: one ring, *)
(* one buffer that all their requests use, the connection to the server,   *)
(* and the kernel, which works on the requests it holds in any order: none *)
(* is linked to another.  An SQE holds the address of the buffer, so a     *)
(* send or a write takes what is there when the kernel gets to it.         *)
(***************************************************************************)
EXTENDS EchoServer, FiniteSets

CONSTANTS Entries,      \* QUEUE_DEPTH
          BatchSize     \* BATCH_SIZE

ASSUME RingAssumption == Entries \in Nat \ {0} /\ BatchSize \in Nat \ {0}

VARIABLES sq,           \* requests prepared and not submitted
          inflight,     \* requests the kernel has not finished
          cq,           \* completions not seen
          buf,          \* what buffer holds
          recvFile,     \* recv.txt: what each offset holds
          sent,         \* history: the chunks sent, in order
          unread, lost, \* history: how many reads failed, and how many sends
          arrived       \* history: the chunks received, in order

uring   == <<sq, inflight, cq>>
history == <<sent, unread, lost, arrived>>
ring    == <<uring, buf, recvFile, history, server, sock>>

Ops == {"read", "send", "recv", "write"}

\* user_data, and the offset, which tells the requests apart too.
Request == [op : Ops, at : Nat]

Hole == -1              \* nothing written at this offset of recv.txt

RingInit ==
    /\ ServerInit
    /\ sq = <<>> /\ inflight = {} /\ cq = <<>>
    /\ buf = Stale /\ recvFile = <<>>
    /\ sent = <<>> /\ unread = 0 /\ lost = 0 /\ arrived = <<>>

\* io_uring_submit: the kernel takes all that is prepared.
SubmitAll ==
    /\ inflight' = inflight \cup {sq[k] : k \in DOMAIN sq}
    /\ sq' = <<>>

Outstanding == Len(sq) + Cardinality(inflight) + Len(cq)

-----------------------------------------------------------------------------
\* The kernel finishes a request of its choice, or fails it.
Complete(r, res) ==
    /\ r \in inflight
    /\ inflight' = inflight \ {r}
    /\ cq' = Append(cq, [op |-> r.op, res |-> res])
    /\ UNCHANGED sq

KernelRead(r) ==
    /\ r.op = "read"
    /\ \/ Complete(r, 1) /\ buf' = File[r.at] /\ UNCHANGED unread
       \/ Complete(r, -1) /\ unread' = unread + 1 /\ UNCHANGED buf
    /\ UNCHANGED <<sent, lost, arrived, recvFile, server, sock>>

\* A send that fails or is cut short loses its chunk: its result is not used.
KernelSend(r) ==
    /\ r.op = "send"
    /\ \/ /\ Len(c2s) < Window /\ Complete(r, 1)
          /\ c2s' = Append(c2s, buf) /\ sent' = Append(sent, buf)
          /\ UNCHANGED lost
       \/ Complete(r, -1) /\ lost' = lost + 1 /\ UNCHANGED <<c2s, sent>>
    /\ UNCHANGED <<unread, arrived, buf, recvFile, server, s2c, shut, gone,
                   closed>>

KernelRecv(r) ==
    /\ r.op = "recv"
    /\ \/ /\ s2c # <<>> /\ Complete(r, 1)
          /\ buf' = Head(s2c) /\ arrived' = Append(arrived, Head(s2c))
          /\ s2c' = Tail(s2c)
       \/ /\ s2c = <<>> /\ closed = 1 /\ Complete(r, 0)
          /\ UNCHANGED <<buf, arrived, s2c>>
       \/ Complete(r, -1) /\ UNCHANGED <<buf, arrived, s2c>>
    /\ UNCHANGED <<sent, unread, lost, recvFile, server, c2s, shut, gone, closed>>

KernelWrite(r) ==
    /\ r.op = "write"
    /\ \/ /\ Complete(r, 1)
          /\ recvFile' = [k \in 1..r.at |-> IF k = r.at THEN buf
                             ELSE IF k <= Len(recvFile) THEN recvFile[k] ELSE Hole]
       \/ Complete(r, -1) /\ UNCHANGED recvFile
    /\ UNCHANGED <<buf, history, server, sock>>

Kernel == \E r \in inflight :
    KernelRead(r) \/ KernelSend(r) \/ KernelRecv(r) \/ KernelWrite(r)
=============================================================================
