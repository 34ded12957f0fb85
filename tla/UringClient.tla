---------------------------- MODULE UringClient ----------------------------
(***************************************************************************)
(* iouring_hotpatch/uring_client.c: the client reads its file and sends it *)
(* in batches of reads and sends through one io_uring, then receives and   *)
(* stores the answer one request at a time.  All its requests use the same *)
(* buffer, and none is linked to another: the kernel may work on the       *)
(* requests of a batch in any order.                                       *)
(*                                                                         *)
(* The client connects and its files open; io_uring_submit and             *)
(* io_uring_submit_and_wait, whose results are not tested, succeed, and no *)
(* wait is interrupted by a signal.                                        *)
(***************************************************************************)
EXTENDS TransferRing

VARIABLES cpc,
          off,          \* file_offset, then recv_file_offset
          batchCount,   \* batch_count
          reaped,       \* i of the loop that reaps a batch
          received      \* bytes_received, of a chunk: 0 or 1

Goto(l) == cpc' = l

\* io_uring_get_sqe and io_uring_prep_*: in the ring unless it is full, when
\* the client cleans up and gives up.
Prepare(r, l) ==
    IF Len(sq) < Entries
    THEN sq' = Append(sq, r) /\ Goto(l) /\ UNCHANGED gone
    ELSE Goto("failed") /\ gone' = 1 /\ UNCHANGED sq

-----------------------------------------------------------------------------
\* Lines 96-149: while there is file left, a read and a send of every chunk.
PrepRead ==
    /\ cpc = "read" /\ off < Blocks
    /\ Prepare([op |-> "read", at |-> off + 1], "send")
    /\ IF cpc' = "send" THEN /\ batchCount' = batchCount + 1
                             /\ off' = off + 1
       ELSE UNCHANGED <<batchCount, off>>
    /\ UNCHANGED <<reaped, received, inflight, cq, buf, recvFile,
                   history, server, c2s, s2c, shut, closed>>

PrepSend ==
    /\ cpc = "send"
    /\ Prepare([op |-> "send", at |-> off], "full")
    /\ batchCount' = batchCount + (IF cpc' = "full" THEN 1 ELSE 0)
    /\ UNCHANGED <<off, reaped, received, inflight, cq, buf, recvFile,
                   history, server, c2s, s2c, shut, closed>>

NotFull ==
    /\ cpc = "full" /\ batchCount < BatchSize /\ Goto("read")
    /\ UNCHANGED <<off, batchCount, reaped, received, ring>>

\* io_uring_submit_and_wait at a full batch, or for the rest at the end.
Submit ==
    /\ \/ cpc = "full" /\ batchCount >= BatchSize
       \/ cpc = "read" /\ off = Blocks /\ batchCount > 0
    /\ Goto("wait")
    /\ SubmitAll
    /\ UNCHANGED <<off, batchCount, reaped, received, cq, buf, recvFile, history,
                   server, sock>>

\* Mutant: it returns with the first completion.
WaitedForOne ==
    /\ cpc = "wait" /\ Len(cq) >= 1 /\ Goto("reap")
    /\ UNCHANGED <<off, batchCount, reaped, received, ring>>

\* Mutant: it waits for one completion too many.
WaitedForMore ==
    /\ cpc = "wait" /\ Len(cq) > batchCount /\ Goto("reap")
    /\ UNCHANGED <<off, batchCount, reaped, received, ring>>

Waited ==
    /\ cpc = "wait" /\ Len(cq) >= batchCount /\ Goto("reap")
    /\ UNCHANGED <<off, batchCount, reaped, received, ring>>

\* io_uring_peek_cqe gives up if there is none; a failed request is logged.
Peek ==
    /\ cpc = "reap" /\ reaped < batchCount
    /\ IF cq = <<>> THEN Goto("failed") /\ gone' = 1 /\ UNCHANGED <<reaped, cq>>
       ELSE reaped' = reaped + 1 /\ cq' = Tail(cq) /\ UNCHANGED <<cpc, gone>>
    /\ UNCHANGED <<off, batchCount, received, sq, inflight, buf, history,
                   recvFile, server, c2s, s2c, shut, closed>>

\* Mutant: the count goes on into the next batch.
ReapedKeepsCount ==
    /\ cpc = "reap" /\ reaped = batchCount /\ Goto("read")
    /\ reaped' = 0
    /\ UNCHANGED <<off, batchCount, received, ring>>

\* Mutant: the index is not reset.
ReapedKeepsIndex ==
    /\ cpc = "reap" /\ reaped = batchCount /\ Goto("read")
    /\ batchCount' = 0
    /\ UNCHANGED <<off, reaped, received, ring>>

Reaped ==
    /\ cpc = "reap" /\ reaped = batchCount /\ Goto("read")
    /\ batchCount' = 0 /\ reaped' = 0
    /\ UNCHANGED <<off, received, ring>>

\* Mutant: the rest of the last batch is forgotten.
ShutdownWithRest ==
    /\ cpc = "read" /\ off = Blocks
    /\ Goto("recv")
    /\ shut' = 1 /\ off' = 0
    /\ UNCHANGED <<batchCount, reaped, received, uring, buf, history, recvFile,
                   server, c2s, s2c, gone, closed>>

\* Lines 151-181: everything sent, shutdown(SHUT_WR), open recv.txt.
Shutdown ==
    /\ cpc = "read" /\ off = Blocks /\ batchCount = 0
    /\ Goto("recv")
    /\ shut' = 1 /\ off' = 0
    /\ UNCHANGED <<batchCount, reaped, received, uring, buf, history, recvFile,
                   server, c2s, s2c, gone, closed>>

-----------------------------------------------------------------------------
\* Lines 184-241: receive a chunk, wait for it, write it, wait for that.
PrepRecv ==
    /\ cpc = "recv"
    /\ Prepare([op |-> "recv", at |-> 0], "submitRecv")
    /\ UNCHANGED <<off, batchCount, reaped, received, inflight, cq, buf, recvFile,
                   history, server, c2s, s2c, shut, closed>>

\* Mutant: the client does not wait for the write.
SubmitOneWriteUnawaited ==
    /\ cpc \in {"submitRecv", "submitWrite"}
    /\ IF cpc = "submitRecv" THEN Goto("waitRecv") ELSE Goto("recv")
    /\ off' = IF cpc = "submitRecv" THEN off ELSE off + received
    /\ SubmitAll
    /\ UNCHANGED <<batchCount, reaped, received, cq, buf, recvFile, history,
                   server, sock>>

SubmitOne ==
    /\ cpc \in {"submitRecv", "submitWrite"}
    /\ IF cpc = "submitRecv" THEN Goto("waitRecv") ELSE Goto("waitWrite")
    /\ SubmitAll
    /\ UNCHANGED <<off, batchCount, reaped, received, cq, buf, recvFile, history,
                   server, sock>>

\* res <= 0 ends the loop.
WaitRecv ==
    /\ cpc = "waitRecv" /\ cq # <<>>
    /\ cq' = Tail(cq)
    /\ IF Head(cq).res <= 0
       THEN Goto("exit") /\ gone' = 1 /\ UNCHANGED received
       ELSE Goto("write") /\ received' = Head(cq).res /\ UNCHANGED gone
    /\ UNCHANGED <<off, batchCount, reaped, sq, inflight, buf, history, recvFile,
                   server, c2s, s2c, shut, closed>>

PrepWrite ==
    /\ cpc = "write"
    /\ Prepare([op |-> "write", at |-> off + 1], "submitWrite")
    /\ UNCHANGED <<off, batchCount, reaped, received, inflight, cq, buf, recvFile,
                   history, server, c2s, s2c, shut, closed>>

\* A failed write is logged, and the offset advances over it.
WaitWrite ==
    /\ cpc = "waitWrite" /\ cq # <<>>
    /\ cq' = Tail(cq)
    /\ off' = off + received
    /\ Goto("recv")
    /\ UNCHANGED <<batchCount, reaped, received, sq, inflight, buf, history,
                   recvFile, server, sock>>

Client ==
    \/ PrepRead \/ PrepSend \/ NotFull \/ Submit \/ Waited \/ Peek \/ Reaped
    \/ Shutdown \/ PrepRecv \/ SubmitOne \/ WaitRecv \/ PrepWrite \/ WaitWrite

-----------------------------------------------------------------------------
\* While sending, what the ring holds is what the batch counts and was not
\* reaped.
BatchAccounted ==
    cpc \in {"read", "send", "full", "wait", "reap"} =>
        Outstanding = batchCount - reaped
=============================================================================
