-------------------------- MODULE UringClientCopy --------------------------
(***************************************************************************)
(* "iouring_hotpatch/uring_client copy.c": an older client that waits for  *)
(* each read before it prepares the send, and for each recv before the     *)
(* write, and batches only the sends and the writes.  But each             *)
(* io_uring_submit hands over what the iteration before prepared as well,  *)
(* and each io_uring_wait_cqe takes the first completion, of whichever     *)
(* request.                                                                *)
(*                                                                         *)
(* The two loops have one shape: ask (a read, or a recv), take a           *)
(* completion for the answer, prepare what follows (a send, or a write).   *)
(* The client connects and its files open; io_uring_submit may fail, where *)
(* its result is tested; io_uring_submit_and_wait, whose result is not,    *)
(* succeeds, and no wait is interrupted by a signal.                       *)
(***************************************************************************)
EXTENDS TransferRing

VARIABLES cpc,
          phase,        \* which of the two loops: "send" or "recv"
          off,          \* file_offset, or recv_file_offset
          batchCount,   \* batch_count
          reaped,       \* i of the loop that reaps a batch
          rest          \* 1: the batch being reaped is what the loop left

net  == <<server, c2s, s2c, shut, closed>>    \* all of it but gone

Goto(l) == cpc' = l

-----------------------------------------------------------------------------
\* memset, then the read or the recv is submitted, and with it the send or the
\* write prepared by the iteration before.  Without an SQE the client gives up;
\* it does as well if the submission is refused.
Ask(op) ==
    /\ cpc = "ask"
    /\ \/ /\ Len(sq) = Entries
          /\ Goto("failed") /\ gone' = 1 /\ UNCHANGED <<sq, inflight>>
       \/ /\ Len(sq) < Entries
          /\ inflight' = inflight \cup {sq[k] : k \in DOMAIN sq}
                                 \cup {[op |-> op, at |-> off + 1]}
          /\ sq' = <<>>
          /\ Goto("answer") /\ UNCHANGED gone
       \/ /\ Len(sq) < Entries
          /\ sq' = Append(sq, [op |-> op, at |-> off + 1])
          /\ Goto("refused") /\ gone' = 1 /\ UNCHANGED inflight
    /\ UNCHANGED <<phase, off, batchCount, reaped, rest, cq, recvFile, history, net>>

AskRead == phase = "send" /\ off < Blocks /\ Ask("read") /\ buf' = Stale

AskRecv == phase = "recv" /\ Ask("recv") /\ UNCHANGED buf

FileEnds ==
    /\ cpc = "ask" /\ phase = "send" /\ off = Blocks
    /\ Goto("rest")
    /\ UNCHANGED <<phase, off, batchCount, reaped, rest, ring>>

\* Mutant: what breaks the loop is counted as one of the batch.
AnswerCountsEnd ==
    /\ cpc = "answer" /\ cq # <<>>
    /\ cq' = Tail(cq)
    /\ IF Head(cq).res <= 0
       THEN /\ Goto("rest") /\ batchCount' = batchCount + 1
            /\ UNCHANGED <<off, sq, gone>>
       ELSE /\ Goto("full") /\ off' = off + Head(cq).res
            /\ batchCount' = batchCount + 1
            /\ sq' = Append(sq, [op |-> IF phase = "send" THEN "send" ELSE "write",
                                 at |-> off + 1])
            /\ UNCHANGED gone
    /\ UNCHANGED <<phase, reaped, rest, inflight, buf, recvFile, history, net>>

\* A completion is taken for the answer.  If its result is 0 or an error the
\* loop ends; otherwise as much is to be sent, or written.
Answer ==
    /\ cpc = "answer" /\ cq # <<>>
    /\ cq' = Tail(cq)
    /\ IF Head(cq).res <= 0
       THEN Goto("rest") /\ UNCHANGED <<off, batchCount, sq, gone>>
       ELSE /\ off' = off + Head(cq).res
            /\ IF Len(sq) = Entries
               THEN Goto("failed") /\ gone' = 1 /\ UNCHANGED <<batchCount, sq>>
               ELSE /\ Goto("full") /\ UNCHANGED gone
                    /\ batchCount' = batchCount + 1
                    /\ sq' = Append(sq,
                              [op |-> IF phase = "send" THEN "send" ELSE "write",
                               at |-> off + 1])
    /\ UNCHANGED <<phase, reaped, rest, inflight, buf, recvFile, history, net>>

-----------------------------------------------------------------------------
NotFull ==
    /\ cpc = "full" /\ batchCount < BatchSize /\ Goto("ask")
    /\ UNCHANGED <<phase, off, batchCount, reaped, rest, ring>>

\* io_uring_submit_and_wait, for a full batch or for what the loop left.
Submit ==
    /\ batchCount > 0
    /\ (cpc = "full" /\ batchCount >= BatchSize) \/ cpc = "rest"
    /\ rest' = IF cpc = "rest" THEN 1 ELSE 0
    /\ Goto("wait")
    /\ SubmitAll
    /\ UNCHANGED <<phase, off, batchCount, reaped, cq, buf, recvFile, history,
                   gone, net>>

\* Mutant: it waits for a completion less.
WaitedForLess ==
    /\ cpc = "wait" /\ Len(cq) >= batchCount - 1 /\ Goto("reap")
    /\ UNCHANGED <<phase, off, batchCount, reaped, rest, ring>>

Waited ==
    /\ cpc = "wait" /\ Len(cq) >= batchCount /\ Goto("reap")
    /\ UNCHANGED <<phase, off, batchCount, reaped, rest, ring>>

Peek ==
    /\ cpc = "reap" /\ reaped < batchCount
    /\ IF cq = <<>> THEN Goto("failed") /\ gone' = 1 /\ UNCHANGED <<reaped, cq>>
       ELSE reaped' = reaped + 1 /\ cq' = Tail(cq) /\ UNCHANGED <<cpc, gone>>
    /\ UNCHANGED <<phase, off, batchCount, rest, sq, inflight, buf, recvFile,
                   history, net>>

Reaped ==
    /\ cpc = "reap" /\ reaped = batchCount
    /\ Goto(IF rest = 1 THEN "rest" ELSE "ask")
    /\ batchCount' = 0 /\ reaped' = 0 /\ rest' = 0
    /\ UNCHANGED <<phase, off, ring>>

\* Lines 198-216: shutdown(SHUT_WR), open recv.txt, on to the second loop.
Shutdown ==
    /\ cpc = "rest" /\ batchCount = 0 /\ phase = "send"
    /\ phase' = "recv" /\ off' = 0 /\ Goto("ask")
    /\ shut' = 1
    /\ UNCHANGED <<batchCount, reaped, rest, uring, buf, recvFile, history,
                   server, c2s, s2c, gone, closed>>

Finish ==
    /\ cpc = "rest" /\ batchCount = 0 /\ phase = "recv"
    /\ Goto("exit") /\ gone' = 1
    /\ UNCHANGED <<phase, off, batchCount, reaped, rest, uring, buf, recvFile,
                   history, net>>

Client ==
    \/ AskRead \/ AskRecv \/ FileEnds \/ Answer
    \/ NotFull \/ Submit \/ Waited \/ Peek \/ Reaped \/ Shutdown \/ Finish

-----------------------------------------------------------------------------
\* One completion is taken for each read or recv, of whichever request, so what
\* is outstanding is always as much as was batched.
BatchAccounted ==
    cpc \notin {"failed", "refused"} =>
        Outstanding = batchCount - reaped + (IF cpc = "answer" THEN 1 ELSE 0)
=============================================================================
