---------------------------- MODULE PreadDaemon ----------------------------
(***************************************************************************)
(* The daemon of IO_syscall_patch/user.c.  Its main loop polls the two     *)
(* ring buffers in turn, each time blocking until there is a record and    *)
(* then handling records until the buffer is empty.  A prepare record      *)
(* becomes one linked SQE; a submit record submits everything prepared and *)
(* waits for batch_count completions.                                      *)
(*                                                                         *)
(* The kernel runs each submission as one chain of linked reads, strictly  *)
(* in order: a read that fails or is short cancels the rest of its chain.  *)
(***************************************************************************)
EXTENDS PreadRings

CONSTANT Entries             \* SQEs in the io_uring (1024 in the code)

ASSUME EntriesAssumption == Entries \in Nat \ {0}

VARIABLES dpc,         \* where the daemon's only thread is
          exiting,     \* the flag the SIGINT handler sets
          batchCount,  \* batch_count
          waited,      \* i, the loop index of process_pread_submit_info
          sq,          \* SQEs prepared and not yet submitted, in order
          chains,      \* the submitted chains, what is left of each of them
          cq,          \* completions posted and not yet seen
          performed    \* history: the reads the kernel attempted, in order

uring  == <<sq, chains, cq, performed>>
daemon == <<dpc, exiting, batchCount, waited>>

DaemonPC == {"loop", "pollPrepare", "prepare", "pollSubmit", "submit", "wait",
             "stopped"}

DaemonInit ==
    /\ dpc = "loop" /\ exiting = 0
    /\ batchCount = 0 /\ waited = 0
    /\ sq = <<>> /\ chains = <<>> /\ cq = 0 /\ performed = <<>>

-----------------------------------------------------------------------------
\* while (!exiting)
Loop ==
    /\ dpc = "loop"
    /\ dpc' = IF exiting = 1 THEN "stopped" ELSE "pollPrepare"
    /\ UNCHANGED <<exiting, batchCount, waited, uring, rings>>

\* ring_buffer__poll(rb_pread_prepare, -1) blocks until there is a record ...
PollPrepare ==
    /\ dpc = "pollPrepare" /\ prepareRb # <<>>
    /\ dpc' = "prepare"
    /\ UNCHANGED <<exiting, batchCount, waited, uring, rings>>

\* Mutant: sqe is not tested for NULL, as if the ring could not be full.
HandlePrepareUnchecked ==
    /\ dpc = "prepare" /\ prepareRb # <<>>
    /\ sq' = Append(sq, Head(prepareRb))
    /\ batchCount' = batchCount + 1
    /\ prepareRb' = Tail(prepareRb)
    /\ UNCHANGED <<dpc, exiting, waited, chains, cq, performed, submitRb>>

\* Mutant: batch_count++ comes before the test of sqe.
HandlePrepareCountsDropped ==
    /\ dpc = "prepare" /\ prepareRb # <<>>
    /\ sq' = IF Len(sq) < Entries THEN Append(sq, Head(prepareRb)) ELSE sq
    /\ batchCount' = batchCount + 1
    /\ prepareRb' = Tail(prepareRb)
    /\ UNCHANGED <<dpc, exiting, waited, chains, cq, performed, submitRb>>

\* ... calls handle_pread_prepare for each: without a free SQE the record
\* is dropped, otherwise it becomes a linked SQE and is counted ...
HandlePrepare ==
    /\ dpc = "prepare" /\ prepareRb # <<>>
    /\ IF Len(sq) < Entries
       THEN /\ sq' = Append(sq, Head(prepareRb))
            /\ batchCount' = batchCount + 1
       ELSE UNCHANGED <<sq, batchCount>>
    /\ prepareRb' = Tail(prepareRb)
    /\ UNCHANGED <<dpc, exiting, waited, chains, cq, performed, submitRb>>

\* ... and returns when the buffer is empty.
PrepareDrained ==
    /\ dpc = "prepare" /\ prepareRb = <<>>
    /\ dpc' = "pollSubmit"
    /\ UNCHANGED <<exiting, batchCount, waited, uring, rings>>

PollSubmit ==
    /\ dpc = "pollSubmit" /\ submitRb # <<>>
    /\ dpc' = "submit"
    /\ UNCHANGED <<exiting, batchCount, waited, uring, rings>>

\* process_pread_submit_info, whichever pid the record names: nothing to do
\* when nothing is counted ...
HandleSubmitEmpty ==
    /\ dpc = "submit" /\ submitRb # <<>> /\ batchCount = 0
    /\ submitRb' = Tail(submitRb)
    /\ UNCHANGED <<daemon, uring, prepareRb>>

\* Mutant: the SQEs are not linked (no IOSQE_IO_LINK).
HandleSubmitUnlinked ==
    /\ dpc = "submit" /\ submitRb # <<>> /\ batchCount > 0
    /\ chains' = chains \o [i \in 1..Len(sq) |-> <<sq[i]>>]
    /\ sq' = <<>>
    /\ dpc' = "wait" /\ waited' = 0
    /\ UNCHANGED <<exiting, batchCount, cq, performed, rings>>

\* ... otherwise io_uring_submit makes one chain of all the SQEs ...
HandleSubmit ==
    /\ dpc = "submit" /\ submitRb # <<>> /\ batchCount > 0
    /\ chains' = IF sq = <<>> THEN chains ELSE Append(chains, sq)
    /\ sq' = <<>>
    /\ dpc' = "wait" /\ waited' = 0
    /\ UNCHANGED <<exiting, batchCount, cq, performed, rings>>

\* ... io_uring_wait_cqe and io_uring_cqe_seen, once per counted read ...
WaitCqe ==
    /\ dpc = "wait" /\ waited < batchCount /\ cq > 0
    /\ cq' = cq - 1 /\ waited' = waited + 1
    /\ UNCHANGED <<dpc, exiting, batchCount, sq, chains, performed, rings>>

\* Mutant: batch_count is not reset after the wait.
WaitDoneNoReset ==
    /\ dpc = "wait" /\ waited = batchCount
    /\ dpc' = "submit" /\ submitRb' = Tail(submitRb)
    /\ UNCHANGED <<batchCount, exiting, waited, uring, prepareRb>>

\* ... and the count is reset; only now is the submit record released.
WaitDone ==
    /\ dpc = "wait" /\ waited = batchCount
    /\ batchCount' = 0
    /\ dpc' = "submit" /\ submitRb' = Tail(submitRb)
    /\ UNCHANGED <<exiting, waited, uring, prepareRb>>

SubmitDrained ==
    /\ dpc = "submit" /\ submitRb = <<>>
    /\ dpc' = "loop"
    /\ UNCHANGED <<exiting, batchCount, waited, uring, rings>>

-----------------------------------------------------------------------------
\* SIGINT: the handler sets the flag.  A poll that is blocked fails with
\* EINTR and ends the loop; a blocked io_uring_wait_cqe fails too, and the
\* handler of the record returns without resetting batch_count.
Sigint ==
    /\ dpc # "stopped"
    /\ exiting' = 1
    /\ \/ UNCHANGED <<dpc, submitRb>>
       \/ /\ \/ dpc = "pollPrepare" /\ prepareRb = <<>>
             \/ dpc = "pollSubmit" /\ submitRb = <<>>
          /\ dpc' = "stopped" /\ UNCHANGED submitRb
       \/ /\ dpc = "wait" /\ waited < batchCount /\ cq = 0
          /\ dpc' = "submit" /\ submitRb' = Tail(submitRb)
    /\ UNCHANGED <<batchCount, waited, uring, prepareRb>>

-----------------------------------------------------------------------------
\* The kernel carries out the first read left of a chain ...
ChainRest(c, rest) ==
    IF rest = <<>>
    THEN SubSeq(chains, 1, c - 1) \o SubSeq(chains, c + 1, Len(chains))
    ELSE [chains EXCEPT ![c] = rest]

CompleteRead(c) ==
    /\ performed' = Append(performed, Head(chains[c]))
    /\ chains' = ChainRest(c, Tail(chains[c]))
    /\ cq' = cq + 1
    /\ UNCHANGED <<daemon, sq, rings>>

\* ... and, when that read fails or is short, posts -ECANCELED for the rest.
FailRead(c) ==
    /\ performed' = Append(performed, Head(chains[c]))
    /\ chains' = ChainRest(c, <<>>)
    /\ cq' = cq + Len(chains[c])
    /\ UNCHANGED <<daemon, sq, rings>>

Kernel == \E c \in DOMAIN chains : CompleteRead(c) \/ FailRead(c)

DaemonStep ==
    \/ Loop
    \/ PollPrepare \/ HandlePrepare \/ PrepareDrained
    \/ PollSubmit \/ HandleSubmitEmpty \/ HandleSubmit
    \/ WaitCqe \/ WaitDone \/ SubmitDrained

-----------------------------------------------------------------------------
\* The shapes of the variables, for prepare records in Reads and submit
\* records in Batches: no ring is ever overfilled.
DaemonTypes(Reads, Batches) ==
    /\ prepareRb \in Seq(Reads) /\ Len(prepareRb) <= PrepareCapacity
    /\ submitRb \in Seq(Batches) /\ Len(submitRb) <= SubmitCapacity
    /\ dpc \in DaemonPC /\ exiting \in {0, 1}
    /\ batchCount \in Nat /\ waited \in Nat /\ cq \in Nat
    /\ sq \in Seq(Reads) /\ Len(sq) <= Entries
    /\ chains \in Seq(Seq(Reads))
    /\ performed \in Seq(Reads)

\* There is never more than one chain in the kernel (OneChain).
Chain    == IF chains = <<>> THEN <<>> ELSE chains[1]
InKernel == Len(Chain)

\* The reads handed over and not yet dealt with, in their order.
PendingReads == Chain \o sq \o prepareRb

\* batch_count and the ring agree as long as no wait was interrupted: outside
\* the wait it counts exactly the SQEs prepared and nothing is left in the
\* kernel; inside it is what was seen plus what is still to come, so
\* io_uring_wait_cqe never waits for a completion nobody will post.
BatchAccounted ==
    exiting = 0 => IF dpc = "wait"
                THEN /\ sq = <<>> /\ Len(chains) <= 1
                     /\ batchCount = waited + (cq + InKernel)
                ELSE /\ chains = <<>> /\ cq = 0
                     /\ batchCount = Len(sq)

\* What the reader of the accounting must know besides: while the daemon waits
\* it still holds the submit record it is handling, ...
RecordHeld == dpc = "wait" => submitRb # <<>>

\* ... and no chain is left in the kernel while records are being prepared:
\* there is never more than one, which only an interrupted wait leaves behind.
OneChain ==
    /\ Len(chains) <= 1
    /\ \A c \in DOMAIN chains : chains[c] # <<>>
    /\ dpc \in {"pollPrepare", "prepare", "pollSubmit"} => chains = <<>>
    /\ chains # <<>> => sq = <<>>
    /\ chains # <<>> /\ dpc # "wait" => exiting = 1

DaemonInv(Reads, Batches) ==
    DaemonTypes(Reads, Batches) /\ RecordHeld /\ OneChain /\ BatchAccounted
=============================================================================
