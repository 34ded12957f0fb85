---------------------------- MODULE PlainReader ----------------------------
(***************************************************************************)
(* The two programs of iouring_hotpatch that read a file through an        *)
(* io_uring in batches: vanilla_uring_read.c reads it once and ends,       *)
(* read_uring.c (test_io_uring) reads for 0.4 s and starts again, for ever.*)
(* The second asks for a batch larger than its ring, and hands             *)
(* io_uring_submit_and_wait the address of its pointer to the ring.        *)
(***************************************************************************)
EXTENDS HelperRing

CONSTANTS QueueDepth,   \* of each program: 512 and 32
          BatchOf,      \* BATCH_SIZE: 256
          Chunks        \* chunks of the file vanilla_uring_read.c reads

VARIABLES reader,       \* the program: "vanilla" or "read"
          at,           \* where it is
          batched,      \* batch_count
          reaped,       \* i of the loop over the completions
          left          \* chunks not prepared

rvars == <<uring, reader, at, batched, reaped, left>>

ReaderInit ==
    /\ RingInit
    /\ reader \in {"vanilla", "read"} /\ at = "loop"
    /\ batched = 0 /\ reaped = 0 /\ left = Chunks

To(from, to) == at = from /\ at' = to

FreeSqe == Len(sq) < QueueDepth[reader]

\* io_uring_get_sqe and io_uring_prep_read of vanilla_uring_read.c.
Prepare ==
    /\ reader = "vanilla" /\ at = "loop"
    /\ left > 0 /\ batched < BatchOf /\ FreeSqe
    /\ sq' = Prepared(left) /\ left' = left - 1 /\ batched' = batched + 1
    /\ UNCHANGED <<inflight, cq, reader, at, reaped>>

NoSqe ==
    /\ reader = "vanilla" /\ left > 0 /\ batched < BatchOf /\ ~FreeSqe
    /\ To("loop", "no sqe")
    /\ UNCHANGED <<uring, reader, batched, reaped, left>>

\* Mutant: the rest of the file is submitted only if it fills a batch.
SubmitFullOnly ==
    /\ reader = "vanilla" /\ batched = BatchOf /\ To("loop", "wait")
    /\ Submit
    /\ UNCHANGED <<reader, batched, reaped, left>>

\* io_uring_submit_and_wait, of a full batch or of the rest of the file.
SubmitReads ==
    /\ reader = "vanilla" /\ To("loop", "wait")
    /\ batched = BatchOf \/ (left = 0 /\ batched > 0)
    /\ Submit
    /\ UNCHANGED <<reader, batched, reaped, left>>

Waited ==
    /\ cq >= batched /\ To("wait", "reap")
    /\ UNCHANGED <<uring, reader, batched, reaped, left>>

\* A read that failed ends the program.
Reap ==
    /\ at = "reap" /\ reaped < batched
    /\ WaitAndSeen
    /\ reaped' = reaped + 1
    /\ at' \in {"reap", "failed"}
    /\ UNCHANGED <<reader, batched, left>>

\* Mutant: one completion is left unseen.
ReapedButOne ==
    /\ reaped + 1 = batched /\ To("reap", "loop")
    /\ batched' = 0 /\ reaped' = 0
    /\ UNCHANGED <<uring, reader, left>>

Reaped ==
    /\ reaped = batched /\ To("reap", "loop")
    /\ batched' = 0 /\ reaped' = 0
    /\ UNCHANGED <<uring, reader, left>>

AllRead ==
    /\ reader = "vanilla" /\ left = 0 /\ batched = 0 /\ To("loop", "ended")
    /\ UNCHANGED <<uring, reader, batched, reaped, left>>

\* Mutant: the missing SQE is not noticed, and the count goes on.
PrepareMoreUnchecked ==
    /\ reader = "read" /\ at = "loop"
    /\ sq' = IF FreeSqe THEN Prepared(batched) ELSE sq
    /\ batched' = batched + 1
    /\ at' = IF batched' >= BatchOf THEN "submit &ring" ELSE "loop"
    /\ UNCHANGED <<inflight, cq, reader, reaped, left>>

\* read_uring.c: a full batch would be submitted to the wrong address.
PrepareMore ==
    /\ reader = "read" /\ at = "loop" /\ FreeSqe
    /\ sq' = Prepared(batched)
    /\ batched' = batched + 1
    /\ at' = IF batched' >= BatchOf THEN "submit &ring" ELSE "loop"
    /\ UNCHANGED <<inflight, cq, reader, reaped, left>>

\* No SQE, or the time is up.
Break ==
    /\ reader = "read" /\ To("loop", "sleep")
    /\ UNCHANGED <<uring, reader, batched, reaped, left>>

\* main sleeps and calls test_io_uring again, with the same ring.
Again ==
    /\ To("sleep", "loop")
    /\ batched' = 0
    /\ UNCHANGED <<uring, reader, reaped, left>>

KernelReads ==
    /\ \E r \in inflight : End({r})
    /\ UNCHANGED <<reader, at, batched, reaped, left>>

Reader == \/ Prepare \/ NoSqe \/ SubmitReads \/ Waited \/ Reap \/ Reaped
          \/ AllRead \/ PrepareMore \/ Break \/ Again

-----------------------------------------------------------------------------
\* vanilla_uring_read.c, whose ring takes a batch: a free SQE never lacks,
\* and when a batch is over nothing of it is outstanding.
BatchesReaped ==
    reader = "vanilla" /\ BatchOf <= QueueDepth["vanilla"] =>
        /\ at # "no sqe"
        /\ at \in {"loop", "ended"} => inflight = {} /\ cq = 0 /\ Len(sq) = batched

\* read_uring.c, whose ring does not: no run of test_io_uring comes to
\* io_uring_submit_and_wait, whose first argument is wrong.
NeverSubmits ==
    reader = "read" /\ QueueDepth["read"] < BatchOf => at # "submit &ring"

\* vanilla_uring_read.c is at work.
Reading == reader = "vanilla" /\ at \notin {"ended", "failed", "no sqe"}
=============================================================================
