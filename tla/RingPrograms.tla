---------------------------- MODULE RingPrograms ----------------------------
(***************************************************************************)
(* Three users of an io_uring, each with a process and a ring of its own:  *)
(* the probes of rocksdb.bpf.c (UringShim), the probe of test.bpf.c        *)
(* (PreadShim) and the plain readers (PlainReader).  One of them runs:     *)
(* program says which, and never changes.                                  *)
(***************************************************************************)
EXTENDS PreadShim

CONSTANTS QueueDepth, BatchOf, Chunks

ASSUME ProgramsAssumption ==
    /\ PreadSize \in Nat \ {0} /\ BatchOf \in Nat \ {0} /\ Chunks \in Nat
    /\ QueueDepth["vanilla"] \in Nat /\ QueueDepth["read"] \in Nat

VARIABLES program, rsq, rinflight, rcq, reader, at, batched, reaped, left

rvars == <<rsq, rinflight, rcq, reader, at, batched, reaped, left>>
all   == <<program, vars, rvars>>

Plain == INSTANCE PlainReader WITH sq <- rsq, inflight <- rinflight, cq <- rcq

ProgramsInit == program \in {"rocksdb", "pread", "plain"}
                /\ ShimInit /\ Plain!ReaderInit

InShims   == UNCHANGED <<program, rvars>>
InRocksdb == program = "rocksdb" /\ InShims
InPread   == program = "pread" /\ InShims
InPlain   == program = "plain" /\ UNCHANGED <<program, vars>>

ProgramsNext == \/ InRocksdb /\ Shim
                \/ InPread /\ PreadShimNext
                \/ InPlain /\ (Plain!Reader \/ Plain!KernelReads)

\* The loops that should end: those of the probes until two of them overlap.
Waiting == (~overlapped /\ Waits) \/ (program = "plain" /\ Plain!Reading)

\* A probe that was entered runs on, so does a reader, and the kernel works;
\* the application need not call.
ProgramsSpec ==
    /\ ProgramsInit /\ [][ProgramsNext]_all
    /\ WF_all(\/ \E t \in Threads : \/ InRocksdb /\ Run(t)
                                    \/ InPread /\ RunPread(t)
              \/ InPlain /\ Plain!Reader)
    /\ WF_all((InShims /\ Works) \/ (InPlain /\ Plain!KernelReads))

-----------------------------------------------------------------------------
\* Until two probes overlap, and between two probes, current_count is exactly
\* the requests whose completion was not seen: a wait takes those of its own
\* batch and leaves none for the next.  The write/fsync shim needs room for a
\* batch in its ring, the pread shim does not, however large its patch_size.
Counted ==
    (program = "rocksdb" => PatchSize < Entries) /\ ~overlapped /\ NoneRunning
        => count = Due

\* vanilla_uring_read.c sees every completion of a batch.
BatchesReaped == Plain!BatchesReaped

\* read_uring.c never comes to its wrong call.
NeverSubmits == Plain!NeverSubmits

\* The waits for a batch end, until two probes overlap, and so does
\* vanilla_uring_read.c.
WaitEnds == Waiting ~> ~Waiting
=============================================================================
