------------------------------ MODULE Patches ------------------------------
(***************************************************************************)
(* The two families of probes that put the reads of an application into an *)
(* io_uring of bpftime: those of backup.bpf.c (HotPatch) and those of      *)
(* batch.bpf.c (BatchPread), each with a process and a ring of its own.    *)
(* One of them is loaded: program says which, and never changes.           *)
(***************************************************************************)
EXTENDS HotPatch

VARIABLES program,
          bsq, binflight, bcq, bpc, bseen, bcalls, bmixed,
          mine, up, initFirst, info, total, with, reported, handed, collided,
          starved

bvars == <<bsq, binflight, bcq, bpc, bseen, bcalls, bmixed, mine,
           up, initFirst, info, total, with, reported, handed, collided,
           starved>>
all   == <<program, vars, bvars>>

Batch == INSTANCE BatchPread WITH
    sq <- bsq, inflight <- binflight, cq <- bcq,
    pc <- bpc, seen <- bseen, calls <- bcalls, overlapped <- bmixed

\* BATCH_SIZE is 1024 in both; a ring may be given no SQEs.
ASSUME PatchesAssumption == BatchSize \in Nat \ {0} /\ Entries \in Nat

PatchesInit == /\ program \in {"backup", "batch"} /\ PatchInit /\ Batch!BatchInit
               /\ program = "backup" => ~initFirst

InBackup == program = "backup" /\ UNCHANGED <<program, bvars>>
InBatch  == program = "batch" /\ UNCHANGED <<program, vars>>

PatchesNext == (InBackup /\ Patch) \/ (InBatch /\ Batch!Probes)

\* The loops that should end: those until two probes overlap, and of
\* batch.bpf.c those begun with a full batch.
Waiting == (~overlapped /\ Waits) \/ Batch!Waits

\* A probe that was entered runs on, and the kernel works; the application
\* need not call.
PatchesSpec ==
    /\ PatchesInit /\ [][PatchesNext]_all
    /\ WF_all(\E t \in Threads : (InBackup /\ Run(t)) \/ (InBatch /\ Batch!Run(t)))
    /\ WF_all((InBackup /\ Works) \/ (InBatch /\ Batch!Works))

-----------------------------------------------------------------------------
\* A read of batch.bpf.c takes nothing from a read that was over before.
NoStaleRequest == Batch!NoStaleRequest

\* The bytes batchSubmit tells of were handed over.
NeverOverReports == Batch!NeverOverReports

\* Until two probes overlap, and in batch.bpf.c while each began with a full
\* batch, the loops over io_uring_wait_and_seen end.
WaitEnds == Waiting ~> ~Waiting
=============================================================================
