--------------------------- MODULE PreadPipeline ---------------------------
(***************************************************************************)
(* The whole path of an overridden pread: the probes in the ClickHouse     *)
(* threads (PreadProbes), the two ring buffers (PreadRings), the daemon    *)
(* and the kernel (PreadDaemon).                                           *)
(***************************************************************************)
EXTENDS PreadProbes, PreadDaemon, FiniteSets

pipeline == <<probes, rings, daemon, uring>>

PipelineInit == RingsInit /\ ProbesInit /\ DaemonInit

PipelineNext ==
    \/ (\E t \in Threads : ProbeStep(t)) /\ UNCHANGED <<daemon, uring>>
    \/ (DaemonStep \/ Kernel \/ Sigint) /\ UNCHANGED probes

PipelineSpec == PipelineInit /\ [][PipelineNext]_pipeline

-----------------------------------------------------------------------------
PreadRecord == [pid : Pids, seq : 0..MaxPreads, size : Sizes]

\* The reads performed and those still under way.
UnderWay == performed \o PendingReads

\* With one client thread a read is performed at most once, and the reads in
\* the order of its calls, through both ring buffers, the submission ring, the
\* linked chains, dropped records and failed reads.
PerformedInOrder ==
    \A i, j \in DOMAIN performed : i < j => performed[i].seq < performed[j].seq

\* The bytes of a process among some reads, counted one by one.
BytesOf(p, reads) ==
    Cardinality(UNION {{k} \X (1..reads[k].size) :
                          k \in {k \in DOMAIN reads : reads[k].pid = p}})

\* No read is done twice: the one client thread skips the very preads it hands
\* over, in size, and at all times whatever is performed or still under way was
\* skipped.  Not every skipped read is done: one whose record the full ring
\* buffer refuses, or that fails, is lost.  (With two threads a batchSubmit
\* between the test of the flag and its copy in preadRaw makes the client do
\* what it has handed over.)
NotTwice ==
    \A p \in Pids :
        /\ BytesOf(p, UnderWay) <= skipped[p]
        /\ (\A t \in Threads : At(t, "idle")) => skipped[p] = handed[p]

\* End to end, and for any number of threads, the pipeline is the queue of
\* reads the daemon promises.
Pipe == INSTANCE ReadQueue WITH Reads <- PreadRecord, Limit <- Entries,
                                queue <- PendingReads, done <- performed

PipeIsReadQueue == Pipe!Spec
=============================================================================
