--------------------------- MODULE PreadDaemonEnv ---------------------------
(***************************************************************************)
(* The daemon with the most general probes: at any moment one may output a *)
(* prepare record or a submit record, and the user may interrupt the       *)
(* daemon.  The reads are numbered in the order in which they were output. *)
(***************************************************************************)
EXTENDS PreadDaemon

CONSTANT MaxRecords     \* bound: records of each kind the probes output

ASSUME EnvAssumption == MaxRecords \in Nat

VARIABLES prepared,     \* how many prepare records were output
          submitted     \* how many submit records were output

vars == <<rings, daemon, uring, prepared, submitted>>

Init == RingsInit /\ DaemonInit /\ prepared = 0 /\ submitted = 0

\* handle_batched_ops and add_pending_op, from any probe.
OutputPread ==
    /\ prepared < MaxRecords
    /\ prepared' = prepared + 1 /\ OutputPrepare(prepared + 1)
    /\ UNCHANGED <<submitRb, daemon, uring, submitted>>

OutputBatch ==
    /\ submitted < MaxRecords
    /\ submitted' = submitted + 1 /\ OutputSubmit(submitted + 1)
    /\ UNCHANGED <<prepareRb, daemon, uring, prepared>>

Daemon  == DaemonStep /\ UNCHANGED <<prepared, submitted>>
Io      == Kernel /\ UNCHANGED <<prepared, submitted>>
CtrlC   == Sigint /\ UNCHANGED <<prepared, submitted>>

Next == OutputPread \/ OutputBatch \/ Daemon \/ Io \/ CtrlC

\* The daemon's thread is scheduled, and the kernel finishes the reads.
Spec == Init /\ [][Next]_vars /\ WF_vars(Daemon) /\ WF_vars(Io)

-----------------------------------------------------------------------------
\* Every variable keeps the shape the C declarations give it.
TypeOK ==
    /\ prepared \in 0..MaxRecords /\ submitted \in 0..MaxRecords
    /\ DaemonTypes(1..MaxRecords, 1..MaxRecords)

\* The daemon is a queue of reads in the order of the prepare records
\* (IOSQE_IO_LINK, one submission at a time), which drops one only when the
\* submission ring is full.
Promise == INSTANCE ReadQueue WITH Reads <- 1..MaxRecords, Limit <- Entries,
                                   queue <- PendingReads, done <- performed

IsReadQueue == Promise!Spec

\* Every batch the daemon submits is waited for to the end: the submit
\* callback returns and the loop goes on, unless the user interrupts it.
WaitEnds == dpc = "wait" ~> (dpc # "wait" \/ exiting = 1)
=============================================================================
