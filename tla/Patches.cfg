\* Two threads, batches of two in a ring of two, two batches and what a flush
\* may leave; once probes have overlapped, three operations, one more than a
\* batch.
SPECIFICATION PatchesSpec
CONSTANTS
    Threads = {t1, t2}
    BatchSize = 2
    Entries = 2
    MaxCalls = 4
    MaxRaced = 3
INVARIANTS Settled InCallOrder NoStaleRequest NeverOverReports
PROPERTY WaitEnds
CHECK_DEADLOCK FALSE
