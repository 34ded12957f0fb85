SPECIFICATION ProgramsSpec
CONSTANTS
    Threads = {t1, t2}
    PatchSize = 2
    PreadSize = 4
    Entries = 3
    MaxCalls = 6
    MaxRaced = 4
    QueueDepth <- Depths
    BatchOf = 2
    Chunks = 5
INVARIANTS NoWriteForgotten NotCompleted Counted BatchesReaped NeverSubmits
PROPERTY WaitEnds
CHECK_DEADLOCK FALSE
