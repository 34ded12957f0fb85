SPECIFICATION Spec
CONSTANTS
    Blocks = 3
    MaxOld = 1
    Window = 2
    Entries = 4
    BatchSize = 4
    CopyEntries = 2
    CopyBatchSize = 2
INVARIANT FileContentSent
CHECK_DEADLOCK FALSE
