SPECIFICATION Spec
CONSTANTS
    Blocks = 3
    MaxOld = 4
    Window = 2
    Entries = 4
    BatchSize = 4
    CopyEntries = 2
    CopyBatchSize = 2
INVARIANTS ReceivedInOrder RoundTrip BatchAccounted AllSent
           StoredInPlace
PROPERTY Terminates
CHECK_DEADLOCK FALSE
