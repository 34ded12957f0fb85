\* The ring of the patches is smaller than a batch, so that operations find it
\* full and a flush is all that empties it.
SPECIFICATION PatchesSpec
CONSTANTS
    Threads = {t1, t2}
    BatchSize = 3
    Entries = 2
    MaxCalls = 5
    MaxRaced = 2
INVARIANT EachOpOnce
CHECK_DEADLOCK FALSE
