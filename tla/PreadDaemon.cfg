\* Rings of two and one records, an io_uring of two entries, four records of
\* each kind: the prepare ring, the submit ring and the submission ring all
\* overflow.
SPECIFICATION Spec
CONSTANTS
    PrepareCapacity = 2
    SubmitCapacity = 1
    Entries = 2
    MaxRecords = 4
INVARIANTS TypeOK BatchAccounted
PROPERTIES IsReadQueue WaitEnds
CHECK_DEADLOCK FALSE
