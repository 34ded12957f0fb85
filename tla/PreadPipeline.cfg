SPECIFICATION PipelineSpec
CONSTANTS
    t1 = t1
    p1 = p1
    Threads = {t1}
    Pids = {p1}
    Groupings <- OneProcess
    Verdicts = {0, 1}
    Sizes = {1, 2}
    FdEntries = 1
    MaxPreads = 3
    PrepareCapacity = 2
    SubmitCapacity = 1
    Entries = 2
INVARIANTS PerformedInOrder NotTwice
PROPERTY PipeIsReadQueue
