SPECIFICATION Spec
CONSTANTS
    t1 = t1
    t2 = t2
    p1 = p1
    p2 = p2
    Threads = {t1, t2}
    Pids = {p1, p2}
    Groupings <- OneOrTwo
    Verdicts = {0, 1}
    Sizes = {1}
    FdEntries = 1
    MaxPreads = 3
    PrepareCapacity = 1
    SubmitCapacity = 1
INVARIANTS NeverOverReports AllOrNothing
