SPECIFICATION CountersSpec
CONSTANTS
    Cpus = {c1, c2, c3}
    Inodes = {1, 2, 3}
    Key <- Low
    Counts = {0, 1, 2}
    MaxEarned = 3
    MaxSpent = 4
    Preset = 5
    MaxHits = 3
    Word = 32
    MaxStarts = 2
    MaxNow = 2
    MaxSamples = 3
INVARIANTS TypeOK NeverInvents Balanced NeverOvercounts OwnFsync
SYMMETRY Symmetry
CHECK_DEADLOCK FALSE
