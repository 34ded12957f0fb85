\* One thread, samples of zero to three ticks, words of five bits.
SPECIFICATION LatencySpec
CONSTANTS
    Threads = {t1}
    Word = 32
    MaxStarts = 1
    MaxNow = 3
    MaxSamples = 3
INVARIANT AverageOfExits
CHECK_DEADLOCK FALSE
