\* A ring of four slots with every position of head and tail and, with two
\* packets, every content; and the ten packets of main through rings of four
\* slots, so that the indices wrap twice (with the 64 slots of the code they
\* never do).
SPECIFICATION RingsSpec
CONSTANTS
    Size = 4
    Zeroed = zeroed
    Packets = {p1, p2}
    PipelineSize = 4
    PipelinePackets = 10
    PipelineEntries = 1
INVARIANTS TypeOK EachWrittenOnce
PROPERTIES IsPacketQueue Terminates
CHECK_DEADLOCK FALSE
