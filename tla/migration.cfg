SPECIFICATION FairSpec
CONSTANTS
    OldCapacity = 2
    NewCapacity = 3
    Preroll = 1
    MaxPackets = 3
    MaxProbes = 2
CHECK_DEADLOCK FALSE
INVARIANTS
    ResumesWithoutGap
    SleepsOnlyWhenDrained
PROPERTIES
    SealedIsQuiet
    CatchesUp
    EndReaches
