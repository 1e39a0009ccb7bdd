SPECIFICATION FairSpec
CONSTANTS
    Capacity = 3
    MaxBatch = 3
    MaxSeq = 5
    MaxBurst = 2
    Preroll = 1
PROPERTIES
    CatchesUp
    ImplementsStream
INVARIANTS
    TypeOK
    ContiguousRun
    InOrder
    OnlyPublished
    DecodableVideo
