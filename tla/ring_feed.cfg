SPECIFICATION FairSpec
CONSTANTS
    Capacity = 2
    MaxBatch = 2
    MaxSeq = 5
    MaxUnits = 2
INVARIANTS
    RunIsOwn
    DecodableVideo
    FallbackMeetsKeyframe
PROPERTIES
    CatchesUp
    ImplementsStream
