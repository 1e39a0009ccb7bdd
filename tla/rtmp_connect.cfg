SPECIFICATION FairSpec
CONSTANTS
    Outputs = {o1, o2}
    Capacity = 2
    MaxGeneration = 2
    RequestCapacity = 2
    CompletionCapacity = 1
CHECK_DEADLOCK FALSE
INVARIANTS
    DialsItsOwnPeer
    ReplacesForward
    ConnectionsAreIndexed

    
