SPECIFICATION Spec
CONSTANTS
    l1 = l1
    l2 = l2
    producer = producer
    Leaves = {l1, l2}
    Wakers = {producer}
    Producer = producer
    CommandCapacity = 1
    CommandBudget = 1
    ReadyBudget = 1
    Retained = 1
    MaxHead = 2
    MaxControl = 0
    MaxReceived = 1
CHECK_DEADLOCK FALSE
SYMMETRY LeafSymmetry
INVARIANTS
    ReadyIsBacked
    NoStrandedLeaf
    StagedIsSeen
