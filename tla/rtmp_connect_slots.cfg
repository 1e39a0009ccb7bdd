SPECIFICATION Spec
CONSTANTS
    Outputs = {o1, o2}
    Capacity = 2
    MaxGeneration = 2
    RequestCapacity = 1
    CompletionCapacity = 1
SYMMETRY OutputSymmetry
INVARIANT ReservedHasConnect
CHECK_DEADLOCK FALSE
