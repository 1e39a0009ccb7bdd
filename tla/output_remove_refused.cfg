SPECIFICATION Spec
CONSTANTS
    Outputs = {o1, o2}
    MaxRetries = 2
    ChannelCapacity = 1
    MaxAttempts = 2
    MaxEvents = 1

INVARIANT EndedIsRemoved
CHECK_DEADLOCK FALSE
