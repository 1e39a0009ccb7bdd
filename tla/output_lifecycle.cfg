SPECIFICATION FairSpec
CONSTANTS
    Outputs = {o1}
    MaxRetries = 2
    ChannelCapacity = 2
    MaxAttempts = 2
    MaxEvents = 1

CHECK_DEADLOCK FALSE
INVARIANTS
    OrphanIsCancelled
    RegistrationIsOwned
    RuntimeIsHeld
PROPERTIES
    ServesForward
    StopsEventually
    StartsEventually
