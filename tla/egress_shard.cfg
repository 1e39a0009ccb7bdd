SPECIFICATION FairSpec
CONSTANTS
    l1 = l1
    producer = producer
    subscriber = subscriber
    Leaves = {l1}
    Wakers = {producer, subscriber}
    Producer = producer
    CommandCapacity = 1
    CommandBudget = 1
    ReadyBudget = 1
    Retained = 1
    MaxHead = 1
    MaxControl = 1
    MaxReceived = 0
CHECK_DEADLOCK FALSE
INVARIANTS
    OneWakeInFlight
    PendingIsOwned
PROPERTIES
    CatchesUp
