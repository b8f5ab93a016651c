SPECIFICATION FairSpec
CONSTANTS
    a = a
    b = b
    e1 = e1
    e2 = e2
    Instances = {a, b}
    Events = {e1, e2}
    Kind <- MixedKinds
    Origins <- SpreadEvents
    MaxFaults = 1
CHECK_DEADLOCK FALSE
INVARIANTS
    AtMostOnce
    CausalOrder
    LocalDelivery
PROPERTIES
    DeliversUntilShutdown
    StopsOnShutdown
