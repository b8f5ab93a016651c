SPECIFICATION Spec
CONSTANTS
    c1 = c1
    c2 = c2
    c3 = c3
    i1 = i1
    i2 = i2
    Instances = {i1, i2}
    Conns = {c1, c2}
    InstanceOf <- TwoInstances
    Beaters = {}
    HEARTBEAT_TIMEOUT = 1
    PROCESSING = 1
    PRESENCE_TTL = 4
    Faults = FALSE
INVARIANT
    ConnectedIsOnline
