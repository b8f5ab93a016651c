SPECIFICATION Spec
CONSTANTS
    A = alice
    B = bob
    Nobody = Nobody
    r1 = r1
    r2 = r2
    r3 = r3
    Requests = {r1, r2, r3}
    MaxThreads = 2
SYMMETRY RequestSymmetry
INVARIANTS
    ReceiverWaits
    FriendsActive
PROPERTIES
    ActiveForever
    ImplementsContract
