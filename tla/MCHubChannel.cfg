SPECIFICATION Spec
CONSTANTS
    c1 = c1
    c2 = c2
    u1 = u1
    u2 = u2
    Conns = {c1, c2}
    Users = {u1}
    UserOf <- OneUser
    Channels = {ch1}
    Threads = {}
    Events = {e1}
    Nothing = Nothing
SYMMETRY ConnSymmetry
INVARIANTS
    IndexesAgree
    LiveSubscribersOnly
    AckHonoured
    DeliveredInScope
