SPECIFICATION FairSpec
CONSTANTS
    c1 = c1
    c2 = c2
    u1 = u1
    u2 = u2
    Conns = {c1}
    Users = {u1, u2}
    UserOf <- OneConn
    Channels = {}
    Threads = {t1}
    Events = {e1, e2}
    Nothing = Nothing
INVARIANT
    Inv
PROPERTY
    WritersGetLock
