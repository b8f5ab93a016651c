SPECIFICATION ThreadSpec
CONSTANTS
    u1 = u1
    u2 = u2
    c1 = c1
    c2 = c2
    r1 = r1
    r2 = r2
    r3 = r3
    NoUser = NoUser
    NoMessage = NoMessage
    NoContent = NoContent
    Users = {u1}
    Ids = {1, 2, 3}
    Contents = {c1}
    LimitArgs = {0, 1, 3}
    MAX_PAGE_LIMIT = 2
    MaxTime = 2
    MaxDrops = 0
    MaxOps = 2
    Readers = {u1}
    Followers = {}
    Kinds = {"CHANNEL"}
    Requests = {r1, r2}
SYMMETRY Symmetry
CHECK_DEADLOCK FALSE
INVARIANTS
    StableWalk
    CaughtUp
