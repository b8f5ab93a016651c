SPECIFICATION ThreadSpec
CONSTANTS
    u1 = u1
    u2 = u2
    c1 = c1
    c2 = c2
    r1 = r1
    r2 = r2
    r3 = r3
    NoUser = NoUser
    NoMessage = NoMessage
    NoContent = NoContent
    Users = {u1, u2}
    Ids = {1}
    Contents = {c1, c2}
    LimitArgs = {1}
    MAX_PAGE_LIMIT = 1
    MaxTime = 1
    MaxDrops = 1
    MaxOps = 2
    Readers = {u1}
    Followers = {u1}
    Kinds = {"CHANNEL", "GROUP", "DIRECT"}
    Requests = {r1, r2}
SYMMETRY Symmetry
CHECK_DEADLOCK FALSE
INVARIANTS
    Converged
    DeleteToldOnce
PROPERTY
    ImplementsLog
    AuthorWrites
