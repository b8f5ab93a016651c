SPECIFICATION Spec
CONSTANTS
    u1 = u1
    u2 = u2
    u3 = u3
    r1 = r1
    r2 = r2
    r3 = r3
    n1 = n1
    n2 = n2
    n3 = n3
    k1 = k1
    k2 = k2
    Users = {u1, u2, u3}
    NoUser = NoUser
    Invites = {k1}
    NoInvite = NoInvite
    Limits = {1}
    MaxUses = 2
    Names = {n1, n2, n3}
    Requests = {r1, r2}
SYMMETRY GuildSymmetry
CHECK_DEADLOCK FALSE
INVARIANTS
    TypeOK
    RoleFollowsMembership
    AccessWasHeld
    InviteCap
    PositionsGapFree
