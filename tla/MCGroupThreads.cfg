SPECIFICATION Spec
CONSTANTS
    u1 = u1
    u2 = u2
    u3 = u3
    k1 = k1
    k2 = k2
    r1 = r1
    r2 = r2
    r3 = r3
    NoUser = NoUser
    NoArg = NoArg
    Users = {u1, u2, u3}
    Invites = {k1, k2}
    Limits = {1, 2}
    MaxUses = 2
    MaxInitial = 2
    Requests = {r1, r2, r3}
SYMMETRY Symmetry
INVARIANTS
    OwnerIsMember
    InviteCap
PROPERTIES
    UseAdmits
    Admission
