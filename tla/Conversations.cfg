\* One conversation of two users, two messages, two overlapping handlers.
SPECIFICATION Spec
CONSTANTS
    u1 = u1
    u2 = u2
    r1 = r1
    r2 = r2
    c1 = c1
    None = None
    Users = {u1, u2}
    Convs = {c1}
    MaxMessages = 2
    Requests = {r1, r2}
    Deletable = {u1, u2}
    MayFail = TRUE
SYMMETRY Interchangeable
CHECK_DEADLOCK FALSE
INVARIANTS TypeOK GroupOwned LateBounded UnsentBounded LastIsRecent
