\* Unanswered calls of one conversation: three calls, two handlers.
SPECIFICATION Spec
CONSTANTS
    u1 = u1
    u2 = u2
    v1 = v1
    c1 = c1
    c2 = c2
    c3 = c3
    k1 = k1
    k2 = k2
    r1 = r1
    r2 = r2
    r3 = r3
    None = None
    Users <- OneUser
    Conversations = {v1}
    Member <- One
    CallIds = {c1, c2, c3}
    Candidates = {}
    Requests = {r1, r2}
    Individual = {v1}
    Deletable = {}
    Leavers <- OneUser
    Watched = {}
    MayFail = TRUE
SYMMETRY Interchangeable
CHECK_DEADLOCK FALSE
VIEW RowsAndHandlers
INVARIANT PendingBounded
