\* Two handlers find the line free at the same time.
SPECIFICATION Spec
CONSTANTS
    u1 = u1
    u2 = u2
    v1 = v1
    c1 = c1
    c2 = c2
    c3 = c3
    k1 = k1
    k2 = k2
    r1 = r1
    r2 = r2
    r3 = r3
    None = None
    Users <- TwoUsers
    Conversations = {v1}
    Member <- Two
    CallIds = {c1, c2}
    Candidates = {}
    Requests = {r1, r2}
    Individual = {}
    Deletable = {}
    Leavers = {}
    Watched = {}
    MayFail = FALSE
CHECK_DEADLOCK FALSE
INVARIANT OneLiveCall
