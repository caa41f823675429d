\* Two resets with one token, and no failures.
SPECIFICATION Spec
CONSTANTS
    u1 = u1
    u2 = u2
    p1 = p1
    p2 = p2
    t1 = t1
    t2 = t2
    t3 = t3
    r1 = r1
    r2 = r2
    None = None
    Users <- OneUser
    Passwords = {p1}
    MaxOtps = 1
    Tokens = {t1}
    Requests = {r1, r2}
    MaxCuts = 0
    Deletable = {}
    MayFail = FALSE

CHECK_DEADLOCK FALSE
INVARIANT RefusedResetDidNotWrite
