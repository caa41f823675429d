\* Two overlapping handlers on two accounts, failures and deletions.
SPECIFICATION Spec
CONSTANTS
    u1 = u1
    u2 = u2
    p1 = p1
    p2 = p2
    t1 = t1
    t2 = t2
    t3 = t3
    r1 = r1
    r2 = r2
    None = None
    Users <- TwoUsers
    Passwords = {p1}
    MaxOtps = 2
    Tokens = {t1, t2, t3}
    Requests = {r1, r2}
    MaxCuts = 1
    Deletable <- TwoUsers
    MayFail = TRUE
SYMMETRY Interchangeable
CHECK_DEADLOCK FALSE
VIEW AllButPasswords
INVARIANTS TypeOK OneTokenPerOtp OneSuccessPerToken TokenUsesBounded ResetByOwnToken ValidBounded
