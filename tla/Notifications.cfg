\* A payment and another notification for one user, failures and restarts.
SPECIFICATION FairSpec
CONSTANTS
    e1 = e1
    e2 = e2
    u1 = u1
    Events = {e1, e2}
    Payments = {e1}
    Users = {u1}
    Recipient <- ToOneUser
    Sockets = {s1}
    MaxAttempts = 2
    MaxStalls = 1
    Deletable = {u1}
    MayFail = TRUE
CHECK_DEADLOCK FALSE
INVARIANTS TypeOK CopiesBounded AttemptsBounded ReportIsTrue LostIsNotStored
PROPERTIES KeepsPromise
