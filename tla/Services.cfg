\* Ten services, one at a time: two or three overlapping handlers each.
SPECIFICATION Spec
CONSTANTS
    Service = {"sign-in", "tokens", "profiles", "presence", "uploads", "disk", "marks", "pages", "accounts", "assistant"}
    None = None
    Emails = {e1}
    MoreEmails = {e1, e2}
    Users = {a1}
    p1 = p1
    p2 = p2
    MoreUsers = {p1, p2}
    Initiator = a2
    AdminEmail = e1
    BotEmail = e1
    Uids = {g1}
    Tokens = {t1, i1, i2, i3}
    Old = {t1}
    Ids = {i1, i2, i3}
    n1 = n1
    n2 = n2
    w = w
    FileNames = {n1, n2}
    StoredNames = {n1, n2, w}
    PlainName <- Blanks
    WebpName <- Packed
    Asked = {0, 7}
    Slots = {r1, r2}
    MoreSlots = {r1, r2, r3}
    MaxAttempts = 2
    MaxLimit = 2
    FileLimit = 1
    MaxCodes = 2
    MaxUncounted = 1
    MaxVersion = 3
    MaxEvents = 4
    MaxMessages = 4
    LastTime = 1
    LastName = 1
    LastBot = 2
    LastChat = 2
SYMMETRY Interchangeable
CHECK_DEADLOCK FALSE
INVARIANTS TypeOK GuessesBounded LockIsTimed NoBorrowedCode PairsBounded LogoutBounded StaleIsExplained PresenceExplained StoresAgree AnswersHold UrlShowsItsFile EventsSumUp SkippedBounded SupersAreAppointed PromptsAnswered
