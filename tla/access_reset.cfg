SPECIFICATION Spec
CONSTANTS
    r1 = r1
    r2 = r2
    r3 = r3
    r4 = r4
    old = old
    Nothing = Nothing
    Requests = {r1, r2, r3, r4}
    Workloads <- Scenarios
    MaxNow = 2
    Users = {"u1"}
    StartAccounts <- Rows
    Locations = {"l1"}
    Earlier = {old}
    MaxFailed = 2
    LockTime = 1
    SessionTTL = 1
    LinkTTL = 1
    AccessTTL = 1
    MagicTTL = 1
    YearTTL = 2
    ApiKeys = {"k1"}
    Window = 2
    Limit = 1
SYMMETRY Callers
CHECK_DEADLOCK FALSE
INVARIANT
    NoSessionOutlivesReset
