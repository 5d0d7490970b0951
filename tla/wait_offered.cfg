SPECIFICATION HistoryFairSpec
CONSTANTS
    p1 = p1
    p2 = p2
    p3 = p3
    w1 = w1
    w2 = w2
    r1 = r1
    r2 = r2
    Nobody = Nobody
    Participants = {p1, p2}
    Known = {p1, p2}
    Requests = {w1, w2, r1}
    Sessions = {"s1"}
    Locations = {"l1"}
    Offered <- OneSlot
    Overlapping <- OwnDates
    Endpoints = {"enrol"}
    AllowOverlap = {FALSE}
    MaxCapacity = 1
    Waiting <- TwoWait
    Calls = {"acceptOffer", "declineOffer", "staffWithdraw", "sendOffer"}
    TTL = 1
    MaxNow = 2
INVARIANTS
    NobodyIsPassedOver
    SerialRunsAgree
PROPERTY
    VacanciesAreOffered
