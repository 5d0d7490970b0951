SPECIFICATION HistorySpec
CONSTANTS
    p1 = p1
    p2 = p2
    p3 = p3
    w1 = w1
    w2 = w2
    r1 = r1
    r2 = r2
    Nobody = Nobody
    Participants = {p1, p2, p3}
    Known = {p1, p2, p3}
    Requests = {w1, w2, r1, r2}
    Sessions = {"s1"}
    Locations = {"l1"}
    Offered <- OneSlot
    Overlapping <- OwnDates
    Endpoints = {"enrol"}
    AllowOverlap = {FALSE}
    MaxCapacity = 1
    Waiting <- TwoWait
    Calls = {"acceptOffer", "staffWithdraw"}
    TTL = 1
    MaxNow = 0
SYMMETRY Callers
PROPERTIES
    ImplementsWaitlistLedger
