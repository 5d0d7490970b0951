SPECIFICATION LifecycleSpec
CONSTANTS
    p1 = p1
    p2 = p2
    p3 = p3
    w1 = w1
    w2 = w2
    r1 = r1
    r2 = r2
    Nobody = Nobody
    Participants = {p1}
    Known = {p1}
    Requests = {w1, r1, r2}
    Sessions = {"s1"}
    Locations = {"l1"}
    Offered <- OneSlot
    Overlapping <- OwnDates
    Endpoints = {}
    AllowOverlap = {FALSE}
    MaxCapacity = 2
    Waiting <- OneWaits
    Calls = {"acceptOffer"}
    TTL = 1
    MaxNow = 1
INVARIANT
    OneSeatPerRow
