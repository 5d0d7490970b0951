SPECIFICATION RecordSpec
CONSTANTS
    p1 = p1
    p2 = p2
    p3 = p3
    r1 = r1
    r2 = r2
    r3 = r3
    Nobody = Nobody
    Participants = {p1, p2, p3}
    Known = {p1}
    Requests = {r1, r2, r3}
    Sessions = {"s1", "s2"}
    Locations = {"l1"}
    Offered <- TwoSlots
    Overlapping <- AllOverlap
    Endpoints = {"register", "enrol", "reEnrol"}
    AllowOverlap = {FALSE}
    MaxCapacity = 1
SYMMETRY Interchangeable
INVARIANTS
    NeverOverbooked
    NobodyWaitsForNothing
    PositionsContiguous
    NumbersGapless
    NoCircularWait
    SerialClaimsAgree
PROPERTIES
    ImplementsLedger
