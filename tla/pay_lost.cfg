SPECIFICATION Spec
CONSTANTS
    k1 = k1
    k2 = k2
    r1 = r1
    r2 = r2
    r3 = r3
    Nobody = Nobody
    NoKey = NoKey
    NoInvoice = NoInvoice
    NoFee = NoFee
    Requests = {r1, r2}
    Ops = {"verify"}
    Keys = {k1, k2}
    Amounts = {1}
    Plans <- PlansAskedFor
    Overrides <- ClearedOrOne
    BaseFee = 3
    LocationFee = 2
    StartPlans = {0}
    Recorded <- Halves
CHECK_DEADLOCK FALSE
INVARIANT
    PaidIsRefreshed
