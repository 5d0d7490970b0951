SPECIFICATION Spec
CONSTANTS
    k1 = k1
    k2 = k2
    r1 = r1
    r2 = r2
    r3 = r3
    Nobody = Nobody
    NoKey = NoKey
    NoInvoice = NoInvoice
    NoFee = NoFee
    Requests = {r1, r2, r3}
    Ops = {"record", "verify", "reject", "override", "plan"}
    Keys = {k1, k2}
    Amounts = {1}
    Plans <- PlansAskedFor
    Overrides <- ClearedOrOne
    BaseFee = 3
    LocationFee = 2
    StartPlans = {0, 1}
    Recorded <- FirstHalf
CHECK_DEADLOCK FALSE
SYMMETRY Callers
INVARIANTS
    CoveredInvoicesArePaid
    OnlyVerifiedMoneyCounts
    OneInstalmentPlan
    NoCircularWait
    SerialCallsAgree
PROPERTIES
    PayloadIsKept
