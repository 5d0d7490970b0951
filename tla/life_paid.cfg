SPECIFICATION LifecycleSpec
CONSTANTS
    k1 = k1
    k2 = k2
    r1 = r1
    r2 = r2
    s1 = s1
    s2 = s2
    d1 = d1
    d2 = d2
    Nobody = Nobody
    NoKey = NoKey
    NoInvoice = NoInvoice
    NoFee = NoFee
    NoDocument = NoDocument
    NoThreshold = NoThreshold
    Requests = {r1, r2}
    Ops = {"verify"}
    Keys = {k1, k2}
    Amounts = {1}
    Plans <- NoPlans
    Overrides = {}
    BaseFee = 2
    LocationFee = NoFee
    StartPlans = {1}
    Recorded <- TwoPayments
    Staff = {s1, s2}
    StaffOps = {"verifyDocument", "updateStatus"}
    Documents = {d1, d2}
    DocType <- RequiredDocuments
    Uploaded = {d1}
    StartStatus = {"INQUIRY", "DOCUMENTS_PENDING"}
    Targets = {"DOCUMENTS_PENDING", "FEE_PENDING", "ACTIVE"}
    CanOverride = {FALSE}
    Threshold = 0
CHECK_DEADLOCK FALSE
SYMMETRY Interchangeable
INVARIANTS
    PaidBeforeActive
PROPERTIES
    StepsFollowTheTables
