SPECIFICATION LifecycleFairSpec
CONSTANTS
    k1 = k1
    k2 = k2
    r1 = r1
    r2 = r2
    s1 = s1
    s2 = s2
    d1 = d1
    d2 = d2
    Nobody = Nobody
    NoKey = NoKey
    NoInvoice = NoInvoice
    NoFee = NoFee
    NoDocument = NoDocument
    NoThreshold = NoThreshold
    Requests = {r1}
    Ops = {"verify"}
    Keys = {k1}
    Amounts = {1}
    Plans <- NoPlans
    Overrides = {}
    BaseFee = 1
    LocationFee = NoFee
    StartPlans = {0}
    Recorded <- OnePayment
    Staff = {s1, s2}
    StaffOps = {"verifyDocument"}
    Documents = {d1}
    DocType <- RequiredDocuments
    Uploaded = {d1}
    StartStatus = {"DOCUMENTS_PENDING"}
    Targets = {"DOCUMENTS_PENDING", "FEE_PENDING", "ACTIVE"}
    CanOverride = {FALSE}
    Threshold = NoThreshold
CHECK_DEADLOCK FALSE
PROPERTY
    PromotionFollowsPayment
