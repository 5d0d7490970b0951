SPECIFICATION FairSpec
CONSTANTS
    w1 = w1
    w2 = w2
    h1 = h1
    h2 = h2
    c1 = c1
    c2 = c2
    s1 = s1
    n1 = n1
    n2 = n2
    a1 = a1
    a2 = a2
    NoInvoice = NoInvoice
    Runs = {w1, w2}
    Hooks = {h1, h2}
    Reminders = {c1, c2}
    Staff = {s1}
    Callers = {n1, n2}
    Administrators = {a1, a2}
    Processes <- Everybody
    Workloads <- Scenarios
    Keys <- Messages
    Unreachable <- NoAddress
    Errands <- SomeErrands
    MaxRetries = 2
    MaxCuts = 1
    Events <- Reported
    MaxEvents <- FewEvents
    Batch = 2
    Integrated = {"MOYASAR"}
    DefaultGateway = "OFFLINE"
    Refs = {"g1", "g2"}
    InvoiceOf <- OneInvoice
    Invoices = {"i1"}
    InvoiceAmount = 2
    DueDate <- DueNextDay
    Configured = {1}
    MaxDay = 1
CHECK_DEADLOCK FALSE
INVARIANTS
    SentIsSent
    SentOnce
    ResultsCountOnce
PROPERTIES
    MessagesSettle
    EventsAreProcessed
