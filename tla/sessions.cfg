SPECIFICATION FairSpec
CONSTANTS
    r1 = r1
    r2 = r2
    r3 = r3
    t1 = t1
    t2 = t2
    Never = Never
    Nothing = Nothing
    Requests = {r1, r2}
    Ticks = {t1, t2}
    Sessions = {"s1"}
    Slugs = {"north", "south"}
    NewSessions <- SessionsAskedFor
    Workloads <- Scenarios
    MaxNow = 1
    MaxFailures = 1
PROPERTIES
    StatusMovesForward
    PlacesAreListed
    DueSessionsMove
