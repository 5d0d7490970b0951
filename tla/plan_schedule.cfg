SPECIFICATION Spec
CONSTANTS
    NoFee = NoFee
    MonthLength = 3
    HoursPerDay = 2
    MaxFee = 11
    MaxCount = 4
    MaxDay = 7
CHECK_DEADLOCK FALSE
INVARIANTS
    AmountsAddUp
    RoundingIsSmall
    DueInOrder
