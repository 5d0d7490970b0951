SPECIFICATION Spec
CONSTANTS
    a1 = a1
    a2 = a2
    a3 = a3
    a4 = a4
    Genesis = Genesis
    Writes = {a1, a2, a3}
    MaxNow = 3
CHECK_DEADLOCK FALSE
SYMMETRY Writers
INVARIANTS
    MismatchMeansTampering
