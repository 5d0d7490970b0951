SPECIFICATION Spec
CONSTANTS
    a1 = a1
    a2 = a2
    a3 = a3
    a4 = a4
    Genesis = Genesis
    Writes = {a1, a2, a3, a4}
    MaxNow = 4
CHECK_DEADLOCK FALSE
SYMMETRY Writers
INVARIANTS
    IntactUnlessOverlap
    LinksPointBack
