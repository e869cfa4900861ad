\* Two callers, four appends, two crashes or failed or partial writes.
SPECIFICATION Spec
CONSTANTS
    p1 = p1
    p2 = p2
    e1 = e1
    e2 = e2
    u1 = u1
    ops1 = ops1
    ops2 = ops2
    Procs = {p1, p2}
    Bodies <- TwoPolicies
    NoProc = NoProc
    NoBody = NoBody
    NoPolicy = NoPolicy
    Torn = Torn
    MaxLine = 3
    MaxAppends = 4
    MaxFaults = 2
SYMMETRY Symmetry
INVARIANTS
    ValidMeansComplete
    UncutIsValid
PROPERTIES
    BrokenIsFrozen
\* No further Append is called at the bound.
CHECK_DEADLOCK FALSE
