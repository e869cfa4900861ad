\* One edit of the segment files, with appends, and a crash or a
\* failed file operation, before and after it.
SPECIFICATION TamperSpec
CONSTANTS
    p1 = p1
    e1 = e1
    e2 = e2
    u1 = u1
    u2 = u2
    ops1 = ops1
    Procs = {p1}
    Bodies <- ThreeBodies
    NoProc = NoProc
    NoBody = NoBody
    NoManifest = NoManifest
    NoPolicy = NoPolicy
    Torn = Torn
    MaxLine = 4
    SegmentMaxBytes = 3
    MaxIndex = 2
    MaxAppends = 4
    MaxFaults = 1
INVARIANTS
    TamperDetected
    TamperInv
