\* An append after a partial write is acknowledged.
SPECIFICATION Spec
CONSTANTS
    p1 = p1
    p2 = p2
    e1 = e1
    e2 = e2
    u1 = u1
    ops1 = ops1
    Procs = {p1, p2}
    Bodies <- OneSize
    NoProc = NoProc
    NoBody = NoBody
    NoManifest = NoManifest
    NoPolicy = NoPolicy
    Torn = Torn
    MaxLine = 4
    SegmentMaxBytes = 3
    MaxIndex = 2
    MaxAppends = 2
    MaxFaults = 1
INVARIANTS
    EveryAckOnDisk
