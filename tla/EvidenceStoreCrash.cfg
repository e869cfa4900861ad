\* Crashes and failed file operations, segment rotation, two callers.
SPECIFICATION Spec
CONSTANTS
    p1 = p1
    p2 = p2
    e1 = e1
    e2 = e2
    u1 = u1
    ops1 = ops1
    Procs = {p1, p2}
    Bodies <- TwoSizes
    NoProc = NoProc
    NoBody = NoBody
    NoManifest = NoManifest
    NoPolicy = NoPolicy
    Torn = Torn
    MaxLine = 3
    SegmentMaxBytes = 3
    MaxIndex = 2
    MaxAppends = 4
    MaxFaults = 2
SYMMETRY Symmetry
INVARIANTS
    TypeOK
    UndamagedStoreValid
    DamageIsPermanent
    AckedOnDisk
    AckedIsCommitted
    FullInv
PROPERTIES
    AppendOnly
    SealedIsFinal
    LedgerSpec
