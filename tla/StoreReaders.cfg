\* One writer, and a reader that verifies, reports, exports, moves the cursor and
\* looks up events.
SPECIFICATION ReadersSpec
CONSTANTS
    p1 = p1
    e1 = e1
    e2 = e2
    u1 = u1
    ops1 = ops1
    ops2 = ops2
    Procs = {p1}
    Bodies <- SizesAndPolicies
    NoProc = NoProc
    NoBody = NoBody
    NoManifest = NoManifest
    NoPolicy = NoPolicy
    Torn = Torn
    MaxLine = 3
    SegmentMaxBytes = 3
    MaxIndex = 2
    MaxAppends = 3
    MaxFaults = 1
    Jobs = {"verify", "violations", "violations_since", "export", "ack",
            "get_event"}
INVARIANTS
    PackHoldsVerified
    NeverShort
    CursorOnChain
    GetEventFindsAcked
