\* Online with fallback to local evaluation: a denied, an allowed and a
\* malformed request with one intent key, and a human.
SPECIFICATION FairSpec
CONSTANTS
    h1 = h1
    h2 = h2
    k1 = k1
    Handlers = {h1, h2}
    Requests <- MixedRequests
    NoRequest = NoRequest
    NoEntry = NoEntry
    Online = TRUE
    Fallback = "offline"
    TTL = 2
INVARIANTS
    TypeOK
    GateFollowsDecisions
    EvidenceMatchesAnswer
PROPERTIES
    BlockExpires
