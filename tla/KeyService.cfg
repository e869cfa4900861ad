\* Three requests of one or two addresses, two admissions in a window of two
\* ticks, two processes one after the other.
SPECIFICATION Spec
CONSTANTS
    r1 = r1
    r2 = r2
    r3 = r3
    a1 = a1
    a2 = a2
    Requests = {r1, r2, r3}
    Addresses = {a1, a2}
    Limit = 2
    Window = 2
    Statements = 2
    MaxTime = 3
    MaxStarts = 2
SYMMETRY Symmetry
INVARIANTS
    TypeOK
    RateLimited
    IssuedKeysWork
    RowsAreAccountedFor
\* After the last start the process may end.
CHECK_DEADLOCK FALSE
