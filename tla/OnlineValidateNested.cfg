\* The body that the server of this repository sends.
SPECIFICATION Spec
CONSTANTS
    apply = apply
    delete = delete
    noKind = noKind
    v1 = v1
    v2 = v2
    Actions = {apply, delete, noKind}
    BadKind = {noKind}
    Scenarios <- TwoActions
    Versions = {v1, v2}
    Allowed <- TwoPolicies
    Shapes = {"nested"}
    MaxChanges = 2
    NoRef = NoRef
INVARIANTS
    AllowIsReported
