\* Two policy versions, up to three actions, both shapes of the API's body.
SPECIFICATION Spec
CONSTANTS
    apply = apply
    delete = delete
    noKind = noKind
    v1 = v1
    v2 = v2
    Actions = {apply, delete, noKind}
    BadKind = {noKind}
    Scenarios <- ThreeActions
    Versions = {v1, v2}
    Allowed <- TwoPolicies
    Shapes = {"nested", "flat"}
    MaxChanges = 2
    NoRef = NoRef
INVARIANTS
    TypeOK
    DecisionIsWhole
    RefNamesPolicy
    DenialOverruledByOtherPolicy
PROPERTIES
    CommandEnds
