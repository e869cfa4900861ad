\* Invocations of every shape, files of up to two actions, workloads in every
\* form; the policy may return anything.
SPECIFICATION Spec
CONSTANTS
    NoContent = NoContent
    Inputs <- AllInputs
    Outputs <- AnyOutput
CHECK_DEADLOCK FALSE
INVARIANTS
    FailClosed
    DenialExplained
    SameActionOnBothPaths
    KeyFollowsWorkload
