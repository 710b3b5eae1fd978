SPECIFICATION Spec
CONSTANTS
    top = top
    mid = mid
    leaf = leaf
    other = other
    NULL = NULL
    States <- MCStates
    parent <- MCParent
    initial = leaf
    Signals = {sig}
    Escalates = FALSE
    MaxCalls = 5
INVARIANTS
    TypeOK
    DelegationClimbs
