SPECIFICATION Spec
CONSTANTS
    Workers = {w1, w2}
    Jobs = {j1, j2}
    Waiters = {t1}
    NULL = NULL
    QueueSize = 2
    SemMax = 7
    UintMax = 15
    MaxSubmits = 3
    CancelStaleHead = TRUE
PROPERTY DocumentedTransitions
CHECK_DEADLOCK FALSE
