SPECIFICATION Spec
CONSTANTS
    Workers = {w1, w2}
    Jobs = {j1, j2, j3}
    Waiters = {t1}
    NULL = NULL
    QueueSize = 3
    SemMax = 4
    UintMax = 15
    MaxSubmits = 4
    CancelStaleHead = FALSE
SYMMETRY Symmetric
INVARIANTS
    TypeOK
    ListIsFifo
    JobsHaveOnePlace
    StatsAddUp
    NoTokenLost
    WaitBarrier
    PollMeansDone
    StopWakesEveryone
PROPERTIES
    DocumentedTransitions
CHECK_DEADLOCK FALSE
