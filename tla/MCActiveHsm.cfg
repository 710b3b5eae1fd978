SPECIFICATION FairSpec
CONSTANTS
    Hsms = {h1, h2}
    Timers = {t1, t2}
    NULL = NULL
    msgq_size = 2
    ResetPeriod = FALSE
    MaxPosts = 2
INVARIANTS
    TypeOK
    NoTickWhenDisabled
    WaitsForALiveMachine
PROPERTIES
    FullQueueDrains
    QueueOpens
CHECK_DEADLOCK FALSE
