SPECIFICATION Spec
CONSTANTS
    Hsms = {h1}
    Timers = {t1, t2}
    NULL = NULL
    msgq_size = 1
    ResetPeriod = TRUE
    MaxPosts = 0
INVARIANT NoTickWhenDisabled
CHECK_DEADLOCK FALSE
