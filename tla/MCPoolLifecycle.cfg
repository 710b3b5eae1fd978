SPECIFICATION FairSpec
CONSTANTS
    num_workers = 2
    NumJobs = 5
INVARIANTS
    TypeOK
    UsedOnlyWhileAlive
    NothingLeaked
    EveryJobCounted
PROPERTY MainReturns
CHECK_DEADLOCK FALSE
