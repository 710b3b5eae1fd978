SPECIFICATION FairSpec
CONSTANTS
    Clients = {1, 2, 3}
    Workers = {w1, w2}
    NULL = NULL
    PoolSize = 2
    InboxSize = 3
    Signals = {"START", "CANCEL", "PERIOD"}
    Rounds = 3
    Paced = TRUE
    Considerate = TRUE
INVARIANTS
    TypeOK
    LiveIdsDistinct
    NoMachineForgotten
PROPERTIES
    LiveJobsKeepTheirSlot
    FreesOnlyItsOwn
    ImplementsJobPool
    WorkIsDone
