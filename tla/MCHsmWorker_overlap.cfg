SPECIFICATION Spec
CONSTANTS
    Clients = {1, 2}
    Workers = {w1, w2}
    NULL = NULL
    PoolSize = 2
    InboxSize = 2
    Signals = {"START", "CANCEL", "PERIOD"}
    Rounds = 2
    Paced = FALSE
    Considerate = FALSE
PROPERTY FreesOnlyItsOwn
