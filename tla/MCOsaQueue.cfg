SPECIFICATION FairSpec
CONSTANTS
    Threads = {t1, t2, t3}
    Msgs = {m1}
    NoMsg = NoMsg
    MaxMsgs = 2
INVARIANTS
    TypeOK
    RingConsistent
    NoLostWakeup
    NobodySleepsOnClosed
PROPERTIES
    ImplementsBoundedQueue
    MessageIsTaken
    SlotIsFilled
    ClosedCallsReturn
CHECK_DEADLOCK FALSE
