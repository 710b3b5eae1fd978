SPECIFICATION Spec
CONSTANTS
    Threads = {t1, t2}
    Msgs = {m1}
    MaxMsgs = 1
    NoMsg = NoMsg
INVARIANT NoUseAfterFree
CHECK_DEADLOCK FALSE
