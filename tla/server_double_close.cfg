SPECIFICATION Spec
CONSTANTS
    u1 = u1
    NoCall = NoCall
    NumThreads = 0
    NumConns = 1
    Delays <- DelayOn
    CallbackOps <- NoOps
    ThreadOps <- NoOps
    Users <- NoUsers
    MsgLen = 1
    SndBuf = 1
    MaxSends = 0
    MaxCalls = 0
    Resetters = {}
CHECK_DEADLOCK FALSE
INVARIANT RemovedOnce
