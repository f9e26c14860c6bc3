SPECIFICATION FairSpec
CONSTANTS
    u1 = u1
    NoCall = NoCall
    NumThreads = 1
    NumConns = 1
    Delays <- DelayAny
    CallbackOps <- SendForceClose
    ThreadOps <- AllOps
    Users <- OneUser
    MsgLen = 2
    SndBuf = 1
    MaxSends = 1
    MaxCalls = 1
    Resetters = {}
CHECK_DEADLOCK FALSE
PROPERTIES
    StreamInOrder
    LetGo
    ShutdownCompletes
