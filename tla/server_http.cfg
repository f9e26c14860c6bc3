SPECIFICATION Spec
CONSTANTS
    u1 = u1
    NoCall = NoCall
    NumThreads = 2
    NumConns = 2
    Delays <- DelayOff
    CallbackOps <- SendShutdown
    ThreadOps <- NoOps
    Users <- NoUsers
    MsgLen = 2
    SndBuf = 1
    MaxSends = 1
    MaxCalls = 0
    Resetters = {1}
CHECK_DEADLOCK FALSE
INVARIANTS
    TypeOK
    NoFailure
    RegisteredAlive
PROPERTIES
    ImplementsConnectionLife
    ImplementsPool
