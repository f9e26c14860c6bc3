SPECIFICATION FairSpec
CONSTANTS
    t1 = t1
    t2 = t2
    f1 = f1
    f2 = f2
    f3 = f3
    io1 = io1
    NoFunc = NoFunc
    WakeupChannel = WakeupChannel
    Threads <- TwoThreads
    Funcs <- ThreeFuncs
    OutsideFuncs <- OutsideF1
    IoChannels <- OneIo
INVARIANTS
    TypeOK
    NoLostWakeup
    NoWakeupAbort
PROPERTIES
    ImplementsFunctorQueue
    QueuedRunsPromptly
    TimeoutSuffices
