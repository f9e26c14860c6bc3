SPECIFICATION FairSpec
CONSTANTS
    w1 = w1
    w2 = w2
    c1 = c1
    c2 = c2
    k1 = k1
    k2 = k2
    k3 = k3
    k4 = k4
    NoTask = NoTask
    Workers <- TwoWorkers
    Callers <- TwoCallers
    Tasks <- FourTasks
    Adders <- AdderK1
    MaxWaits = 0
    Garbage <- NoneOrOne
CHECK_DEADLOCK FALSE
INVARIANTS
    TypeOK
    SignalsArrive
PROPERTIES
    ImplementsTaskQueue
    StopReturns
    QueuedRuns
