CONSTANTS
    NumThreads = 3
    MaxConns = 3
    MaxCalls = 2
SPECIFICATION ThreadsSpec
INVARIANTS ThreadsTypeOK CountsAgree PointersLive
PROPERTIES LeastLoaded StartsAndEnds
CHECK_DEADLOCK FALSE
