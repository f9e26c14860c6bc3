CONSTANTS
    NumThreads = 1
    MaxConns = 0
    MaxCalls = 0
SPECIFICATION ThreadsSpec
PROPERTY DestructorReturns
CHECK_DEADLOCK FALSE
