SPECIFICATION FairSpec
CONSTANTS
    l1 = l1
    l2 = l2
    l3 = l3
    l4 = l4
    l5 = l5
    NoBuffer = NoBuffer
    Lines <- FiveLines
    LongLines <- L5
    Capacity = 1
CHECK_DEADLOCK FALSE
INVARIANTS
    TypeOK
    NoFailure
    LinesConserved
PROPERTIES
    LinesReachStream
    StopReturns
