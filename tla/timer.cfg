SPECIFICATION FairSpec
CONSTANTS
    Second = 2
    Delays = {0, 2}
    MaxTimers = 3
    MaxTime = 2
    MaxPosted = 1
    Off = Off
CHECK_DEADLOCK FALSE
INVARIANTS
    TypeOK
    ClockFollowsTimers
    CancelIsFinal
PROPERTIES
    RunsInOrder
    EveryTimerRuns
