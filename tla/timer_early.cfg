SPECIFICATION Spec
CONSTANTS
    Second = 2
    Delays = {0, 1, 3}
    MaxTimers = 2
    MaxTime = 4
    MaxPosted = 1
    Off = Off
CHECK_DEADLOCK FALSE
PROPERTIES
    NeverEarly
