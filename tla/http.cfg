CONSTANTS
    Symbols <- MCSymbols
    Requests <- MCRequests
    MaxRequests = 2
    MaxReads = 3
SPECIFICATION Spec
INVARIANTS AlignedUnderstood HeadUnderstood ResponsesDelimited
CHECK_DEADLOCK FALSE
