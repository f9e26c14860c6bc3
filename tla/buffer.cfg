CONSTANTS
    Bytes = {1, 2}
    kCheapPrepend = 1
    kInitialSize = 2
    kBufferSize = 2
    MaxChunk = 4
    MaxReadable = 5
SPECIFICATION Spec
INVARIANTS BoundsOK NoFailure
PROPERTY ImplementsByteQueue
