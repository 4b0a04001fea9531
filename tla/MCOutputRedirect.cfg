CONSTANTS
    PipeSize = 3
    ReadSize = 2
    MaxWritten = 5
SPECIFICATION LiveSpec
CHECK_DEADLOCK FALSE
INVARIANT TypeOK
INVARIANT NothingLost
INVARIANT ClosedOnce
INVARIANT ForwardSafe
PROPERTY StopReturns
PROPERTY LinesDelivered
