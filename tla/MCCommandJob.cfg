SPECIFICATION CommandFairSpec
CONSTANTS
    MaxWrites = 2
CHECK_DEADLOCK FALSE
INVARIANTS
    ClosedOnce
    TimeoutIsReported
PROPERTIES
    UnreadCommandEnds
