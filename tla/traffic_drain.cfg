SPECIFICATION FairSpec
CONSTANTS
    p1 = p1
    p2 = p2
    Paths <- MCPaths
    Ticks = 1
    Workers = 1
    Faults <- Seeing
    MaxRuns = 1
    MaxSent = 2
    MaxTime = 0
INVARIANT
    AcceptedIsSent
PROPERTY
    LeavesRecord
CHECK_DEADLOCK FALSE
