SPECIFICATION Spec
CONSTANTS
    p1 = p1
    p2 = p2
    Paths <- OnePath
    Ticks = 1
    Workers = 1
    Faults <- OnlyPurge
    MaxRuns = 2
    MaxSent = 1
    MaxTime = 1
INVARIANT
    IndexIsNextLine
CHECK_DEADLOCK FALSE
