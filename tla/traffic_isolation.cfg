SPECIFICATION Spec
CONSTANTS
    p1 = p1
    p2 = p2
    Paths <- OnePath
    Ticks = 1
    Workers = 1
    Faults <- AnyFault
    MaxRuns = 2
    MaxSent = 2
    MaxTime = 3
INVARIANTS
    NoForeignLine
    AnsweredCounted
    IndexSelectsRun
CHECK_DEADLOCK FALSE
