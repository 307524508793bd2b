SPECIFICATION FairSpec
CONSTANTS
    t1 = t1
    t2 = t2
    Threads <- MCThreads
    Free = Free
    low = low
    high = high
    Offsets <- MCOffsets
    Dwells <- MCDwells
    Faults <- AllFaults
    MaxTime = 4
INVARIANTS
    TimelineKept TimelineExplains
PROPERTY LockReleased
