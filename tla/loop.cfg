SPECIFICATION FairSpec
CONSTANTS
    h1 = h1
    h2 = h2
    Hosts <- MCHosts
    Unusable = Unusable
    MaxAttempts = 3
    Faults <- AllFaults
    MaxLines = 3
INVARIANTS
    ExactlyOnce
    FoldedOnce
PROPERTIES
    FeedSpec
    WindowEnds
    OutageRecovers
