SPECIFICATION Spec
CONSTANTS
    N = 2
    x1 = x1
    x2 = x2
    x3 = x3
    Addresses <- MCAddresses
    aco_wrr = aco_wrr
    mc_wrr = mc_wrr
    Threads <- MCThreads
    None = None
    Torn = Torn
    MaxMoves = 3
    MaxLines = 1
SYMMETRY Symmetry
INVARIANTS
    OwnTmpFile SnapshotWhole AttributedRight
