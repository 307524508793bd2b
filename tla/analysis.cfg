SPECIFICATION Spec
CONSTANTS
    aco = aco
    mc = mc
    rr = rr
    None = None
    Algos <- MCAlgos
    Adaptive <- MCAdaptive
    Control = rr
    Vectors <- MCVectors
    Columns = 1
    Hosts <- MCHosts
    Addresses = {"ip1", "ip2"}
    Requests <- MCRequests
    RunLogs <- MCRunLogs
    DeltaPairs <- MCDeltaPairs
    Values = {1, 2, 3}
    MaxSample = 6
    MaxN = 400
    MaxTime = 6
    MaxRows = 3
    MaxLines = 4
    MaxOfOne = 2
    Stamps = {1, 3, 5}
    Topics = {"samples", "percentile", "changes", "report"}
INVARIANTS
    RankCloseToNearest
    UCountsPairs
    VarianceZeroOnlyIfConstant
    UndercountsByOne
    TimedByNamedHost
    OverlaySpansCurves
    HeadToHeadIsBest
    PairsMatchUnlessGap
CHECK_DEADLOCK FALSE
