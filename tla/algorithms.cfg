SPECIFICATION MCSpec
CONSTANTS
    h1 = h1
    h2 = h2
    h3 = h3
    Hosts <- MCHosts
    MIN_WEIGHT = 1
    MAX_WEIGHT = 100
    Latencies <- MCLatencies
    RateNum = 1
    RateDen = 10
    Deposit = 10
    Unit = 600
    MaxWindows = 3
    Precision = 1000000
    Multiple = 600
    Tolerance = 10
    STATIONARY_ITERATIONS = 200
INVARIANTS
    FasterNeverLighter
    Balanced
    ScaledStationary
    SettledIsStationary
    FollowsLatency
    SumsToOne
SYMMETRY Sym
CHECK_DEADLOCK FALSE
