SPECIFICATION FairSpec
CONSTANTS
    N = 2
    aco_wrr = aco_wrr
    mc_wrr = mc_wrr
    Algos <- MCAlgos
    v1 = v1
    v2 = v2
    Vectors <- MCVectors
    Placeholder = Placeholder
    NoWeights = NoWeights
    Retries = 2
    Faults <- AllFaults
INVARIANTS
    NotHalfStarted ExitsForCause PrimedOnDisk
PROPERTY EndsWithNginx
