SPECIFICATION FairSpec
CONSTANTS
    aco = aco
    mc = mc
    w1 = w1
    w2 = w2
    Algos <- MCAlgos
    Vectors <- MCVectors
    Faults <- Nothing
    Placeholder = w1
    NoWeights = NoWeights
    Torn = Torn
    NoFile = NoFile
    Purged <- Nothing
    MaxRows <- Three
    MaxChanges <- Three
PROPERTY
    ConfReachesNginx
