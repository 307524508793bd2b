SPECIFICATION Spec
CONSTANTS
    aco = aco
    mc = mc
    w1 = w1
    w2 = w2
    Algos <- MCAlgos
    Vectors <- MCVectors
    Faults <- Anything
    Placeholder = eq
    NoWeights = NoWeights
    Torn = Torn
    NoFile = NoFile
    Purged <- OnlyAco
    MaxRows <- TwoAndOne
    MaxChanges <- TwoAndOne
SYMMETRY Sym
INVARIANTS
    NeverTorn
    HistoryWithinCount
    RunningCurrent
PROPERTIES
    CountedChangeOnDisk
    RowIsOnDisk
