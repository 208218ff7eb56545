SPECIFICATION Spec
CONSTANTS
    d1 = d1  d2 = d2  kA = kA  kB = kB
    Ids <- MCIds
    Values <- MCValues
    Bands = 2
    Rows = 2
    Sigs <- MCSigs
    Keys <- MCKeys
    Hash <- MCHash
    DebugAssertions = FALSE
    MaxBatch = 2
    MaxCopies = 2
INVARIANTS
    TypeOK
    Complete
    DamageConfined
    NoEmptyBucket
    AgreesWithScan
PROPERTY
    ImplementsStore
