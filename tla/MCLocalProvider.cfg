SPECIFICATION Spec
CONSTANTS
    Threads = {t1, t2}
    NoThread = nobody
    Graphs <- MCGraphs
    FallbackDim = 4
    MaxCalls = 2
INVARIANTS
    Serialized
    DimensionOfChosen
PROPERTIES
    PoisonIsFinal
    ImplementsService
    EveryCallReturns
CHECK_DEADLOCK FALSE
