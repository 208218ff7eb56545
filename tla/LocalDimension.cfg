SPECIFICATION Spec
CONSTANTS
    Threads = {t1}
    NoThread = nobody
    Graphs <- MCFixedGraphs
    FallbackDim = 4
    MaxCalls = 1
INVARIANT
    DimensionMatches
CHECK_DEADLOCK FALSE
