SPECIFICATION SketchSpec
CONSTANTS
    Tokens <- MCTokens
    Docs <- MCDocs
    H = 3
    W = 4
    Lo <- MCLo
    Hi <- MCHi
    MaxTokens = 0
    a = a
    b = b
    c = c
    MaxSimTokens = 2
    SimTokens <- MCSimTokens
    SimDocs <- MCSimDocs
    HashBits <- MCHash
    PairLists <- MCPairLists
    Bits = {1, 2, 3, 4}
    One = 10
    NotFinite = 9999
    MaxWeight = 6
    MaxSum = 10
INVARIANTS
    DocumentedWeights
CHECK_DEADLOCK FALSE
