SPECIFICATION FingerprintSpec
CONSTANTS
    Tokens <- MCTokens
    Docs <- MCDocs
    H = 3
    W = 4
    Lo <- MCLo
    Hi <- MCHi
    MaxTokens = 3
    a = a
    b = b
    c = c
    MaxSimTokens = 4
    SimTokens <- MCSimTokens
    SimDocs <- MCSimDocs
    HashBits <- MCHash
    PairLists <- MCPairLists
    Bits = {1, 2, 3, 4}
    One = 10
    NotFinite = 9999
    MaxWeight = 6
    MaxSum = 10
    Segments <- MCSegments
    MaxSegments = 4
    Base = 2
    L = 2
    MaxKey = 6
    HashSeeds = {1, 2}
    Width = 2
    ByteBits = 2
    Texts <- MCTexts
    Strings <- MCStrings
    MIN_INPUT_BYTES = 50
    Setups <- MCSetups
    SlotCounts = {64, 128}
    Seeds = {42, 7}
    DefaultSeed = 42
    Tables = {"t1", "t2"}
    ModelIds = {"", "m1"}
    Lengths = {3}
    Chars <- MCChars
    NameChars <- MCNameChars
    DigitChars <- MCDigitChars
    MaxSettings = 2
    None = None
    Nothing = None
INVARIANTS
    SlotsAreMinima
    SetOnly
    ExactBelowSaturation
    UnanimousEvenSaturated
    TokensAgree
    AllIsTakenIn
    LoadsOrRefuses
    TlshSound
    ComparableIffAlike
CHECK_DEADLOCK FALSE
