SPECIFICATION SemanticSpec
CONSTANTS
    Documents <- MCDocuments
    MaxTokens = {0, 1, 3, 4, 7}
    Overlaps = {0, 2, 9}
    Hidden <- MCHidden
    Masks <- MCMasks
    Stored <- MCStored
    ModelId = "m1"
    MaxFloat = 10
    Inf = Inf
    NegInf = NegInf
    NaN = NaN
    None = None
    Nothing = None
    SeqLens = {0, 2}
    ThreadCounts = {0}
    Lengths = {0, 1, 3}
    DEFAULT_MAX_SEQ_LEN = 3
    MaxSetters = 4
    Ids = {"bge", "e5", "other"}
    Poolings = {"Cls", "Max"}
INVARIANTS
    ChunksCover
    ChunksKeepCap
    PaddingDoesNotShow
    EmbeddingsSound
    SimilaritySound
    ServedAsAsked
CHECK_DEADLOCK FALSE
