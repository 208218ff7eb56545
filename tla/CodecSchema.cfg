SPECIFICATION PartsSpec
CONSTANTS
    H = 6
    W = 8
    Asked = {0, 1, 2, 3, 4, 6, 7}
    Errors = {1, 2}
    Infinity = 9
    None = None
    MaxWords = 4
    Alphabet = {"x", "y", "_"}
    Documents <- MCDocuments
    Sizes = {0, 1, 2, 3, 4, 5}
    Space = "_"
    Slots = 2
    FieldLists <- MCFieldLists
    Widths = {1, 2, 3}
    WordSet = {7, 8, 9}
    Schemas = {1, 2}
    SCHEMA_VERSION = 1
    MaxText = 3
    Inputs <- MCInputs
    Buffers <- MCBuffers
    MaxPage = 4
    MaxEvents = 5
    Pages <- MCPages
    Events <- MCEvents
INVARIANTS
    EveryRouteGuardsSchema
CHECK_DEADLOCK FALSE
