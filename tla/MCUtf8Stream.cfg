SPECIFICATION StreamerSpec
CONSTANTS
    Bytes <- MCBytes
    Caps <- MCCaps
    MaxChunk = 3
    DEFAULT_MAX_BUFFER_BYTES = 5
    None = None
INVARIANTS
    WellSplit
    StreamedIsOffline
PROPERTY
    ImplementsTextStream
