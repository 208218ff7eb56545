SPECIFICATION Spec
CONSTANTS
    Documents <- MCDocuments
    MaxTokens = {0, 1, 3, 4, 7}
    Overlaps = {0, 2, 9}
INVARIANT
    NeverOverCap
CHECK_DEADLOCK FALSE
