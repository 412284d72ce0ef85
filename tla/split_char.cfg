SPECIFICATION Spec
CONSTANTS
    MaxLines = 3
    MaxChars = 4
    PrefixBudget = 2
    LeastChars = 1
    BurstCap = 2
    MarkerLength = 2
    NumberChunks = TRUE
    Silence = 1
    MaxBytes = 5
INVARIANT SplitIsUtf8Safe
