CONSTANTS
    Names = {1, 2, 3}
    MaxArgs = 2
    MaxLines = 4
    MaxTokens = 7
SPECIFICATION ReaderSpec
INVARIANTS ReadsTheFramework InventedOnlyFromOneToken InBounds
