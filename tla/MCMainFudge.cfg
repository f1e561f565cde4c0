CONSTANTS
    Names = {1, 2}
    MaxArgs = 2
    MaxLines = 3
    MaxTokens = 5
    Builds <- FudgeBuild
    Requests <- OneRequest
SPECIFICATION Spec
INVARIANTS OnlyListedAnswered
