CONSTANTS
    N = 2
    Frameworks <- AllFrameworks
SPECIFICATION SilentSpec
INVARIANTS AnswersRight
