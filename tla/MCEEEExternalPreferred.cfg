CONSTANTS
    N = 2
    Frameworks <- AllFrameworks
SPECIFICATION ExtPreferredSpec
INVARIANTS AnswersRight
