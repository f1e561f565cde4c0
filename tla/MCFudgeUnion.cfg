CONSTANTS
    N = 6
    Frameworks <- TwoChoices
SPECIFICATION FairSpec
INVARIANTS OnlySkeptical
