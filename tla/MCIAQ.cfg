CONSTANTS
    N = 3
    Frameworks <- AllFrameworks
SPECIFICATION FairSpec
INVARIANTS FlipDecides NoCounterexampleLost
PROPERTIES Implements NeverTwice Termination
