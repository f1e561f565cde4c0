CONSTANTS
    N = 3
    Frameworks <- AllFrameworks
SPECIFICATION FairSpec
INVARIANTS CostTestDecides
PROPERTIES Implements Greedy Termination
