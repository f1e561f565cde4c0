CONSTANTS
    N = 3
    Frameworks <- AllFrameworks
SPECIFICATION FairSpec
INVARIANTS CountsCandidates NoneDropped MissesNothing AcceptsRightly
PROPERTIES Implements Progress Termination
