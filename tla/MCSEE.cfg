CONSTANTS
    N = 3
    Frameworks <- AllFrameworks
SPECIFICATION BuildSpec
INVARIANTS NothingLost ListsOnlyAcceptable KissatFindsNothing
PROPERTIES ImplementsUnlessMisled FindsNew Terminates
