CONSTANTS
    N = 3
    Frameworks <- AllFrameworks
SPECIFICATION BuildSpec
INVARIANTS GrownIsPreferred NoPreferredSkipped NoExtensionMissed ListsOnlyAcceptable
PROPERTIES ImplementsUnlessMisled NeverTwice LibraryTerminates
