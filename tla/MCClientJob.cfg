SPECIFICATION Spec
CONSTANTS
    MaxAttempts = 2
    Indexes <- OutputFiles
INVARIANTS
    AssertionsHold
    Watched
    ResultIsRight
PROPERTIES
    FiskcEnds
CHECK_DEADLOCK FALSE
