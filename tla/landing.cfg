SPECIFICATION Spec
CONSTANTS
    Total = 2
    MaxPolls = 5
    Callback = TRUE
    MaxMoves = 0
    MaxFaults = 0
INVARIANT
    FailureTrue
CHECK_DEADLOCK FALSE
