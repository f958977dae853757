\* a request that repeats the current transition overtakes the queue
SPECIFICATION Spec
CONSTANTS
    MaxCalls = 6
    Repeats = TRUE
    InListeners = FALSE
    Simple = FALSE
INVARIANTS
    LastRequestWins
CHECK_DEADLOCK FALSE
