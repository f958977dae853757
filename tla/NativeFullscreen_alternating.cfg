\* requests that alternate, outside the listeners
SPECIFICATION Spec
CONSTANTS
    MaxCalls = 6
    Repeats = FALSE
    InListeners = FALSE
    Simple = FALSE
INVARIANTS
    LastRequestWins
PROPERTIES
    OneTransition
CHECK_DEADLOCK FALSE
