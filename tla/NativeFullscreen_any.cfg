\* any requests, in the listeners too, and simple fullscreen
SPECIFICATION FairSpec
CONSTANTS
    MaxCalls = 6
    Repeats = TRUE
    InListeners = TRUE
    Simple = TRUE
PROPERTIES
    CloseHappens
    Settles
CHECK_DEADLOCK FALSE
