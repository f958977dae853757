\* macOS with fullscreen transitions and late windows: the inductive invariant.
SPECIFICATION Spec
CONSTANTS
  MaxWindows = 2
  MaxCalls = 6
  Platform = "mac"
  Fullscreen = TRUE
  LateWindows = TRUE
INVARIANT IInv
INVARIANT ClosedEmittedOnce
CHECK_DEADLOCK FALSE
