\* Windows, with windows opened while the application quits, under fairness.
SPECIFICATION FairSpec
CONSTANTS
  MaxWindows = 2
  MaxCalls = 7
  Platform = "win"
  Fullscreen = FALSE
  LateWindows = TRUE
INVARIANT ExitCompletes
INVARIANT NoFreedWindowInUse
PROPERTY ShutdownEnds
CHECK_DEADLOCK FALSE
