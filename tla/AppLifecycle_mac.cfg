\* macOS, two windows: vetoes, nested calls and the promises of close, quit and exit.
\* The process ends, so the last states have no successor.
SPECIFICATION Spec
CONSTANTS
  MaxWindows = 2
  MaxCalls = 7
  Platform = "mac"
  Fullscreen = FALSE
  LateWindows = FALSE
INVARIANT NoAbort
INVARIANT DestroyEmitsClosed
INVARIANT StopsAreDecided
PROPERTY CloseAsksFirst
PROPERTY WillQuitProperly
PROPERTY LifeImplements
CHECK_DEADLOCK FALSE
