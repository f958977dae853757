\* Two processes of an application that is not called "chrome".  All may have
\* requested, so the last states have no successor.
SPECIFICATION SingletonSpec
CONSTANTS
  Process = {p0, p1, p2}
  Crashed = p0
  NoProcess = none
  MaxRetries = 1
  ChromeNames = {FALSE}
INVARIANT OneCopy
CHECK_DEADLOCK FALSE
