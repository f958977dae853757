\* One channel, two calls, two handlers: the error an event sends when it is collected.
\* Calls and handlers are bounded, so the last states have no successor.
SPECIFICATION BridgeSpec
CONSTANTS
  Channels = {m1}
  MaxCalls = 2
  MaxRegistrations = 2
  QueueSize = 10
INVARIANT NeverSentIsTrue
CHECK_DEADLOCK FALSE
