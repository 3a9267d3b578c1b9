CONSTANTS
  Attempts = 3
  MaxCalls = 1
SPECIFICATION Spec
INVARIANT
  DisconnectSticks
CHECK_DEADLOCK FALSE
