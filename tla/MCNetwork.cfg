CONSTANTS
  Attempts = 3
  MaxCalls = 2
SPECIFICATION FairSpec
INVARIANTS
  OnlyWantedAttempts
PROPERTIES
  QuietAfterShutdown
  StatusFollows
CHECK_DEADLOCK FALSE
