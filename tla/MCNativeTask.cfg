CONSTANTS
  Depth = 2
  MaxCalls = 2
  Concurrent = FALSE
SPECIFICATION FairSpec
INVARIANTS
  NothingLeftBehind
  ReplyForHolder
PROPERTIES
  StoppedIsStill
  ComputeAnswers
  CleanupCompletes
CHECK_DEADLOCK FALSE
