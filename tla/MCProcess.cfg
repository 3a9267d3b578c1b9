CONSTANTS
  Capacity = 3
  MaxId = 2
  Programs = {"a"}
  Statuses = {7}
  Overlap = FALSE
SPECIFICATION FairSpec
INVARIANTS
  ForegroundChain
  ConsoleFollowsForeground
  ExecAccounted
PROPERTIES
  StatusesAreTrue
  ChildrenFirst
  ProgramsAreServed
