CONSTANTS
  Source = {s1, s2}
  Event = {INPUT, SHUTDOWN}
  SHUTDOWN = SHUTDOWN
  DEADLINE = DEADLINE
SPECIFICATION FairSpec
INVARIANTS
  NoLostWakeup
PROPERTIES
  KeepsThePromise
