CONSTANTS
  k = k
  m = m
  n = n
  Key = {k, m, n}
  Code <- MCCode
  Sym = sym
  Program = {a}
  None = none
  Capacity = 2
  Passes = 2
  MaxEvents = 2
  MaxTaps = 3
  MaxRepeats = 1
  MaxSwitches = 1
SPECIFICATION FairSpec
INVARIANTS
  GenerationTellsAll
PROPERTIES
  KeysSettle
CONSTRAINT KInTheLead
CHECK_DEADLOCK FALSE
