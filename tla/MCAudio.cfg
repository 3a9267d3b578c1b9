CONSTANTS
  Owner = {a, b}
  Rate = {slow, fast}
  Closed = closed
  MaxMonitors = 2
SPECIFICATION FairSpec
INVARIANTS
  HardwareFollowsStreams
  ReconfiguresAlone
  NobodyUnserved
PROPERTIES
  ReconfigurationEnds
