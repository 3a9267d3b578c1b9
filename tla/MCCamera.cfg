CONSTANTS
  Frames = 3
  MaxFrames = 4
  MaxOpens = 2
  Formats = {"h264", "packed"}
SPECIFICATION FairSpec
INVARIANTS
  DropsAreExact
PROPERTIES
  LeasedIsStable
  InOrder
  RoomIsUsed
  StopCompletes
CHECK_DEADLOCK FALSE
