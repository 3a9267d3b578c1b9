CONSTANTS
  Frames = 3
  MaxFrames = 4
  MaxOpens = 2
  Formats = {"h264", "packed"}
SPECIFICATION Spec
INVARIANT
  JoinedBeforeRelease
CHECK_DEADLOCK FALSE
