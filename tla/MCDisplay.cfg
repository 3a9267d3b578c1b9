CONSTANTS
  rest = rest
  corner = corner
  red = red
  Term = Term
  Mark = Mark
  None = None
  Status = corner
  Region <- MCRegion
  Colour <- MCColour
  Fills <- MCFills
  Blits <- MCBlits
  Capacity = 1
  MaxFaults = 1
SPECIFICATION Spec
CONSTRAINT CoincidencesEnd
INVARIANTS
  FrameIsWhole
  GuestMemoryOutlivesReaders
  OneDrawer
PROPERTIES
  BackIsNotScanned
