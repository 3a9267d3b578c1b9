CONSTANTS
  Contacts = 2
  Reports <- Fingers
  Owner = {a}
  NoOwner = none
  Capacity = 3
  Passes = 2
  MaxTouches = 3
SPECIFICATION FairSpec
INVARIANTS
  NoOtherStuckContact
  PowerFollows
PROPERTIES
  TouchSettles
