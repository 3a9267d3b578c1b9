CONSTANTS
  Setups <- Both
  Policies <- Stages
  TimeLimit = 6
  MaxTime = 4
SPECIFICATION FairSpec
INVARIANTS
  DependentsFirst
  AllOrNone
  NoLightOnDarkPanel
  DimmingIsEarned
PROPERTIES
  TransitionEnds
  NoSpinning
CONSTRAINT EachStageOnce
CHECK_DEADLOCK FALSE
