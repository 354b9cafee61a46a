CONSTANTS
  Plans <- SmallPlans
  Worlds <- MCWorlds
  None = None
SPECIFICATION Spec
CHECK_DEADLOCK FALSE
INVARIANTS
  HeatsAreWonDurably
