CONSTANTS
  Ids <- MCThree
  Named = {1, 2, 3, 9}
  Milestone <- MCMilestones
  Completion = "durability"
  StopOnFirstDurable = FALSE
  Points <- MCPoints
  MaxPoints = 2
  MaxTime = 2
  MaxEvents = 14
  None = None
SPECIFICATION Spec
INVARIANTS
  TypeOK
  DurableAgrees
  WinnerBeatsEveryRival
PROPERTIES
  FrozenAfterEnd
CHECK_DEADLOCK FALSE
