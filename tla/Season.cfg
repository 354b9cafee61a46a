CONSTANTS
  Plans <- MCPlans
  Worlds <- MCWorlds
  None = None
SPECIFICATION Spec
CHECK_DEADLOCK FALSE
INVARIANTS
  BracketsEnd
  ResumeFindsItsDraw
  EvidenceIsKept
  ReplaysAreBounded
  AdvanceOnMerit
  StandingsAgree
PROPERTIES
  DecidedStands
  WeekSettles
