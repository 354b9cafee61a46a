CONSTANTS
  Ids <- MCIds
  Contract <- MCContract
  DependsOn <- MCDependsOn
  Reboots = {"durability"}
  Completion = "durability"
  StopOnFirstDurable = TRUE
  Points <- MCPoints
  MaxPoints = 10
  Deadline = 2
  Overrun = 1
  Status = {"completed", "failed"}
  MaxUnits = 1
  CtrlC = FALSE
  None = None
SPECIFICATION Spec
INVARIANTS
  RefereeNeverRefuses
  WorldFollowsReferee
  EveryAgentCounted
  UsageChargedOnce
  FirstDurableWins
PROPERTIES
  KeepsPromise
