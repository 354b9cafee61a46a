CONSTANTS
  Ids <- MCIds
  Contract <- MCContract
  DependsOn <- MCDependsOn
  Reboots = {"durability"}
  Completion = "durability"
  StopOnFirstDurable = TRUE
  Points <- MCPoints
  MaxPoints = 10
  Deadline = 1
  Overrun = 0
  Status = {"harness_error"}
  MaxUnits = 0
  CtrlC = TRUE
  None = None
SPECIFICATION Spec
INVARIANTS
  AbortedMatchReturns
