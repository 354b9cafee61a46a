CONSTANTS
  Ids <- MCIds
  Contract <- MCContract
  DependsOn <- MCDependsOn
  Reboots = {"durability"}
  Completion = "durability"
  StopOnFirstDurable = FALSE
  Points <- MCPoints
  MaxPoints = 10
  Deadline = 2
  Overrun = 0
  Status = {"completed", "interrupted", "harness_error"}
  MaxUnits = 0
  CtrlC = TRUE
  None = None
SPECIFICATION Spec
PROPERTIES
  Settles
