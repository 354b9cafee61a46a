CONSTANTS
  Ids <- MCIds
  Threshold = 2
  Window = 3
  Duration = 6
  Bonus = 1
  Budget = 1
  Overrun = 1
  Units <- MCUnits
  CtrlC = TRUE
  None = None
SPECIFICATION Spec
INVARIANTS
  EliminatedArePoweredOff
  WindowDecides
  DowntimeIsAccounted
  WinnerIsUnbeaten
