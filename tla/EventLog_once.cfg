CONSTANTS
  MaxEvents = 8
  Reopens = FALSE
SPECIFICATION Spec
INVARIANTS
  NothingSyncedIsLost
  ReadersKeepUp
CHECK_DEADLOCK FALSE
