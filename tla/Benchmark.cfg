CONSTANTS
  Seats = 3
  Suites <- MCSuites
  Editions <- MCEditions
  FilesOf <- MCFilesOf
  Worlds <- MCWorlds
  None = None
SPECIFICATION Spec
CHECK_DEADLOCK FALSE
INVARIANTS
  OneEdition
  
  EverySeatOnce
  NothingAfterAbort
PROPERTIES
  BenchmarkSettles
