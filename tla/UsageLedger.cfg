CONSTANTS
  MaxUsage = 2
  MaxReports = 2
  None = None
SPECIFICATION Spec
CONSTRAINT FewReports
INVARIANTS
  ChargesAreLargest
