CONSTANTS
  MaxSteps = 5
  Window = 3
  None = None
SPECIFICATION Spec
INVARIANTS IInv ReportsAreVisits SkipsOnlyWhenTorn NeverGoesBack
PROPERTIES AllReported
CHECK_DEADLOCK FALSE
