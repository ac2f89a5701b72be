CONSTANTS
  NumberOfAreas = 3
  PageSize = 4
  Pages <- MCPages
  Requests <- OnBoundary
  MaxFaults = 0
SPECIFICATION Spec
INVARIANTS
  FillSucceeds
CHECK_DEADLOCK FALSE
