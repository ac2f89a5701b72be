CONSTANTS
  NumberOfAreas = 3
  PageSize = 4
  Pages <- MCPages
  Requests <- AnyRange
  MaxFaults = 2
SPECIFICATION Spec
INVARIANTS
  InsideFillSucceeds
  NothingLeftBehind
  RegionsInTable
CHECK_DEADLOCK FALSE
