CONSTANTS
  Players <- MCPlayers
  MaxFaults = 3
SPECIFICATION FairSpec
INVARIANTS
  NothingDeadUsed
  NeverNull
  EverythingClosed
PROPERTIES
  StopEnds
  AlwaysNearer
CHECK_DEADLOCK FALSE
