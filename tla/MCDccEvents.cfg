SPECIFICATION FairSpec
CONSTANTS
  MaxTries = 5
  MaxQueued = 2
INVARIANTS
  OkMeansExecuted
  NoLostWakeup
  SetOnce
  StopIsShown
PROPERTY CallReturns
