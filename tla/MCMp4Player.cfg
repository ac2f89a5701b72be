CONSTANTS
  File <- MCFile
  FrameTime = 2
  StartTimes = {0, 4}
  Keys = {"stop", "ok", "up"}
  MaxBuffer = 4
  MinBuffer = 2
  Rebuffer = 1
  JumpTime = 4
  Depth <- MCDepth
  Ahead = 2
  MaxTime = 9
  MaxFaults = 1
SPECIFICATION Spec
INVARIANTS
  PlayingRuns
  NoGap
  NothingCutOff
PROPERTY PauseBoundsBuffer
CHECK_DEADLOCK FALSE
