CONSTANTS
  v1 = v1
  v2 = v2
  a1 = a1
  m1 = m1
  m2 = m2
  m3 = m3
  m4 = m4
  m5 = m5
  m6 = m6
  m7 = m7
  None = None
  Blocks <- SixBlocks
  Private <- MCPrivate
  VideoSources <- TwoVideos
  AudioSources <- Nobody
  NeedsShared <- Nobody
  MaxFaults = 3
SPECIFICATION Spec
SYMMETRY SixSymmetry
INVARIANTS
  MemorySafe
  NoLeak
