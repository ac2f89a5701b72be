CONSTANTS
  v1 = v1
  v2 = v2
  a1 = a1
  m1 = m1
  m2 = m2
  m3 = m3
  m4 = m4
  m5 = m5
  m6 = m6
  m7 = m7
  None = None
  Blocks <- SevenBlocks
  Private <- MCPrivate
  VideoSources <- OneVideo
  AudioSources <- OneAudio
  NeedsShared <- OneVideo
  MaxFaults = 2
SPECIFICATION Spec
SYMMETRY SevenSymmetry
INVARIANT NoLeak
PROPERTY ImplementsCustody
