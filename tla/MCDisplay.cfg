CONSTANTS
  s1 = s1
  s2 = s2
  osd = osd
  video = video
  other = other
  None = None
  Sources <- MCSources
  Scalers <- MCScalers
  Main <- MCMain
  Profiles <- MCProfiles
  Counts <- MCCounts
  MemorySize = 6
  MaxFaults = 2
  MaxQueued = 1
SPECIFICATION Spec
SYMMETRY MCSymmetry
INVARIANTS
  SurfaceAccounted
  ShownIsGiven
  ShownIsOpen
  HeaderIntact
PROPERTY OnePictureAtATime
