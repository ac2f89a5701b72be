CONSTANTS
  b1 = b1
  b2 = b2
  b3 = b3
  b4 = b4
  video = video
  audio = audio
  None = None
  Buffers <- MCBuffers
  Streams <- MCStreams
  Length <- MCLength
  Size <- MCSize
  BufferSize = 2
  PreBuffer = 4
  QueueDepth = 3
  MaxFaults = 1
  FlushMayFail = FALSE
SPECIFICATION RawFairSpec
INVARIANTS
  AudioWithinShare
  PlayedInOrder
PROPERTIES
  PlayerFinishes
  ImplementsDelivery
CHECK_DEADLOCK FALSE
