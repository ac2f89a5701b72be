CONSTANTS
  b1 = b1
  b2 = b2
  b3 = b3
  video = video
  audio = audio
  None = None
  Buffers <- MCBuffers
  Streams <- MCStreams
  Length <- MCLength
  QueueDepth = 2
  MaxFaults = 1
  FlushMayFail = TRUE
SPECIFICATION Spec
INVARIANTS
  TypeOK
  RefsCoverOwners
  NoLeak
  OneOwner
  RetryKeepsChunk
  CleanupOnlyAfterFault
PROPERTY QueuedUntouched
CHECK_DEADLOCK FALSE
