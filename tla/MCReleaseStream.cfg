SPECIFICATION FairStreamSpec
CONSTANTS
  Closed = Closed
  NoCursor = NoCursor
  EVENT_BUFFER_SIZE = 2
  LATEST = 1
  Limits = {0, 1, 3}
  MAX_LIMIT = 2
  Clients = {c1}
  MaxSeq = 4
  MaxBatch = 2
  MaxCrashes = 1
INVARIANTS
  GapIsHonest
  BufferIsBounded
  FramesAreContiguous
  ReaderMissesNothing
PROPERTIES
  ReaderCatchesUp
CHECK_DEADLOCK FALSE
