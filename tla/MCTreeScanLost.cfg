SPECIFICATION Spec
CONSTANTS
  Root = 1
  Dirs = {1, 2}
  Files = {7}
  Locked = {8, 9}
  Listing <- ChildlessChunk
  Denied = {}
  Crashing = {2}
  ChunkSize = 2
  ChunkCapacity = 1
  Workers = 1
  InitialWorkers = 1
  SubmissionLimit = 1
  QueueCapacity = 1
  MaxFrames = 0
CHECK_DEADLOCK FALSE
INVARIANT AggregatesExact
