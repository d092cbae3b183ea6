SPECIFICATION Spec
CONSTANTS
  Root = 1
  Dirs = {1, 2, 3, 6, 8}
  Files = {7}
  Locked = {9}
  Listing <- Tree
  Denied = {3}
  Crashing = {6}
  ChunkSize = 2
  ChunkCapacity = 1
  Workers = 2
  InitialWorkers = 1
  SubmissionLimit = 2
  QueueCapacity = 1
  MaxFrames = 1
CHECK_DEADLOCK FALSE
INVARIANTS
  OncePerDirectory
  AggregatesExact
  FrameListsChanges
  WalkComplete
PROPERTIES
  FramesFrozen
  Terminates
