CONSTANTS
  Threads = {"t1", "t2", "t3"}
  MaxNest = 2
  NoThread = "none"
  Capacity = 2
  Consumers = 2
  Faulty = {1}
  MaxPositions = 1
  MaxReports = 2
  MaxFrames = 1
  MaxErrors = 1
  Interruptible = TRUE
  MaxPresses = 2
  Users = {"u", "v"}
  HostOf <- MCHosts
  Spots = {"x"}
  MaxActs = 2
  MaxLaunches = 2
  MaxSpoils = 1
  MaxByHand = 1
  Ceiling = 2
  Digits = {0, 1, 3}
  MaxTyped = 4
  Modes_ = {"explorer", "cleanup"}
  MaxScreens = 3
  MaxLooks = 2
  FilesOf <- MCFiles
  MayMeasure <- MCMayMeasure
  ByName <- MCByName
  Cap = 2
  Reach = 1
  MaxIntervals = 2
  MaxPoints = 4
  MaxMarks = 1
  Viewers = {"v", "w"}
  MaxSaved = 3
  MaxDeleted = 1
  MaxLooksBack = 3
  MaxCompared = 1
  SeriesKept = 2
  SeriesBudget = 4
SPECIFICATION ProgramSpec
CHECK_DEADLOCK FALSE
INVARIANTS
  PauseIsExact
  EmbedderPolicyKept
  ExactAtBarriers
  EndIsTold
  
  
  
  
PROPERTIES
  RunCloses
