CONSTANTS
  Dirs = {"root", "left", "right"}
  Root = "root"
  Under <- MCUnder
  MaxPaths = 1
  Writable = {"left", "right"}
  MaxChanges = 2
  MaxFaults = 1
  Paths = {"p", "q"}
  Absent = "absent"
  Trees <- MCTrees
  Interval = 3
  Stamps = {1, 2}
  MaxId = 4
  MaxReads = 1
  Folders = {"top", "upper", "deep", "lower"}
  Top = "top"
  Parent <- MCParent
  Below <- MCBelow
  Sizes = {0, 1}
  MaxNodes = 3
  Actions = {"x", "y"}
  Bytes <- MCBytes
  Capacity = 1
  Clients = {"c", "d"}
  MaxMoves = 2
  MaxFailures = 1
  MaxTouches = 1
  MaxCalls = 2
  Hour = 2
  Day = 4
  Week = 8
  KeepAll = 1
  KeepHourly = 4
  KeepDaily = 6
  Minimum = 1
  MaxTime = 8
  MaxRevision = 2
  MaxPins = 1
  Openers = {"old", "twin", "new"}
  Build <- MCBuild
  MaxOpenings = 3
  Names = {"a", "b"}
  MaxDepth = 2
  MaxQueue = 4
  MaxDirs = 2
  MaxRenames = 1
  MaxRemovals = 1
  MaxWatches = 4
  MaxScans = 2
  MaxFrames = 2
  MaxRequests = 2
  MaxLoads = 1
  MaxRaises = 1
  Measures = {0, 1}
  Threshold = 1
  Windows = {0, 2}
  Cooldowns = {0, 2}
  MaxInstant = 3
  MaxEdits = 1
  MaxDeletions = 1
  Editors = {"tui", "cli"}
  Boards = {"tui"}
  Scopes = {"s", "t", "u"}
  MaxVersions = 3
  MaxCommands = 2
  Items = {"r", "a", "a/b", "a/b/c", "a/d", "a-", "q"}
  ScanRoot = "r"
  Inside <- MCInside
  ByParts <- MCByParts
  ByString <- MCByString
  Isolated = {"q"}
  Folds = {"high", "mid", "low"}
  Top_ = "high"
  UpOf <- MCUp
  Leaves = {1, 2, 3}
  HomeOf <- MCHome
  Inodes = {"f", "g"}
  MaxLinks = 1
SPECIFICATION Spec
CHECK_DEADLOCK FALSE
INVARIANTS
  NothingForgotten
  
  OverlayShowsFreshest
  QuarantineWithinCapacity
  UndoKept
  HistoryIsRepresented
  MigrationIsSafe
  
  ScreenIsOfOneScan
  
  RevisionNamesScope
  PlansDoNotOverlap
  SharedBlocksOnce
PROPERTIES
  ChangesAreCaughtUp
