CONSTANTS
  a = a
  b = b
  Hosts = {a, b}
  NoHost = NoHost
  Lease = 2
  Busy = {a}
  Scenes <- UndisturbedScenes
SPECIFICATION MonitorSpec
CHECK_DEADLOCK FALSE
INVARIANT NeverOverlaps
