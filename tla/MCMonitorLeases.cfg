CONSTANTS
  a = a
  b = b
  Hosts = {a, b}
  NoHost = NoHost
  Lease = 2
  Busy = {a}
  Scenes <- MCScenes
SPECIFICATION MonitorSpec
CHECK_DEADLOCK FALSE
PROPERTY DueIsAttempted
INVARIANTS OverlapNeedsLapse NoGhostHost
