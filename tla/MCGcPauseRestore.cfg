SPECIFICATION Spec
CONSTANTS
  Threads = {t1, t2}
  MaxNest = 2
  NoThread = NoThread
INVARIANT CollectorRestored
