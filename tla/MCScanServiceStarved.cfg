SPECIFICATION FairSpec
CONSTANTS
  r1 = r1
  r2 = r2
  r3 = r3
  k1 = k1
  Runs = {r1, r2, r3}
  Keys = {k1}
  KeyOf <- OneDevice
  MaxActive = 1
  Targets = {r2}
  NoRun = NoRun
  NoDeque = NoDeque
CHECK_DEADLOCK FALSE
PROPERTY QueueServed
