SPECIFICATION FairSpec
CONSTANTS
  r1 = r1
  r2 = r2
  r3 = r3
  k1 = k1
  Runs = {r1, r2, r3}
  Keys = {k1}
  KeyOf <- OneDevice
  MaxActive = 2
  Targets = {}
  NoRun = NoRun
  NoDeque = NoDeque
CHECK_DEADLOCK FALSE
INVARIANTS
  SlotsExclusive
PROPERTIES
  OnlyForward
  RunsEnd
