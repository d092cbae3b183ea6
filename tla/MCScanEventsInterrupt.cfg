SPECIFICATION EventsSpec
CONSTANTS
  Capacity = 2
  Consumers = 1
  Faulty = {1}
  MaxPositions = 1
  MaxReports = 1
  MaxFrames = 0
  MaxErrors = 1
  Interruptible = TRUE
CHECK_DEADLOCK FALSE
INVARIANT ExactlyOneTerminal
