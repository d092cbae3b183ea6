SPECIFICATION PictureSpec
CONSTANTS
  FilesOf <- MCFiles
  MayMeasure <- MCMayMeasure
  ByName <- MCByName
  Cap = 3
  Reach = 1
  MaxIntervals = 1
  MaxPoints = 2
  MaxMarks = 1
CHECK_DEADLOCK FALSE
INVARIANT RefusedHasNoDirection
