SPECIFICATION SafeSpec
CONSTANTS
  StopFirst = TRUE
  FileSize = 5
  BufSize = 2
CHECK_DEADLOCK FALSE
INVARIANT ReleasedOnce
