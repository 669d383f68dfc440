SPECIFICATION SafeSpec
CONSTANTS
  StopFirst = FALSE
  FileSize = 5
  BufSize = 2
CHECK_DEADLOCK FALSE
INVARIANT UsedBeforeRelease
