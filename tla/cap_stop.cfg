SPECIFICATION Spec
CONSTANTS
  StopFirst = TRUE
  FileSize = 5
  BufSize = 2
CHECK_DEADLOCK FALSE
INVARIANTS TypeOK UsedBeforeRelease
PROPERTIES StopIsPrompt StopCompletes
