SPECIFICATION SafeSpec
CONSTANTS
  FrameDuration <- BothFrames
  PtsSteps <- LateSteps
  Pts <- LatePts
  Sizes = {1}
  MaxPushes <- OneAndThree
  MaxQueueDuration = 4
  Timeout = 1
  MaxLost = 1
  MainQuits = TRUE
CHECK_DEADLOCK FALSE
INVARIANTS TypeOK NoUseAfterFree PacketsConserved FullBudget DropStillDue
PROPERTIES MuxerProtocol VideoRetainedWithinMax
