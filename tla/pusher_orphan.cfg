SPECIFICATION SafeSpec
CONSTANTS
  FrameDuration <- BothFrames
  PtsSteps <- EvenSteps
  Pts <- ShortPts
  Sizes = {1}
  MaxPushes <- OneAndThree
  MaxQueueDuration = 4
  Timeout = 1
  MaxLost = 0
  MainQuits = TRUE
CHECK_DEADLOCK FALSE
INVARIANT NoOrphanFrame
