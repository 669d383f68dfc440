SPECIFICATION Spec
CONSTANTS
  FrameDuration <- BothFrames
  PtsSteps <- EvenSteps
  Pts <- ShortPts
  Sizes = {1}
  MaxPushes <- OneAndTwo
  MaxQueueDuration = 4
  Timeout = 1
  MaxLost = 1
  MainQuits = TRUE
CHECK_DEADLOCK FALSE
PROPERTIES ImplementsPipeline BacklogDrains
