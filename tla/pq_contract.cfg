SPECIFICATION Spec
CONSTANTS
  c1 = c1
  c2 = c2
  Consumers = {c1, c2}
  FrameDuration <- BothFrames
  PtsSteps <- EvenSteps
  Pts <- ShortPts
  Sizes = {1}
  RemainMax = 4
  MaxPushes <- OneAndThree
INVARIANTS NoLostWakeup AbortWakesAll DurationTracksBacklog
PROPERTIES ImplementsChannel ServesBlocked AbortReleases TimedPopReturns
