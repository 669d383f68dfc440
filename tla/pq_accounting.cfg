SPECIFICATION SafeSpec
CONSTANTS
  c1 = c1
  Consumers = {c1}
  FrameDuration <- BothFrames
  PtsSteps <- JitterSteps
  Pts <- ShortPts
  Sizes = {1, 3}
  RemainMax = 4
  MaxPushes <- OneAndThree
INVARIANTS TypeOK CountsMatch SizesMatch PtsWindow
