SPECIFICATION LiveSpec
CONSTANTS
  Media = {"audio"}
  Scale = 3
  FrameDuration <- Short
  SourceDuration <- Short
  Wrap = 20
  Gaps = {1, 5}
  Backs = {7}
  MaxTime = 36
INVARIANTS TypeOK NearClock CorrectedOnce
PROPERTIES BackLessThanHalf PtsIncreases
