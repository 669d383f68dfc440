SPECIFICATION EncodingSpec
CONSTANTS
  Choices <- SomeChoices
  MaxSets = 2
  ParamSets <- SomeParamSets
  Delay <- AacDelay
  PacketSizes = {300, 8184}
  MaxFrames = 4
  MaxErrors = 2
INVARIANTS TypeOK BuffersFit DurationsAgree FramesAccounted DumpReadsBack
CHECK_DEADLOCK FALSE
