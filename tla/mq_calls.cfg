SPECIFICATION Spec
CONSTANTS
  g1 = g1
  g2 = g2
  Getters = {g1, g2}
  What = {"MSG_RTSP_ERROR", "MSG_RTSP_QUEUE_DURATION"}
  MaxPuts = 3
INVARIANTS TypeOK NoLostWakeup ObjectsAccounted
PROPERTY ImplementsChannel
