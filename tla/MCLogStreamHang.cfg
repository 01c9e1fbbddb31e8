CONSTANTS
  v1 = v1
  v2 = v2
  Viewers = {v1}
  MaxFrames = 1
  BatchMax = 2
  Capacity = 2
  SeedLimit = 1
  MaxFaults = 0
  CancelPending = TRUE
CHECK_DEADLOCK FALSE
SPECIFICATION FairSpec
PROPERTIES StreamsEnd
