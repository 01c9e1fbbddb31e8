CONSTANTS
  v1 = v1
  v2 = v2
  Viewers = {v1, v2}
  MaxFrames = 1
  BatchMax = 2
  Capacity = 1
  SeedLimit = 1
  MaxFaults = 1
  CancelPending = TRUE
SPECIFICATION FairSpec
CHECK_DEADLOCK FALSE
INVARIANTS TypeOK NothingElseIsLost PageInOrder SeqsAreUnique ChannelReclaimed NeverCutShort
PROPERTIES PagesAreTold
