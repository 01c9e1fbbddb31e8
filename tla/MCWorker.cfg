SPECIFICATION FairSpec
CONSTANTS
  Programs <- Sketches
  Inactivity = 2
  HardMax = 4
  WatchdogTick = 2
  MaxSkips = 2
  Settle = 1
  RingSize = 2
  MaxCommands = 2
  MaxTime = 9
  None = None
INVARIANTS PassIsEarned EndsInTime EndsForAReason OkIsNotLost
PROPERTIES RunEnds
CHECK_DEADLOCK FALSE
