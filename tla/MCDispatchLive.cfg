CONSTANTS
  j1 = j1
  j2 = j2
  b1 = b1
  t1 = t1
  s1 = s1
  s2 = s2
  None = None
  Jobs = {j1, j2}
  Boards = {b1}
  Tars = {t1}
  Slots = {s1}
  TarOf <- TwinTar
  Eligible <- OnlyFirst
  SkipCache = {j1, j2}
  BoardsToml = {b1}
  InfraThreshold = 1
  MaxEvents = 1
SPECIFICATION FairSpec
CHECK_DEADLOCK FALSE
PROPERTIES ImplementsLifecycle ClaimedJobsEnd DrainEnds
