CONSTANTS
  MaxJobs = 2
  Outcomes = {"passed", "failed"}
  PageSize = 1
  QuarantineAfter = 1
  MaxSteps = 1
SPECIFICATION Spec
CHECK_DEADLOCK FALSE
INVARIANTS TypeOK DigestTellsTables
PROPERTIES PageCatchesUp
