CONSTANTS
  j1 = j1
  j2 = j2
  b1 = b1
  t1 = t1
  s1 = s1
  s2 = s2
  None = None
  Jobs = {j1, j2}
  Boards = {b1}
  Tars = {t1}
  Slots = {s1, s2}
  TarOf <- TwinTar
  Eligible <- AnyBoard
  SkipCache = {}
  BoardsToml = {b1}
  InfraThreshold = 2
  MaxEvents = 2
SPECIFICATION Spec
CHECK_DEADLOCK FALSE
INVARIANTS BoardExclusive SlotsAccounted SingleFlight InFlightOwned TaskOwnsRow QuarantineHolds AnnouncedIsOver
SYMMETRY Symmetric
