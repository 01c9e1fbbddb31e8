CONSTANTS
  j1 = j1
  j2 = j2
  j3 = j3
  b1 = b1
  b2 = b2
  t1 = t1
  t2 = t2
  None = None
  Jobs = {j1, j2, j3}
  Boards = {b1, b2}
  Tars = {t1, t2}
  TarOf <- TwoTars
  Eligible <- Picky
  Scheduled = {j1, j2}
  BoardOrder <- ById
  ScanLimit = 3
  MaxBuilds = 2
SPECIFICATION FairSpec
INVARIANTS TypeOK
PROPERTIES PicksAreBest StarvedAreServed BoardsTakeTurns
