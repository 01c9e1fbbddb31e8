CONSTANTS
  j1 = j1
  j2 = j2
  j3 = j3
  t1 = t1
  t2 = t2
  None = None
  Jobs = {j1, j2, j3}
  Tars = {t1, t2}
  TarOf <- TwoTars
  SkipCache = {j2}
  MaxFaults = 2
SPECIFICATION Spec
CHECK_DEADLOCK FALSE
INVARIANTS TarPresent RowsVouchForWholes ReadsAgree TempsReclaimed
