CONSTANTS
  TarOf <- TwoTars
  NameOf <- OneName
  Updates = 1
  PipeCap = 1
  TailCap = 1
  MaxLines = 2
SPECIFICATION Spec
CHECK_DEADLOCK FALSE
INVARIANTS TypeOK LogTellsBuild ElfIsOfItsTar
PROPERTIES BuildsEnd
