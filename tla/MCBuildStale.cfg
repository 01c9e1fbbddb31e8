CONSTANTS
  TarOf <- TwoTars
  NameOf <- TwoNames
  Updates = 0
  PipeCap = 1
  TailCap = 1
  MaxLines = 0
SPECIFICATION Spec
CHECK_DEADLOCK FALSE
INVARIANTS ElfIsOfItsTar
