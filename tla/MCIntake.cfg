CONSTANTS
  b1 = b1  b2 = b2  o1 = o1  o2 = o2  c1 = c1  c2 = c2
  Boards <- Fleet2
  Operators <- People
  Selectors <- AnyOrOne
  Crates <- Corpus
  CorpusFor <- Kind
  Seeds <- Declared
  MaxJobs = 1
  MaxEdits = 2
  MaxFires = 2
  MaxFaults = 1
SPECIFICATION Spec
CHECK_DEADLOCK FALSE
SYMMETRY Symmetric
INVARIANTS CacheTellsEdits NightTells
PROPERTIES QuarantineSticks
