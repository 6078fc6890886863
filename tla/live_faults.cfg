SPECIFICATION Spec
CONSTANTS
  N = 2
  Delta = 0
  Reader = {r1, r2}
  ChunkSize = 1
  BatchSize = 2
  RingCap = 1
  LiveCap = 1
  SyncCap = 1
  MaxVer = 2
  MaxRetry = 1
  Faults <- SomeFaults
SYMMETRY ReaderSymmetry
CONSTRAINT RaceOrMisread
INVARIANTS TypeOK Accounted SettledOrListed
PROPERTIES NeverBackwards
CHECK_DEADLOCK FALSE
