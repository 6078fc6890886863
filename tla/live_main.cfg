SPECIFICATION FairSpec
CONSTANTS
  N = 2
  Delta = 0
  Reader = {r1}
  ChunkSize = 2
  BatchSize = 2
  RingCap = 9
  LiveCap = 9
  SyncCap = 9
  MaxVer = 2
  MaxRetry = 2
  Faults <- NoFaults
CONSTRAINT OneTwice
INVARIANTS DirtyExact
PROPERTIES Converges CaptureSpec
CHECK_DEADLOCK FALSE
