SPECIFICATION FairSpec
CONSTANTS
  Action = {1}
  Files = {}
  Odd = {1}
  Pieces <- TwoPieces
  Devices <- Partitions
  Capacity = 2
  MaxActions = 1
  MaxConn = 1
  Retries = 1
PROPERTY PartitionRestoreEnds
CHECK_DEADLOCK FALSE
