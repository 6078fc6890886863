SPECIFICATION Spec
CONSTANTS
  Action = {1, 2}
  Files = {}
  Odd = {1}
  Pieces <- TwoAndThree
  Devices <- Partitions
  Capacity = 1
  MaxActions = 2
  MaxConn = 2
  Retries = 1
INVARIANTS OneOpenRun BatchesInOrder
CHECK_DEADLOCK FALSE
