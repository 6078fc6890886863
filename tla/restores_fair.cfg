SPECIFICATION FairSpec
CONSTANTS
  Action = {1}
  Files = {1}
  Odd = {}
  Pieces <- TwoPieces
  Devices <- Partitions
  Capacity = 1
  MaxActions = 1
  MaxConn = 2
  Retries = 2
INVARIANTS TypeOK CompletedWasSent
PROPERTIES FileRestoreEnds WaitingIsTaken
CHECK_DEADLOCK FALSE
