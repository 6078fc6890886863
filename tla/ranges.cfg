SPECIFICATION Spec
CONSTANTS
  Delta = 2
  Width = 16
  LastBlock = 6
  Sizes <- AnySize
  MaxPairs = 3
INVARIANTS TypeOK MergeExact Separated RequestExact
CHECK_DEADLOCK FALSE
