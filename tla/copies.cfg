SPECIFICATION Spec
CONSTANTS
    Disks = 2
    Pieces = 2
    Capacity = 1
    MaxConn = 2
    MaxMinute = 1
    MaxTrouble = 2
INVARIANTS
    TypeOK
    ImageIsBeginning
    CompletedIsWhole
    CloningIsBusy
\* Connections are bounded.
CHECK_DEADLOCK FALSE
