SPECIFICATION Spec
CONSTANTS
    N = 1
    Minute = 1
    Retention = 3
    ArchiveAge = 3
    MaxTime = 2
    MaxVer = 2
    MaxImage = 1
    Faults <- AnyFaults
INVARIANTS CheckpointExact
PROPERTIES PointsKept
