SPECIFICATION MountsSpec
CONSTANTS
    N = 1
    Minute = 1
    Retention = 1
    ArchiveAge = 1
    MaxTime = 2
    MaxVer = 2
    MaxImage = 1
    Faults <- RestartFaults
CONSTRAINT SmallMerge
INVARIANTS MountsTypeOK PointInTime MountComplete MountExact
