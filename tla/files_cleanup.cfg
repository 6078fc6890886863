SPECIFICATION Spec
CONSTANTS
    N = 2
    Minute = 2
    Retention = 2
    ArchiveAge = 2
    MaxTime = 4
    MaxVer = 1
    MaxImage = 4
    Faults <- NoFaults
PROPERTIES ChangesSurviveCleanup
