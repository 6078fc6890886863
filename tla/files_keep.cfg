SPECIFICATION Spec
CONSTANTS
    N = 1
    Minute = 2
    Retention = 2
    ArchiveAge = 2
    MaxTime = 5
    MaxVer = 0
    MaxImage = 2
    Faults <- AnyFaults
INVARIANTS TypeOK ImageStays
PROPERTIES NewestKept
