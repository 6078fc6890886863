SPECIFICATION FairSpec
CONSTANTS
  Disk = {d}
  MaxPolicy = 2
  Wants <- LaterWanted
  Pass = {"timer"}
  Waits = 1
  Events = {"config", "footprint", "live", "agent", "snapshot"}
  MaxEvents = 1
INVARIANTS TypeOK OnlyWantedDisks
PROPERTIES PolicyStays PolicyReachesAgent ChangesReported
