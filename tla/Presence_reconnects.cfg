CONSTANTS
  d1 = d1
  d2 = d2
  Devices = {d1}
  MaxSockets = 3
  SlowLookup = TRUE
  MayCrash = TRUE
SPECIFICATION FairSpec
INVARIANTS TypeOK LiveIsRegistered
PROPERTIES OfflineIsParked LiveIsListed
CHECK_DEADLOCK FALSE
