CONSTANTS
  Tabs = {t1, t2}
  NoTab = NoTab
  Devices = {d1, d2}
  NoDevice = NoDevice
  MaxTokens = 3
  MaxSessionEvents = 3
  MaxRequests = 2
  RetriesInTime = TRUE
  FirstDevice = d1
  MaxStoreEvents = 3
  Callers = {k1, k2}
  Queries = {q}
  Ids = {i}
  UpNext = UpNext
  Threshold = 2
  MaxOutages = 1
  Refills = {r1, r2, r3}
  RefillThreshold = 2
  Batch = 2
  MaxEdits = 1
SPECIFICATION PeripherySpec
INVARIANTS PeripheryTypeOK NoFalseLogout OneFetch RefillBounded
PROPERTIES Converges CircuitRecovers
CHECK_DEADLOCK FALSE
