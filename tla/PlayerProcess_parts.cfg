CONSTANTS
  r1 = r1
  r2 = r2
  r3 = r3
  r4 = r4
  Resolves <- MCResolves
  MaxConcurrency = 2
  a = a
  b = b
  NoTrack = NoTrack
  Tracks = {a, b}
  MaxCommands = 3
  MaxEntries = 2
  MaxEnds = 1
  PrefetchEnabled = TRUE
  s1 = s1
  s2 = s2
  s3 = s3
  Links = {s1, s2, s3}
  NoLink = NoLink
  MaxCrashes = 2
  MaxDrops = 1
  SlowSockets = FALSE
  c1 = c1
  c2 = c2
  Calls = {c1, c2}
  Levels <- MCLevels
  BootVolume = 5
  CallsApart = TRUE
  NoCall = NoCall
  NoLevel = NoLevel
SPECIFICATION ProcessSpec
INVARIANTS ProcessTypeOK Bounded NoIdleSlot LastCommandWins IdIsHeard DroppedStaysOut OneConnection LastTargetWins 
PROPERTIES EveryWaiterRuns AdoptedIsPlayed Reconnects
CHECK_DEADLOCK FALSE
