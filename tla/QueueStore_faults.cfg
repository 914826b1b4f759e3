CONSTANTS
  p1 = p1
  p2 = p2
  a = a
  b = b
  NoItem = NoItem
  NoCall = NoCall
  NoAnswer = NoAnswer
  NoToken = NoToken
  Procs <- MCProcs
  Tracks <- MCTracks
  StartTracks <- MCStart
  Playlists <- MCPlaylists
  Kinds <- MCFaultKinds
  RepeatedIds = TRUE
  MutateAttempts = 2
  AdvanceAttempts = 3
  MaxCalls = 2
  SlowHolders = TRUE
  RedisMayFail = TRUE
  MayCrash = TRUE
SPECIFICATION FairSpec
PROPERTIES LockIsFreed OnlyOwnerReleases
CHECK_DEADLOCK FALSE
