CONSTANTS
  p1 = p1
  p2 = p2
  a = a
  b = b
  NoItem = NoItem
  NoCall = NoCall
  NoAnswer = NoAnswer
  NoToken = NoToken
  Procs <- MCProcs
  Tracks <- MCTracks
  StartTracks <- MCStart
  Playlists <- MCPlaylists
  Kinds <- MCLocked
  RepeatedIds = FALSE
  MutateAttempts = 2
  AdvanceAttempts = 3
  MaxCalls = 3
  SlowHolders = FALSE
  RedisMayFail = FALSE
  MayCrash = FALSE
SPECIFICATION Spec
SYMMETRY MCSymmetry
INVARIANTS TypeOK MutualExclusion NoLostUpdate
PROPERTIES Atomic ReorderKeepsItems
CHECK_DEADLOCK FALSE
