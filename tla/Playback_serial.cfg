CONSTANTS
  h1 = h1
  h2 = h2
  a = a
  b = b
  c = c
  NoItem = NoItem
  NoTrack = NoTrack
  Handlers <- MCOne
  Tracks <- MCTracks
  StartTracks <- MCStart
  Playlists <- MCPlaylists
  Commands <- MCUser
  GrowOnly = TRUE
  Recommended = {c}
  AutoQueueThreshold = 1
  OldTrackPlaysOn = FALSE
  SlowResolve = TRUE
  ShortTracks = FALSE
  EarlyFailures = FALSE
  MayDisconnect = FALSE
  MaxCommands = 4
  MaxTimers = 2
  MaxTrackRetries = 2
  MaxConsecutiveErrors = 3
SPECIFICATION Spec
INVARIANTS TypeOK CursorIsLoaded StateMatchesPlayer
CHECK_DEADLOCK FALSE
