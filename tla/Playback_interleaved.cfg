CONSTANTS
  h1 = h1
  h2 = h2
  a = a
  b = b
  c = c
  NoItem = NoItem
  NoTrack = NoTrack
  Handlers <- MCTwo
  Tracks <- MCTracks
  StartTracks <- MCStart
  Playlists <- MCPlaylists
  Commands <- MCPlayNext
  GrowOnly = TRUE
  Recommended = {}
  AutoQueueThreshold = 1
  OldTrackPlaysOn = FALSE
  SlowResolve = TRUE
  ShortTracks = FALSE
  EarlyFailures = FALSE
  MayDisconnect = FALSE
  MaxCommands = 2
  MaxTimers = 2
  MaxTrackRetries = 1
  MaxConsecutiveErrors = 2
SPECIFICATION Spec
INVARIANTS CursorIsLoaded
CHECK_DEADLOCK FALSE
