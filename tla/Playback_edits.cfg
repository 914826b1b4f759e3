CONSTANTS
  h1 = h1
  h2 = h2
  a = a
  b = b
  c = c
  NoItem = NoItem
  NoTrack = NoTrack
  Handlers <- MCOne
  Tracks <- MCTracks
  StartTracks <- MCShortStart
  Playlists <- MCPlaylists
  Commands <- MCEdits
  GrowOnly = FALSE
  Recommended = {}
  AutoQueueThreshold = 1
  OldTrackPlaysOn = FALSE
  SlowResolve = TRUE
  ShortTracks = FALSE
  EarlyFailures = FALSE
  MayDisconnect = FALSE
  MaxCommands = 5
  MaxTimers = 2
  MaxTrackRetries = 1
  MaxConsecutiveErrors = 2
SPECIFICATION Spec
INVARIANTS PendingIsBuffered BufferedIsQueued FailuresAreBounded
PROPERTIES RetriesSameTrack
CHECK_DEADLOCK FALSE
