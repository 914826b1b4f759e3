CONSTANTS
  a = a
  b = b
  NoTrack = NoTrack
  Song = a
  OtherSong = b
  Hazards = {"busy", "early", "late", "failing", "offline"}
  MaxTrackRetries = 1
  MaxConsecutiveErrors = 2
  MaxFailures = 3
  MaxMail = 1
SPECIFICATION Spec
INVARIANTS FailureKeepsSource OneDevicePlays
PROPERTIES CommitIsProven
CHECK_DEADLOCK FALSE
