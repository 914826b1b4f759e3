SPECIFICATION Spec
CONSTANTS
  Volumes = {0, 30, 60}
  FirstVolume = 60
  NoTimer = NoTimer
  MaxInputs = 4
INVARIANT LatestIsSent
CHECK_DEADLOCK FALSE
