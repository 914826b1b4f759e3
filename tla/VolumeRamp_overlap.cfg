CONSTANTS
  c1 = c1
  c2 = c2
  Calls = {c1, c2}
  Levels <- MCLevels
  BootVolume = 5
  CallsApart = FALSE
  NoCall = NoCall
  NoLevel = NoLevel
SPECIFICATION Spec
INVARIANTS LastTargetWins
CHECK_DEADLOCK FALSE
