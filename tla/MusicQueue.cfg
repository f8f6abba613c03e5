SPECIFICATION MusicFairSpec
CONSTANTS
  Songs = {1, 2, 3}
  MaxFaults = 2
CHECK_DEADLOCK FALSE
INVARIANTS
  
  SilentAfterLeave
PROPERTIES
  QueuedIsPlayed
