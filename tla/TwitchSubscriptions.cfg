SPECIFICATION FairSpec
CONSTANTS
  a = a
  b = b
  s = s
  Configs = {a, b}
  Streamers = {s}
  StreamerOf <- OneStreamer
  Ids = {1, 2, 3, 4, 5}
  MaxFaults = 1
INVARIANTS
  KnownUnlessLost
  RevokedIsGone
PROPERTIES
  
  UnfollowedIsDropped
