SPECIFICATION Spec
CONSTANTS
  Chars = {1, 2}
  Mounts = {1, 2}
  CommandBatches = {1}
  WebBatches = {2}
  MaxFeed = 1
  MaxEvents = 1
CHECK_DEADLOCK FALSE
INVARIANTS
  NewsOnce
  MountTold
  CharacterToldOnce
