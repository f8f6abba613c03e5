SPECIFICATION FairSpec
CONSTANTS
  q = q
  r = r
  Asks <- TwoOperators
  Requests = {q, r}
  Events = {e}
  Channels = {c, d}
  Modules = {m}
  MaxAge = 1
  ClaimTtl = 2
  MaxFaults = 1
INVARIANTS
  
  AnswerIsOwn
PROPERTIES
  HeardIsPosted
