SPECIFICATION Spec
CONSTANTS
  r1 = r1
  r2 = r2
  s1 = s1
  s2 = s2
  Submissions = {s1}
  Reviewers = {r1, r2}
  Managers = {r1}
  Thresholds = {1, 2}
  MaxHandlers = 2
INVARIANTS
  PendingBelowThreshold
  EmbedNeverAhead
  
PROPERTIES
  DecidedByVotes
  ImplementsDecision
