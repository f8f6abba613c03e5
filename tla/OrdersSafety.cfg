SPECIFICATION FairSpec
CONSTANTS
  bob = bob
  eve = eve
  o1 = o1
  Nobody = Nobody
  Orders = {o1}
  Users = {bob, eve}
  Requesters = {bob}
  Crafters = {bob, eve}
  Admins = {eve}
INVARIANTS
  ClosedByRight
  CardShowsOrder
PROPERTIES
  ImplementsLifecycle
  AnchorCleared
