SPECIFICATION FairSpec
CONSTANTS
  r1 = r1
  r2 = r2
  None = None
  Requests = {r1, r2}
  Methods <- Pairs
  MaxPages = 2
INVARIANTS BusIsSound
PROPERTIES RequestsAreServed
CHECK_DEADLOCK FALSE
