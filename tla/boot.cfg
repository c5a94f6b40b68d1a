SPECIFICATION BootFairSpec
CONSTANTS
  p1 = p1
  p2 = p2
  p3 = p3
  c1 = c1
  c2 = c2
  NoOne = NoOne
  Procs <- ThreeProcs
  Clients <- TwoClients
INVARIANTS SocketsAreOwned
PROPERTIES Recovers
CHECK_DEADLOCK FALSE
