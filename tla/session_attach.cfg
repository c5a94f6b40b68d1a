SPECIFICATION Spec
CONSTANTS
  c1 = c1
  c2 = c2
  s1 = s1
  None = None
  Conns <- MCConns2
  Subs <- NoSubs
  RingCap = 2
  TeeCap = 1
  High = 3
  Low = 1
  MaxChunk = 2
  AckUnit = 2
  StartSeqs <- Adopted
  MaxEmit = 5
  CloneMayFail = TRUE
SYMMETRY ConnSymmetry
INVARIANTS TypeOK StreamIsTrue FlowIsSound
CHECK_DEADLOCK FALSE
