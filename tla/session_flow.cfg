SPECIFICATION FairSpec
CONSTANTS
  c1 = c1
  c2 = c2
  s1 = s1
  None = None
  Conns <- MCConns1
  Subs <- MCSubs
  RingCap = 1
  TeeCap = 1
  High = 2
  Low = 0
  MaxChunk = 2
  AckUnit = 1
  StartSeqs <- FreshOnly
  MaxEmit = 4
  CloneMayFail = FALSE
INVARIANTS TeeIsSound
PROPERTIES SessionRecovers
CHECK_DEADLOCK FALSE
