SPECIFICATION FairSpec
CONSTANTS
  c1 = c1
  c2 = c2
  Never = Never
  NoJob = NoJob
  NoSpec = NoSpec
  Idle = Idle
  Names <- NoName
  MaxAuto = 1
  Specs <- FourSpecs
  Callers <- TwoCallers
  Horizon = 1
  MaxBackoff = 2
  MaxTime = 1
  MaxRegs = 2
  MaxRestarts = 1
INVARIANTS FiresAreExact AckIsDurable
PROPERTIES OrphanIsCancelled DueIsFired
CHECK_DEADLOCK FALSE
