SPECIFICATION FairSpec
CONSTANTS
  n1 = n1
  s1 = s1
  t1 = t1
  r1 = r1
  c1 = c1
  None = None
  Used = Used
  StreamIds <- OneStream
  HostCommands = {c1}
  EventTopics = {t1}
  ResourceHandles = {r1}
  Nodes = {n1}
  SubscriptionIds = {s1}
  MaxIds = 5
  MaxPending = 2
  MaxSubscriptions = 1
  MaxActiveStreams = 2
  MaxStreamsPerSession = 2
  MaxDomOwnedNodes = 1
  MaxStreamTotalBytes = 2
  MaxRevision = 2
  MaxChunks = 2
  MaxInFlight = 2
  Traffics <- Kinds
INVARIANTS RefusalsAreRaces EndsAgree
PROPERTIES ClosesBoth
CHECK_DEADLOCK FALSE
