SPECIFICATION DaemonSpec
CONSTANTS
  s1 = s1
  v1 = v1
  v2 = v2
  a1 = a1
  a2 = a2
  m1 = m1
  None = None
  Panes <- TwoPanes
  Windows <- OneWindow
  Creators <- TwoCreators
  Storers <- OneStorer
  MaxSessions = 2
  Sessions <- OneSession
  RingCap = 2
  MaxChunk = 2
  MaxEmit = 3
  MaxTries = 2
  Fds <- LowFds
  MaxPlanned = 4
INVARIANTS SuccessorInherits ShellsOutliveHandover PanesAreTrue
PROPERTIES HandoffIsInvisible NobodyHangs CheckpointsAreSound
CHECK_DEADLOCK FALSE
