SPECIFICATION SpecAll
CONSTANTS
  Graphs <- MCGraphs
  NT = 2
  ALPHA = 1
  BETA = 4
  THREAD_BUF_LEN = 1
  MINVECT_SIZE = 1
  Parts = {"bfs", "build", "seq", "verify", "generate", "main", "bitmap"}
CHECK_DEADLOCK FALSE
INVARIANTS
  AssertsHold
  SearchLevelsRight
  SearchesComplete
  EdgesKept
  VerdictRight
  DriverRight
PROPERTY EveryPartEnds
