SPECIFICATION SpecAll
CONSTANTS
  Graphs <- MCGraphs
  NT = 2
  ALPHA = 2
  BETA = 8
  THREAD_BUF_LEN = 1
  MINVECT_SIZE = 2
  Parts = {"bfs"}
CHECK_DEADLOCK FALSE
PROPERTY
  ReturnsValidTree
