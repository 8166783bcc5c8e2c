SPECIFICATION SpecAll
CONSTANTS
  Graphs <- CCGraphs
  Thread = {t1, t2}
  LocalSize = 1
  Alphas = {1, 4}
  Betas = {3}
  BitsPerWord = 2
  ChunkWords = 1
  Rounds = {1, 2}
  Deltas = {1, 2, 4}
  kDistInf = 100
  kMaxBin = 100
  One = 60
  Unit = 7680000
  MinDegree = 1
  BlockSize = 2
  WeightRange = {1, 2}
  Comment = Comment
  None = None
INVARIANTS
  BFSRight
  LabelsDescend
  CCAccepted
  SSSPRight
  KernelAccepts
  BuildsGraph
  FilesFaithful
PROPERTIES
  LinksKept
  KernelReturns
