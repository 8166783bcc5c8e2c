SPECIFICATION MCSpec
CONSTANTS
  N = 2
  Gradients <- FiveGradients
  P = 2
  Small = 0
  l = 2
  max_iter = 3
  max_newton_iter = 2
  max_num_linesearch = 2
  L = 3
  init_candidates_size = 2
  max_candidates_size = 4
  BlockGrads <- FourGradients
  One = 1000
  InitialEps1 = 100
  Eps = 100
  XL = 2
  nr_class = 3
  Labels <- LabelsInTurn
  Features = 2
  X <- ThreeRows
  Y <- ThreeSigns
  C <- ThreeCosts
  p = 1
  Weights <- ThreeWeights
  MaxDelta = 3
  Threads = {t1, t2}
  NrFold = 2
  MaxTry = 5
INVARIANTS
  SweepsComplete
  CachesFit
  AnswersRight
PROPERTY
  StepsDescend
