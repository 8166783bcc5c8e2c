\* Two threads that run until the design converges.
CONSTANTS
  n1 = n1
  n2 = n2
  Blank = Blank
  Files <- OneFile
  Thread = {t1, t2}
  SwapsPerTemp = 3
  TempSteps <- UntilConverged
  StepCap = 1
SPECIFICATION FairSpec
PROPERTIES ConvergenceEndsRun
CHECK_DEADLOCK FALSE
