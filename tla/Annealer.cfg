\* Two threads, one move per thread and temperature step, both modes.
CONSTANTS
  n1 = n1
  n2 = n2
  Blank = Blank
  Files <- ThreeFiles
  Thread = {t1, t2}
  SwapsPerTemp = 3
  TempSteps <- BothModes
  StepCap = 2
SPECIFICATION FairSpec
INVARIANTS BuiltAsWritten PlacementValid SameTemperature CostsRight
PROPERTIES Finishes
\* Until convergence the threads can be left at the barrier: see
\* AnnealerConverge.cfg.
CHECK_DEADLOCK FALSE
