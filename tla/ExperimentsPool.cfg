SPECIFICATION SpecAll
CONSTANTS
  Programs <- MCPrograms
  Figures <- MCFigures
  MaxFigures = 1
  Evaluations = {}
  MissingFiles = {{}}
INVARIANT
  PoolAsConfigured
CHECK_DEADLOCK FALSE
