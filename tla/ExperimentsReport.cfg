SPECIFICATION SpecAll
CONSTANTS
  Programs <- MCPrograms
  Figures <- MCFragmented
  MaxFigures = 1
  Evaluations = {}
  MissingFiles = {{}}
INVARIANT
  ReportedAsRun
CHECK_DEADLOCK FALSE
