SPECIFICATION SpecAll
CONSTANTS
  Programs <- MCPrograms
  Figures <- MCFigures
  MaxFigures = 2
  Evaluations <- MCEvaluations
  MissingFiles = {{}, {"graph500", "guest"}, {"fragmentation"}}
INVARIANTS
  OwnSignals
  OneAtATime
  HistoryIndependent
  ReportFaithful
PROPERTY
  CampaignEnds
CHECK_DEADLOCK FALSE
