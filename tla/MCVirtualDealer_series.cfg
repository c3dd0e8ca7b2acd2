SPECIFICATION FairVirtualSpec
CONSTANTS
  Game <- Games
  Outcome <- GameOutcome
  AutoTrigger = TRUE
  ActionTimer = TRUE
  MaxSeries = 4
  MaxLog = 6
  MaxDraws = 3
  MaxCloses = 2
  MaxRestarts = 1
  MaxResends = 1
CHECK_DEADLOCK FALSE
INVARIANTS DealsCommitted SeriesSealed DealerSurvives
PROPERTIES DealsEnd
