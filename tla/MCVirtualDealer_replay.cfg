SPECIFICATION VirtualSpec
CONSTANTS
  Game <- Games
  Outcome <- GameOutcome
  AutoTrigger = TRUE
  ActionTimer = TRUE
  MaxSeries = 2
  MaxLog = 5
  MaxDraws = 2
  MaxCloses = 1
  MaxRestarts = 1
  MaxResends = 0
CHECK_DEADLOCK FALSE
INVARIANTS ReplayMatches
