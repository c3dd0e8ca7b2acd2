CONSTANTS
  Tab = {"t1"}
  Mirror = {"d1"}
  SeatsAtTable = 1
  Meetings <- FewMeetings
  SoloGame <- SoloGames
  StepResult <- SoloSteps
  MaxRows = 6
  MaxChanges = 3
  MaxSteps = 2
  MaxReloads = 1
  Data = {d1, d2}
  EndsSeries = {d2}
  Delays = {TRUE, FALSE}
  Solo = TRUE
  MaxPresses = 3
  MaxSeries = 2
  MaxFixes = 2
  MaxDeals = 2
  Shows <- FewShows
  Modes <- TwoModes
  MaxTotal = 5
  ShortTotal = 2
  AfterEnd = FALSE
  MaxNews = 4
  MaxMounts = 2
  BuyIn = 1
  Chips = {1}
  Pays = {2}
  MaxRound = 2
  MaxDealer = 4
  MaxBets = 2
  MaxSlip = 2
  MaxLosses = 1
CHECK_DEADLOCK FALSE
SPECIFICATION PagesSpec
INVARIANTS RevealsTheCommitted
