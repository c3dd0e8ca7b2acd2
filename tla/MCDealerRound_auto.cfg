CONSTANTS
  Player = {p1}
  Bet = {b1}
  Round = {1, 2, 3}
  Result = {res1, res2}
  Target <- ComeTargets
  Kind <- ComeKinds
  Amount = {10}
  Payout <- ComeGame
  HasWorkingBets = TRUE
  LateEvents = TRUE
  Grant = {20}
  Delta = {}
  MaxIssued = 20
  MaxFunds = 20
  MaxStake = 30
  NoRound = NoRound
  NoResult = NoResult
  AutoOpen = TRUE
  BetTimer = TRUE
  AutoClose = TRUE
  Prompt = TRUE
SPECIFICATION FairDealerSpec
PROPERTIES StayingBetsRide SecondRoundByTimer BetTimerCloses AutoOpenUnlessTwo
CHECK_DEADLOCK FALSE
