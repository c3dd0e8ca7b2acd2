CONSTANTS
  p1 = p1  b1 = b1  b2 = b2  res1 = res1  res2 = res2  res3 = res3
  Player = {p1}
  Bet = {b1, b2}
  Round = {1, 2}
  Result = {res1, res2, res3}
  Target <- RoundTargets
  Kind <- RoundKinds
  Amount = {10}
  Payout <- RoundGame
  HasWorkingBets = FALSE
  LateEvents = FALSE
  Grant = {20}
  Delta <- Deltas
  MaxIssued = 20
  MaxFunds = 20
  MaxStake = 10
  NoRound = NoRound
  NoResult = NoResult
SPECIFICATION RoundGameSpec
INVARIANTS RoundsAgree ChipsReconcile

CHECK_DEADLOCK FALSE
