SPECIFICATION SeatsSpec
CONSTANTS
  d1 = d1
  d2 = d2
  s1 = s1
  s2 = s2
  s3 = s3
  p1 = p1
  p2 = p2
  Page = {d1, d2}
  Socket = {s1, s2, s3}
  Player = {p1, p2}
  NoSocket = NoSocket
  MaxPlayers = 1
  MaxTokens = 2
  MaxTaps = 2
  MaxCrashes = 1
  MaxJoins = 2
  MaxIssues = 2
  MaxStores = 3
  MaxTurns = 4
CHECK_DEADLOCK FALSE
SYMMETRY RoomSymmetry
CONSTRAINTS OneConcern OneGap
INVARIANTS OneDealer DealerKnows PendingShown AdmittedOnce SeatKept
