SPECIFICATION BetsSpec
CONSTANTS
  p1 = p1
  p2 = p2
  Seat = {p1, p2}
  NoSeat = NoSeat
  Dice <- FewDice
  Wager <- FewWagers
  Stake = {10}
  CrapsRules <- DefaultRules
  MaxRolls = 3
  MaxShooters = 1
  MaxChanges = 1
  MaxMoves = 3
  Evenings <- FewEvenings
  MaxOnFelt = 1
  Face = {2, 5}
  Total = {4, 7}
  MaxWrites = 2
CHECK_DEADLOCK FALSE
INVARIANTS CountsFollowThrows FeltPays
PROPERTIES OutcomesByTheRules DiceGoToNext RollsFromTheDice
CONSTRAINT OneConcern
