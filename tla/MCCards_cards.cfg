SPECIFICATION CardsSpec
CONSTANTS
  Plays <- FewPlays
  ShoeCards = 22
  FirstCardBurn = TRUE
  AutoAdvance = TRUE
  DragonThreshold = 3
  Sittings <- FewSittings
  DecksOfCards = 52
  MaxPressed = 1
CHECK_DEADLOCK FALSE
INVARIANTS CardsPay RecordByTheRules CountsFollowHands
PROPERTIES TurnsInOrder
