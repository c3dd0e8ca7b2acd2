--------------------------------- MODULE Craps ---------------------------------
(***************************************************************************)
(* The craps module: the pass-line state machine rebuilt from the rolls,   *)
(* the dealer's entry with its automatic new shooter, corrections of the   *)
(* history, the order in which the dice go round, and the settlement of    *)
(* every bet of the catalogue.                                             *)
(*                                                                         *)
(* One bet is followed through the rounds as the platform carries it: a    *)
(* bet that stays becomes working, a working bet rides into the next round *)
(* whatever became of it (Platform.tla).  The counters that are only shown (table statistics,    *)
(* hard ways, rolls since the point) are left out.                         *)
(***************************************************************************)
EXTENDS Integers, Sequences, FiniteSets, SequencesExt, Lists

CONSTANTS
  Seat,         \* players
  NoSeat,
  Dice,         \* rolls that are entered: [total, hard], hard of "hard", "easy", "unknown"
  Wager,        \* bets that are placed: [kind, target, line], target 0 without a number
  Stake,        \* amounts of a bet
  CrapsRules,   \* autoNewShooter, trackAllTallSmall, bar, placeOnComeOut, hornHigh, vigOnWin, field2, field12, fire
  MaxRolls,     \* bound: rolls in the log
  MaxShooters,  \* bound: SERIES_STARTED
  MaxChanges,   \* bound: undone, deleted and edited rolls
  MaxMoves      \* bound: joins, removals, assignments and passes of the dice

Point == {4, 5, 6, 8, 9, 10}
Natural == {7, 11}
CrapsTotal == {2, 3, 12}
Lines == {"none", "pass", "come", "dont_pass", "dont_come"}

\* The bets of the catalogue: on a number of the felt, of one roll, and the others.
PlaceLike == {"place", "buy", "lay", "hard"}
RoundKind == {"field", "any_seven", "any_craps", "two", "twelve", "three", "eleven", "horn", "ce",
              "horn_high_2", "horn_high_3", "horn_high_11", "horn_high_12"}
BetId == PlaceLike \cup RoundKind
           \cup {"pass", "dont_pass", "come", "dont_come", "pass_odds", "dont_odds",
                 "fire", "ats_small", "ats_tall", "ats_all"}

ASSUME DiceAssumption == Dice \subseteq [total: 2 .. 12, hard: {"hard", "easy", "unknown"}]
ASSUME WagerAssumption ==
  \A w \in Wager : /\ w \in [kind: BetId, target: Point \cup {0}, line: Lines]
                   /\ w.target # 0 => w.kind \in PlaceLike
ASSUME StakeAssumption == Stake \subseteq Nat \ {0}
ASSUME SeatAssumption == NoSeat \notin Seat
\* rulesSchema; the payments of the fire bet are any numbers.
ASSUME CrapsRulesAssumption ==
  /\ CrapsRules.bar \in {2, 12}
  /\ {CrapsRules.autoNewShooter, CrapsRules.trackAllTallSmall, CrapsRules.placeOnComeOut,
      CrapsRules.hornHigh, CrapsRules.vigOnWin} \subseteq BOOLEAN
ASSUME CrapsBoundAssumption ==
  MaxRolls \in Nat /\ MaxShooters \in Nat /\ MaxChanges \in Nat /\ MaxMoves \in Nat

\* A series started in the middle of a hand; the dice passed between a seven-out and
\* the automatic series that follows it.
CrapsMishap == {"midHand", "passed"}

VARIABLES
  source,     \* participation.outcomeSource
  board,      \* phase, point, shooter and results of CrapsState
  series,     \* rolls in the log when the current series started
  due,        \* the dealer's client is about to send SERIES_STARTED {auto}
  order,      \* shooterOrder
  shooting,   \* currentShooterId
  slip,       \* the bet that is followed, or NoSlip
  shooters, changes, moves,
  seated,     \* history: players who joined and were not removed
  thrower,    \* history: who had the dice at the last roll
  clumsy      \* history: what went amiss, of CrapsMishap

diceVars == <<order, shooting, seated>>
boundVars == <<shooters, changes, moves>>
crapsVars == <<source, board, series, due, diceVars, slip, boundVars, thrower, clumsy>>

-----------------------------------------------------------------------------
(* The pass-line state machine *)

NoRolls == [rolls |-> 0, points |-> {}, totals |-> {}]
EmptyBoard == [phase |-> "come_out", point |-> 0, shooter |-> NoRolls, rolls |-> <<>>]

\* classifyRoll: what a total decides, given phase and point.
Decision(total, phase, point) ==
  CASE phase = "come_out" /\ total \in Natural    -> "natural"
    [] phase = "come_out" /\ total \in CrapsTotal -> "craps"
    [] phase = "come_out" /\ total \in Point      -> "point_established"
    [] phase = "point" /\ total = point           -> "point_made"
    [] phase = "point" /\ total = 7               -> "seven_out"
    [] OTHER                                      -> "none"

\* nextPhaseAndPoint
Puck(decision, total, phase, point) ==
  CASE decision = "point_established"            -> <<"point", total>>
    [] decision \in {"point_made", "seven_out"} -> <<"come_out", 0>>
    [] OTHER                                     -> <<phase, point>>

\* applyRollToShooter: the rolls, the points made and the totals seen.
AddToShooter(sh, decision, total, point) ==
  [rolls  |-> sh.rolls + 1,
   points |-> IF decision = "point_made" THEN sh.points \cup {point} ELSE sh.points,
   totals |-> IF CrapsRules.trackAllTallSmall THEN sh.totals \cup {total} ELSE sh.totals]

\* buildRollRecord for roll d after the rolls of b.
AddRoll(b, d) ==
  LET decision == Decision(d.total, b.phase, b.point)
      puck == Puck(decision, d.total, b.phase, b.point)
  IN [phase   |-> puck[1],
      point   |-> puck[2],
      shooter |-> AddToShooter(b.shooter, decision, d.total, b.point),
      rolls   |-> Append(b.rolls, [total |-> d.total, hard |-> d.hard, round |-> d.round,
                                   phase |-> b.phase, before |-> b.point, decision |-> decision])]

\* Faulty variant: only the last roll is classified, from the board as it stands.
RebuiltFromBoard(rs) ==
  IF rs = <<>> THEN EmptyBoard ELSE AddRoll([board EXCEPT !.rolls = Front(rs)], Last(rs))

\* rebuildFromResults: all rolls are classified again, from a come-out.
Rebuilt(rs) == FoldLeft(AddRoll, EmptyBoard, rs)

\* resetShooterScope keeps the rolls.
ResetShooter(b) == [b EXCEPT !.phase = "come_out", !.point = 0, !.shooter = NoRolls]

-----------------------------------------------------------------------------
(* The order of the shooters *)

\* nextShooterInOrder: the next one round the table, the first if s has left.
NextShooter(s) ==
  IF order = <<>> THEN NoSeat
  ELSE IF s \notin ToSet(order) THEN order[1]
  ELSE LET i == CHOOSE i \in DOMAIN order : order[i] = s IN order[(i % Len(order)) + 1]

-----------------------------------------------------------------------------
(* Settlement: bet b, roll d, the board before and after the event *)

Win(b, num, den) ==
  [outcome |-> "win", returned |-> b.amount + ((b.amount * num) \div den), target |-> b.target]
Lose(b) == [outcome |-> "lose", returned |-> 0, target |-> b.target]
Push(b) == [outcome |-> "push", returned |-> b.amount, target |-> b.target]
StayOn(b, t) == [outcome |-> "stay", returned |-> 0, target |-> t]
Stay(b) == StayOn(b, b.target)

Resolve(b, wins, loses, num, den) ==
  IF wins THEN Win(b, num, den) ELSE IF loses THEN Lose(b) ELSE Stay(b)

Decided(y) == IF y.rolls = <<>> THEN "none" ELSE Last(y.rolls).decision

TrueNum(p) == CASE p \in {4, 10} -> 2 [] p \in {5, 9} -> 3 [] p \in {6, 8} -> 6
TrueDen(p) == CASE p \in {4, 10} -> 1 [] p \in {5, 9} -> 2 [] p \in {6, 8} -> 5

\* placeOffOnComeOut
PlaceOff(b, x) == x.phase = "come_out" /\ ~b.working /\ ~CrapsRules.placeOnComeOut
\* oddsOffOnComeOut
OddsOff(b, x) == x.phase = "come_out" /\ ~b.working /\ b.line \in {"come", "dont_come"}

SettlePass(b, d, x, y) ==
  IF x.phase = "come_out"
    THEN Resolve(b, d.total \in Natural, d.total \in CrapsTotal, 1, 1)
    ELSE Resolve(b, Decided(y) = "point_made", Decided(y) = "seven_out", 1, 1)

SettleDontPass(b, d, x, y) ==
  IF x.phase = "come_out"
    THEN IF d.total = CrapsRules.bar THEN Push(b)
         ELSE Resolve(b, d.total \in CrapsTotal, d.total \in Natural, 1, 1)
    ELSE Resolve(b, Decided(y) = "seven_out", Decided(y) = "point_made", 1, 1)

\* Faulty variant: a come bet that has travelled is still settled as a new one.
SettleComeInPlace(b, d) ==
  CASE d.total \in Natural    -> Win(b, 1, 1)
    [] d.total \in CrapsTotal -> Lose(b)
    [] OTHER                  -> StayOn(b, d.total)

SettleCome(b, d) ==
  CASE b.target = 0 /\ d.total \in Natural    -> Win(b, 1, 1)
    [] b.target = 0 /\ d.total \in CrapsTotal -> Lose(b)
    [] b.target = 0 /\ d.total \in Point      -> StayOn(b, d.total)
    [] OTHER -> Resolve(b, d.total = b.target, d.total = 7, 1, 1)

SettleDontCome(b, d) ==
  CASE b.target = 0 /\ d.total \in Natural      -> Lose(b)
    [] b.target = 0 /\ d.total = CrapsRules.bar -> Push(b)
    [] b.target = 0 /\ d.total \in CrapsTotal \ {CrapsRules.bar} -> Win(b, 1, 1)
    [] b.target = 0 /\ d.total \in Point        -> StayOn(b, d.total)
    [] OTHER -> Resolve(b, d.total = 7, d.total = b.target, 1, 1)

\* All odds follow the point of the table, those of a come bet too.
SettleOdds(b, x, y, pass) ==
  LET p == x.point IN
  IF OddsOff(b, x) \/ p = 0 THEN Stay(b)
  ELSE IF pass
    THEN Resolve(b, Decided(y) = "point_made", Decided(y) = "seven_out", TrueNum(p), TrueDen(p))
    ELSE Resolve(b, Decided(y) = "seven_out", Decided(y) = "point_made", TrueDen(p), TrueNum(p))

AtLeastOne(n) == IF n < 1 THEN 1 ELSE n

\* settlePlaceLike, mode place; 7/5 and 7/6 are exact here.
SettlePlace(b, d, x) ==
  IF PlaceOff(b, x) THEN Stay(b)
  ELSE CASE b.target \in {4, 10} -> Resolve(b, d.total = b.target, d.total = 7, 9, 5)
         [] b.target \in {5, 9}  -> Resolve(b, d.total = b.target, d.total = 7, 7, 5)
         [] b.target \in {6, 8}  -> Resolve(b, d.total = b.target, d.total = 7, 7, 6)

SettleBuy(b, d, x) ==
  LET vig == IF CrapsRules.vigOnWin THEN 0 ELSE AtLeastOne(b.amount \div 20)
      s == Resolve(b, d.total = b.target, d.total = 7, TrueNum(b.target), TrueDen(b.target))
  IN IF PlaceOff(b, x) THEN Stay(b)
     ELSE IF s.outcome = "win" THEN [s EXCEPT !.returned = @ - vig] ELSE s

SettleLay(b, d, x) ==
  LET s == Resolve(b, d.total = 7, d.total = b.target, TrueDen(b.target), TrueNum(b.target))
      vig == IF CrapsRules.vigOnWin THEN AtLeastOne((s.returned - b.amount) \div 20) ELSE 0
  IN IF PlaceOff(b, x) THEN Stay(b)
     ELSE IF s.outcome = "win" THEN [s EXCEPT !.returned = @ - vig] ELSE s

\* A total of unknown hardness leaves the bet where it is.
SettleHard(b, d, x) ==
  IF PlaceOff(b, x) THEN Stay(b)
  ELSE Resolve(b, d.total = b.target /\ d.hard = "hard",
               d.total = 7 \/ (d.total = b.target /\ d.hard = "easy"),
               IF b.target \in {4, 10} THEN 7 ELSE 9, 1)

SettleField(b, d) ==
  Resolve(b, d.total \in {2, 3, 4, 9, 10, 11, 12}, TRUE,
          CASE d.total = 2 -> CrapsRules.field2 [] d.total = 12 -> CrapsRules.field12 [] OTHER -> 1, 1)

\* The propositions of one roll: the totals that win and what they pay to 1.
Prop == [any_seven |-> <<{7}, 4>>, any_craps |-> <<CrapsTotal, 7>>, two |-> <<{2}, 30>>,
         twelve |-> <<{12}, 30>>, three |-> <<{3}, 15>>, eleven |-> <<{11}, 15>>]

SettleProp(b, d) == Resolve(b, d.total \in Prop[b.kind][1], TRUE, Prop[b.kind][2], 1)

\* settleFire: the tier of the points made, at a seven-out or with all six.
SettleFire(b, y) ==
  LET n == Cardinality(y.shooter.points) IN
  IF n = 6 \/ (n >= 4 /\ Decided(y) = "seven_out")
    THEN Win(b, CrapsRules.fire[n], 1)
    ELSE IF Decided(y) = "seven_out" THEN Lose(b) ELSE Stay(b)

SettleAts(b, d, y) ==
  LET need == CASE b.kind = "ats_small" -> 2 .. 6 [] b.kind = "ats_tall" -> 8 .. 12
                [] b.kind = "ats_all" -> (2 .. 12) \ {7}
  IN IF d.total = 7 /\ Decided(y) = "seven_out" THEN Lose(b)
     ELSE Resolve(b, need \subseteq y.shooter.totals, FALSE, IF b.kind = "ats_all" THEN 175 ELSE 34, 1)

\* settleHornLike: what the units pay, on top of the whole stake.
HornPays(t, ce) ==
  CASE t \in {2, 12} -> 31 [] t \in {3, 11} -> (IF ce THEN 8 ELSE 16) [] OTHER -> 0

HornHigh == [horn_high_2 |-> 2, horn_high_3 |-> 3, horn_high_11 |-> 11, horn_high_12 |-> 12]

SettleHorn(b, d) ==
  LET pays == HornPays(d.total, b.kind = "ce")
              + (IF b.kind \in DOMAIN HornHigh /\ d.total = HornHigh[b.kind] THEN 2 ELSE 0)
  IN Resolve(b, pays > 0, TRUE, pays, IF b.kind = "ce" THEN 2 ELSE 4)

SettleCraps(b, d, x, y) ==
  CASE b.kind = "pass"      -> SettlePass(b, d, x, y)
    [] b.kind = "dont_pass" -> SettleDontPass(b, d, x, y)
    [] b.kind = "come"      -> SettleCome(b, d)
    [] b.kind = "dont_come" -> SettleDontCome(b, d)
    [] b.kind = "pass_odds" -> SettleOdds(b, x, y, TRUE)
    [] b.kind = "dont_odds" -> SettleOdds(b, x, y, FALSE)
    [] b.kind = "place"     -> SettlePlace(b, d, x)
    [] b.kind = "buy"       -> SettleBuy(b, d, x)
    [] b.kind = "lay"       -> SettleLay(b, d, x)
    [] b.kind = "hard"      -> SettleHard(b, d, x)
    [] b.kind = "field"     -> SettleField(b, d)
    [] b.kind \in DOMAIN Prop -> SettleProp(b, d)
    [] b.kind = "fire"      -> SettleFire(b, y)
    [] b.kind \in {"ats_small", "ats_tall", "ats_all"} -> SettleAts(b, d, y)
    [] b.kind \in {"horn", "ce"} \cup DOMAIN HornHigh -> SettleHorn(b, d)

-----------------------------------------------------------------------------
(* The bet that is followed *)

NoSlip == [kind |-> "none", at |-> "none"]

\* The bet as settleRound leaves it: applyCarryBets makes a staying bet working.
SettleSlip(s, d, x, y) ==
  LET r == SettleCraps(s, d, x, y)
  IN [s EXCEPT !.from = s.target, !.target = r.target, !.outcome = r.outcome,
               !.working = @ \/ r.outcome = "stay", !.at = "settled"]

\* reverseSettlementForRound: the round is closed again, target and working stay.
Unsettled(s) == [s EXCEPT !.outcome = "none", !.at = "closed"]

InRound == slip.at \in {"open", "closed"}

\* The roll that settled the bet.
SettlingRoll(i) ==
  slip.at = "settled" /\ board.rolls[i].round /\ \A j \in DOMAIN board.rolls : j > i => ~board.rolls[j].round

\* allowedWhen, which reads the default rules and not those of the table.
AllowedWhen(kind) ==
  CASE kind \in {"pass", "dont_pass"} -> board.phase = "come_out"
    [] kind \in {"come", "dont_come"} -> board.phase = "point"
    [] kind \in {"fire", "ats_small", "ats_tall", "ats_all"} -> board.shooter.rolls = 0
    [] OTHER -> TRUE

\* defaultWorking: how the player's view places a bet.
DefaultWorking(kind) ==
  CASE kind \in RoundKind -> FALSE
    [] kind \in PlaceLike /\ board.phase = "come_out" -> CrapsRules.placeOnComeOut
    [] OTHER -> TRUE

-----------------------------------------------------------------------------
CrapsInit ==
  /\ source \in {"physical", "virtual"}
  /\ board = EmptyBoard
  /\ series = 0 /\ due = FALSE
  /\ order = <<>> /\ shooting = NoSeat /\ seated = {}
  /\ slip = NoSlip
  /\ shooters = 0 /\ changes = 0 /\ moves = 0
  /\ thrower = NoSeat /\ clumsy = {}

(* Rolls *)

Entry(d) == [total |-> d.total, hard |-> d.hard, round |-> InRound]

Rolled(d) ==
  /\ Len(board.rolls) < MaxRolls
  /\ board' = Rebuilt(Append(board.rolls, Entry(d)))
  /\ slip' = IF InRound THEN SettleSlip(slip, d, board, board') ELSE slip
  /\ thrower' = shooting
  /\ UNCHANGED <<source, series, diceVars, boundVars, clumsy>>

\* crapsConfirm, autoSeries: what the dealer's screen shows of roll d.
SevenOutShown(d) == Decision(d.total, board.phase, board.point) = "seven_out"

\* executeConfirm: the entry closes the round and records the roll, the series of
\* the next shooter follows.
ConfirmRoll(d) ==
  /\ source = "physical" /\ ~due
  /\ Rolled(d)
  /\ due' = (CrapsRules.autoNewShooter /\ SevenOutShown(d))

\* A chip of the totals, Seven Out and the picker's own commit record past the round and
\* past the series: a bet that is open stays open, and no next shooter follows.
QuickRoll(d) ==
  LET closed == slip.at = "closed" IN
  /\ source = "physical" /\ ~due
  /\ Len(board.rolls) < MaxRolls
  /\ board' = Rebuilt(Append(board.rolls, [total |-> d.total, hard |-> d.hard, round |-> closed]))
  /\ slip' = IF closed THEN SettleSlip(slip, d, board, board') ELSE slip
  /\ thrower' = shooting
  /\ UNCHANGED <<source, series, due, diceVars, boundVars, clumsy>>

\* crapsVirtualStep
VirtualRoll(d) == source = "virtual" /\ Rolled(d) /\ UNCHANGED due

(* Series *)

\* Faulty variant: the dice stay where they are.
RotateNever == shooting

\* rotateShooterAfterSevenOut, skipped while nobody is in the order.
Rotate == IF order = <<>> THEN shooting ELSE NextShooter(shooting)

SeriesOnBoard ==
  /\ shooters < MaxShooters /\ shooters' = shooters + 1
  /\ board' = ResetShooter(board)
  /\ series' = Len(board.rolls)

\* SERIES_STARTED {auto} after a seven-out.
AutoSeries ==
  /\ due /\ due' = FALSE
  /\ SeriesOnBoard
  /\ shooting' = Rotate
  /\ clumsy' = clumsy \ {"passed"}
  /\ UNCHANGED <<source, order, seated, slip, changes, moves, thrower>>

\* The dealer starts a new shooter by hand, at any time.
NewShooter ==
  /\ source = "physical" /\ ~due
  /\ SeriesOnBoard
  /\ clumsy' = IF board.phase = "point" THEN clumsy \cup {"midHand"} ELSE clumsy
  /\ UNCHANGED <<source, due, diceVars, slip, changes, moves, thrower>>

\* A virtual series ends, its board with it, and the next one starts.
RotateVirtualSeries ==
  /\ source = "virtual"
  /\ shooters < MaxShooters /\ shooters' = shooters + 1
  /\ board' = EmptyBoard /\ series' = 0
  /\ order' = <<>> /\ shooting' = NoSeat
  /\ clumsy' = IF board.phase = "point" THEN clumsy \cup {"midHand"} ELSE clumsy
  /\ UNCHANGED <<source, due, seated, slip, changes, moves, thrower>>

(* Corrections: rolls of the current series, on physical tables *)

Corrects(i) ==
  /\ source = "physical" /\ ~due
  /\ i > series
  /\ changes < MaxChanges /\ changes' = changes + 1
  /\ UNCHANGED <<source, series, due, diceVars, shooters, moves, thrower, clumsy>>

Without(i) ==
  /\ board' = Rebuilt(RemoveAt(board.rolls, i))
  /\ slip' = IF SettlingRoll(i) THEN Unsettled(slip) ELSE slip

\* canUndoResult: refused when a later round has a bet.
UndoRoll ==
  LET last == Len(board.rolls) IN
  /\ last > 0 /\ Corrects(last)
  /\ ~(InRound /\ board.rolls[last].round)
  /\ Without(last)

DeleteRoll(i) == Corrects(i) /\ Without(i)

\* An edit from the history dialog takes the settlement back and settles nothing
\* (ResultEditedInDialog of Platform); the bet waits for the next roll.
EditRoll(i, d) ==
  /\ Corrects(i)
  /\ board' = Rebuilt([board.rolls EXCEPT ![i].total = d.total, ![i].hard = d.hard])
  /\ slip' = IF SettlingRoll(i) THEN Unsettled(slip) ELSE slip

(* Players and the dice *)

Moves == moves < MaxMoves /\ moves' = moves + 1

\* PLAYER_JOINED of a player who is new at the table.
SeatJoins(p) ==
  /\ Moves /\ p \notin seated
  /\ seated' = seated \cup {p}
  /\ order' = IF p \in ToSet(order) THEN order ELSE Append(order, p)
  /\ shooting' = IF shooting = NoSeat THEN p ELSE shooting
  /\ UNCHANGED <<source, board, series, due, slip, shooters, changes, thrower, clumsy>>

\* PLAYER_REMOVED: the dice go to the first of the order.
SeatLeaves(p) ==
  /\ Moves /\ ~due /\ p \in seated
  /\ seated' = seated \ {p}
  /\ order' = Selection(order, Seat \ {p})
  /\ shooting' = IF shooting # p THEN shooting ELSE IF order' = <<>> THEN NoSeat ELSE order'[1]
  /\ UNCHANGED <<source, board, series, due, slip, shooters, changes, thrower, clumsy>>

\* TURN_ASSIGNED by the dealer
AssignShooter(p) ==
  /\ Moves /\ ~due /\ p \in seated
  /\ shooting' = p
  /\ UNCHANGED <<source, board, series, due, order, seated, slip, shooters, changes, thrower, clumsy>>

\* PLAYER_ACTION pass_dice: ignored while a point is on; it may arrive between a
\* seven-out and the series that follows it.
PassDice ==
  /\ Moves /\ shooting # NoSeat /\ board.phase = "come_out"
  /\ shooting' = NextShooter(shooting)
  /\ clumsy' = IF due THEN clumsy \cup {"passed"} ELSE clumsy
  /\ UNCHANGED <<source, board, series, due, order, seated, slip, shooters, changes, thrower>>

(* The bet *)

SlipOnly == UNCHANGED <<source, board, series, due, diceVars, boundVars, thrower, clumsy>>

\* place of a payload of buildPlacePayload.
PlaceWager(w, n) ==
  /\ slip = NoSlip
  /\ slip' = [kind |-> w.kind, target |-> w.target, line |-> w.line, amount |-> n,
              working |-> DefaultWorking(w.kind), asked |-> FALSE, from |-> w.target, outcome |-> "none", at |-> "open"]
  /\ SlipOnly

\* A zone of the felt: every bet without a number, and the hard ways of the props.
TapZone(w, n) ==
  /\ AllowedWhen(w.kind)
  /\ w.kind \notin {"place", "buy", "lay", "pass_odds", "dont_odds"}
  /\ w.kind = "hard" => w.target \in {4, 6, 8, 10}
  /\ w.kind \in DOMAIN HornHigh => CrapsRules.hornHigh
  /\ PlaceWager(w, n)

\* A short press of a place box.
TapBox(w, n) == w.kind = "place" /\ w.target # 0 /\ AllowedWhen(w.kind) /\ PlaceWager(w, n)

\* A long press of a place box opens the menu of its number, with Hard 5 and Hard 9 too.
TapMenu(w, n) ==
  /\ w.kind \in {"buy", "lay", "hard"} /\ w.target # 0
  /\ AllowedWhen(w.kind)
  /\ PlaceWager(w, n)

\* The odds appear beside a line bet of the player and ask nothing else, not even for a point.
TapOdds(w, n) ==
  /\ \/ w.kind = "pass_odds" /\ w.line \in {"pass", "come"}
     \/ w.kind = "dont_odds" /\ w.line \in {"dont_pass", "dont_come"}
  /\ PlaceWager(w, n)

\* BETS_OPENED: a working bet rides into the new round, any other is over.
Ride ==
  /\ slip.at = "settled"
  /\ slip' = IF slip.working THEN [slip EXCEPT !.at = "open", !.outcome = "none"] ELSE NoSlip
  /\ SlipOnly

\* The chips on a place box are what can be selected: bets on the number, and a come bet
\* that has travelled to it.
Selectable(s) == s.kind \in PlaceLike \/ (s.kind = "come" /\ s.target # 0)

\* BET_UPDATED {working}; asked tells that the player turned the bet on.
ToggleWorking ==
  /\ slip.at = "open" /\ Selectable(slip)
  /\ slip' = [slip EXCEPT !.working = ~slip.working, !.asked = ~slip.working]
  /\ SlipOnly

\* Take down, and Remove of the slip, which asks less.
TakeDown == slip.at = "open" /\ slip' = NoSlip /\ SlipOnly

RollStep == \E d \in Dice : ConfirmRoll(d) \/ QuickRoll(d) \/ VirtualRoll(d)
SeriesStep == AutoSeries \/ NewShooter \/ RotateVirtualSeries
ChangeStep == UndoRoll \/ \E i \in DOMAIN board.rolls : DeleteRoll(i) \/ \E d \in Dice : EditRoll(i, d)
SeatStep == PassDice \/ \E p \in Seat : SeatJoins(p) \/ SeatLeaves(p) \/ AssignShooter(p)
SlipStep ==
  \/ Ride \/ ToggleWorking \/ TakeDown
  \/ \E w \in Wager, n \in Stake : TapZone(w, n) \/ TapBox(w, n) \/ TapMenu(w, n) \/ TapOdds(w, n)

CrapsNext == RollStep \/ SeriesStep \/ ChangeStep \/ SeatStep \/ SlipStep

CrapsSpec == CrapsInit /\ [][CrapsNext]_crapsVars

-----------------------------------------------------------------------------
(* Properties *)

\* State, and the rolls of the current series are the last ones of the log.
CrapsTypeOK ==
  /\ source \in {"physical", "virtual"}
  /\ board.phase \in {"come_out", "point"} /\ board.point \in Point \cup {0}
  /\ series \in 0 .. Len(board.rolls) /\ Len(board.rolls) <= MaxRolls
  /\ board.shooter.points \subseteq Point /\ board.shooter.totals \subseteq 2 .. 12
  /\ due \in BOOLEAN /\ clumsy \subseteq CrapsMishap
  /\ order \in Seq(Seat) /\ shooting \in Seat \cup {NoSeat} /\ seated \subseteq Seat
  /\ slip = NoSlip \/ slip.outcome \in {"none", "win", "lose", "push", "stay"}

Settled(rs, i, j) == \E k \in i + 1 .. j : rs[k].total \in {7, rs[i].total}

\* The rolls that set a point: point numbers before which every point was settled.
PointRolls(rs) ==
  CHOOSE E \in SUBSET DOMAIN rs : \A i \in DOMAIN rs :
    (i \in E) <=> (rs[i].total \in Point /\ \A e \in E : e < i => Settled(rs, e, i - 1))

\* The puck and the decisions of the history are what the rolls alone say, after any
\* correction; only a shooter started in mid-hand shows OFF until the next roll.
PuckFollowsRolls ==
  LET rs == board.rolls
      E == PointRolls(rs)
      On(n) == {e \in E : e <= n /\ ~Settled(rs, e, n)}
  IN /\ \A i \in DOMAIN rs :
          /\ (rs[i].decision = "seven_out") <=> (rs[i].total = 7 /\ On(i - 1) # {})
          /\ (rs[i].decision = "point_made") <=> (\E e \in On(i - 1) : rs[e].total = rs[i].total)
     /\ \/ board.point = (IF On(Len(rs)) = {} THEN 0 ELSE rs[CHOOSE e \in On(Len(rs)) : TRUE].total)
        \/ board.shooter = NoRolls /\ board.point = 0 /\ "midHand" \in clumsy
     /\ (board.phase = "point") <=> (board.point # 0)

-----------------------------------------------------------------------------
(* The resolutions of the bet catalogue, by the decision of roll r *)

Covered == {"pass", "dont_pass", "come", "dont_come", "pass_odds", "dont_odds",
            "place", "buy", "lay", "hard", "field"}

\* Off on the come-out, as the player asked.
OffByRule(s, r) ==
  /\ r.phase = "come_out" /\ ~s.asked
  /\ s.kind \in PlaceLike /\ ~CrapsRules.placeOnComeOut

WinsByRule(s, r) ==
  CASE s.kind = "pass"      -> r.decision \in {"natural", "point_made"}
    [] s.kind = "dont_pass" -> r.decision = "seven_out" \/ (r.decision = "craps" /\ r.total # CrapsRules.bar)
    [] s.kind = "come"      -> IF s.target = 0 THEN r.total \in Natural ELSE r.total = s.target
    [] s.kind = "dont_come" -> IF s.target = 0 THEN r.total \in CrapsTotal \ {CrapsRules.bar} ELSE r.total = 7
    [] s.kind = "pass_odds" -> r.decision = "point_made"
    [] s.kind = "dont_odds" -> r.decision = "seven_out"
    [] s.kind \in {"place", "buy"} -> r.total = s.target
    [] s.kind = "lay"       -> r.total = 7
    [] s.kind = "hard"      -> r.total = s.target /\ r.hard = "hard"
    [] s.kind = "field"     -> r.total \notin 5 .. 8

LosesByRule(s, r) ==
  CASE s.kind = "pass"      -> r.decision \in {"craps", "seven_out"}
    [] s.kind = "dont_pass" -> r.decision \in {"natural", "point_made"}
    [] s.kind = "come"      -> IF s.target = 0 THEN r.total \in CrapsTotal ELSE r.total = 7
    [] s.kind = "dont_come" -> IF s.target = 0 THEN r.total \in Natural ELSE r.total = s.target
    [] s.kind = "pass_odds" -> r.decision = "seven_out"
    [] s.kind = "dont_odds" -> r.decision = "point_made"
    [] s.kind \in {"place", "buy"} -> r.total = 7
    [] s.kind = "lay"       -> r.total = s.target
    [] s.kind = "hard"      -> r.total = 7 \/ (r.total = s.target /\ r.hard = "easy")
    [] s.kind = "field"     -> r.total \in 5 .. 8

OutcomeByRule(s, r) ==
  IF OffByRule(s, r) THEN "stay"
  ELSE IF WinsByRule(s, r) THEN "win"
  ELSE IF LosesByRule(s, r) THEN "lose"
  ELSE IF /\ s.kind \in {"dont_pass", "dont_come"} /\ s.from = 0 /\ r.total = CrapsRules.bar
          /\ s.kind = "dont_pass" => r.decision = "craps" THEN "push"
  ELSE "stay"

\* The platform has the bet on exactly when its player asked for it.
AsAsked(s) == s.kind \in PlaceLike => s.working = s.asked

AsPlaced(s) == [s EXCEPT !.target = s.from]

\* A recorded roll settles the bet as the catalogue says for the phase the log gives
\* that roll, also after corrections.  Left out: a bet that is on although its player
\* never turned it on, and a shooter started in mid-hand.
OutcomesByTheRules ==
  [][InRound /\ slip'.at = "settled" /\ slip.kind \in Covered /\ AsAsked(slip)
       /\ "midHand" \notin clumsy
       => slip'.outcome = OutcomeByRule(AsPlaced(slip'), Last(board'.rolls))]_crapsVars

\* After a seven-out the dice go to the neighbour of the player who threw it, unless
\* the dice were passed on before the series that follows.
DiceGoToNext ==
  [][due /\ ~due' /\ thrower \in ToSet(order) /\ "passed" \notin clumsy
       => LET ring == Append(order, order[1]) IN
          \E i \in DOMAIN order : ring[i] = thrower /\ ring[i + 1] = shooting']_crapsVars
=============================================================================
