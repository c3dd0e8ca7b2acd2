-------------------------------- MODULE Roulette --------------------------------
(***************************************************************************)
(* The roulette module: the wheels and the felt, the dealer's number grid  *)
(* with its keyboard, corrections, the statistics, the player's felt with  *)
(* "Repeat last", and settlement with la partage, en prison and call bets. *)
(*                                                                         *)
(* A pocket is a number, 37 stands for the double zero.  A zone of the     *)
(* felt is the kind of its bet and the pockets that it covers; a call bet  *)
(* covers none itself, and "neighbours" has its pocket.                    *)
(***************************************************************************)
EXTENDS Integers, Sequences, FiniteSets, SequencesExt, FiniteSetsExt, Functions

CONSTANTS
  Evenings,    \* which wheel is spun by which rules, where the ball may land and what is bet
  MaxOnFelt    \* bound: bets of the player on the felt

DoubleZero == 37
Pocket == 0 .. 37
NoSpin == -1
EvenMoney == {"red", "black", "odd", "even", "low", "high"}
CallBets == {"voisins", "tiers", "orphelins", "jeu_zero", "neighbours"}
InsideBets == {"straight", "split", "street", "corner", "six_line", "basket", "top_line"}
BetKinds == InsideBets \cup EvenMoney \cup CallBets \cup {"dozen", "column"}
WheelRules ==
  [wheel : {"european", "american", "french"}, zeroRule : {"none", "la_partage", "en_prison"},
   doublePrison : BOOLEAN, window : Nat, zeroCounts : BOOLEAN, autoConfirm : BOOLEAN]

ASSUME EveningsAssumption ==
  \A e \in Evenings :
    /\ DOMAIN e = {"wheelRules", "landing", "keys", "zones", "stake", "spins", "mends"}
    /\ e.wheelRules \in WheelRules
    /\ e.landing \subseteq Pocket /\ e.keys \subseteq 0 .. 9
    /\ \A z \in e.zones : z.kind \in BetKinds /\ z.pockets \subseteq Pocket
    /\ e.stake \in Nat /\ e.spins \in Nat /\ e.mends \in Nat
ASSUME FeltAssumption == MaxOnFelt \in Nat

VARIABLES
  evening,     \* bound: the member of Evenings that is explored
  spins,       \* spins of the session: id and pocket, or NoSpin
  pending,     \* livePending, or NoSpin
  digits,      \* digitBuffer of the number grid
  mending,     \* id of the spin under edit, or 0
  felt,        \* the player's open bets, oldest first
  betting,     \* status of the betting round: "open", "closed" or "settled"
  repeatable,  \* lastSnapshot of the player's view
  purse,       \* net change of the player's bankroll
  ledger,      \* history: chips staked and not taken back, and chips returned
  spun,        \* spins recorded so far; the last id
  mends        \* corrections so far

gridVars == <<pending, digits, mending>>
feltVars == <<felt, betting, repeatable, purse, ledger>>
rlVars == <<evening, spins, gridVars, feltVars, spun, mends>>

WR == evening.wheelRules
European(rules) == rules.wheel # "american"

-----------------------------------------------------------------------------
(* The wheel *)

EuropeanOrder ==
  <<0, 32, 15, 19, 4, 21, 2, 25, 17, 34, 6, 27, 13, 36, 11, 30, 8, 23, 10, 5, 24, 16, 33, 1, 20, 14,
    31, 9, 22, 18, 29, 7, 28, 12, 35, 3, 26>>
AmericanOrder ==
  <<0, 28, 9, 26, 30, 11, 7, 20, 32, 17, 5, 22, 34, 15, 3, 24, 36, 13, 1, DoubleZero, 27, 10, 25, 29, 12,
    8, 19, 31, 18, 6, 21, 33, 16, 4, 23, 35, 14, 2>>
WheelOrder(rules) == IF European(rules) THEN EuropeanOrder ELSE AmericanOrder
OnWheel(rules) == IF European(rules) THEN 0 .. 36 ELSE Pocket
PlaceOnWheel(p, rules) == CHOOSE i \in DOMAIN WheelOrder(rules) : WheelOrder(rules)[i] = p

IsZero(p) == p \in {0, DoubleZero}
RedNumbers == {1, 3, 5, 7, 9, 12, 14, 16, 18, 19, 21, 23, 25, 27, 30, 32, 34, 36}

\* classifyPocket; "none" for what a zero has not.
ColorOf(p) == CASE IsZero(p) -> "green" [] p \in RedNumbers -> "red" [] OTHER -> "black"
ParityOf(p) == CASE IsZero(p) -> "none" [] p % 2 = 0 -> "even" [] OTHER -> "odd"
RangeOf(p) == CASE IsZero(p) -> "none" [] p <= 18 -> "low" [] OTHER -> "high"
DozenOf(p) == IF IsZero(p) THEN 0 ELSE (p + 11) \div 12
ColumnOf(p) == IF IsZero(p) THEN 0 ELSE ((p - 1) % 3) + 1

\* sectorForPocket
SectorOf(p, rules) ==
  CASE ~European(rules) -> "none"
    [] European(rules) /\ p \in {12, 35, 3, 26, 0, 32, 15} -> "zero"
    [] European(rules) /\ p \in {22, 18, 29, 7, 28, 19, 4, 21, 2, 25} -> "voisins"
    [] European(rules) /\ p \in {27, 13, 36, 11, 30, 8, 23, 10, 5, 24, 16, 33} -> "tiers"
    [] OTHER -> "orphelins"

\* Faulty variant: the neighbours do not go round past the zero.
NeighboursOfRow(p, rules) ==
  {WheelOrder(rules)[i] : i \in {j \in DOMAIN WheelOrder(rules) : PlaceOnWheel(p, rules) - j \in -2 .. 2}}

\* wheelNeighbours with a span of 2
Neighbours(p, rules) ==
  LET n == Len(WheelOrder(rules))
  IN {WheelOrder(rules)[((PlaceOnWheel(p, rules) + d - 1) % n) + 1] : d \in -2 .. 2}

-----------------------------------------------------------------------------
(* The felt *)

Splits(rules) ==
  {{n, n + 1} : n \in {k \in 1 .. 36 : ColumnOf(k) < 3}} \cup {{n, n + 3} : n \in 1 .. 33}
    \cup (IF European(rules) THEN {{0, 1}, {0, 2}, {0, 3}}
          ELSE {{0, DoubleZero}, {0, 1}, {0, 2}, {DoubleZero, 2}, {DoubleZero, 3}})
Streets(rules) ==
  {3 * r - 2 .. 3 * r : r \in 1 .. 12}
    \cup (IF European(rules) THEN {{0, 1, 2}, {0, 2, 3}}
          ELSE {{0, DoubleZero, 2}, {0, 1, 2}, {DoubleZero, 2, 3}})
Corners(rules) ==
  {{n, n + 1, n + 3, n + 4} : n \in {k \in 1 .. 32 : ColumnOf(k) < 3}}
    \cup (IF European(rules) THEN {0 .. 3} ELSE {{0, DoubleZero, 1, 2}, {0, DoubleZero, 2, 3}})
SixLines == {3 * r - 2 .. 3 * r + 3 : r \in 1 .. 11}

ZoneOf(kind, pockets) == [kind |-> kind, pockets |-> pockets]
Covering(kind, Holds(_)) == ZoneOf(kind, {p \in 1 .. 36 : Holds(p)})

\* allInsideTargets
InsideZones(rules) ==
  {ZoneOf("straight", {p}) : p \in OnWheel(rules)}
    \cup {ZoneOf("split", s) : s \in Splits(rules)} \cup {ZoneOf("street", s) : s \in Streets(rules)}
    \cup {ZoneOf("corner", s) : s \in Corners(rules)} \cup {ZoneOf("six_line", s) : s \in SixLines}
    \cup (IF European(rules) THEN {ZoneOf("basket", 0 .. 3)}
          ELSE {ZoneOf("top_line", (0 .. 3) \cup {DoubleZero})})

\* enumerateFeltZones
FeltZones(rules) ==
  InsideZones(rules)
    \cup {Covering("dozen", LAMBDA p : DozenOf(p) = n) : n \in 1 .. 3}
    \cup {Covering("column", LAMBDA p : ColumnOf(p) = n) : n \in 1 .. 3}
    \cup {Covering(k, LAMBDA p : k \in {ColorOf(p), ParityOf(p), RangeOf(p)}) : k \in EvenMoney}
    \cup (IF ~European(rules) THEN {}
          ELSE {ZoneOf(k, {}) : k \in CallBets \ {"neighbours"}} \cup {ZoneOf("neighbours", {p}) : p \in 0 .. 36})

\* payoutRatio, to one; the call bets are itemised.
Ratio(kind) ==
  CASE kind = "straight" -> 35 [] kind = "split" -> 17 [] kind = "street" -> 11
    [] kind \in {"corner", "basket"} -> 8 [] kind = "top_line" -> 6 [] kind = "six_line" -> 5
    [] kind \in {"dozen", "column"} -> 2 [] OTHER -> 1

\* callComponents
CallParts(zone, rules) ==
  LET one(sets) == {[pockets |-> s, units |-> 1] : s \in sets}
      two(sets) == {[pockets |-> s, units |-> 2] : s \in sets}
  IN CASE zone.kind = "voisins" -> two({{0, 2, 3}, {25, 26, 28, 29}})
                                     \cup one({{4, 7}, {12, 15}, {18, 21}, {19, 22}, {32, 35}})
       [] zone.kind = "tiers" -> one({{5, 8}, {10, 11}, {13, 16}, {23, 24}, {27, 30}, {33, 36}})
       [] zone.kind = "orphelins" -> one({{1}, {6, 9}, {14, 17}, {17, 20}, {31, 34}})
       [] zone.kind = "jeu_zero" -> one({{0, 3}, {12, 15}, {26}, {32, 35}})
       [] zone.kind = "neighbours" -> one({{p} : p \in Neighbours(CHOOSE p \in zone.pockets : TRUE, rules)})

\* totalCallUnits
CallUnits(kind) == CASE kind = "voisins" -> 9 [] kind = "tiers" -> 6 [] kind = "jeu_zero" -> 4 [] OTHER -> 5

-----------------------------------------------------------------------------
(* Settlement *)

Settling(outcome, returned, profit) == [outcome |-> outcome, returned |-> returned, profit |-> profit]
LostBet(stake) == Settling("lose", 0, -stake)
Pushed(stake) == Settling("push", stake, 0)
WonAt(stake, ratio) == Settling("win", stake + stake * ratio, stake * ratio)
Held == Settling("stay", 0, 0)

\* settleEvenMoney and, for a prisoner at zero, settleRoulette.
SettleEvenMoney(bet, p, rules) ==
  LET hit == p \in bet.pockets
      freed == IF hit THEN Pushed(bet.amount)
               ELSE IF IsZero(p) /\ rules.zeroRule = "en_prison" /\ rules.doublePrison THEN Held ELSE LostBet(bet.amount)
  IN CASE bet.imprisoned -> freed
       [] ~bet.imprisoned /\ hit -> WonAt(bet.amount, 1)
       [] ~bet.imprisoned /\ IsZero(p) /\ rules.zeroRule = "la_partage" ->
            Settling("partial", bet.amount \div 2, (bet.amount \div 2) - bet.amount)
       [] ~bet.imprisoned /\ IsZero(p) /\ rules.zeroRule = "en_prison" -> Held
       [] OTHER -> LostBet(bet.amount)

\* settleCallBet: what is not a multiple of the units is in no part.
SettleCall(bet, p, rules) ==
  LET parts == CallParts(bet, rules)
      unit == bet.amount \div CallUnits(bet.kind)
      hit == {c \in parts : p \in c.pockets}
      ratio(c) == CASE Cardinality(c.pockets) = 1 -> 35 [] Cardinality(c.pockets) = 2 -> 17
                    [] Cardinality(c.pockets) = 3 -> 11 [] OTHER -> 8
      returned == MapThenSumSet(LAMBDA c : unit * c.units * (1 + ratio(c)), hit)
  IN Settling(IF hit # {} THEN "win" ELSE "lose", returned,
              returned - MapThenSumSet(LAMBDA c : unit * c.units, parts))

\* settleRoulette: without a number everything on the felt is lost.
SettleSpin(bet, p, rules) ==
  CASE p = NoSpin -> LostBet(bet.amount)
    [] p # NoSpin /\ bet.kind \in EvenMoney -> SettleEvenMoney(bet, p, rules)
    [] p # NoSpin /\ bet.kind \in CallBets -> SettleCall(bet, p, rules)
    [] OTHER -> IF p \in bet.pockets THEN WonAt(bet.amount, Ratio(bet.kind)) ELSE LostBet(bet.amount)

-----------------------------------------------------------------------------
(* Statistics *)

\* Faulty variant: the window is cut before the void spins are left out.
CountedWithVoids(rs, rules) ==
  SelectSeq(IF rules.window = 0 \/ Len(rs) <= rules.window THEN rs ELSE SubSeq(rs, Len(rs) - rules.window + 1, Len(rs)),
            LAMBDA p : p # NoSpin)

\* countedSpins
Counted(rs, rules) ==
  LET numbers == SelectSeq(rs, LAMBDA p : p # NoSpin)
  IN IF rules.window = 0 \/ Len(numbers) <= rules.window THEN numbers
     ELSE SubSeq(numbers, Len(numbers) - rules.window + 1, Len(numbers))

\* computeStreak: how many values at the end are alike; "none" stands for null.
SameAtEnd(vs) ==
  FoldRight(LAMBDA v, r : IF v = Last(vs) /\ ~r.over THEN [r EXCEPT !.n = @ + 1] ELSE [r EXCEPT !.over = TRUE],
            vs, [n |-> 0, over |-> FALSE]).n
RunAtEnd(vs) == IF vs = <<>> \/ Last(vs) = "none" THEN 0 ELSE SameAtEnd(vs)

\* longestStreak: the first of the longest.
LongestRun(vs) ==
  FoldLeft(LAMBDA s, v : LET n == IF v = "none" THEN 0 ELSE IF v = s.now.value THEN s.now.length + 1 ELSE 1
                             now == [value |-> v, length |-> n]
                         IN [now |-> now, best |-> IF n > s.best.length THEN now ELSE s.best],
           [now |-> [value |-> "none", length |-> 0], best |-> [value |-> "none", length |-> 0]], vs).best

Hits(p, window) == Cardinality({i \in DOMAIN window : window[i] = p})

\* The ranking behind hot and cold: most hits first, then the order of the wheel.
Ranked(window, rules) ==
  FlattenSeq([i \in 1 .. Len(window) + 1 |->
                SelectSeq(WheelOrder(rules), LAMBDA p : Hits(p, window) = Len(window) + 1 - i)])

\* Math.round of a percentage.
Percent(n, d) == IF d = 0 THEN 0 ELSE (200 * n + d) \div (2 * d)

\* rebuildDerived
Derived(rs, rules) ==
  LET window == Counted(rs, rules)
      n == Len(window)
      count(Holds(_)) == Cardinality({i \in 1 .. n : Holds(window[i])})
      zeros == {i \in 1 .. n : IsZero(window[i])}
      denominator == IF rules.zeroCounts THEN n ELSE n - Cardinality(zeros)
      values(Of(_)) == [i \in 1 .. n |-> Of(window[i])]
  IN [color |-> RunAtEnd(values(ColorOf)), parity |-> RunAtEnd(values(ParityOf)), range |-> RunAtEnd(values(RangeOf)),
      longest |-> LongestRun(values(ColorOf)),
      repeats |-> IF n = 0 THEN 0 ELSE SameAtEnd(window) - 1,
      zeroDrought |-> n - Max({0} \cup zeros),
      hot |-> SubSeq(Ranked(window, rules), 1, 5),
      cold |-> SubSeq(Reverse(Ranked(window, rules)), 1, 5),
      colors |-> [c \in {"red", "black", "green"} |-> Percent(count(LAMBDA p : ColorOf(p) = c), n)],
      parities |-> [c \in {"odd", "even"} |-> Percent(count(LAMBDA p : ParityOf(p) = c), denominator)],
      dozens |-> [k \in 1 .. 3 |-> Percent(count(LAMBDA p : DozenOf(p) = k), denominator)],
      sectors |-> [s \in {"zero", "voisins", "tiers", "orphelins", "none"} |-> count(LAMBDA p : SectorOf(p, rules) = s)]]

PocketsOf(entries) == [i \in DOMAIN entries |-> entries[i].pocket]

\* shouldFireColorStreak; the threshold is the default one whatever the table's rules say.
StreakThreshold == 6
FireColorStreak(before, after) ==
  /\ after >= StreakThreshold
  /\ before < StreakThreshold \/ (after - StreakThreshold) \div 2 > (before - StreakThreshold) \div 2

\* deriveRouletteAnimations of a recorded spin
SpinAnimations(before, after, rules) ==
  LET p == Last(after)
      d == Derived(after, rules)
  IN IF p = NoSpin THEN {"no_spin"}
     ELSE {CASE ColorOf(p) = "red" -> "red_win" [] ColorOf(p) = "black" -> "black_win" [] OTHER -> "zero_hit"}
            \cup (IF d.repeats >= 1 THEN {"repeat"} ELSE {})
            \cup (IF FireColorStreak(Derived(before, rules).color, d.color) THEN {"color_streak"} ELSE {})
            \cup (IF d.hot[1] = p THEN {"hot_number"} ELSE {})

-----------------------------------------------------------------------------
(* The felt of the player *)

RouletteInit ==
  /\ evening \in Evenings
  /\ spins = <<>> /\ pending = NoSpin /\ digits = <<>> /\ mending = 0
  /\ felt = <<>> /\ betting = "settled" /\ repeatable = <<>>
  /\ purse = 0 /\ ledger = [staked |-> 0, returned |-> 0]
  /\ spun = 0 /\ mends = 0

\* The platform's BETS_OPENED: bets that stayed join the round.
OpenBetting ==
  /\ betting = "settled" /\ evening.zones # {}
  /\ betting' = "open"
  /\ felt' = [i \in DOMAIN felt |-> [felt[i] EXCEPT !.rides = TRUE]]
  /\ UNCHANGED <<evening, spins, gridVars, repeatable, purse, ledger, spun, mends>>

\* The view keeps the bets as they were when the round closed.
CloseBetting ==
  /\ betting = "open"
  /\ betting' = "closed"
  /\ repeatable' = felt
  /\ UNCHANGED <<evening, spins, gridVars, felt, purse, ledger, spun, mends>>

\* A bet of the slip is declared only without a house bank; the felt itself declares every bet,
\* and the bank takes no chips for a declared one.
OnSlip(kind) == kind \in EvenMoney
Debit(bets) == FoldLeft(LAMBDA n, b : IF b.declared THEN n ELSE n + b.amount, 0, bets)
Staked(bets) == FoldLeft(LAMBDA n, b : n + b.amount, 0, bets)

PutDown(bets) ==
  /\ betting = "open" /\ Len(felt) + Len(bets) <= MaxOnFelt
  /\ felt' = felt \o bets
  /\ purse' = purse - Debit(bets)
  /\ ledger' = [ledger EXCEPT !.staked = @ + Staked(bets)]
  /\ UNCHANGED <<evening, spins, gridVars, betting, repeatable, spun, mends>>

\* A tap on a zone: betPayloadFromZone and tryPlace, or the slip.
PlaceZone(z) ==
  PutDown(<<[kind |-> z.kind, pockets |-> z.pockets, amount |-> evening.stake, imprisoned |-> FALSE,
             declared |-> ~OnSlip(z.kind), rides |-> FALSE]>>)

\* handleRepeatLast: every bet of the snapshot with its target, which marks a prisoner.
RepeatLast ==
  /\ repeatable # <<>>
  /\ PutDown([i \in DOMAIN repeatable |-> [repeatable[i] EXCEPT !.declared = TRUE, !.rides = FALSE]])

\* zoneIdForTarget: the mark of a prisoner is no part of the zone.
AtZone(bet, z) == bet.kind = z.kind /\ bet.pockets = z.pockets

\* tryRemove: the first bet of the zone, in prison or not.
TakeBackZone(z) ==
  /\ betting = "open"
  /\ LET there == {i \in DOMAIN felt : AtZone(felt[i], z)}
     IN /\ there # {}
        /\ felt' = RemoveAt(felt, Min(there))
        /\ purse' = purse + Debit(<<felt[Min(there)]>>)
        /\ ledger' = [ledger EXCEPT !.staked = @ - felt[Min(there)].amount]
  /\ UNCHANGED <<evening, spins, gridVars, betting, repeatable, spun, mends>>

\* settleRound: what stays is carried with its mark, and everything returned is credited.
SettleFelt(p) ==
  IF betting = "settled" THEN UNCHANGED feltVars
  ELSE LET settled == [i \in DOMAIN felt |-> SettleSpin(felt[i], p, WR)]
           returned == FoldLeft(LAMBDA n, s : n + s.returned, 0, settled)
           kept == SelectSeq([i \in DOMAIN felt |-> [felt[i] EXCEPT !.imprisoned = settled[i].outcome = "stay"]],
                             LAMBDA b : b.imprisoned)
       IN /\ betting' = "settled"
          /\ felt' = kept
          /\ purse' = purse + returned
          /\ ledger' = [ledger EXCEPT !.returned = @ + returned]
          /\ repeatable' = IF betting = "open" THEN felt ELSE repeatable

-----------------------------------------------------------------------------
(* Entry by the dealer, and the virtual wheel *)

\* The reducer's RESULT_RECORDED and the platform's.
RecordSpin(p) ==
  /\ spun < evening.spins
  /\ spun' = spun + 1
  /\ spins' = Append(spins, [id |-> spun + 1, pocket |-> p])
  /\ SettleFelt(p)

\* handleSelect: with autoConfirm a new spin is recorded, also while another one is under edit.
HandleSelect(p) ==
  IF WR.autoConfirm THEN RecordSpin(p) /\ pending' = NoSpin
  ELSE pending' = p /\ UNCHANGED <<spins, spun, feltVars>>

SelectPocket(p) ==
  /\ p \in OnWheel(WR) \cap evening.landing
  /\ HandleSelect(p)
  /\ digits' = <<>>
  /\ UNCHANGED <<evening, mending, mends>>

ValueOfDigits(ds) == FoldLeft(LAMBDA n, d : 10 * n + d, 0, ds)

\* A digit, while no number is selected: 0 begins anew, a second digit selects.
TypeDigit(k) ==
  /\ k \in evening.keys /\ pending = NoSpin
  /\ LET n == 10 * ValueOfDigits(digits) + k
     IN \/ /\ k = 0
           /\ digits' = IF digits = <<0>> /\ WR.wheel = "american" THEN <<0, 0>> ELSE <<0>>
           /\ UNCHANGED <<spins, spun, feltVars, pending>>
        \/ /\ k \in 1 .. 3 /\ digits = <<>>
           /\ digits' = <<k>>
           /\ UNCHANGED <<spins, spun, feltVars, pending>>
        \/ /\ k # 0 /\ (k > 3 \/ digits # <<>>) /\ n \in 1 .. 36
           /\ digits' = <<>>
           /\ HandleSelect(n)
  /\ UNCHANGED <<evening, mending, mends>>

\* Enter with digits, and Backspace, of the number grid.
TypeEnter ==
  /\ digits # <<>> /\ pending = NoSpin
  /\ LET n == ValueOfDigits(digits)
     IN HandleSelect(IF digits = <<0, 0>> THEN DoubleZero ELSE n)
  /\ digits' = <<>>
  /\ UNCHANGED <<evening, mending, mends>>

TypeBackspace ==
  /\ evening.keys # {}
  /\ \/ pending # NoSpin /\ pending' = NoSpin /\ UNCHANGED digits
     \/ pending = NoSpin /\ digits # <<>> /\ digits' = Front(digits) /\ UNCHANGED pending
  /\ UNCHANGED <<evening, spins, mending, feltVars, spun, mends>>

\* handleNoSpin
CallOff ==
  /\ RecordSpin(NoSpin)
  /\ pending' = NoSpin
  /\ UNCHANGED <<evening, digits, mending, mends>>

\* rouletteConfirm and executeConfirm.  After an edit the selection stays: the LIVE_INPUT that
\* should clear it has the form of another game.
ConfirmSpin ==
  /\ pending # NoSpin
  /\ \/ mending = 0 /\ RecordSpin(pending) /\ pending' = NoSpin /\ UNCHANGED mending
     \/ /\ mending # 0
        /\ spins' = [i \in DOMAIN spins |-> IF spins[i].id = mending THEN [spins[i] EXCEPT !.pocket = pending] ELSE spins[i]]
        /\ mending' = 0
        /\ UNCHANGED <<pending, spun, feltVars>>
  /\ UNCHANGED <<evening, digits, mends>>

Mend == mends < evening.mends /\ mends' = mends + 1

\* RESULT_UNDONE and RESULT_DELETED of the reducer; what the bank does then is Platform's.
TakeBackSpin(i) ==
  /\ Mend
  /\ spins' = RemoveAt(spins, i)
  /\ UNCHANGED <<evening, gridVars, feltVars, spun>>

MendSpin(i) ==
  /\ Mend
  /\ mending' = spins[i].id
  /\ UNCHANGED <<evening, spins, pending, digits, feltVars, spun>>

\* SERIES_ENDED, SERIES_STARTED
NewSession ==
  /\ spins # <<>>
  /\ spins' = <<>> /\ pending' = NoSpin
  /\ UNCHANGED <<evening, digits, mending, feltVars, spun, mends>>

\* virtualWheelStep: one draw over the wheel's order.
SpinWheel(i) ==
  /\ WheelOrder(WR)[i] \in evening.landing
  /\ RecordSpin(WheelOrder(WR)[i])
  /\ pending' = NoSpin
  /\ UNCHANGED <<evening, digits, mending, mends>>

RouletteNext ==
  \/ OpenBetting \/ CloseBetting \/ RepeatLast
  \/ \E z \in evening.zones : PlaceZone(z) \/ TakeBackZone(z)
  \/ \E p \in evening.landing : SelectPocket(p)
  \/ \E k \in evening.keys : TypeDigit(k)
  \/ TypeEnter \/ TypeBackspace \/ CallOff \/ ConfirmSpin \/ NewSession
  \/ \E i \in DOMAIN spins : TakeBackSpin(i) \/ MendSpin(i)
  \/ \E i \in DOMAIN WheelOrder(WR) : SpinWheel(i)

RouletteSpec == RouletteInit /\ [][RouletteNext]_rlVars

-----------------------------------------------------------------------------
(* Properties *)

RouletteTypeOK ==
  /\ WR \in WheelRules
  /\ \A i \in DOMAIN spins : spins[i].id \in 1 .. spun /\ spins[i].pocket \in {NoSpin} \cup OnWheel(WR)
  /\ pending \in {NoSpin} \cup OnWheel(WR) /\ mending \in 0 .. spun
  /\ digits \in {<<>>, <<0>>, <<0, 0>>, <<1>>, <<2>>, <<3>>}
  /\ \A i \in DOMAIN felt : felt[i].kind \in BetKinds /\ felt[i].imprisoned \in BOOLEAN
  /\ betting \in {"open", "closed", "settled"} /\ Len(repeatable) <= MaxOnFelt
  /\ spun \in 0 .. evening.spins /\ mends \in 0 .. evening.mends

\* What the last number pays on every zone of the felt: a bet on the numbers it covers returns 36
\* stakes in all when they come up one after the other, 35 for the top line; a call bet that is a
\* multiple of its units returns what its parts would return alone; of an even-money bet the
\* two spins after it was placed return all, half, the stake or nothing, as the zero rule says.
RoulettePays ==
  LET numbers == Counted(PocketsOf(spins), [WR EXCEPT !.window = 2])
      p == Last(numbers)
      bet(z, amount) == [amount |-> amount, imprisoned |-> FALSE] @@ z
      back(z, amount) == SettleSpin(bet(z, amount), p, WR).returned
      opposite(q) == LET n == Len(WheelOrder(WR))
                         apart == (PlaceOnWheel(q, WR) - PlaceOnWheel(p, WR)) % n
                     IN Min({apart, (n - apart) % n})
  IN Len(numbers) = 2 =>
       /\ \A z \in FeltZones(WR) :
            z.kind \notin CallBets /\ p \in z.pockets =>
              back(z, 5) * Cardinality(z.pockets) = 5 * (IF z.kind = "top_line" THEN 35 ELSE 36)
       /\ \A z \in FeltZones(WR) :
            CASE z.kind = "neighbours" -> back(z, 10) = IF \E q \in z.pockets : opposite(q) <= 2 THEN 72 ELSE 0
              [] z.kind = "voisins" -> back(z, 18) = CASE p \in {0, 2, 3} -> 48 [] p \in {25, 26, 28, 29} -> 36
                                                       [] p \in {4, 7, 12, 15, 18, 21, 19, 22, 32, 35} -> 36 [] OTHER -> 0
              [] z.kind = "tiers" -> back(z, 12) = IF SectorOf(p, WR) = "tiers" THEN 36 ELSE 0
              [] z.kind = "orphelins" -> back(z, 10) = CASE p \in {1, 17} -> 72
                                                         [] SectorOf(p, WR) = "orphelins" /\ p \notin {1, 17} -> 36 [] OTHER -> 0
              [] OTHER -> TRUE
       /\ \A z \in {y \in FeltZones(WR) : y.kind \in EvenMoney} :
            LET first == SettleSpin(bet(z, 5), numbers[1], WR)
                life == IF first.outcome = "stay" THEN SettleSpin([bet(z, 5) EXCEPT !.imprisoned = TRUE], p, WR).returned
                        ELSE first.returned
            IN life = CASE numbers[1] \in z.pockets -> 10
                        [] IsZero(numbers[1]) /\ WR.zeroRule = "la_partage" -> 2
                        [] IsZero(numbers[1]) /\ WR.zeroRule = "en_prison" /\ p \in z.pockets -> 5
                        [] OTHER -> 0

\* After any correction, no spin or new session, the statistics are those of the last numbers in
\* the window: the runs of colour, parity and range at the end, which a zero breaks; the longest
\* one; the repeats; the numbers since the last zero; hot numbers that nothing beats, in the
\* order of the wheel when they tie, and cold ones that nothing stays below.  The display announces
\* a repeat, the hottest number, and a run of a colour at six and every second number after that.
StatsFollowSpins ==
  spins # <<>> =>
    LET numbers == SelectSeq(PocketsOf(spins), LAMBDA p : p # NoSpin)
        window == IF WR.window = 0 THEN numbers ELSE SubSeq(numbers, Max({1, Len(numbers) - WR.window + 1}), Len(numbers))
        n == Len(window)
        d == Derived(PocketsOf(spins), WR)
        same(i, j, Of(_)) == \A k \in i .. j : Of(window[k]) = Of(window[j]) /\ Of(window[k]) # "none"
        run(Of(_)) == Max({0} \cup {k \in 1 .. n : same(n - k + 1, n, Of)})
        hits(p) == Cardinality({i \in 1 .. n : window[i] = p})
        among(s) == {s[i] : i \in DOMAIN s}
    IN /\ d.color = run(ColorOf) /\ d.parity = run(ParityOf) /\ d.range = run(RangeOf)
       /\ d.longest.length = Max({0} \cup {k \in 1 .. n : \E j \in k .. n : same(j - k + 1, j, ColorOf)})
       /\ \A k \in 1 .. n : d.repeats >= k <=> \A i \in n - k .. n : i >= 1 /\ window[i] = window[n]
       /\ d.zeroDrought = Cardinality({i \in 1 .. n : \A j \in i .. n : ~IsZero(window[j])})
       /\ Len(d.hot) = 5 /\ Len(d.cold) = 5
       /\ \A i \in 1 .. 4 : hits(d.hot[i]) >= hits(d.hot[i + 1]) /\ hits(d.cold[i]) <= hits(d.cold[i + 1])
       /\ \A p \in OnWheel(WR) : /\ p \notin among(d.hot) => hits(p) <= hits(d.hot[5])
                                 /\ p \notin among(d.cold) => hits(p) >= hits(d.cold[5])
       /\ n > 0 => MapThenSumSet(LAMBDA c : d.colors[c], DOMAIN d.colors) \in 99 .. 101
       /\ (\E i \in 1 .. n : ~IsZero(window[i])) =>
            IF WR.zeroCounts THEN MapThenSumSet(LAMBDA c : d.dozens[c], 1 .. 3) <= 101
            ELSE MapThenSumSet(LAMBDA c : d.dozens[c], 1 .. 3) \in 99 .. 101
       /\ spins # <<>> /\ Last(spins).pocket # NoSpin =>
            LET shown == SpinAnimations(Front(PocketsOf(spins)), PocketsOf(spins), WR)
                p == Last(window)
            IN /\ "repeat" \in shown <=> n > 1 /\ window[n - 1] = p
               /\ WR.window = 0 => ("color_streak" \in shown <=> run(ColorOf) >= StreakThreshold /\ run(ColorOf) % 2 = 0)
               /\ "hot_number" \in shown <=> \A q \in OnWheel(WR) \ {p} :
                    hits(q) < hits(p) \/ (hits(q) = hits(p) /\ PlaceOnWheel(q, WR) > PlaceOnWheel(p, WR))

\* The bankroll is what was issued less what is staked plus what is returned (SPEC.md:445).
PurseReconciles == purse = ledger.returned - ledger.staked

\* A bet on an even chance pays 1:1 (SPEC-ROULETTE.md:290), and only a bet that a zero has held
\* "wins back the stake only" on the next spin (:324): one that is placed anew is free.
FreshBetsAreFree == \A i \in DOMAIN felt : felt[i].imprisoned /\ betting = "open" => felt[i].rides

\* "Digits build the number" (SPEC-ROULETTE.md:89): a digit never takes the place of another.
DigitsBuildTheNumber ==
  [][digits # <<>> /\ digits' # <<>> => IsPrefix(digits, digits') \/ IsPrefix(digits', digits)]_digits

=============================================================================
