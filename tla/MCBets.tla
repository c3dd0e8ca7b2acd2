--------------------------------- MODULE MCBets ---------------------------------
(* Small instances of the two games with a felt, and of the entry of the dice. *)
(* A behaviour plays one of them; the variables of the others stay as they are *)
(* at the start.                                                               *)
EXTENDS Craps, Roulette, DiceEntry

VARIABLE game

Throw(total, hard) == [total |-> total, hard |-> hard]
Bet(kind, target, line) == [kind |-> kind, target |-> target, line |-> line]

FewDice == {Throw(4, "hard"), Throw(6, "easy"), Throw(7, "easy"), Throw(12, "easy")}

DefaultRules == [autoNewShooter |-> TRUE, trackAllTallSmall |-> FALSE, bar |-> 12,
                 placeOnComeOut |-> FALSE, hornHigh |-> FALSE, vigOnWin |-> FALSE, field2 |-> 2, field12 |-> 3,
                 fire |-> [n \in 4 .. 6 |-> CASE n = 4 -> 24 [] n = 5 -> 249 [] n = 6 -> 999]]

\* The bets whose outcome depends on the phase, on the point or on their own number.
FewWagers ==
  {Bet(k, 0, "none") : k \in {"pass", "dont_pass", "come"}}
    \cup {Bet("dont_odds", 0, "dont_come")}
    \cup {Bet(k, 4, "none") : k \in {"place", "hard"}}
\* Bets and players of craps never read one another: the two are explored one at a time.
OneConcern ==
  moves = 0 \/ (slip = NoSlip /\ \A i \in DOMAIN board.rolls : ~board.rolls[i].round)

Wheel(name, zeroRule, window, auto) ==
  [wheel |-> name, zeroRule |-> zeroRule, doublePrison |-> zeroRule = "en_prison", window |-> window,
   zeroCounts |-> name = "american", autoConfirm |-> auto]
\* Neighbours bets are left to RoulettePays, which tries every one of them.
Evening(rules, landing, keys, kinds, n, m) ==
  [wheelRules |-> rules, landing |-> landing, keys |-> keys, zones |-> {z \in FeltZones(rules) : z.kind \in kinds},
   stake |-> 5, spins |-> n, mends |-> m]
FewEvenings ==
  {Evening(Wheel("european", "none", 0, TRUE), 0 .. 36, {}, {}, 2, 0),
   Evening(Wheel("american", "none", 0, TRUE), Pocket, {}, {}, 2, 0),
   Evening(Wheel("french", "la_partage", 0, TRUE), {0, 1, 20}, {}, {}, 2, 0),
   Evening(Wheel("american", "en_prison", 2, FALSE), {0, 37, 2}, {0, 3}, {}, 2, 1),
   Evening(Wheel("european", "none", 2, TRUE), {0, 3, 26}, {}, {}, 3, 1),
   Evening(Wheel("european", "none", 0, TRUE), {7}, {}, {}, 8, 0),
   Evening(Wheel("french", "en_prison", 0, TRUE), {0, 1}, {}, {"red", "tiers"}, 2, 0)}

betVars == <<game, crapsVars, rlVars, entryVars>>

BetsInit ==
  /\ game \in {"craps", "roulette", "dice"}
  /\ CrapsInit /\ (game # "craps" => source = "physical")
  /\ RouletteInit /\ (game # "roulette" => evening = CHOOSE e \in Evenings : e.landing = {7})
  /\ EntryInit /\ (game # "dice" => express /\ synced)

BetsNext ==
  \/ game = "craps" /\ CrapsNext /\ UNCHANGED <<game, rlVars, entryVars>>
  \/ game = "roulette" /\ RouletteNext /\ UNCHANGED <<game, crapsVars, entryVars>>
  \/ game = "dice" /\ EntryNext /\ UNCHANGED <<game, crapsVars, rlVars>>

BetsSpec == BetsInit /\ [][BetsNext]_betVars

\* State of the three modules.
BetsTypeOK == CrapsTypeOK /\ RouletteTypeOK /\ EntryTypeOK

\* What is shown beside the history of either game is what its rolls or its spins say, however
\* they were corrected (rebuildFromResults, rebuildDerived).
CountsFollowThrows ==
  (game = "craps" => PuckFollowsRolls) /\ (game = "roulette" => StatsFollowSpins)

\* Every zone of the felt, call bet and zero rule pays what the wheel and the felt say
\* (RoulettePays, asked of the tables that play roulette).
FeltPays == game = "roulette" => RoulettePays
=================================================================================
