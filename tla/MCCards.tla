-------------------------------- MODULE MCCards --------------------------------
(* Small instances of the two card games.  A table plays one of them; the     *)
(* other one's variables stay as they are at the start.                       *)
EXTENDS Baccarat, Blackjack

VARIABLE game

Of(r, s) == [rank |-> r, suit |-> s]
LasVegas == [soft17 |-> "stand", payout |-> "3:2", peek |-> TRUE, doubleAfterSplit |-> TRUE, maxSplits |-> 2,
             splitAcesOneCard |-> TRUE, resplitAces |-> FALSE, blackjackAfterSplit |-> FALSE, surrender |-> TRUE,
             autoHitLow |-> FALSE, sideBets |-> TRUE]
OneSplit == [LasVegas EXCEPT !.maxSplits = 1]
NoPeek == [OneSplit EXCEPT !.peek = FALSE, !.soft17 = "hit", !.autoHitLow = TRUE]
Sitting(by, depth, cards, seats, chips, totals, rules, most, n, repaired) ==
  [by |-> by, depth |-> depth, cards |-> cards, seats |-> seats, chips |-> chips, totals |-> totals,
   rules |-> rules, most |-> most, rounds |-> n, repairs |-> repaired]
FewSittings ==
  {Sitting("virtual", "full", {Of(1, "S"), Of(10, "H")}, {1}, {}, {}, OneSplit, 3, 1, 0),
   Sitting("virtual", "full", {Of(8, "S")}, {1}, {}, {}, LasVegas, 3, 2, 0),
   Sitting("virtual", "full", {Of(1, "S"), Of(6, "H")}, {1}, {}, {}, NoPeek, 3, 1, 0),
   Sitting("dealer", "full", {Of(10, "S"), Of(1, "H")}, {1}, {}, {}, OneSplit, 3, 1, 0),
   Sitting("dealer", "full", {Of(9, "S")}, {1}, {}, {}, OneSplit, 2, 1, 1),
   Sitting("dealer", "outcomes", {Of(10, "S"), Of(6, "S")}, {1, 2}, {"win", "bust"}, {}, OneSplit, 3, 1, 0),
   Sitting("dealer", "outcomes", {Of(10, "S")}, {1}, {"win", "blackjack"}, {22}, OneSplit, 3, 2, 1)}

Play(by, ranks, quick, pairs, texts, n, fixed) ==
  [source |-> by, ranks |-> ranks, quick |-> quick, pairs |-> pairs, texts |-> texts, hands |-> n, fixes |-> fixed]
InARow(o, n) == [i \in 1 .. n |-> o]
FewPlays ==
  {Play("virtual", {8, 13}, {}, FALSE, {}, 2, 0), Play("virtual", {6, 7, 13}, {}, FALSE, {}, 1, 0),
   Play("virtual", {3, 8, 13}, {}, FALSE, {}, 1, 0), Play("virtual", {1, 2, 13}, {}, FALSE, {}, 1, 0),
   Play("virtual", {4, 6, 12}, {}, FALSE, {}, 1, 0), Play("dealer", {13, 4}, {}, FALSE, {}, 1, 1),
   Play("dealer", {13}, {"P"}, FALSE, {}, 2, 1), Play("dealer", {}, Outcome, TRUE, {}, 2, 1),
   Play("dealer", {}, Outcome, FALSE, {}, 7, 0),
   Play("dealer", {}, {}, FALSE, {InARow("P", 7), InARow("B", 6), InARow("T", 1)}, 14, 1)}

cardVars == <<game, bacVars, bjVars>>

CardsInit ==
  /\ game \in {"baccarat", "blackjack"}
  /\ BaccaratInit /\ (game = "blackjack" => play = CHOOSE p \in Plays : p.texts = {})
  /\ BlackjackInit /\ (game = "baccarat" => sitting = CHOOSE s \in Sittings : s.by = "virtual")

CardsNext ==
  \/ game = "baccarat" /\ BaccaratNext /\ UNCHANGED <<game, bjVars>>
  \/ game = "blackjack" /\ BlackjackNext /\ UNCHANGED <<game, bacVars>>

CardsSpec == CardsInit /\ [][CardsNext]_cardVars

\* State of both card modules.
CardsTypeOK == BaccaratTypeOK /\ BlackjackTypeOK

\* The record of either game holds what its drawing rules deal, with the outcomes of its cards,
\* in whatever order they were entered, dealt and corrected.
RecordByTheRules == HandsByTheRules /\ RoundsByTheRules

\* The roads, the streaks and the statistics are those of the record as it stands.
CountsFollowHands == RoadsFollowHands /\ StatsFollowRounds

\* Settlement of both card modules: what each result pays on every bet that is covered.  It
\* reads nothing of the hand in progress, so it is looked at between two hands.
CardsPay ==
  /\ live = NoCards => BaccaratPays
  /\ liveInput = NothingLive => BlackjackPays
================================================================================
