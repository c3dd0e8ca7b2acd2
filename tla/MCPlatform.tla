----------------------------- MODULE MCPlatform -----------------------------
(* Payout tables and bounds for the runs of Platform. *)
EXTENDS Platform

CONSTANTS p1, b1, b2, res1, res2, res3

Pay(o, n, d, c) == [outcome |-> o, num |-> n, den |-> d, carry |-> c]

\* A game of round bets: the banker pays 19 to 20 (5% commission, rounded down),
\* a tie pushes.
RoundGame ==
  [t \in {"banker", "player"} |->
    [k \in {"banker", "player", "tie"} |->
      IF k = "tie" THEN Pay("push", 1, 1, t)
      ELSE IF k # t THEN Pay("lose", 0, 1, t)
      ELSE IF t = "banker" THEN Pay("win", 39, 20, t)
      ELSE Pay("win", 2, 1, t)]]

RoundTargets == {"banker", "player"}
RoundKinds == {"banker", "player", "tie"}
Deltas == {-10}

\* Nobody presses or turns off a bet of such a game.
RoundGameSpec == Init /\ [][BankStep \/ SlipStep \/ RoundStep \/ ResultStep]_vars
=============================================================================
