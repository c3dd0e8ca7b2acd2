---------------------------- MODULE MCDealerRound ----------------------------
(* A game of working bets for the runs of DealerRound: a come bet travels to  *)
(* the six, then wins on a six.                                               *)
EXTENDS DealerRound

Pays(o, n, d, c) == [outcome |-> o, num |-> n, den |-> d, carry |-> c]
ComeGame ==
  [t \in {"come", "six"} |->
    [k \in {"six", "seven", "other"} |->
      IF k = "other" THEN Pays("stay", 0, 1, t)
      ELSE IF t = "come" THEN (IF k = "six" THEN Pays("stay", 0, 1, "six") ELSE Pays("win", 2, 1, t))
      ELSE IF k = "six" THEN Pays("win", 13, 6, t) ELSE Pays("lose", 0, 1, t)]]
ComeTargets == {"come", "six"}
ComeKinds == {"six", "seven", "other"}
=============================================================================
