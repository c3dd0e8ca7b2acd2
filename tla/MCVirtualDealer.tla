--------------------------- MODULE MCVirtualDealer ---------------------------
(* The virtual dealer of the games of the repository. *)
EXTENDS VirtualDealer

Steps(waits, result, rollover, next) ==
  [waits: {waits}, result: {result}, rollover: {rollover}, next: next]

Games == {"dice", "shoe", "blackjack"}

\* Craps and roulette: one throw or spin, shown after a pause.  Baccarat: two
\* pauses stand for the three to five between its cards, the series may roll over
\* with the hand or instead of it.  Blackjack: cards, then actions, then a result,
\* none of them paced.
Throw == Steps(1, TRUE, FALSE, {"none"})
Hand == Steps(2, TRUE, FALSE, {"none"}) \cup Steps(2, TRUE, TRUE, {"trigger"})
          \cup Steps(0, FALSE, TRUE, {"trigger"})
Cards == Steps(0, FALSE, FALSE, {"action", "trigger"}) \cup Steps(0, TRUE, FALSE, {"none"})

GameOutcome ==
  [g \in Games |-> [a \in Awaiting |->
     CASE g = "dice" -> Throw
       [] g = "shoe" -> Hand
       [] g = "blackjack" -> IF a = "action" THEN Steps(0, FALSE, FALSE, {"action", "trigger"}) ELSE Cards]]
=============================================================================
