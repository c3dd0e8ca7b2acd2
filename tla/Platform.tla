------------------------------- MODULE Platform -------------------------------
(***************************************************************************)
(* The platform reducer of packages/core: betting rounds, bets, bankrolls  *)
(* and settlements, as every replica derives them from the event log.      *)
(* One action is one event that reducePlatform applies; an event that the  *)
(* reducer ignores is a stuttering step and appears as a guard.            *)
(*                                                                         *)
(* The rules of a game enter as the payout table Payout: what a bet on a   *)
(* target gets when a result of some kind is recorded.  A game whose bets  *)
(* are all resolved by the next result (baccarat, blackjack) has           *)
(* HasWorkingBets = FALSE; craps and roulette's en prison have TRUE.       *)
(***************************************************************************)
EXTENDS Integers, Sequences, FiniteSets, FiniteSetsExt

CONSTANTS
  Player,          \* the players at the table
  Bet,             \* bet ids, fresh for every BET_PLACED
  Round,           \* round ids, numbered in the order they are opened
  Result,          \* result ids, fresh for every RESULT_RECORDED
  Target,          \* what a bet can be on (type and target of a PlacedBet)
  Kind,            \* what a result can be
  Amount,          \* stakes a player may choose
  Payout,          \* Payout[t][k]: outcome, pay ratio and carried target
  HasWorkingBets,  \* the catalogue has bets with lifecycle "working"
  LateEvents,      \* events may be applied to a later state than the sender saw
  Grant,           \* amounts of BANK_ISSUED
  Delta,           \* amounts of BANK_ADJUSTED, negative for a take-back
  MaxIssued,       \* bound: chips issued to the table
  MaxFunds,        \* bound: net chips one player was issued or adjusted by
  MaxStake,        \* bound: the amount a bet can be pressed to
  NoRound, NoResult

Outcome == {"win", "lose", "push", "partial", "stay"}

ASSUME RoundAssumption == Round \subseteq Nat /\ NoRound \notin Round
ASSUME ResultAssumption == NoResult \notin Result
ASSUME AmountAssumption == Amount \subseteq Nat \ {0}
ASSUME BankAssumption == Grant \subseteq Nat /\ Delta \subseteq Int
ASSUME BoundAssumption == MaxIssued \in Nat /\ MaxFunds \in Nat /\ MaxStake \in Nat
ASSUME PayoutAssumption ==
  Payout \in [Target -> [Kind -> [outcome: Outcome, num: Nat, den: Nat \ {0}, carry: Target]]]
ASSUME SwitchAssumption == HasWorkingBets \in BOOLEAN /\ LateEvents \in BOOLEAN
\* Only working bets may stay on the felt.
ASSUME WorkingAssumption ==
  HasWorkingBets \/ \A t \in Target, k \in Kind : Payout[t][k].outcome # "stay"

VARIABLES
  status,       \* status[r]: "unopened", "open", "closed" or "settled"
  resultOf,     \* resultOf[r]: the result that settled r, or NoResult
  bets,         \* bets[b]: the bets on record (state.bets)
  settlements,  \* settlements[r]: the settlements of r, for settled rounds
  bankroll,     \* bankroll[p]
  chipsIssuedTotal,
  results,      \* currentSeriesResults, in the order recorded
  slips,        \* history: player and round of every BET_PLACED so far
  envelopes,    \* history: the round named by every RESULT_RECORDED so far
  funds         \* history: chips issued to each player plus adjustments

roundVars == <<status, resultOf>>
bankVars  == <<bankroll, chipsIssuedTotal, funds>>
listVars  == <<results, envelopes>>
vars == <<status, resultOf, bets, settlements, bankroll, chipsIssuedTotal,
          results, slips, envelopes, funds>>

BetRecord == [player: Player, round: Round, target: Target, amount: Nat, working: BOOLEAN]
Settlement == [bet: Bet, outcome: Outcome, returned: Nat, profit: Int, carry: Target]

-----------------------------------------------------------------------------
(* Selectors *)

RoundBets(r) == {b \in DOMAIN bets : bets[b].round = r}

\* getClosedRound: the round a recorded result is attached to.
ClosedRounds == {r \in Round : status[r] = "closed"}
ClosedRound == IF ClosedRounds = {} THEN NoRound ELSE Max(ClosedRounds)

OpenedRounds == {r \in Round : status[r] # "unopened"}

\* canUndoResult: no bet sits in a round opened after the one res settled.
CanUndo(res) ==
  \A r \in Round : resultOf[r] = res => \A b \in DOMAIN bets : bets[b].round <= r

\* isBetOnFelt: open, closed, or working in a round that has settled.
OnFelt(b) ==
  \/ status[bets[b].round] \in {"open", "closed"}
  \/ bets[b].working /\ status[bets[b].round] = "settled"

-----------------------------------------------------------------------------
(* Settlement *)

\* What the game module pays bet b for a result of kind k, rounded down.
SettleBet(b, k) ==
  LET pay == Payout[bets[b].target][k]
      returned == (bets[b].amount * pay.num) \div pay.den
  IN [bet |-> b, outcome |-> pay.outcome, returned |-> returned, carry |-> pay.carry,
      profit |-> IF pay.outcome = "stay" THEN 0 ELSE returned - bets[b].amount]

SettleAll(r, k) == {SettleBet(b, k) : b \in RoundBets(r)}

\* The sum of the values of f.
Total(f) == MapThenSumSet(LAMBDA x : f[x], DOMAIN f)

\* What the settlements in S return to player p, for bets still in round r.
Returned(p, r, S) ==
  Total([s \in {s \in S : s.bet \in RoundBets(r) /\ bets[s.bet].player = p} |-> s.returned])

\* Faulty variant: what the round had paid is forgotten.
NoPrior(r) == {}

\* The settlements that r holds before it is settled (again).
Prior(r) == IF r \in DOMAIN settlements THEN settlements[r] ELSE {}

\* Faulty variant: the carry does not set working.
CarriedAsPlaced(b, k) ==
  IF Payout[bets[b].target][k].outcome = "stay"
    THEN [bets[b] EXCEPT !.target = Payout[bets[b].target][k].carry]
    ELSE bets[b]

\* applyCarryBets: a bet that stays continues as its carry, now working.
Carried(b, k) ==
  IF Payout[bets[b].target][k].outcome = "stay"
    THEN [bets[b] EXCEPT !.target = Payout[bets[b].target][k].carry, !.working = TRUE]
    ELSE bets[b]

\* Reverse what r had paid, then settle it with a result of kind k.
Resettle(r, res, k) ==
  LET new == SettleAll(r, k)
  IN /\ bankroll' = [p \in Player |->
                       bankroll[p] - Returned(p, r, Prior(r)) + Returned(p, r, new)]
     /\ settlements' = [x \in DOMAIN settlements \cup {r} |->
                          IF x = r THEN new ELSE settlements[x]]
     /\ bets' = [b \in DOMAIN bets |-> IF bets[b].round = r THEN Carried(b, k) ELSE bets[b]]
     /\ status' = [status EXCEPT ![r] = "settled"]
     /\ resultOf' = [resultOf EXCEPT ![r] = res]

\* Faulty variant: the round keeps the result that was taken back.
ReverseKeepingResult(r) ==
  /\ bankroll' = [p \in Player |-> bankroll[p] - Returned(p, r, Prior(r))]
  /\ settlements' = [x \in DOMAIN settlements \ {r} |-> settlements[x]]
  /\ status' = [status EXCEPT ![r] = "closed"]
  /\ UNCHANGED resultOf

\* reverseSettlementForRound: take the payments back; the round is closed again.
ReverseSettlement(r) ==
  /\ bankroll' = [p \in Player |-> bankroll[p] - Returned(p, r, Prior(r))]
  /\ settlements' = [x \in DOMAIN settlements \ {r} |-> settlements[x]]
  /\ status' = [status EXCEPT ![r] = "closed"]
  /\ resultOf' = [resultOf EXCEPT ![r] = NoResult]

-----------------------------------------------------------------------------
Init ==
  /\ status = [r \in Round |-> "unopened"]
  /\ resultOf = [r \in Round |-> NoResult]
  /\ bets = [b \in {} |-> {}]
  /\ settlements = [r \in {} |-> {}]
  /\ bankroll = [p \in Player |-> 0]
  /\ chipsIssuedTotal = 0
  /\ results = <<>>
  /\ slips = [b \in {} |-> {}]
  /\ envelopes = [x \in {} |-> NoRound]
  /\ funds = [p \in Player |-> 0]

(* The bank *)

BankIssued(p, n) ==
  /\ chipsIssuedTotal + n <= MaxIssued
  /\ bankroll' = [bankroll EXCEPT ![p] = @ + n]
  /\ chipsIssuedTotal' = chipsIssuedTotal + n
  /\ funds' = [funds EXCEPT ![p] = @ + n]
  /\ UNCHANGED <<roundVars, bets, settlements, listVars, slips>>

\* A correction or take-back; the bank panel offers no take-back above the
\* bankroll it shows, the reducer applies any.
BankAdjusted(p, d) ==
  /\ funds[p] + d \in -MaxFunds .. MaxFunds
  /\ bankroll[p] + d >= 0 \/ LateEvents
  /\ bankroll' = [bankroll EXCEPT ![p] = @ + d]
  /\ funds' = [funds EXCEPT ![p] = @ + d]
  /\ UNCHANGED <<roundVars, bets, settlements, chipsIssuedTotal, listVars, slips>>

(* Rounds and bets *)

\* A fresh round goes to the end of the list; working bets of settled rounds ride.
BetsOpened(r) ==
  /\ status[r] = "unopened"
  /\ \A x \in Round : x < r => status[x] # "unopened"
  /\ status' = [status EXCEPT ![r] = "open"]
  /\ bets' = [b \in DOMAIN bets |->
                IF bets[b].working /\ status[bets[b].round] = "settled"
                  THEN [bets[b] EXCEPT !.round = r]
                  ELSE bets[b]]
  /\ UNCHANGED <<resultOf, settlements, bankVars, listVars, slips>>

BetPlaced(b, p, r, t, n, w) ==
  /\ b \notin DOMAIN slips
  /\ status[r] = "open"
  /\ w => HasWorkingBets
  /\ n <= bankroll[p] \/ LateEvents
  /\ bets' = [x \in DOMAIN bets \cup {b} |->
                IF x = b THEN [player |-> p, round |-> r, target |-> t, amount |-> n, working |-> w]
                         ELSE bets[x]]
  /\ slips' = [x \in DOMAIN slips \cup {b} |->
                 IF x = b THEN [player |-> p, round |-> r] ELSE slips[x]]
  /\ bankroll' = [bankroll EXCEPT ![p] = @ - n]
  /\ UNCHANGED <<roundVars, settlements, chipsIssuedTotal, funds, listVars>>

SettlementsOf(b) == {s \in UNION {settlements[r] : r \in DOMAIN settlements} : s.bet = b}

\* "Press": the best winnings so far of a bet still on the felt (lastWinningProfit)
\* are added to its stake.
BetPressed(b) ==
  /\ b \in DOMAIN bets
  /\ status[bets[b].round] = "open"
  /\ \E s \in SettlementsOf(b) :
       /\ s.profit > 0
       /\ \A x \in SettlementsOf(b) : x.profit <= s.profit
       /\ bets[b].amount + s.profit <= MaxStake
       /\ bankroll' = [bankroll EXCEPT ![bets[b].player] = @ - s.profit]
       /\ bets' = [bets EXCEPT ![b].amount = @ + s.profit]
  /\ UNCHANGED <<roundVars, settlements, chipsIssuedTotal, funds, listVars, slips>>

\* toggle_working: the player turns a working bet off or on.
BetToggled(b) ==
  /\ b \in DOMAIN bets
  /\ status[bets[b].round] = "open"
  /\ HasWorkingBets
  /\ bets' = [bets EXCEPT ![b].working = ~@]
  /\ UNCHANGED <<roundVars, settlements, bankVars, listVars, slips>>

\* The reducer refunds a removed bet whatever the status of its round; a client
\* offers the removal while its round is open.
BetRemoved(b) ==
  /\ b \in DOMAIN bets
  /\ status[bets[b].round] = "open" \/ LateEvents
  /\ bets' = [x \in DOMAIN bets \ {b} |-> bets[x]]
  /\ bankroll' = [bankroll EXCEPT ![bets[b].player] = @ + bets[b].amount]
  /\ UNCHANGED <<roundVars, settlements, chipsIssuedTotal, funds, listVars, slips>>

\* The reducer closes the named round whatever its status.
BetsClosed(r) ==
  /\ status[r] = "open" \/ (LateEvents /\ status[r] = "settled")
  /\ status' = [status EXCEPT ![r] = "closed"]
  /\ UNCHANGED <<resultOf, bets, settlements, bankVars, listVars, slips>>

(* Results *)

\* A client attaches the result to the round it sees closed; by the time the
\* event is applied the round may have a different status.
Attachable(r) == r = ClosedRound \/ (LateEvents /\ r \in OpenedRounds \cup {NoRound})

AppendResult(res, r) ==
  /\ res \notin DOMAIN envelopes
  /\ envelopes' = [x \in DOMAIN envelopes \cup {res} |-> IF x = res THEN r ELSE envelopes[x]]
  /\ results' = Append(results, res)

\* No round, or one already settled: the board gains a result, nothing is paid.
ResultOnBoardOnly(res, r) ==
  /\ Attachable(r)
  /\ r = NoRound \/ (r \in Round /\ status[r] = "settled")
  /\ AppendResult(res, r)
  /\ UNCHANGED <<roundVars, bets, settlements, bankVars, slips>>

ResultSettles(res, r, k) ==
  /\ Attachable(r)
  /\ r \in Round /\ status[r] \in {"open", "closed"}
  /\ AppendResult(res, r)
  /\ Resettle(r, res, k)
  /\ UNCHANGED <<chipsIssuedTotal, funds, slips>>

\* An edit whose envelope still names its round, as the events of the log and of the
\* tests do: the round is reversed and settled anew.
ResultEdited(res, r, k) ==
  /\ \E i \in DOMAIN results : results[i] = res
  /\ resultOf[r] = res
  /\ Resettle(r, res, k)
  /\ UNCHANGED <<chipsIssuedTotal, funds, slips, listVars>>

\* The round that the result has settled, if any, is reversed.
TakeBack(res) ==
  IF \E r \in Round : resultOf[r] = res
    THEN ReverseSettlement(CHOOSE r \in Round : resultOf[r] = res)
    ELSE UNCHANGED <<bankroll, settlements, status, resultOf>>

\* The history dialog builds an envelope without the round: the reducer reverses the
\* round of the result and has no round to settle.
ResultEditedInDialog(res) ==
  /\ \E i \in DOMAIN results : results[i] = res
  /\ envelopes' = [envelopes EXCEPT ![res] = NoRound]
  /\ TakeBack(res)
  /\ UNCHANGED <<results, bets, chipsIssuedTotal, funds, slips>>

\* Shared by RESULT_UNDONE and RESULT_DELETED.
DropResult(res) ==
  /\ results' = SelectSeq(results, LAMBDA x : x # res)
  /\ TakeBack(res)
  /\ UNCHANGED <<bets, chipsIssuedTotal, funds, slips, envelopes>>

\* Undo takes the last result, and the dealer's client asks canUndoResult first.
ResultUndone(res) ==
  /\ \E i \in DOMAIN results : results[i] = res /\ (i = Len(results) \/ LateEvents)
  /\ CanUndo(res) \/ LateEvents
  /\ DropResult(res)

\* Deletion from the history dialog takes any result of the series.
ResultDeleted(res) ==
  /\ \E i \in DOMAIN results : results[i] = res
  /\ DropResult(res)

\* A new series starts with an empty board; rounds and bets go on.
SeriesStarted ==
  /\ results # <<>>
  /\ results' = <<>>
  /\ UNCHANGED <<roundVars, bets, settlements, bankVars, slips, envelopes>>

BankStep ==
  \E p \in Player : \/ \E n \in Grant : BankIssued(p, n)
                    \/ \E d \in Delta : BankAdjusted(p, d)

SlipStep ==
  \/ \E b \in Bet, p \in Player, r \in Round, t \in Target, n \in Amount, w \in BOOLEAN :
       BetPlaced(b, p, r, t, n, w)
  \/ \E b \in Bet : BetRemoved(b)

\* Offered by the felt of craps only.
WorkingStep == \E b \in Bet : BetPressed(b) \/ BetToggled(b)

BetStep == SlipStep \/ WorkingStep

RoundStep == \E r \in Round : BetsOpened(r) \/ BetsClosed(r)

ResultStep ==
  \/ \E res \in Result, r \in Round \cup {NoRound} : ResultOnBoardOnly(res, r)
  \/ \E res \in Result, r \in Round, k \in Kind : ResultSettles(res, r, k) \/ ResultEdited(res, r, k)
  \/ \E res \in Result : ResultUndone(res) \/ ResultDeleted(res) \/ ResultEditedInDialog(res)
  \/ SeriesStarted

Next == BankStep \/ BetStep \/ RoundStep \/ ResultStep

Spec == Init /\ [][Next]_vars
-----------------------------------------------------------------------------
(* Properties *)

\* The rounds, bets and settlements on record have their shapes.
BooksOK ==
  /\ status \in [Round -> {"unopened", "open", "closed", "settled"}]
  /\ resultOf \in [Round -> Result \cup {NoResult}]
  /\ DOMAIN slips \subseteq Bet /\ DOMAIN bets \subseteq DOMAIN slips
  /\ \A b \in DOMAIN bets : bets[b] \in BetRecord
  /\ \A b \in DOMAIN slips : slips[b] \in [player: Player, round: Round]
  /\ DOMAIN settlements \subseteq Round
  /\ \A r \in DOMAIN settlements : settlements[r] \subseteq Settlement
  /\ DOMAIN envelopes \subseteq Result
  /\ \A res \in DOMAIN envelopes : envelopes[res] \in Round \cup {NoRound}

TypeOK ==
  /\ BooksOK
  /\ bankroll \in [Player -> Int]
  /\ chipsIssuedTotal \in Nat
  /\ funds \in [Player -> Int]
  /\ results \in Seq(Result)

\* Settlements exist exactly for the rounds that name a result, and a settled
\* round is one of them: undo, edit, delete and a late close never leave a round
\* paid without its result or settled without its payments (reverseSettlementForRound).
RoundsAgree ==
  \A r \in Round :
    /\ (r \in DOMAIN settlements) <=> (resultOf[r] # NoResult)
    /\ status[r] = "settled" => r \in DOMAIN settlements
    /\ status[r] \in {"unopened", "open"} => r \notin DOMAIN settlements

\* One result settles at most one round, and only the round its envelope names.
OneRoundPerResult ==
  \A r \in Round : resultOf[r] # NoResult =>
    resultOf[r] \in DOMAIN envelopes /\ envelopes[resultOf[r]] = r

\* The chips of player p that lie on the felt, and the profit on p's settled bets.
StakeOnFelt(p) ==
  Total([b \in {b \in DOMAIN bets : bets[b].player = p /\ OnFelt(b)} |-> bets[b].amount])
ProfitIn(p, r) == Total([s \in {s \in settlements[r] : slips[s.bet].player = p} |-> s.profit])
ProfitOf(p) == Total([r \in {r \in DOMAIN settlements : status[r] = "settled"} |-> ProfitIn(p, r)])

\* The bankroll formula of the bank: a bankroll is what was issued and adjusted,
\* less the chips on the felt, plus the profit of the settled bets, so the
\* dealer's "chips in play" figures reconcile after any history rewrite.
ChipsReconcile ==
  \A p \in Player : bankroll[p] = funds[p] - StakeOnFelt(p) + ProfitOf(p)

Opens(r) == status[r] = "unopened" /\ status'[r] = "open"
Stays(b) ==
  /\ status[bets[b].round] = "settled"
  /\ \E s \in settlements[bets[b].round] : s.bet = b /\ s.outcome = "stay"

\* A bet that stays rides into the very next round that opens (and stays on the
\* felt meanwhile), whatever was edited or undone since it stayed.
StayingBetsRide ==
  [][\A r \in Round : Opens(r) => \A b \in DOMAIN bets : Stays(b) => bets'[b].round = r]_vars

\* Only a bet that stays rides: what was won, lost or pushed is not at risk again.
ResolvedBetsRest ==
  [][\A r \in Round : Opens(r) => \A b \in DOMAIN bets :
       status[bets[b].round] = "settled" /\ ~Stays(b) => bets'[b].round # r]_vars

\* "Edits on tables with bank = house re-settle affected rounds": a round that is
\* settled by a result stays settled by it as long as the result is on the board.
EditsResettle ==
  [][\A r \in Round :
       status[r] = "settled" /\ (\E i \in DOMAIN results' : results'[i] = resultOf[r])
       => status'[r] = "settled" /\ resultOf'[r] = resultOf[r]]_vars
=============================================================================
