---------------------------- MODULE PlatformProofs ----------------------------
(***************************************************************************)
(* Proofs about the platform reducer, for any number of players, bets,     *)
(* rounds and results and any payout table, and about the dealer's client  *)
(* that drives it.                                                         *)
(***************************************************************************)
EXTENDS DealerRound, DataLemmas, TLAPS

(* Totals *)

\* Totals, the sums of the values of a function.
LEMMA TotalFacts ==
  ASSUME NEW S, IsFiniteSet(S), NEW f \in [S -> Int]
  PROVE  /\ Total(f) \in Int
         /\ Total(f) = SumOf(f, S)
         /\ S = {} => Total(f) = 0
<1>1. DOMAIN f = S
  OBVIOUS
<1>2. Total(f) = SumOf(f, S)
  BY <1>1 DEF Total, SumOf
<1> QED BY <1>2, SumSteps

\* A total is the total over a part and the total over the rest.
LEMMA TotalParts ==
  ASSUME NEW S, IsFiniteSet(S), NEW f \in [S -> Int], NEW A \in SUBSET S
  PROVE  Total(f) = Total([x \in A |-> f[x]]) + Total([x \in S \ A |-> f[x]])
<1>1. Total(f) = SumOf(f, A) + SumOf(f, S \ A)
  BY TotalFacts, SumParts
<1>2. IsFiniteSet(A) /\ IsFiniteSet(S \ A)
  BY FiniteParts
<1>3. ASSUME NEW B \in SUBSET S, IsFiniteSet(B)
      PROVE  Total([x \in B |-> f[x]]) = SumOf(f, B)
  <2> DEFINE h == [x \in B |-> f[x]]
  <2>1. h \in [B -> Int] /\ \A x \in B : f[x] \in Int /\ h[x] = f[x]
    OBVIOUS
  <2> HIDE DEF h
  <2>2. SumOf(h, B) = SumOf(f, B)
    BY <1>3, <2>1, SumSame
  <2>3. Total(h) = SumOf(h, B)
    BY <1>3, <2>1, TotalFacts
  <2> QED BY <2>2, <2>3 DEF h
<1> QED BY <1>1, <1>2, <1>3

LEMMA TotalWithout ==
  ASSUME NEW S, IsFiniteSet(S), NEW f \in [S -> Int], NEW y \in S
  PROVE  Total(f) = f[y] + Total([x \in S \ {y} |-> f[x]])
<1>1. Total(f) = f[y] + SumOf(f, S \ {y})
  BY TotalFacts, SumSteps
<1> DEFINE h == [x \in S \ {y} |-> f[x]]
<1>2. h \in [S \ {y} -> Int] /\ \A x \in S \ {y} : f[x] \in Int /\ h[x] = f[x]
  OBVIOUS
<1>3. IsFiniteSet(S \ {y})
  BY FiniteParts
<1> HIDE DEF h
<1>4. SumOf(h, S \ {y}) = SumOf(f, S \ {y}) /\ Total(h) = SumOf(h, S \ {y})
  BY <1>2, <1>3, SumSame, TotalFacts
<1> QED BY <1>1, <1>4 DEF h

\* The settlements in S of the bets in B: what they return is what was staked on the bets and
\* the profit.
LEMMA SheetBalances ==
  ASSUME NEW B, IsFiniteSet(B), NEW amount \in [B -> Int],
         NEW S, \A s \in S : /\ s.bet \in B /\ s.returned \in Int
                             /\ s.profit = s.returned - amount[s.bet],
         \A b \in B : \E s \in S : s.bet = b,
         \A s, t \in S : s.bet = t.bet => s = t
  PROVE  /\ Total(amount) \in Int
         /\ Total([s \in S |-> s.profit]) \in Int
         /\ Total([s \in S |-> s.returned]) = Total([s \in S |-> s.profit]) + Total(amount)
<1> DEFINE m == [s \in S |-> s.bet]
           staked == [s \in S |-> amount[s.bet]]
           profit == [s \in S |-> s.profit]
           returned == [s \in S |-> s.returned]
           back == [b \in B |-> CHOOSE s \in S : s.bet = b]
<1>1. IsFiniteSet(S)
  <2>1. \A b \in B : back[b] \in S /\ back[b].bet = b
    OBVIOUS
  <2>2. \A s \in S : back[s.bet] = s
    BY <2>1
  <2>3. S = {back[b] : b \in B}
    BY <2>1, <2>2
  <2> HIDE DEF back
  <2> QED BY <2>3, FiniteImage
<1>2. staked \in [S -> Int] /\ profit \in [S -> Int] /\ returned \in [S -> Int]
  OBVIOUS
<1>3. TermByTerm(returned, profit, staked, S)
  BY DEF TermByTerm
<1>4. SumOf(staked, S) = SumOf(amount, B)
  <2>1. \A s, t \in S : m[s] = m[t] => s = t
    OBVIOUS
  <2>2. \A s \in S : amount[m[s]] \in Int
    OBVIOUS
  <2>3. {m[s] : s \in S} = B
    OBVIOUS
  <2>4. staked = [s \in S |-> amount[m[s]]]
    OBVIOUS
  <2> HIDE DEF staked, m
  <2>5. SumOf([s \in S |-> amount[m[s]]], S) = SumOf(amount, {m[s] : s \in S})
    BY <1>1, <2>1, <2>2, SumImage
  <2> QED BY <2>3, <2>4, <2>5
<1> HIDE DEF m, staked, profit, returned, back
<1>5. SumOf(returned, S) = SumOf(profit, S) + SumOf(staked, S)
  BY <1>1, <1>3, SumPlus
<1>6. /\ Total(amount) \in Int /\ Total(amount) = SumOf(amount, B)
      /\ Total(profit) \in Int /\ Total(profit) = SumOf(profit, S)
      /\ Total(returned) = SumOf(returned, S)
  BY <1>1, <1>2, TotalFacts
<1> QED BY <1>4, <1>5, <1>6 DEF profit, returned

-----------------------------------------------------------------------------
(* What a settlement is made of. *)

\* Floor division of a natural by a positive natural is a natural (roundDown).
LEMMA FloorIsNat ==
  ASSUME NEW a \in Nat, NEW n \in Nat, NEW d \in Nat \ {0}
  PROVE  (a * n) \div d \in Nat
<1>1. a * n \in Nat
  OBVIOUS
<1>2. \A x \in Nat : x \div d \in Nat
  OBVIOUS
<1> QED BY <1>1, <1>2

\* The settlement of a bet on record is a well-formed Settlement.
LEMMA SettleBetType ==
  ASSUME NEW b \in Bet, b \in DOMAIN bets, bets[b] \in BetRecord, NEW k \in Kind
  PROVE  SettleBet(b, k) \in Settlement
<1> DEFINE pay == Payout[bets[b].target][k]
<1>1. bets[b].target \in Target /\ bets[b].amount \in Nat
  BY DEF BetRecord
<1>2. pay \in [outcome: Outcome, num: Nat, den: Nat \ {0}, carry: Target]
  BY <1>1, PayoutAssumption
<1>3. (bets[b].amount * pay.num) \div pay.den \in Nat
  BY <1>1, <1>2, FloorIsNat
<1> DEFINE ret == (bets[b].amount * pay.num) \div pay.den
<1>4. ret \in Nat /\ ret - bets[b].amount \in Int
  BY <1>1, <1>3
<1>5. SettleBet(b, k) = [bet |-> b, outcome |-> pay.outcome, returned |-> ret, carry |-> pay.carry,
                         profit |-> IF pay.outcome = "stay" THEN 0 ELSE ret - bets[b].amount]
  BY DEF SettleBet
<1> HIDE DEF ret, pay
<1> QED BY <1>2, <1>4, <1>5 DEF Settlement

\* A carried bet keeps its player, round and amount.
LEMMA CarriedType ==
  ASSUME NEW b, b \in DOMAIN bets, bets[b] \in BetRecord, NEW k \in Kind
  PROVE  /\ Carried(b, k) \in BetRecord
         /\ Carried(b, k).round = bets[b].round
         /\ ~HasWorkingBets => Carried(b, k) = bets[b]
         /\ SettleBet(b, k).outcome = "stay" => Carried(b, k).working
<1>1. bets[b].target \in Target
  BY DEF BetRecord
<1>2. Payout[bets[b].target][k].carry \in Target
  BY <1>1, PayoutAssumption
<1>3. ~HasWorkingBets => Payout[bets[b].target][k].outcome # "stay"
  BY <1>1, WorkingAssumption
<1>4. SettleBet(b, k).outcome = Payout[bets[b].target][k].outcome
  BY DEF SettleBet
<1> QED BY <1>2, <1>3, <1>4 DEF Carried, BetRecord

-----------------------------------------------------------------------------
(* The inductive invariant.  BetsHome says where settlements and bets belong:
   the settlements of a round are of distinct bets, and in a game of round bets
   a bet and its settlement stay with the round the bet was placed in.       *)

BetsHome ==
  /\ \A r \in DOMAIN settlements : \A s1, s2 \in settlements[r] : s1.bet = s2.bet => s1 = s2
  /\ \A r \in DOMAIN settlements : \A s \in settlements[r] : s.bet \in DOMAIN slips
  /\ ~HasWorkingBets =>
       /\ \A b \in DOMAIN bets : bets[b].round = slips[b].round /\ ~bets[b].working
       /\ \A r \in DOMAIN settlements : \A s \in settlements[r] : slips[s.bet].round = r

\* A bet whose settlement is "stay" is working, so the next round picks it up.
StayersWork ==
  \A b \in DOMAIN bets : status[bets[b].round] = "settled" =>
    \A s \in settlements[bets[b].round] :
      s.bet = b /\ s.outcome = "stay" => bets[b].working

IInv == BooksOK /\ RoundsAgree /\ OneRoundPerResult /\ BetsHome /\ StayersWork

\* What is settled by Resettle: the facts every result that pays relies on.
LEMMA ResettleKeepsBooks ==
  ASSUME IInv, NEW r \in Round, NEW res \in Result, NEW k \in Kind,
         Resettle(r, res, k), UNCHANGED slips,
         status[r] # "unopened",
         res \in DOMAIN envelopes', envelopes'[res] = r,
         DOMAIN envelopes' \subseteq Result,
         \A x \in DOMAIN envelopes' : envelopes'[x] \in Round \cup {NoRound},
         \A x \in DOMAIN envelopes : x \in DOMAIN envelopes' /\ envelopes'[x] = envelopes[x]
  PROVE  IInv'
<1> USE DEF IInv
<1> DEFINE new == SettleAll(r, k)
<1>1. /\ DOMAIN bets' = DOMAIN bets
      /\ \A b \in DOMAIN bets : bets'[b] = IF bets[b].round = r THEN Carried(b, k) ELSE bets[b]
      /\ DOMAIN settlements' = DOMAIN settlements \cup {r}
      /\ settlements'[r] = new
      /\ \A x \in DOMAIN settlements \ {r} : settlements'[x] = settlements[x]
      /\ status' = [status EXCEPT ![r] = "settled"]
      /\ resultOf' = [resultOf EXCEPT ![r] = res]
  BY DEF Resettle
<1>2. \A b \in DOMAIN bets : b \in Bet /\ b \in DOMAIN slips /\ bets[b] \in BetRecord
  BY DEF BooksOK
<1>3. \A b \in DOMAIN bets : /\ bets'[b] \in BetRecord
                             /\ bets'[b].round = bets[b].round
                             /\ ~HasWorkingBets => bets'[b] = bets[b]
                             /\ bets[b].round = r /\ SettleBet(b, k).outcome = "stay"
                                  => bets'[b].working
                             /\ bets[b].round # r => bets'[b] = bets[b]
  BY <1>1, <1>2, CarriedType
<1>4. \A s \in new : s \in Settlement /\ s.bet \in DOMAIN bets /\ bets[s.bet].round = r
                     /\ s = SettleBet(s.bet, k)
  <2> SUFFICES ASSUME NEW b \in RoundBets(r)
               PROVE  /\ SettleBet(b, k) \in Settlement
                      /\ SettleBet(b, k).bet = b
                      /\ b \in DOMAIN bets /\ bets[b].round = r
    BY DEF SettleAll
  <2>1. b \in DOMAIN bets /\ bets[b].round = r
    BY DEF RoundBets
  <2>2. SettleBet(b, k).bet = b
    BY DEF SettleBet
  <2> QED BY <2>1, <2>2, <1>2, SettleBetType
<1> HIDE DEF new
<1>5. BooksOK'
  BY <1>1, <1>2, <1>3, <1>4 DEF BooksOK
<1>6. RoundsAgree'
  BY <1>1, ResultAssumption DEF RoundsAgree, BooksOK
<1>7. OneRoundPerResult'
  BY <1>1 DEF OneRoundPerResult, BooksOK
<1>8. BetsHome'
  <2>1. \A x \in DOMAIN settlements' : \A s1, s2 \in settlements'[x] : s1.bet = s2.bet => s1 = s2
    BY <1>1, <1>4 DEF BetsHome
  <2>2. \A x \in DOMAIN settlements' : \A s \in settlements'[x] : s.bet \in DOMAIN slips
    BY <1>1, <1>2, <1>4 DEF BetsHome
  <2>3. ASSUME ~HasWorkingBets
        PROVE  /\ \A b \in DOMAIN bets' : bets'[b].round = slips[b].round /\ ~bets'[b].working
               /\ \A x \in DOMAIN settlements' : \A s \in settlements'[x] : slips[s.bet].round = x
    BY <2>3, <1>1, <1>3, <1>4 DEF BetsHome
  <2> QED BY <2>1, <2>2, <2>3 DEF BetsHome
<1>9. StayersWork'
  <2> SUFFICES ASSUME NEW b \in DOMAIN bets', status'[bets'[b].round] = "settled",
                      NEW s \in settlements'[bets'[b].round], s.bet = b, s.outcome = "stay"
               PROVE  bets'[b].working
    BY DEF StayersWork
  <2>1. b \in DOMAIN bets /\ bets'[b].round = bets[b].round
    BY <1>1, <1>3
  <2>2. CASE bets[b].round = r
    BY <2>1, <2>2, <1>1, <1>3, <1>4
  <2>3. CASE bets[b].round # r
    <3>1. bets[b].round \in Round /\ bets'[b] = bets[b] /\ status[bets[b].round] = "settled"
      BY <2>1, <2>3, <1>1, <1>2, <1>3 DEF BooksOK, BetRecord
    <3>2. bets[b].round \in DOMAIN settlements
      BY <3>1 DEF RoundsAgree
    <3> QED BY <2>1, <2>3, <3>1, <3>2, <1>1 DEF StayersWork
  <2> QED BY <2>2, <2>3
<1> QED BY <1>5, <1>6, <1>7, <1>8, <1>9

\* Taking payments back leaves the books of every other round untouched.
LEMMA ReverseKeepsBooks ==
  ASSUME IInv, NEW r \in Round, r \in DOMAIN settlements,
         ReverseSettlement(r), UNCHANGED <<bets, slips, envelopes>>
  PROVE  IInv'
<1> USE DEF IInv
<1>1. /\ DOMAIN settlements' = DOMAIN settlements \ {r}
      /\ \A x \in DOMAIN settlements \ {r} : settlements'[x] = settlements[x]
      /\ status' = [status EXCEPT ![r] = "closed"]
      /\ resultOf' = [resultOf EXCEPT ![r] = NoResult]
  BY DEF ReverseSettlement
<1>2. BooksOK'
  BY <1>1 DEF BooksOK
<1>3. RoundsAgree'
  BY <1>1 DEF RoundsAgree, BooksOK
<1>4. OneRoundPerResult'
  BY <1>1 DEF OneRoundPerResult, BooksOK
<1>5. BetsHome'
  BY <1>1 DEF BetsHome
<1>6. StayersWork'
  BY <1>1 DEF StayersWork, BooksOK, RoundsAgree, BetRecord
<1> QED BY <1>2, <1>3, <1>4, <1>5, <1>6

LEMMA TakeBackKeepsBooks ==
  ASSUME IInv, NEW res \in Result, TakeBack(res), UNCHANGED <<bets, slips, envelopes>>
  PROVE  IInv'
<1>1. CASE \E r \in Round : resultOf[r] = res
  <2> DEFINE r == CHOOSE x \in Round : resultOf[x] = res
  <2>1. r \in Round /\ resultOf[r] = res
    BY <1>1
  <2>2. r \in DOMAIN settlements
    BY <2>1, ResultAssumption DEF IInv, RoundsAgree
  <2>3. ReverseSettlement(r)
    BY <1>1 DEF TakeBack
  <2> QED BY <2>1, <2>2, <2>3, ReverseKeepsBooks
<1>2. CASE ~\E r \in Round : resultOf[r] = res
  <2>1. UNCHANGED <<settlements, status, resultOf, bets, slips, envelopes>>
    BY <1>2 DEF TakeBack
  <2> QED BY <2>1 DEF IInv, BooksOK, RoundsAgree, OneRoundPerResult, BetsHome, StayersWork
<1> QED BY <1>1, <1>2

\* An edited result that has lost its round settles no round any more.
LEMMA DialogEditKeepsBooks ==
  ASSUME IInv, NEW res \in Result, ResultEditedInDialog(res)
  PROVE  IInv'
<1> USE DEF IInv
<1>1. /\ envelopes' = [envelopes EXCEPT ![res] = NoRound]
      /\ TakeBack(res) /\ UNCHANGED <<bets, slips>>
  BY DEF ResultEditedInDialog
<1>2. CASE \E r \in Round : resultOf[r] = res
  <2> DEFINE r == CHOOSE x \in Round : resultOf[x] = res
  <2>1. r \in Round /\ resultOf[r] = res
    BY <1>2
  <2>2. r \in DOMAIN settlements
    BY <2>1, ResultAssumption DEF RoundsAgree
  <2>3. ReverseSettlement(r)
    BY <1>1, <1>2 DEF TakeBack
  <2>4. \A x \in Round : x # r => resultOf[x] # res
    BY <2>1, ResultAssumption DEF OneRoundPerResult
  <2> HIDE DEF r
  <2>5. /\ DOMAIN settlements' = DOMAIN settlements \ {r}
        /\ \A x \in DOMAIN settlements \ {r} : settlements'[x] = settlements[x]
        /\ status' = [status EXCEPT ![r] = "closed"]
        /\ resultOf' = [resultOf EXCEPT ![r] = NoResult]
    BY <2>3 DEF ReverseSettlement
  <2>6. BooksOK'
    BY <1>1, <2>1, <2>5 DEF BooksOK
  <2>7. RoundsAgree'
    BY <2>1, <2>5 DEF RoundsAgree, BooksOK
  <2>8. OneRoundPerResult'
    BY <1>1, <2>1, <2>4, <2>5 DEF OneRoundPerResult, BooksOK
  <2>9. BetsHome'
    BY <1>1, <2>5 DEF BetsHome
  <2>10. StayersWork'
    BY <1>1, <2>1, <2>5 DEF StayersWork, BooksOK, RoundsAgree, BetRecord
  <2> QED BY <2>6, <2>7, <2>8, <2>9, <2>10
<1>3. CASE ~\E r \in Round : resultOf[r] = res
  <2>1. UNCHANGED <<settlements, status, resultOf, bets, slips>>
    BY <1>1, <1>3 DEF TakeBack
  <2>2. BooksOK' /\ OneRoundPerResult'
    BY <1>1, <1>3, <2>1 DEF BooksOK, OneRoundPerResult
  <2> QED BY <2>1, <2>2 DEF RoundsAgree, BetsHome, StayersWork
<1> QED BY <1>2, <1>3

\* Appending a result with a fresh id records the round it names.
LEMMA AppendFacts ==
  ASSUME BooksOK, NEW res \in Result, NEW r \in Round \cup {NoRound}, AppendResult(res, r)
  PROVE  /\ res \notin DOMAIN envelopes
         /\ DOMAIN envelopes' = DOMAIN envelopes \cup {res}
         /\ envelopes'[res] = r
         /\ \A x \in DOMAIN envelopes : envelopes'[x] = envelopes[x]
         /\ DOMAIN envelopes' \subseteq Result
         /\ \A x \in DOMAIN envelopes' : envelopes'[x] \in Round \cup {NoRound}
BY DEF AppendResult, BooksOK

-----------------------------------------------------------------------------
(* One lemma per group of events. *)

LEMMA BankKeeps ==
  ASSUME IInv, BankStep
  PROVE  IInv'
<1>1. UNCHANGED <<status, resultOf, bets, settlements, slips, envelopes>>
  BY DEF BankStep, BankIssued, BankAdjusted, roundVars, listVars
<1> QED BY <1>1 DEF IInv, BooksOK, RoundsAgree, OneRoundPerResult, BetsHome, StayersWork

LEMMA BetKeeps ==
  ASSUME IInv, BetStep
  PROVE  IInv'
<1> USE DEF IInv
<1>1. ASSUME NEW b \in Bet, NEW p \in Player, NEW r \in Round, NEW t \in Target,
             NEW n \in Amount, NEW w \in BOOLEAN, BetPlaced(b, p, r, t, n, w)
      PROVE  IInv'
  <2> DEFINE rec == [player |-> p, round |-> r, target |-> t, amount |-> n, working |-> w]
  <2>1. /\ UNCHANGED <<status, resultOf, settlements, envelopes>>
        /\ DOMAIN bets' = DOMAIN bets \cup {b}
        /\ DOMAIN slips' = DOMAIN slips \cup {b}
        /\ b \notin DOMAIN slips
        /\ bets'[b] = rec
        /\ slips'[b] = [player |-> p, round |-> r]
        /\ \A x \in DOMAIN bets \ {b} : bets'[x] = bets[x]
        /\ \A x \in DOMAIN slips \ {b} : slips'[x] = slips[x]
        /\ w => HasWorkingBets
    BY <1>1 DEF BetPlaced, roundVars, listVars
  <2>2. rec \in BetRecord /\ rec.round = r /\ rec.working = w
    BY AmountAssumption DEF BetRecord
  <2> HIDE DEF rec
  <2>3. BooksOK'
    BY <2>1, <2>2 DEF BooksOK
  <2>4. RoundsAgree' /\ OneRoundPerResult'
    BY <2>1 DEF RoundsAgree, OneRoundPerResult
  <2>5. BetsHome'
    BY <2>1, <2>2 DEF BetsHome, BooksOK
  <2>6. StayersWork'
    <3>1. status[r] = "open"
      BY <1>1 DEF BetPlaced
    <3> QED BY <2>1, <2>2, <3>1 DEF StayersWork, BooksOK
  <2> QED BY <2>3, <2>4, <2>5, <2>6
<1>2. ASSUME NEW b \in Bet, BetPressed(b)
      PROVE  IInv'
  <2>1. PICK s \in SettlementsOf(b) :
          /\ s.profit > 0
          /\ bets' = [bets EXCEPT ![b].amount = @ + s.profit]
    BY <1>2 DEF BetPressed
  <2>2. b \in DOMAIN bets /\ UNCHANGED <<status, resultOf, settlements, slips, envelopes>>
    BY <1>2 DEF BetPressed, roundVars, listVars
  <2>3. s \in Settlement
    BY DEF SettlementsOf, BooksOK
  <2>4. /\ DOMAIN bets' = DOMAIN bets
        /\ bets'[b] = [bets[b] EXCEPT !.amount = @ + s.profit]
        /\ \A x \in DOMAIN bets \ {b} : bets'[x] = bets[x]
    BY <2>1, <2>2
  <2>5. /\ bets'[b] \in BetRecord
        /\ bets'[b].round = bets[b].round /\ bets'[b].working = bets[b].working
    BY <2>1, <2>2, <2>3, <2>4 DEF BooksOK, BetRecord, Settlement
  <2>6. BooksOK'
    BY <2>2, <2>4, <2>5 DEF BooksOK
  <2>7. RoundsAgree' /\ OneRoundPerResult'
    BY <2>2 DEF RoundsAgree, OneRoundPerResult
  <2>8. BetsHome'
    BY <2>2, <2>4, <2>5 DEF BetsHome
  <2>9. \A x \in DOMAIN bets : bets'[x].round = bets[x].round /\ bets'[x].working = bets[x].working
    BY <2>4, <2>5
  <2>10. StayersWork'
    BY <2>2, <2>4, <2>9 DEF StayersWork
  <2> QED BY <2>6, <2>7, <2>8, <2>10
<1>3. ASSUME NEW b \in Bet, BetToggled(b)
      PROVE  IInv'
  <2>1. /\ b \in DOMAIN bets /\ HasWorkingBets
        /\ UNCHANGED <<status, resultOf, settlements, slips, envelopes>>
        /\ bets' = [bets EXCEPT ![b].working = ~@]
    BY <1>3 DEF BetToggled, roundVars, listVars
  <2>2. /\ DOMAIN bets' = DOMAIN bets
        /\ bets'[b] = [bets[b] EXCEPT !.working = ~@]
        /\ \A x \in DOMAIN bets \ {b} : bets'[x] = bets[x]
    BY <2>1
  <2>3. bets'[b] \in BetRecord /\ bets'[b].round = bets[b].round
    BY <2>1, <2>2 DEF BooksOK, BetRecord
  <2>4. BooksOK'
    BY <2>1, <2>2, <2>3 DEF BooksOK
  <2>5. RoundsAgree' /\ OneRoundPerResult'
    BY <2>1 DEF RoundsAgree, OneRoundPerResult
  <2>6. BetsHome'
    BY <2>1, <2>2, <2>3 DEF BetsHome
  <2>7. StayersWork'
    <3>1. status[bets[b].round] = "open"
      BY <1>3 DEF BetToggled
    <3> QED BY <2>1, <2>2, <2>3, <3>1 DEF StayersWork
  <2> QED BY <2>4, <2>5, <2>6, <2>7
<1>4. ASSUME NEW b \in Bet, BetRemoved(b)
      PROVE  IInv'
  <2>1. /\ DOMAIN bets' = DOMAIN bets \ {b}
        /\ \A x \in DOMAIN bets' : bets'[x] = bets[x]
        /\ UNCHANGED <<status, resultOf, settlements, slips, envelopes>>
    BY <1>4 DEF BetRemoved, roundVars, listVars
  <2> QED BY <2>1 DEF BooksOK, RoundsAgree, OneRoundPerResult, BetsHome, StayersWork
<1> QED BY <1>1, <1>2, <1>3, <1>4 DEF BetStep, SlipStep, WorkingStep

LEMMA RoundKeeps ==
  ASSUME IInv, RoundStep
  PROVE  IInv'
<1> USE DEF IInv
<1>1. ASSUME NEW r \in Round, BetsOpened(r)
      PROVE  IInv'
  <2>1. /\ status[r] = "unopened"
        /\ status' = [status EXCEPT ![r] = "open"]
        /\ DOMAIN bets' = DOMAIN bets
        /\ \A b \in DOMAIN bets : bets'[b] =
             IF bets[b].working /\ status[bets[b].round] = "settled"
               THEN [bets[b] EXCEPT !.round = r] ELSE bets[b]
        /\ UNCHANGED <<resultOf, settlements, slips, envelopes>>
    BY <1>1 DEF BetsOpened, listVars
  <2>2. \A b \in DOMAIN bets : /\ bets'[b] \in BetRecord
                               /\ ~bets[b].working => bets'[b] = bets[b]
    BY <2>1 DEF BooksOK, BetRecord
  <2>3. BooksOK'
    BY <2>1, <2>2 DEF BooksOK
  <2>4. RoundsAgree' /\ OneRoundPerResult'
    BY <2>1 DEF RoundsAgree, OneRoundPerResult, BooksOK
  <2>5. BetsHome'
    BY <2>1, <2>2 DEF BetsHome
  <2>6. StayersWork'
    BY <2>1, <2>2 DEF StayersWork, BooksOK, BetRecord
  <2> QED BY <2>3, <2>4, <2>5, <2>6
<1>2. ASSUME NEW r \in Round, BetsClosed(r)
      PROVE  IInv'
  <2>1. /\ status[r] \in {"open", "settled"}
        /\ status' = [status EXCEPT ![r] = "closed"]
        /\ UNCHANGED <<resultOf, bets, settlements, slips, envelopes>>
    BY <1>2 DEF BetsClosed, listVars
  <2>2. BooksOK' /\ OneRoundPerResult'
    BY <2>1 DEF BooksOK, OneRoundPerResult
  <2>3. RoundsAgree'
    BY <2>1 DEF BooksOK, RoundsAgree
  <2>4. BetsHome'
    BY <2>1 DEF BetsHome
  <2>5. StayersWork'
    BY <2>1 DEF BooksOK, StayersWork
  <2> QED BY <2>2, <2>3, <2>4, <2>5
<1> QED BY <1>1, <1>2 DEF RoundStep

LEMMA ResultKeeps ==
  ASSUME IInv, ResultStep
  PROVE  IInv'
<1> USE DEF IInv
<1>1. ASSUME NEW res \in Result, NEW r \in Round \cup {NoRound}, ResultOnBoardOnly(res, r)
      PROVE  IInv'
  <2>1. UNCHANGED <<status, resultOf, bets, settlements, slips>> /\ AppendResult(res, r)
    BY <1>1 DEF ResultOnBoardOnly, roundVars
  <2>2. RoundsAgree' /\ BetsHome' /\ StayersWork'
    BY <2>1 DEF RoundsAgree, BetsHome, StayersWork
  <2>3. BooksOK' /\ OneRoundPerResult'
    BY <2>1, AppendFacts DEF BooksOK, OneRoundPerResult
  <2> QED BY <2>2, <2>3
<1>2. ASSUME NEW res \in Result, NEW r \in Round, NEW k \in Kind, ResultSettles(res, r, k)
      PROVE  IInv'
  <2>1. /\ AppendResult(res, r) /\ Resettle(r, res, k) /\ UNCHANGED slips
        /\ status[r] # "unopened"
    BY <1>2 DEF ResultSettles
  <2> QED BY <2>1, AppendFacts, ResettleKeepsBooks
<1>3. ASSUME NEW res \in Result, NEW r \in Round, NEW k \in Kind, ResultEdited(res, r, k)
      PROVE  IInv'
  <2>1. resultOf[r] = res /\ Resettle(r, res, k) /\ UNCHANGED <<slips, envelopes>>
    BY <1>3 DEF ResultEdited, listVars
  <2>2. res \in DOMAIN envelopes /\ envelopes[res] = r /\ status[r] # "unopened"
    BY <2>1, ResultAssumption DEF OneRoundPerResult, RoundsAgree
  <2> QED BY <2>1, <2>2, ResettleKeepsBooks DEF BooksOK
<1>4. ASSUME NEW res \in Result, ResultUndone(res) \/ ResultDeleted(res)
      PROVE  IInv'
  BY <1>4, TakeBackKeepsBooks DEF ResultUndone, ResultDeleted, DropResult
<1>5. CASE SeriesStarted
  <2>1. UNCHANGED <<status, resultOf, bets, settlements, slips, envelopes>>
    BY <1>5 DEF SeriesStarted, roundVars
  <2> QED BY <2>1 DEF BooksOK, RoundsAgree, OneRoundPerResult, BetsHome, StayersWork
<1>6. ASSUME NEW res \in Result, ResultEditedInDialog(res)
      PROVE  IInv'
  BY <1>6, DialogEditKeepsBooks
<1> QED BY <1>1, <1>2, <1>3, <1>4, <1>5, <1>6 DEF ResultStep

-----------------------------------------------------------------------------
LEMMA InitIInv == Init => IInv
BY ResultAssumption DEF Init, IInv, BooksOK, RoundsAgree, OneRoundPerResult, BetsHome, StayersWork

LEMMA NextIInv == IInv /\ [Next]_vars => IInv'
<1> SUFFICES ASSUME IInv, [Next]_vars
             PROVE  IInv'
  OBVIOUS
<1>1. CASE Next
  BY <1>1, BankKeeps, BetKeeps, RoundKeeps, ResultKeeps DEF Next
<1>2. CASE UNCHANGED vars
  BY <1>2 DEF vars, IInv, BooksOK, RoundsAgree, OneRoundPerResult, BetsHome, StayersWork
<1> QED BY <1>1, <1>2

THEOREM Inductive == Spec => []IInv
BY InitIInv, NextIInv, PTL DEF Spec

\* The records of rounds, bets, settlements and results always have their shapes.
THEOREM BooksStayTyped == Spec => []BooksOK
<1>1. IInv => BooksOK
  BY DEF IInv
<1> QED BY <1>1, Inductive, PTL

\* However results are recorded, edited, undone, deleted or recorded for a round
\* closed late, a round has settlements exactly when it names its result.
THEOREM RoundsAlwaysAgree == Spec => [](RoundsAgree /\ OneRoundPerResult)
<1>1. IInv => RoundsAgree /\ OneRoundPerResult
  BY DEF IInv
<1> QED BY <1>1, Inductive, PTL

\* Every bet that stays rides into the very next round that opens.
THEOREM StayersAlwaysRide == Spec => StayingBetsRide
<1> DEFINE Ride == \A r \in Round : Opens(r) => \A b \in DOMAIN bets : Stays(b) => bets'[b].round = r
<1>1. IInv /\ [Next]_vars => [Ride]_vars
  <2> SUFFICES ASSUME IInv, [Next]_vars, NEW r \in Round, Opens(r),
                      NEW b \in DOMAIN bets, Stays(b)
               PROVE  bets'[b].round = r
    OBVIOUS
  <2>1. bets[b].working /\ status[bets[b].round] = "settled"
    BY DEF IInv, StayersWork, Stays
  <2>2. ASSUME NEW x \in Round, BetsOpened(x)
        PROVE  bets'[b].round = r
    <3>1. x = r
      BY <2>2 DEF BetsOpened, Opens, IInv, BooksOK
    <3> QED BY <2>1, <2>2, <3>1 DEF BetsOpened, IInv, BooksOK, BetRecord
  <2>3. ASSUME status' # status
        PROVE  Next
    BY <2>3 DEF vars
  <2>4. status' # status
    BY DEF Opens
  <2>5. ~BankStep
    BY <2>4 DEF BankStep, BankIssued, BankAdjusted, roundVars
  <2>6. ~BetStep
    BY <2>4 DEF BetStep, SlipStep, WorkingStep, BetPlaced, BetPressed, BetToggled, BetRemoved, roundVars
  <2>7. ~ResultStep
    <3>1. ASSUME NEW x \in Round, status' = [status EXCEPT ![x] = "settled"]
                                 \/ status' = [status EXCEPT ![x] = "closed"]
          PROVE  FALSE
      BY <3>1 DEF Opens, IInv, BooksOK
    <3>2. ASSUME NEW res \in Result, TakeBack(res)
          PROVE  FALSE
      BY <3>1, <3>2, <2>4 DEF TakeBack, ReverseSettlement
    <3> QED BY <3>1, <3>2, <2>4 DEF ResultStep, ResultOnBoardOnly, ResultSettles, ResultEdited,
               ResultEditedInDialog, Resettle, DropResult, ResultUndone, ResultDeleted,
               SeriesStarted, roundVars
  <2>8. ASSUME NEW x \in Round, BetsClosed(x)
        PROVE  FALSE
    BY <2>8 DEF BetsClosed, Opens, IInv, BooksOK
  <2> QED BY <2>2, <2>3, <2>4, <2>5, <2>6, <2>7, <2>8 DEF Next, RoundStep
<1> QED BY <1>1, Inductive, PTL DEF Spec, StayingBetsRide

-----------------------------------------------------------------------------
(* The dealer's client.  Every step of it is a step of the reducer or leaves the
   reducer alone, so what is proved of the reducer is true under its hand.      *)

\* Rounds are opened one by one, so there is always a last one.
RoundsBounded == \E n \in Nat : \A r \in OpenedRounds : r <= n

\* What was rendered is a round, and the bet timer belongs to it.
HookInv == HookOK /\ (seen.open => seen.round \in Round)

DealerInv == IInv /\ RoundsBounded /\ HookInv

LEMMA CurrentIsRound ==
  ASSUME RoundsBounded
  PROVE  /\ CurrentRound \in Round \cup {NoRound}
         /\ LatestSettled \in Round \cup {NoRound}
         /\ ClosedRound \in Round \cup {NoRound}
<1>1. PICK n \in Nat : \A r \in OpenedRounds : r <= n
  BY DEF RoundsBounded
<1>2. ASSUME NEW S, S \subseteq OpenedRounds, S # {}
      PROVE  Max(S) \in Round
  <2>1. S \subseteq Round /\ S \subseteq Nat /\ \A y \in S : y <= n
    BY <1>1, <1>2, RoundAssumption DEF OpenedRounds
  <2> QED BY <1>2, <2>1, MaxOfBounded
<1>3. {r \in Round : status[r] \in {"open", "closed"}} \subseteq OpenedRounds
  BY DEF OpenedRounds
<1>4. {r \in Round : status[r] = "settled"} \subseteq OpenedRounds
  BY DEF OpenedRounds
<1>5. ClosedRounds \subseteq OpenedRounds
  BY DEF OpenedRounds, ClosedRounds
<1> QED BY <1>2, <1>3, <1>4, <1>5 DEF CurrentRound, LatestSettled, ClosedRound

\* The dealer's client does to the reducer what the reducer offers.
LEMMA DealerStepIsPlatformStep ==
  ASSUME DealerInv, [DealerNext]_dealerVars
  PROVE  [Next]_vars
<1>1. ASSUME Render \/ UNCHANGED dealerVars
      PROVE  UNCHANGED vars
  BY <1>1 DEF Render, dealerVars
<1>2. ASSUME OpenNewRound
      PROVE  Next
  BY <1>2 DEF OpenNewRound, Next, RoundStep
<1>3. ASSUME NEW r \in Round, Close(r) \/ BetsClosed(r)
      PROVE  [Next]_vars
  BY <1>3 DEF Close, Next, RoundStep
<1>4. ASSUME ToggleBets
      PROVE  [Next]_vars
  <2>1. seen.open => seen.round \in Round
    BY DEF DealerInv, HookInv
  <2> QED BY <1>2, <1>3, <1>4, <2>1 DEF ToggleBets
<1>5. ASSUME TimerFires
      PROVE  [Next]_vars
  <2>1. CASE AutoOpenFires
    BY <1>2, <2>1 DEF AutoOpenFires
  <2>2. CASE BetTimerFires
    <3>1. betTimer \in Round
      BY <2>2 DEF BetTimerFires, DealerInv, HookInv, HookOK
    <3> QED BY <1>3, <2>2, <3>1 DEF BetTimerFires
  <2> QED BY <1>5, <2>1, <2>2 DEF TimerFires
<1>6. ASSUME EntryCloses
      PROVE  [Next]_vars
  <2>1. CurrentRound \in Round
    BY <1>6, CurrentIsRound DEF EntryCloses, IsOpen, DealerInv
  <2> QED BY <1>3, <1>6, <2>1 DEF EntryCloses
<1>7. ASSUME NEW res \in Result, NEW k \in Kind, ResultRecorded(res, k)
      PROVE  Next
  <2>1. ClosedRound # NoRound => ClosedRound \in Round
    BY CurrentIsRound DEF DealerInv
  <2> QED BY <1>7, <2>1 DEF ResultRecorded, Next, ResultStep
<1>8. ASSUME results # <<>>, HistoryChanged
      PROVE  Next
  BY <1>8 DEF HistoryChanged, Next, ResultStep
<1>9. ASSUME PlayerActs
      PROVE  Next
  BY <1>9 DEF PlayerActs, Next
<1> QED BY <1>1, <1>4, <1>5, <1>6, <1>7, <1>8, <1>9 DEF DealerNext, DealerActs, ResultConfirmed, QuickResult

\* What a step does to the status of the rounds: one round at most is affected, and it is
\* opened, closed or settled.
OneStatus(r) == \E s \in {"closed", "settled"} : status' = [status EXCEPT ![r] = s]

LEMMA StatusStep ==
  ASSUME [Next]_vars
  PROVE  \/ status' = status
         \/ \E r \in Round : BetsOpened(r) \/ OneStatus(r)
<1>1. CASE UNCHANGED vars
  BY <1>1 DEF vars
<1>2. CASE BankStep
  BY <1>2 DEF BankStep, BankIssued, BankAdjusted, roundVars
<1>3. CASE BetStep
  BY <1>3 DEF BetStep, SlipStep, WorkingStep, BetPlaced, BetPressed, BetToggled, BetRemoved, roundVars
<1>4. CASE RoundStep
  BY <1>4 DEF RoundStep, BetsClosed, OneStatus
<1>5. CASE ResultStep
  <2>1. ASSUME NEW res \in Result, TakeBack(res)
        PROVE  status' = status \/ \E r \in Round : OneStatus(r)
    <3>1. CASE \E r \in Round : resultOf[r] = res
      <4>1. PICK r \in Round : ReverseSettlement(r)
        BY <2>1, <3>1 DEF TakeBack
      <4> QED BY <4>1 DEF ReverseSettlement, OneStatus
    <3>2. CASE ~\E r \in Round : resultOf[r] = res
      BY <2>1, <3>2 DEF TakeBack
    <3> QED BY <3>1, <3>2
  <2>2. ASSUME NEW res \in Result, NEW r \in Round, NEW k \in Kind, Resettle(r, res, k)
        PROVE  OneStatus(r)
    BY <2>2 DEF Resettle, OneStatus
  <2> QED
    BY <1>5, <2>1, <2>2 DEF ResultStep, ResultOnBoardOnly, ResultSettles, ResultEdited,
       ResultEditedInDialog, DropResult, ResultUndone, ResultDeleted, SeriesStarted, roundVars
<1> QED BY <1>1, <1>2, <1>3, <1>4, <1>5 DEF Next

LEMMA RoundsStayBounded ==
  ASSUME BooksOK, RoundsBounded, [Next]_vars
  PROVE  RoundsBounded'
<1>1. PICK n \in Nat : \A r \in OpenedRounds : r <= n
  BY DEF RoundsBounded
<1>2. CASE status' = status
  BY <1>2 DEF RoundsBounded, OpenedRounds
<1>3. ASSUME NEW r \in Round, BetsOpened(r) \/ OneStatus(r)
      PROVE  RoundsBounded'
  <2>1. OpenedRounds' \subseteq OpenedRounds \cup {r}
    BY <1>3 DEF BetsOpened, OneStatus, OpenedRounds, BooksOK
  <2>2. r \in Nat /\ \A x \in OpenedRounds : x \in Nat
    BY RoundAssumption DEF OpenedRounds
  <2>3. CASE r <= n
    <3>1. \A x \in OpenedRounds' : x <= n
      BY <1>1, <2>1, <2>3
    <3> QED BY <3>1 DEF RoundsBounded
  <2>4. CASE n <= r
    <3>1. \A x \in OpenedRounds' : x <= r
      BY <1>1, <2>1, <2>2, <2>4
    <3> QED BY <2>2, <3>1 DEF RoundsBounded
  <2> QED BY <2>2, <2>3, <2>4
<1> QED BY <1>2, <1>3, StatusStep

LEMMA ViewType ==
  ASSUME RoundsBounded
  PROVE  /\ View \in [round: Round \cup {NoRound}, open: BOOLEAN]
         /\ View.open <=> IsOpen(CurrentRound)
         /\ View.round = CurrentRound
         /\ View.open => View.round \in Round
<1>1. CurrentRound \in Round \cup {NoRound}
  BY CurrentIsRound
<1>2. IsOpen(CurrentRound) \in BOOLEAN
  BY DEF IsOpen
<1>3. IsOpen(CurrentRound) => CurrentRound \in Round
  BY <1>1 DEF IsOpen
<1> QED BY <1>1, <1>2, <1>3 DEF View

LEMMA HookKept ==
  ASSUME DealerInv, [DealerNext]_dealerVars
  PROVE  HookInv'
<1> USE DEF DealerInv, HookInv, HookOK
<1>1. CASE UNCHANGED hookVars
  BY <1>1 DEF hookVars
<1>2. CASE Render
  <2>1. LatestSettled \in Round \cup {NoRound} /\ CurrentRound \in Round \cup {NoRound}
    BY CurrentIsRound
  <2>2. seen'.open <=> IsOpen(CurrentRound)
    BY <1>2, ViewType DEF Render
  <2>3. seen'.round = CurrentRound /\ seen' \in [round: Round \cup {NoRound}, open: BOOLEAN]
    BY <1>2, ViewType DEF Render
  <2>4. betTimer' # NoRound => seen'.open /\ betTimer' = seen'.round
    BY <1>2, <2>2, <2>3 DEF Render
  <2>5. seen'.open => seen'.round \in Round
    BY <2>1, <2>2, <2>3 DEF IsOpen
  <2>6. lastSettled' \in Round \cup {NoRound}
    BY <1>2, <2>1 DEF Render
  <2>7. autoOpen' \in {"off", "opens", "skips"}
    BY <1>2 DEF Render
  <2> QED BY <2>3, <2>4, <2>5, <2>6, <2>7
<1>3. CASE AutoOpenFires
  BY <1>3 DEF AutoOpenFires
<1>4. CASE BetTimerFires
  BY <1>4 DEF BetTimerFires
<1> QED
  BY <1>1, <1>2, <1>3, <1>4 DEF DealerNext, DealerActs, TimerFires, PlayerActs, ToggleBets, EntryCloses,
     ResultConfirmed, QuickResult, ResultRecorded, HistoryChanged, dealerVars

LEMMA DealerInvInductive == DealerSpec => []DealerInv
<1>1. DealerInit => DealerInv
  <2> SUFFICES ASSUME DealerInit
               PROVE  DealerInv
    OBVIOUS
  <2>1. IInv
    BY InitIInv DEF DealerInit
  <2>2. OpenedRounds = {}
    BY DEF DealerInit, Init, OpenedRounds
  <2>3. RoundsBounded
    BY <2>2 DEF RoundsBounded
  <2>4. HookInv
    BY DEF DealerInit, HookInv, HookOK
  <2> QED BY <2>1, <2>3, <2>4 DEF DealerInv
<1>2. DealerInv /\ [DealerNext]_dealerVars => DealerInv'
  <2> SUFFICES ASSUME DealerInv, [DealerNext]_dealerVars
               PROVE  DealerInv'
    OBVIOUS
  <2>1. [Next]_vars
    BY DealerStepIsPlatformStep
  <2>2. IInv'
    BY <2>1, NextIInv DEF DealerInv
  <2>3. RoundsBounded'
    BY <2>1, RoundsStayBounded DEF DealerInv, IInv
  <2> QED BY <2>2, <2>3, HookKept DEF DealerInv
<1> QED BY <1>1, <1>2, PTL DEF DealerSpec

\* The dealer's client implements the reducer: with its timers, its renders that may be late and
\* its buttons it never does to the rounds, bets and bankrolls what the reducer would not
\* (useBettingRound.ts, BettingBar.tsx, table-store.ts).
THEOREM DealerImplementsPlatform == DealerSpec => Spec
<1>1. DealerInit => Init
  BY DEF DealerInit
<1>2. DealerInv /\ [DealerNext]_dealerVars => [Next]_vars
  BY DealerStepIsPlatformStep
<1> QED BY <1>1, <1>2, DealerInvInductive, PTL DEF DealerSpec, Spec

\* So a bet that stays rides into the next round that opens also when a timer opens it.
THEOREM StayersRideUnderTimers == DealerSpec => StayingBetsRide
BY DealerImplementsPlatform, StayersAlwaysRide, PTL

OpenRounds == {r \in Round : status[r] = "open"}

\* Only BETS_OPENED makes a round open.
LEMMA OpenOnlyByOpening ==
  ASSUME BooksOK, [Next]_vars, ~\E r \in Round : BetsOpened(r)
  PROVE  OpenRounds' \subseteq OpenRounds
<1>1. CASE status' = status
  BY <1>1 DEF OpenRounds
<1>2. ASSUME NEW r \in Round, OneStatus(r)
      PROVE  OpenRounds' \subseteq OpenRounds
  BY <1>2 DEF OneStatus, OpenRounds, BooksOK
<1> QED BY <1>1, <1>2, StatusStep

\* Which of the client's steps open a round: the button over a round that is not rendered open,
\* and the auto-open timer that was armed to open one.
LEMMA WhoOpens ==
  ASSUME DealerInv, [DealerNext]_dealerVars, NEW r \in Round, BetsOpened(r)
  PROVE  \/ (Prompt => Rendered) /\ ~seen.open
         \/ autoOpen = "opens" /\ autoOpen' = "off"
<1>1. status[r] = "unopened" /\ status' = [status EXCEPT ![r] = "open"]
  BY DEF BetsOpened
<1>2. r \notin OpenRounds /\ r \in OpenRounds'
  BY <1>1 DEF OpenRounds, DealerInv, IInv, BooksOK
<1>3. status' # status
  BY <1>2 DEF OpenRounds
<1>4. ASSUME NEW x \in Round, BetsClosed(x) \/ OneStatus(x)
      PROVE  FALSE
  BY <1>2, <1>4 DEF BetsClosed, OneStatus, OpenRounds, DealerInv, IInv, BooksOK
<1>5. CASE Render \/ UNCHANGED dealerVars
  BY <1>3, <1>5 DEF Render, dealerVars, vars
<1>6. CASE ToggleBets /\ (Prompt => Rendered)
  <2>1. CASE seen.open
    <3>1. Close(seen.round) /\ seen.round \in Round
      BY <1>6, <2>1 DEF ToggleBets, DealerInv, HookInv
    <3> QED BY <1>3, <1>4, <3>1 DEF Close, vars
  <2> QED BY <1>6, <2>1
<1>7. CASE AutoOpenFires
  <2>1. CASE autoOpen = "opens"
    BY <1>7, <2>1 DEF AutoOpenFires
  <2> QED BY <1>3, <1>7, <2>1 DEF AutoOpenFires, vars
<1>8. CASE BetTimerFires
  <2>1. Close(betTimer) /\ betTimer \in Round
    BY <1>8 DEF BetTimerFires, DealerInv, HookInv, HookOK
  <2> QED BY <1>3, <1>4, <2>1 DEF Close, vars
<1>9. CASE EntryCloses
  <2>1. CurrentRound \in Round /\ BetsClosed(CurrentRound)
    BY <1>9, CurrentIsRound DEF EntryCloses, IsOpen, DealerInv
  <2> QED BY <1>4, <2>1
<1>10. ASSUME NEW res \in Result, NEW k \in Kind, ResultRecorded(res, k)
       PROVE  FALSE
  <2>1. ClosedRound # NoRound => ClosedRound \in Round
    BY CurrentIsRound DEF DealerInv
  <2>2. CASE ResultOnBoardOnly(res, NoRound)
    BY <1>3, <2>2 DEF ResultOnBoardOnly, roundVars
  <2>3. CASE ClosedRound # NoRound /\ ResultSettles(res, ClosedRound, k)
    BY <1>4, <2>1, <2>3 DEF ResultSettles, Resettle, OneStatus
  <2> QED BY <1>10, <2>2, <2>3 DEF ResultRecorded
<1>11. CASE HistoryChanged
  <2>1. ASSUME NEW res \in Result, TakeBack(res)
        PROVE  FALSE
    <3>1. CASE \E x \in Round : resultOf[x] = res
      <4>1. PICK x \in Round : ReverseSettlement(x)
        BY <2>1, <3>1 DEF TakeBack
      <4> QED BY <1>4, <4>1 DEF ReverseSettlement, OneStatus
    <3> QED BY <1>3, <2>1, <3>1 DEF TakeBack
  <2> QED BY <1>11, <2>1 DEF HistoryChanged, ResultUndone, ResultDeleted, DropResult, ResultEditedInDialog
<1>12. CASE PlayerActs
  BY <1>3, <1>12 DEF PlayerActs, BankStep, BankIssued, BankAdjusted, BetStep, SlipStep, WorkingStep,
     BetPlaced, BetPressed, BetToggled, BetRemoved, roundVars
<1> QED
  BY <1>5, <1>6, <1>7, <1>8, <1>9, <1>10, <1>11, <1>12
  DEF DealerNext, DealerActs, TimerFires, ResultConfirmed, QuickResult

\* When every event is rendered before the next one, only the auto-open timer, which goes by the
\* round it saw when it was armed, opens a second round beside one that is open: never the button,
\* an entry, the bet timer or a change of the history (useBettingRound.ts).
THEOREM SecondRoundOnlyByTimer ==
  ASSUME Prompt
  PROVE  DealerSpec => SecondRoundByTimer
<1> DEFINE Kept == (\A r \in Round : status[r] = "open" => r = CurrentRound) /\ ~OneOpenRound'
                     => autoOpen = "opens" /\ autoOpen' = "off"
<1>1. DealerInv /\ [DealerNext]_dealerVars => [Kept]_dealerVars
  <2> SUFFICES ASSUME DealerInv, [DealerNext]_dealerVars,
                      \A r \in Round : status[r] = "open" => r = CurrentRound,
                      ~(autoOpen = "opens" /\ autoOpen' = "off")
               PROVE  OneOpenRound'
    OBVIOUS
  <2>1. OpenRounds \subseteq {CurrentRound}
    BY DEF OpenRounds
  <2>2. [Next]_vars /\ BooksOK
    BY DealerStepIsPlatformStep DEF DealerInv, IInv
  <2>3. \E x : OpenRounds' \subseteq {x}
    <3>1. CASE ~\E r \in Round : BetsOpened(r)
      <4>1. OpenRounds' \subseteq OpenRounds
        BY <2>2, <3>1, OpenOnlyByOpening
      <4> QED BY <2>1, <4>1
    <3>2. ASSUME NEW r \in Round, BetsOpened(r)
          PROVE  OpenRounds' \subseteq {r}
      <4>1. Rendered /\ ~seen.open
        BY <3>2, WhoOpens
      <4>2. ~IsOpen(CurrentRound)
        BY <4>1, ViewType DEF Rendered, DealerInv
      <4>3. OpenRounds = {}
        BY <2>1, <4>2, RoundAssumption DEF OpenRounds, IsOpen
      <4> QED BY <2>2, <3>2, <4>3 DEF BetsOpened, OpenRounds, BooksOK
    <3> QED BY <3>1, <3>2
  <2>4. PICK x : OpenRounds' \subseteq {x}
    BY <2>3
  <2>5. IsFiniteSet({x}) /\ Cardinality({x}) = 1
    BY FS_Singleton
  <2>6. Cardinality(OpenRounds') <= 1
    BY <2>4, <2>5, FS_Subset
  <2> QED BY <2>6 DEF OneOpenRound, OpenRounds
<1> QED BY <1>1, DealerInvInductive, PTL DEF DealerSpec, SecondRoundByTimer

-----------------------------------------------------------------------------
(* The bank of a game of round bets, when an event is applied to the state that its sender
   saw.  A round has settlements just when it is settled, they are of its own bets, all of
   them and at the stakes on record, and every bet is of the player who placed it.          *)

SlipsMatch == \A b \in DOMAIN bets : status[bets[b].round] # "unopened" /\ slips[b].player = bets[b].player

SettledPaid == \A r \in Round : r \in DOMAIN settlements <=> status[r] = "settled"

SheetsFull ==
  \A r \in DOMAIN settlements :
    /\ \A s \in settlements[r] : s.bet \in RoundBets(r) /\ s.profit = s.returned - bets[s.bet].amount
    /\ \A b \in RoundBets(r) : \E s \in settlements[r] : s.bet = b

Counted ==
  /\ IsFiniteSet(DOMAIN slips) /\ IsFiniteSet(DOMAIN settlements)
  /\ bankroll \in [Player -> Int] /\ funds \in [Player -> Int]

BankInv == SlipsMatch /\ SettledPaid /\ SheetsFull /\ Counted

FeltSet(p) == {b \in DOMAIN bets : bets[b].player = p /\ status[bets[b].round] # "settled"}
MyBets(p, r) == {b \in RoundBets(r) : bets[b].player = p}
Staked(p) == Total([b \in FeltSet(p) |-> bets[b].amount])
Placed(p, r) == Total([b \in MyBets(p, r) |-> bets[b].amount])
Earned(p) == Total([r \in DOMAIN settlements |-> ProfitIn(p, r)])
ProfitFrom(p, S) == Total([s \in {s \in S : slips[s.bet].player = p} |-> s.profit])

Balanced == \A p \in Player : bankroll[p] = funds[p] - Staked(p) + Earned(p)

\* The settlements in S settle round r, bet by bet.
FullSheet(S, r) ==
  /\ \A s \in S : /\ s.bet \in RoundBets(r) /\ s.returned \in Int
                  /\ s.profit = s.returned - bets[s.bet].amount
  /\ \A b \in RoundBets(r) : \E s \in S : s.bet = b
  /\ \A s, t \in S : s.bet = t.bet => s = t

LEMMA BalancedReconciles ==
  ~HasWorkingBets /\ IInv /\ BankInv /\ Balanced => ChipsReconcile
<1> SUFFICES ASSUME ~HasWorkingBets, IInv, BankInv, Balanced, NEW p \in Player
             PROVE  bankroll[p] = funds[p] - StakeOnFelt(p) + ProfitOf(p)
  BY DEF ChipsReconcile
<1>1. {b \in DOMAIN bets : bets[b].player = p /\ OnFelt(b)} = FeltSet(p)
  BY DEF FeltSet, OnFelt, IInv, BetsHome, BooksOK, BetRecord, BankInv, SlipsMatch
<1>2. StakeOnFelt(p) = Staked(p)
  BY <1>1 DEF StakeOnFelt, Staked
<1>3. {r \in DOMAIN settlements : status[r] = "settled"} = DOMAIN settlements
  BY DEF BankInv, SettledPaid, IInv, BooksOK
<1>4. ProfitOf(p) = Earned(p)
  BY <1>3 DEF ProfitOf, Earned
<1> QED BY <1>2, <1>4 DEF Balanced

\* A sheet returns to a player the stakes and the profit.
LEMMA SheetReturns ==
  ASSUME IInv, BankInv, NEW r \in Round, NEW S, FullSheet(S, r), NEW p \in Player
  PROVE  /\ Placed(p, r) \in Int /\ ProfitFrom(p, S) \in Int
         /\ Returned(p, r, S) = ProfitFrom(p, S) + Placed(p, r)
<1> DEFINE B == MyBets(p, r)
           X == {s \in S : slips[s.bet].player = p}
<1>1. IsFiniteSet(B)
  <2>1. B \subseteq DOMAIN slips
    BY DEF MyBets, RoundBets, IInv, BooksOK
  <2> QED BY <2>1, FiniteParts DEF BankInv, Counted
<1> DEFINE amount == [b \in B |-> bets[b].amount]
<1>2. amount \in [B -> Int]
  BY DEF MyBets, RoundBets, IInv, BooksOK, BetRecord
<1>3. \A s \in S : s.bet \in RoundBets(r) /\ (slips[s.bet].player = p <=> bets[s.bet].player = p)
  <2>1. \A b \in RoundBets(r) : slips[b].player = bets[b].player
    BY DEF RoundBets, BankInv, SlipsMatch
  <2> QED BY <2>1 DEF FullSheet
<1>4. X = {s \in S : s.bet \in RoundBets(r) /\ bets[s.bet].player = p}
  BY <1>3
<1>5. \A s \in X : s.bet \in B /\ s.returned \in Int /\ s.profit = s.returned - amount[s.bet]
  BY <1>3 DEF FullSheet, MyBets
<1>6. \A b \in B : \E s \in X : s.bet = b
  BY <1>3 DEF FullSheet, MyBets
<1>7. \A s, t \in X : s.bet = t.bet => s = t
  BY DEF FullSheet
<1>8. /\ Placed(p, r) = Total(amount)
      /\ ProfitFrom(p, S) = Total([s \in X |-> s.profit])
      /\ Returned(p, r, S) = Total([s \in X |-> s.returned])
  BY <1>4 DEF Placed, ProfitFrom, Returned
<1> HIDE DEF B, X, amount
<1>9. /\ Total(amount) \in Int /\ Total([s \in X |-> s.profit]) \in Int
      /\ Total([s \in X |-> s.returned]) = Total([s \in X |-> s.profit]) + Total(amount)
  BY <1>1, <1>2, <1>5, <1>6, <1>7, SheetBalances
<1> QED BY <1>8, <1>9

LEMMA SettledSheet ==
  ASSUME IInv, BankInv, NEW r \in DOMAIN settlements
  PROVE  FullSheet(settlements[r], r) /\ \A p \in Player : ProfitFrom(p, settlements[r]) = ProfitIn(p, r)
<1>1. r \in Round /\ settlements[r] \subseteq Settlement
  BY DEF IInv, BooksOK
<1>2. \A s \in settlements[r] : s.returned \in Int
  BY <1>1 DEF Settlement
<1>3. FullSheet(settlements[r], r)
  BY <1>2 DEF FullSheet, BankInv, SheetsFull, IInv, BetsHome
<1> QED BY <1>3 DEF ProfitFrom, ProfitIn

LEMMA NewSheet ==
  ASSUME ~HasWorkingBets, IInv, NEW r \in Round, NEW k \in Kind
  PROVE  FullSheet(SettleAll(r, k), r)
<1>1. ASSUME NEW b \in RoundBets(r)
      PROVE  /\ SettleBet(b, k) \in Settlement
             /\ SettleBet(b, k).bet = b
             /\ SettleBet(b, k).profit = SettleBet(b, k).returned - bets[b].amount
  <2>1. b \in DOMAIN bets /\ b \in Bet /\ bets[b] \in BetRecord
    BY DEF RoundBets, IInv, BooksOK
  <2>2. Payout[bets[b].target][k].outcome # "stay"
    BY <2>1, WorkingAssumption DEF BetRecord
  <2>3. SettleBet(b, k) \in Settlement
    BY <2>1, SettleBetType
  <2> QED BY <2>2, <2>3 DEF SettleBet
<1>2. \A b \in RoundBets(r) : SettleBet(b, k).returned \in Int
  BY <1>1 DEF Settlement
<1> QED BY <1>1, <1>2 DEF FullSheet, SettleAll

\* The totals are whole numbers.
LEMMA TotalsAreInts ==
  ASSUME IInv, BankInv, NEW p \in Player
  PROVE  /\ IsFiniteSet(FeltSet(p)) /\ [b \in FeltSet(p) |-> bets[b].amount] \in [FeltSet(p) -> Int]
         /\ Staked(p) \in Int
         /\ \A r \in DOMAIN settlements : ProfitIn(p, r) \in Int
         /\ Earned(p) \in Int
<1>1. IsFiniteSet(FeltSet(p))
  <2>1. FeltSet(p) \subseteq DOMAIN slips
    BY DEF FeltSet, IInv, BooksOK
  <2> QED BY <2>1, FiniteParts DEF BankInv, Counted
<1>2. [b \in FeltSet(p) |-> bets[b].amount] \in [FeltSet(p) -> Int]
  BY DEF FeltSet, IInv, BooksOK, BetRecord
<1>3. Staked(p) \in Int
  BY <1>1, <1>2, TotalFacts DEF Staked
<1>4. \A r \in DOMAIN settlements : ProfitIn(p, r) \in Int
  <2> TAKE r \in DOMAIN settlements
  <2>1. r \in Round
    BY DEF IInv, BooksOK
  <2>2. FullSheet(settlements[r], r) /\ ProfitFrom(p, settlements[r]) = ProfitIn(p, r)
    BY SettledSheet
  <2> QED BY <2>1, <2>2, SheetReturns
<1>5. [r \in DOMAIN settlements |-> ProfitIn(p, r)] \in [DOMAIN settlements -> Int]
  BY <1>4
<1>6. Earned(p) \in Int
  BY <1>5, TotalFacts DEF Earned, BankInv, Counted
<1> QED BY <1>1, <1>2, <1>3, <1>4, <1>6

-----------------------------------------------------------------------------
(* The steps, by what they do to the bank. *)

SameBets == DOMAIN bets' = DOMAIN bets /\ \A b \in DOMAIN bets : bets'[b] = bets[b]

\* No bet is placed, removed or settled: what a bankroll gains or loses is issued or adjusted.
NeutralStep ==
  /\ SameBets /\ slips' = slips /\ settlements' = settlements
  /\ \A r \in Round : /\ status'[r] = "settled" <=> status[r] = "settled"
                      /\ status[r] # "unopened" => status'[r] # "unopened"
  /\ bankroll' \in [Player -> Int] /\ funds' \in [Player -> Int]
  /\ \A p \in Player : bankroll'[p] - funds'[p] = bankroll[p] - funds[p]

Step ==
  \/ NeutralStep
  \/ \E b \in Bet, p \in Player, r \in Round, t \in Target, n \in Amount, w \in BOOLEAN : BetPlaced(b, p, r, t, n, w)
  \/ \E b \in Bet : BetRemoved(b)
  \/ \E r \in Round, res \in Result, k \in Kind :
       status[r] \in {"closed", "settled"} /\ Resettle(r, res, k) /\ slips' = slips /\ funds' = funds
  \/ \E r \in Round : r \in DOMAIN settlements /\ ReverseSettlement(r) /\ SameBets /\ slips' = slips /\ funds' = funds

LEMMA StepKinds ==
  ASSUME ~HasWorkingBets, ~LateEvents, IInv, BankInv, RoundsBounded, [Next]_vars
  PROVE  Step
<1> USE DEF Step, IInv, BankInv, Counted
<1>1. CASE UNCHANGED vars
  BY <1>1 DEF vars, NeutralStep, SameBets
<1>2. CASE BankStep
  <2>1. ASSUME NEW p \in Player, NEW n \in Int,
               bankroll' = [bankroll EXCEPT ![p] = @ + n], funds' = [funds EXCEPT ![p] = @ + n],
               UNCHANGED <<roundVars, bets, settlements, slips>>
        PROVE  NeutralStep
    BY <2>1 DEF NeutralStep, SameBets, roundVars
  <2> QED BY <1>2, <2>1, BankAssumption DEF BankStep, BankIssued, BankAdjusted
<1>3. CASE BetStep
  <2>1. CASE SlipStep
    BY <2>1 DEF SlipStep
  <2>2. ASSUME NEW b \in Bet, BetPressed(b)
        PROVE  FALSE
    <3>1. b \in DOMAIN bets /\ status[bets[b].round] = "open" /\ (\E s \in SettlementsOf(b) : TRUE)
      BY <2>2 DEF BetPressed
    <3>2. PICK r \in DOMAIN settlements : \E s \in settlements[r] : s.bet = b
      BY <3>1 DEF SettlementsOf
    <3>3. bets[b].round = r /\ status[r] = "settled"
      BY <3>2 DEF SheetsFull, RoundBets, SettledPaid, BooksOK
    <3> QED BY <3>1, <3>3
  <2>3. ASSUME NEW b \in Bet, BetToggled(b)
        PROVE  FALSE
    BY <2>3 DEF BetToggled
  <2> QED BY <1>3, <2>1, <2>2, <2>3 DEF BetStep, WorkingStep
<1>4. CASE RoundStep
  <2>1. ASSUME NEW r \in Round, BetsOpened(r)
        PROVE  NeutralStep
    BY <2>1 DEF BetsOpened, NeutralStep, SameBets, BetsHome, bankVars, BooksOK
  <2>2. ASSUME NEW r \in Round, BetsClosed(r)
        PROVE  NeutralStep
    BY <2>2 DEF BetsClosed, NeutralStep, SameBets, bankVars, BooksOK
  <2> QED BY <1>4, <2>1, <2>2 DEF RoundStep
<1>5. CASE ResultStep
  <2>1. ASSUME NEW res \in Result, NEW r \in Round \cup {NoRound}, ResultOnBoardOnly(res, r)
        PROVE  NeutralStep
    BY <2>1 DEF ResultOnBoardOnly, NeutralStep, SameBets, roundVars, bankVars
  <2>2. CASE SeriesStarted
    BY <2>2 DEF SeriesStarted, NeutralStep, SameBets, roundVars, bankVars
  <2>3. ASSUME NEW res \in Result, NEW r \in Round, NEW k \in Kind, ResultSettles(res, r, k)
        PROVE  status[r] = "closed" /\ Resettle(r, res, k) /\ slips' = slips /\ funds' = funds
    <3>1. r = ClosedRound /\ ClosedRounds # {}
      BY <2>3, RoundAssumption DEF ResultSettles, Attachable, ClosedRound
    <3>2. PICK n \in Nat : \A x \in OpenedRounds : x <= n
      BY DEF RoundsBounded
    <3>3. ClosedRounds \subseteq Nat /\ \A x \in ClosedRounds : x <= n
      BY <3>2, RoundAssumption DEF ClosedRounds, OpenedRounds
    <3>4. Max(ClosedRounds) \in ClosedRounds
      BY <3>1, <3>3, MaxOfBounded
    <3>5. r \in ClosedRounds
      BY <3>1, <3>4 DEF ClosedRound
    <3> QED BY <2>3, <3>5 DEF ResultSettles, ClosedRounds
  <2>4. ASSUME NEW res \in Result, NEW r \in Round, NEW k \in Kind, ResultEdited(res, r, k)
        PROVE  status[r] = "settled" /\ Resettle(r, res, k) /\ slips' = slips /\ funds' = funds
    <3>1. resultOf[r] # NoResult
      BY <2>4, ResultAssumption DEF ResultEdited
    <3>2. status[r] = "settled"
      BY <3>1 DEF RoundsAgree, SettledPaid
    <3> QED BY <2>4, <3>2 DEF ResultEdited
  <2>5. ASSUME NEW res \in Result, TakeBack(res), SameBets, slips' = slips, funds' = funds
        PROVE  \/ NeutralStep
               \/ \E r \in Round : r \in DOMAIN settlements /\ ReverseSettlement(r) /\ SameBets /\ slips' = slips /\ funds' = funds
    <3>1. CASE \E r \in Round : resultOf[r] = res
      <4>1. PICK r \in Round : resultOf[r] = res /\ ReverseSettlement(r)
        BY <2>5, <3>1 DEF TakeBack
      <4>2. r \in DOMAIN settlements
        BY <4>1, ResultAssumption DEF RoundsAgree
      <4> QED BY <2>5, <4>1, <4>2
    <3>2. CASE ~\E r \in Round : resultOf[r] = res
      BY <2>5, <3>2 DEF TakeBack, NeutralStep
    <3> QED BY <3>1, <3>2
  <2>6. ASSUME NEW res \in Result, ResultUndone(res) \/ ResultDeleted(res) \/ ResultEditedInDialog(res)
        PROVE  TakeBack(res) /\ SameBets /\ slips' = slips /\ funds' = funds
    BY <2>6 DEF ResultUndone, ResultDeleted, DropResult, ResultEditedInDialog, SameBets
  <2> QED BY <1>5, <2>1, <2>2, <2>3, <2>4, <2>5, <2>6 DEF ResultStep
<1> QED BY <1>1, <1>2, <1>3, <1>4, <1>5 DEF Next

LEMMA NeutralKeeps ==
  ASSUME IInv, IInv', BankInv, Balanced, NeutralStep
  PROVE  BankInv' /\ Balanced'
<1> USE DEF IInv, BankInv
<1>1. \A r \in Round : RoundBets(r)' = RoundBets(r)
  BY DEF NeutralStep, SameBets, RoundBets
<1>2. SlipsMatch'
  BY DEF NeutralStep, SameBets, SlipsMatch, BooksOK, BetRecord
<1>3. SettledPaid'
  BY DEF NeutralStep, SettledPaid
<1>4. SheetsFull'
  <2> SUFFICES ASSUME NEW r \in DOMAIN settlements
               PROVE  /\ \A s \in settlements[r] : /\ s.bet \in RoundBets(r)'
                                                   /\ s.profit = s.returned - bets'[s.bet].amount
                      /\ \A b \in RoundBets(r)' : \E s \in settlements[r] : s.bet = b
    BY DEF SheetsFull, NeutralStep
  <2>1. r \in Round
    BY DEF BooksOK
  <2>2. \A b \in RoundBets(r) : bets'[b] = bets[b]
    BY DEF NeutralStep, SameBets, RoundBets
  <2> QED BY <1>1, <2>1, <2>2 DEF SheetsFull
<1>5. Counted'
  BY DEF NeutralStep, Counted
<1>6. ASSUME NEW p \in Player
      PROVE  bankroll'[p] = funds'[p] - Staked(p)' + Earned(p)'
  <2>1. FeltSet(p)' = FeltSet(p)
    BY DEF FeltSet, NeutralStep, SameBets, BooksOK, BetRecord
  <2>2. [b \in FeltSet(p)' |-> bets'[b].amount] = [b \in FeltSet(p) |-> bets[b].amount]
    BY <2>1 DEF FeltSet, NeutralStep, SameBets
  <2>3. Staked(p)' = Staked(p)
    BY <2>2 DEF Staked
  <2>4. Earned(p)' = Earned(p)
    BY DEF Earned, ProfitIn, NeutralStep
  <2>5. Staked(p) \in Int /\ Earned(p) \in Int
    BY TotalsAreInts
  <2>6. /\ bankroll[p] \in Int /\ funds[p] \in Int /\ bankroll'[p] \in Int /\ funds'[p] \in Int
        /\ bankroll'[p] - funds'[p] = bankroll[p] - funds[p]
        /\ bankroll[p] = funds[p] - Staked(p) + Earned(p)
    BY DEF NeutralStep, Counted, Balanced
  <2> QED BY <2>3, <2>4, <2>5, <2>6
<1> QED BY <1>2, <1>3, <1>4, <1>5, <1>6 DEF Balanced

LEMMA PlacingKeeps ==
  ASSUME IInv, BankInv, Balanced, NEW b \in Bet, NEW q \in Player, NEW r \in Round, NEW t \in Target,
         NEW n \in Amount, NEW w \in BOOLEAN, BetPlaced(b, q, r, t, n, w)
  PROVE  BankInv' /\ Balanced'
<1> USE DEF IInv, BankInv
<1>1. b \notin DOMAIN slips /\ b \notin DOMAIN bets /\ status[r] = "open" /\ n \in Nat
  BY AmountAssumption DEF BetPlaced, BooksOK
<1>2. /\ DOMAIN bets' = DOMAIN bets \cup {b}
      /\ bets'[b] = [player |-> q, round |-> r, target |-> t, amount |-> n, working |-> w]
      /\ \A x \in DOMAIN bets : bets'[x] = bets[x]
  BY <1>1 DEF BetPlaced
<1>3. /\ DOMAIN slips' = DOMAIN slips \cup {b} /\ slips'[b].player = q
      /\ \A x \in DOMAIN slips : slips'[x] = slips[x]
  BY <1>1 DEF BetPlaced
<1>4. status' = status /\ settlements' = settlements /\ funds' = funds
  BY DEF BetPlaced, roundVars
<1>5. \A x \in Player : bankroll'[x] = IF x = q THEN bankroll[x] - n ELSE bankroll[x]
  BY DEF BetPlaced, Counted
<1>6. SlipsMatch'
  BY <1>1, <1>2, <1>3, <1>4 DEF SlipsMatch, BooksOK
<1>7. SettledPaid'
  BY <1>4 DEF SettledPaid
<1>8. \A x \in DOMAIN settlements : x # r /\ x \in Round /\ RoundBets(x)' = RoundBets(x)
  BY <1>1, <1>2 DEF SettledPaid, BooksOK, RoundBets
<1>9. SheetsFull'
  <2> SUFFICES ASSUME NEW x \in DOMAIN settlements
               PROVE  /\ \A s \in settlements[x] : /\ s.bet \in RoundBets(x)'
                                                   /\ s.profit = s.returned - bets'[s.bet].amount
                      /\ \A c \in RoundBets(x)' : \E s \in settlements[x] : s.bet = c
    BY <1>4 DEF SheetsFull
  <2>1. \A c \in RoundBets(x) : bets'[c] = bets[c]
    BY <1>2 DEF RoundBets
  <2> QED BY <1>8, <2>1 DEF SheetsFull
<1>10. Counted'
  <2>1. IsFiniteSet(DOMAIN slips')
    BY <1>3, FS_AddElement DEF Counted
  <2>2. bankroll' \in [Player -> Int]
    BY <1>1 DEF BetPlaced, Counted
  <2> QED BY <1>4, <2>1, <2>2 DEF Counted
<1>11. ASSUME NEW p \in Player
       PROVE  bankroll'[p] = funds'[p] - Staked(p)' + Earned(p)'
  <2>1. Earned(p)' = Earned(p)
    <3>1. \A x \in DOMAIN settlements : \A s \in settlements[x] : slips'[s.bet] = slips[s.bet]
      BY <1>3 DEF BetsHome
    <3>2. \A x \in DOMAIN settlements :
            {s \in settlements[x] : slips'[s.bet].player = p} = {s \in settlements[x] : slips[s.bet].player = p}
      BY <3>1
    <3>3. \A x \in DOMAIN settlements : ProfitIn(p, x)' = ProfitIn(p, x)
      BY <1>4, <3>2 DEF ProfitIn
    <3> QED BY <1>4, <3>3 DEF Earned
  <2>2. /\ bankroll[p] \in Int /\ funds[p] \in Int /\ Staked(p) \in Int /\ Earned(p) \in Int
        /\ bankroll[p] = funds[p] - Staked(p) + Earned(p)
    BY TotalsAreInts DEF Counted, Balanced
  <2>3. CASE p # q
    <3>1. FeltSet(p)' = FeltSet(p)
      BY <1>2, <1>4, <2>3 DEF FeltSet
    <3>2. [x \in FeltSet(p)' |-> bets'[x].amount] = [x \in FeltSet(p) |-> bets[x].amount]
      BY <1>2, <3>1 DEF FeltSet
    <3>3. Staked(p)' = Staked(p)
      BY <3>2 DEF Staked
    <3> QED BY <1>4, <1>5, <2>1, <2>2, <2>3, <3>3
  <2>4. CASE p = q
    <3> DEFINE S == FeltSet(p) \cup {b}
               f == [x \in S |-> IF x = b THEN n ELSE bets[x].amount]
    <3>1. FeltSet(p)' = S
      BY <1>1, <1>2, <1>4, <2>4 DEF FeltSet
    <3>2. Staked(p)' = Total(f)
      <4>1. [x \in FeltSet(p)' |-> bets'[x].amount] = f
        BY <1>1, <1>2, <3>1 DEF FeltSet
      <4> QED BY <4>1 DEF Staked
    <3>3. b \notin FeltSet(p)
      BY <1>1 DEF FeltSet
    <3>4. IsFiniteSet(S) /\ f \in [S -> Int] /\ f[b] = n /\ b \in S
      <4>1. IsFiniteSet(FeltSet(p)) /\ \A x \in FeltSet(p) : bets[x].amount \in Int
        BY TotalsAreInts
      <4> QED BY <1>1, <4>1, FS_AddElement
    <3>5. [x \in S \ {b} |-> f[x]] = [x \in FeltSet(p) |-> bets[x].amount]
      BY <3>3
    <3> HIDE DEF S, f
    <3>6. Total(f) = f[b] + Total([x \in S \ {b} |-> f[x]])
      BY <3>4, TotalWithout
    <3>7. Total(f) = n + Staked(p)
      BY <3>4, <3>5, <3>6 DEF Staked
    <3> QED BY <1>1, <1>4, <1>5, <2>1, <2>2, <2>4, <3>2, <3>7
  <2> QED BY <2>3, <2>4
<1> QED BY <1>6, <1>7, <1>9, <1>10, <1>11 DEF Balanced

LEMMA RemovingKeeps ==
  ASSUME ~LateEvents, IInv, BankInv, Balanced, NEW b \in Bet, BetRemoved(b)
  PROVE  BankInv' /\ Balanced'
<1> USE DEF IInv, BankInv
<1> DEFINE q == bets[b].player
           n == bets[b].amount
           r == bets[b].round
<1>1. b \in DOMAIN bets /\ status[r] = "open" /\ n \in Nat /\ q \in Player /\ r \in Round
  BY DEF BetRemoved, BooksOK, BetRecord
<1>2. DOMAIN bets' = DOMAIN bets \ {b} /\ \A x \in DOMAIN bets \ {b} : bets'[x] = bets[x]
  BY DEF BetRemoved
<1>3. status' = status /\ settlements' = settlements /\ funds' = funds /\ slips' = slips
  BY DEF BetRemoved, roundVars
<1>4. \A x \in Player : bankroll'[x] = IF x = q THEN bankroll[x] + n ELSE bankroll[x]
  BY DEF BetRemoved, Counted
<1>5. bankroll' \in [Player -> Int]
  BY <1>1 DEF BetRemoved, Counted
<1> HIDE DEF q, n, r
<1>6. SlipsMatch'
  BY <1>2, <1>3 DEF SlipsMatch
<1>7. SettledPaid'
  BY <1>3 DEF SettledPaid
<1>8. \A x \in DOMAIN settlements : x # r /\ x \in Round /\ RoundBets(x)' = RoundBets(x)
  BY <1>1, <1>2 DEF SettledPaid, BooksOK, RoundBets, r
<1>9. SheetsFull'
  <2> SUFFICES ASSUME NEW x \in DOMAIN settlements
               PROVE  /\ \A s \in settlements[x] : /\ s.bet \in RoundBets(x)'
                                                   /\ s.profit = s.returned - bets'[s.bet].amount
                      /\ \A c \in RoundBets(x)' : \E s \in settlements[x] : s.bet = c
    BY <1>3 DEF SheetsFull
  <2>1. \A c \in RoundBets(x) : bets'[c] = bets[c]
    BY <1>2, <1>8 DEF RoundBets
  <2> QED BY <1>8, <2>1 DEF SheetsFull
<1>10. Counted'
  BY <1>3, <1>5 DEF Counted
<1>11. ASSUME NEW p \in Player
       PROVE  bankroll'[p] = funds'[p] - Staked(p)' + Earned(p)'
  <2>1. Earned(p)' = Earned(p)
    BY <1>3 DEF Earned, ProfitIn
  <2>2. /\ bankroll[p] \in Int /\ funds[p] \in Int /\ Staked(p) \in Int /\ Earned(p) \in Int
        /\ bankroll[p] = funds[p] - Staked(p) + Earned(p)
    BY TotalsAreInts DEF Counted, Balanced
  <2>3. CASE p # q
    <3>1. FeltSet(p)' = FeltSet(p)
      BY <1>2, <1>3, <2>3 DEF FeltSet, q
    <3>2. [x \in FeltSet(p)' |-> bets'[x].amount] = [x \in FeltSet(p) |-> bets[x].amount]
      BY <1>2, <3>1 DEF FeltSet
    <3>3. Staked(p)' = Staked(p)
      BY <3>2 DEF Staked
    <3> QED BY <1>3, <1>4, <2>1, <2>2, <2>3, <3>3
  <2>4. CASE p = q
    <3> DEFINE S == FeltSet(p)
               f == [x \in S |-> bets[x].amount]
    <3>1. FeltSet(p)' = S \ {b} /\ b \in S
      BY <1>1, <1>2, <1>3, <2>4 DEF FeltSet, q, r
    <3>2. [x \in FeltSet(p)' |-> bets'[x].amount] = [x \in S \ {b} |-> f[x]]
      BY <1>2, <3>1 DEF FeltSet
    <3>3. Staked(p)' = Total([x \in S \ {b} |-> f[x]])
      BY <3>2 DEF Staked
    <3>4. IsFiniteSet(S) /\ f \in [S -> Int]
      BY TotalsAreInts
    <3>5. f[b] = n
      BY <3>1 DEF n
    <3>6. Staked(p) = Total(f)
      BY DEF Staked
    <3> HIDE DEF S, f
    <3>7. Total(f) = f[b] + Total([x \in S \ {b} |-> f[x]])
      BY <3>1, <3>4, TotalWithout
    <3>8. IsFiniteSet(S \ {b}) /\ [x \in S \ {b} |-> f[x]] \in [S \ {b} -> Int]
      BY <3>4, FiniteParts
    <3>9. Total([x \in S \ {b} |-> f[x]]) \in Int
      BY <3>8, TotalFacts
    <3> QED BY <1>1, <1>3, <1>4, <2>1, <2>2, <2>4, <3>3, <3>5, <3>6, <3>7, <3>9
  <2> QED BY <2>3, <2>4
<1> QED BY <1>6, <1>7, <1>9, <1>10, <1>11 DEF Balanced

\* The profit of the rounds without round r.
RestEarned(p, r) == Total([x \in DOMAIN settlements \ {r} |-> ProfitIn(p, x)])

LEMMA EarnedParts ==
  ASSUME IInv, BankInv, NEW p \in Player, NEW r \in Round
  PROVE  /\ RestEarned(p, r) \in Int
         /\ r \in DOMAIN settlements => Earned(p) = ProfitIn(p, r) + RestEarned(p, r)
         /\ r \notin DOMAIN settlements => Earned(p) = RestEarned(p, r)
<1> DEFINE D == DOMAIN settlements
           f == [x \in D |-> ProfitIn(p, x)]
<1>1. IsFiniteSet(D) /\ f \in [D -> Int] /\ Earned(p) = Total(f)
  BY TotalsAreInts DEF BankInv, Counted, Earned
<1>2. [x \in D \ {r} |-> f[x]] = [x \in D \ {r} |-> ProfitIn(p, x)]
  OBVIOUS
<1>3. RestEarned(p, r) = Total([x \in D \ {r} |-> f[x]])
  BY <1>2 DEF RestEarned
<1>4. r \in D => f[r] = ProfitIn(p, r)
  OBVIOUS
<1> HIDE DEF D, f
<1>5. IsFiniteSet(D \ {r}) /\ [x \in D \ {r} |-> f[x]] \in [D \ {r} -> Int]
  BY <1>1, FiniteParts
<1>6. RestEarned(p, r) \in Int
  BY <1>3, <1>5, TotalFacts
<1>7. CASE r \in D
  <2>1. Total(f) = f[r] + Total([x \in D \ {r} |-> f[x]])
    BY <1>1, <1>7, TotalWithout
  <2> QED BY <1>1, <1>3, <1>4, <1>6, <1>7, <2>1 DEF D
<1>8. CASE r \notin D
  <2>1. D \ {r} = D /\ [x \in D |-> f[x]] = f
    BY <1>1, <1>8
  <2> QED BY <1>1, <1>3, <1>6, <1>8, <2>1 DEF D
<1> QED BY <1>7, <1>8

\* The stakes on the felt, of the bets in round r and of the others.
LEMMA StakedParts ==
  ASSUME IInv, BankInv, NEW p \in Player, NEW r \in Round, status[r] # "settled"
  PROVE  /\ MyBets(p, r) \subseteq FeltSet(p)
         /\ Staked(p) = Placed(p, r) + Total([b \in FeltSet(p) \ MyBets(p, r) |-> bets[b].amount])
<1> DEFINE S == FeltSet(p)
           A == MyBets(p, r)
           f == [b \in S |-> bets[b].amount]
<1>1. A \in SUBSET S
  BY DEF MyBets, RoundBets, FeltSet
<1>2. IsFiniteSet(S) /\ f \in [S -> Int]
  BY TotalsAreInts
<1>3. /\ [b \in A |-> f[b]] = [b \in A |-> bets[b].amount]
      /\ [b \in S \ A |-> f[b]] = [b \in S \ A |-> bets[b].amount]
  BY <1>1
<1>4. /\ Staked(p) = Total(f) /\ Placed(p, r) = Total([b \in A |-> f[b]])
      /\ Total([b \in FeltSet(p) \ MyBets(p, r) |-> bets[b].amount]) = Total([b \in S \ A |-> f[b]])
  BY <1>3 DEF Staked, Placed
<1> HIDE DEF f, S, A
<1>5. Total(f) = Total([b \in A |-> f[b]]) + Total([b \in S \ A |-> f[b]])
  BY <1>1, <1>2, TotalParts
<1> QED BY <1>1, <1>4, <1>5 DEF S, A

LEMMA StakedMore ==
  ASSUME IInv, BankInv, NEW p \in Player, NEW r \in Round, status[r] = "settled"
  PROVE  Total([b \in FeltSet(p) \cup MyBets(p, r) |-> bets[b].amount]) = Placed(p, r) + Staked(p)
<1> DEFINE S == FeltSet(p) \cup MyBets(p, r)
           A == MyBets(p, r)
           f == [b \in S |-> bets[b].amount]
<1>1. A \in SUBSET S /\ S \ A = FeltSet(p)
  BY DEF MyBets, RoundBets, FeltSet
<1>2. IsFiniteSet(S)
  <2>1. S \subseteq DOMAIN slips
    BY DEF MyBets, RoundBets, FeltSet, IInv, BooksOK
  <2> QED BY <2>1, FiniteParts DEF BankInv, Counted
<1>3. f \in [S -> Int]
  BY DEF MyBets, RoundBets, FeltSet, IInv, BooksOK, BetRecord
<1>4. /\ [b \in A |-> f[b]] = [b \in A |-> bets[b].amount]
      /\ [b \in S \ A |-> f[b]] = [b \in FeltSet(p) |-> bets[b].amount]
  BY <1>1
<1>5. Placed(p, r) = Total([b \in A |-> f[b]]) /\ Staked(p) = Total([b \in S \ A |-> f[b]])
  BY <1>4 DEF Staked, Placed
<1> HIDE DEF f, S, A
<1>6. Total(f) = Total([b \in A |-> f[b]]) + Total([b \in S \ A |-> f[b]])
  BY <1>1, <1>2, <1>3, TotalParts
<1> QED BY <1>5, <1>6 DEF f, S

LEMMA ReversingKeeps ==
  ASSUME IInv, BankInv, Balanced, NEW r \in Round, r \in DOMAIN settlements, ReverseSettlement(r),
         SameBets, slips' = slips, funds' = funds
  PROVE  BankInv' /\ Balanced'
<1> USE DEF IInv, BankInv
<1>1. status[r] = "settled" /\ status' = [status EXCEPT ![r] = "closed"]
  BY DEF ReverseSettlement, SettledPaid
<1>2. DOMAIN settlements' = DOMAIN settlements \ {r}
      /\ \A x \in DOMAIN settlements \ {r} : settlements'[x] = settlements[x]
  BY DEF ReverseSettlement
<1>3. \A x \in Round : RoundBets(x)' = RoundBets(x)
  BY DEF SameBets, RoundBets
<1>4. SlipsMatch'
  BY <1>1 DEF SameBets, SlipsMatch, BooksOK, BetRecord
<1>5. SettledPaid'
  BY <1>1, <1>2 DEF SettledPaid, BooksOK
<1>6. SheetsFull'
  <2> SUFFICES ASSUME NEW x \in DOMAIN settlements \ {r}
               PROVE  /\ \A s \in settlements[x] : /\ s.bet \in RoundBets(x)'
                                                   /\ s.profit = s.returned - bets'[s.bet].amount
                      /\ \A c \in RoundBets(x)' : \E s \in settlements[x] : s.bet = c
    BY <1>2 DEF SheetsFull
  <2>1. x \in Round /\ \A c \in RoundBets(x) : bets'[c] = bets[c]
    BY DEF SameBets, RoundBets, BooksOK
  <2> QED BY <1>3, <2>1 DEF SheetsFull
<1>7. \A p \in Player : /\ Returned(p, r, Prior(r)) = ProfitIn(p, r) + Placed(p, r)
                        /\ ProfitIn(p, r) \in Int /\ Placed(p, r) \in Int
  <2> TAKE p \in Player
  <2>1. FullSheet(settlements[r], r) /\ ProfitFrom(p, settlements[r]) = ProfitIn(p, r)
    BY SettledSheet
  <2>2. Prior(r) = settlements[r]
    BY DEF Prior
  <2> QED BY <2>1, <2>2, SheetReturns
<1>8. bankroll' \in [Player -> Int]
      /\ \A p \in Player : bankroll'[p] = bankroll[p] - (ProfitIn(p, r) + Placed(p, r))
  BY <1>7 DEF ReverseSettlement, Counted
<1>9. Counted'
  BY <1>2, <1>8, FiniteParts DEF Counted
<1>10. ASSUME NEW p \in Player
       PROVE  bankroll'[p] = funds'[p] - Staked(p)' + Earned(p)'
  <2>1. Earned(p)' = RestEarned(p, r)
    <3>1. \A x \in DOMAIN settlements \ {r} : ProfitIn(p, x)' = ProfitIn(p, x)
      BY <1>2 DEF ProfitIn
    <3> QED BY <1>2, <3>1 DEF Earned, RestEarned
  <2>2. FeltSet(p)' = FeltSet(p) \cup MyBets(p, r)
    BY <1>1 DEF FeltSet, MyBets, RoundBets, SameBets, BooksOK, BetRecord
  <2>3. [b \in FeltSet(p)' |-> bets'[b].amount] = [b \in FeltSet(p) \cup MyBets(p, r) |-> bets[b].amount]
    BY <2>2 DEF FeltSet, MyBets, RoundBets, SameBets
  <2>4. Staked(p)' = Placed(p, r) + Staked(p)
    BY <1>1, <2>3, StakedMore DEF Staked
  <2>5. Earned(p) = ProfitIn(p, r) + RestEarned(p, r) /\ RestEarned(p, r) \in Int
    BY EarnedParts
  <2>6. /\ bankroll[p] \in Int /\ funds[p] \in Int /\ Staked(p) \in Int
        /\ bankroll[p] = funds[p] - Staked(p) + Earned(p)
    BY TotalsAreInts DEF Counted, Balanced
  <2> QED BY <1>7, <1>8, <2>1, <2>4, <2>5, <2>6
<1> QED BY <1>4, <1>5, <1>6, <1>9, <1>10 DEF Balanced

LEMMA SettlingKeeps ==
  ASSUME ~HasWorkingBets, IInv, BankInv, Balanced, NEW r \in Round, NEW res \in Result, NEW k \in Kind,
         status[r] \in {"closed", "settled"}, Resettle(r, res, k), slips' = slips, funds' = funds
  PROVE  BankInv' /\ Balanced'
<1> USE DEF IInv, BankInv
<1> DEFINE new == SettleAll(r, k)
<1>1. FullSheet(new, r)
  BY NewSheet
<1>2. DOMAIN settlements' = DOMAIN settlements \cup {r} /\ settlements'[r] = new
      /\ \A x \in DOMAIN settlements \ {r} : settlements'[x] = settlements[x]
  BY DEF Resettle
<1>3. status' = [status EXCEPT ![r] = "settled"]
  BY DEF Resettle
<1>4. SameBets
  <2>1. \A b \in DOMAIN bets : Carried(b, k) = bets[b]
    BY CarriedType DEF BooksOK
  <2> QED BY <2>1 DEF SameBets, Resettle
<1>5. \A p \in Player : bankroll'[p] = bankroll[p] - Returned(p, r, Prior(r)) + Returned(p, r, new)
  BY DEF Resettle
<1>6. bankroll' = [p \in Player |-> bankroll'[p]]
  BY DEF Resettle
<1> HIDE DEF new
<1>7. \A x \in Round : RoundBets(x)' = RoundBets(x)
  BY <1>4 DEF SameBets, RoundBets
<1>8. SlipsMatch'
  BY <1>3, <1>4 DEF SameBets, SlipsMatch, BooksOK, BetRecord
<1>9. SettledPaid'
  BY <1>2, <1>3 DEF SettledPaid, BooksOK
<1>10. SheetsFull'
  <2> SUFFICES ASSUME NEW x \in DOMAIN settlements \cup {r}
               PROVE  /\ \A s \in settlements'[x] : /\ s.bet \in RoundBets(x)'
                                                    /\ s.profit = s.returned - bets'[s.bet].amount
                      /\ \A c \in RoundBets(x)' : \E s \in settlements'[x] : s.bet = c
    BY <1>2 DEF SheetsFull
  <2>1. x \in Round /\ \A c \in RoundBets(x) : bets'[c] = bets[c]
    BY <1>4 DEF SameBets, RoundBets, BooksOK
  <2>2. CASE x = r
    BY <1>1, <1>2, <1>7, <2>1, <2>2 DEF FullSheet
  <2>3. CASE x # r
    BY <1>2, <1>7, <2>1, <2>3 DEF SheetsFull
  <2> QED BY <2>2, <2>3
<1>11. \A p \in Player : /\ Returned(p, r, new) = ProfitFrom(p, new) + Placed(p, r)
                         /\ ProfitFrom(p, new) \in Int /\ Placed(p, r) \in Int
  BY <1>1, SheetReturns
<1>12. ASSUME NEW p \in Player
       PROVE  Earned(p)' = ProfitFrom(p, new) + RestEarned(p, r)
  <2> DEFINE D == DOMAIN settlements \cup {r}
             f == [x \in D |-> IF x = r THEN ProfitFrom(p, new) ELSE ProfitIn(p, x)]
  <2>1. Earned(p)' = Total(f)
    <3>1. ProfitIn(p, r)' = ProfitFrom(p, new)
      BY <1>2 DEF ProfitIn, ProfitFrom
    <3>2. \A x \in DOMAIN settlements \ {r} : ProfitIn(p, x)' = ProfitIn(p, x)
      BY <1>2 DEF ProfitIn
    <3>3. DOMAIN settlements' = D
      BY <1>2
    <3>4. [x \in DOMAIN settlements' |-> ProfitIn(p, x)'] = f
      BY <3>1, <3>2, <3>3
    <3> QED BY <3>4 DEF Earned
  <2>2. IsFiniteSet(D) /\ r \in D
    BY FS_AddElement DEF Counted
  <2>3. f \in [D -> Int] /\ f[r] = ProfitFrom(p, new)
    BY <1>11, TotalsAreInts
  <2>4. [x \in D \ {r} |-> f[x]] = [x \in DOMAIN settlements \ {r} |-> ProfitIn(p, x)]
    OBVIOUS
  <2>5. RestEarned(p, r) = Total([x \in D \ {r} |-> f[x]])
    BY <2>4 DEF RestEarned
  <2> HIDE DEF D, f
  <2>6. Total(f) = f[r] + Total([x \in D \ {r} |-> f[x]])
    BY <2>2, <2>3, TotalWithout
  <2> QED BY <2>1, <2>3, <2>5, <2>6
<1>13. ASSUME NEW p \in Player
       PROVE  bankroll'[p] \in Int /\ bankroll'[p] = funds'[p] - Staked(p)' + Earned(p)'
  <2>1. RestEarned(p, r) \in Int
    BY EarnedParts
  <2>2. /\ bankroll[p] \in Int /\ funds[p] \in Int /\ Staked(p) \in Int
        /\ bankroll[p] = funds[p] - Staked(p) + Earned(p)
    BY TotalsAreInts DEF Counted, Balanced
  <2>3. CASE status[r] = "settled"
    <3>1. r \in DOMAIN settlements /\ Prior(r) = settlements[r]
      BY <2>3 DEF SettledPaid, Prior
    <3>2. FullSheet(settlements[r], r) /\ ProfitFrom(p, settlements[r]) = ProfitIn(p, r)
      BY <3>1, SettledSheet
    <3>3. Returned(p, r, Prior(r)) = ProfitIn(p, r) + Placed(p, r) /\ ProfitIn(p, r) \in Int
      BY <3>1, <3>2, SheetReturns
    <3>4. Earned(p) = ProfitIn(p, r) + RestEarned(p, r)
      BY <3>1, EarnedParts
    <3>5. FeltSet(p)' = FeltSet(p)
      BY <1>3, <1>4, <2>3 DEF FeltSet, SameBets, BooksOK, BetRecord
    <3>6. [b \in FeltSet(p)' |-> bets'[b].amount] = [b \in FeltSet(p) |-> bets[b].amount]
      BY <1>4, <3>5 DEF FeltSet, SameBets
    <3>7. Staked(p)' = Staked(p)
      BY <3>6 DEF Staked
    <3> QED BY <1>5, <1>11, <1>12, <2>1, <2>2, <3>3, <3>4, <3>7
  <2>4. CASE status[r] = "closed"
    <3>1. r \notin DOMAIN settlements /\ Prior(r) = {}
      BY <2>4 DEF SettledPaid, Prior
    <3>2. Returned(p, r, Prior(r)) = 0
      <4>1. {s \in {} : s.bet \in RoundBets(r) /\ bets[s.bet].player = p} = {}
        OBVIOUS
      <4>2. [s \in {} |-> s.returned] \in [{} -> Int]
        OBVIOUS
      <4>3. Total([s \in {} |-> s.returned]) = 0
        BY <4>2, FS_EmptySet, TotalFacts
      <4> QED BY <3>1, <4>1, <4>3 DEF Returned
    <3>3. Earned(p) = RestEarned(p, r)
      BY <3>1, EarnedParts
    <3> DEFINE rest == Total([b \in FeltSet(p) \ MyBets(p, r) |-> bets[b].amount])
    <3>4. FeltSet(p)' = FeltSet(p) \ MyBets(p, r)
      BY <1>3, <1>4 DEF FeltSet, MyBets, RoundBets, SameBets, BooksOK, BetRecord
    <3>5. [b \in FeltSet(p)' |-> bets'[b].amount] = [b \in FeltSet(p) \ MyBets(p, r) |-> bets[b].amount]
      BY <1>4, <3>4 DEF FeltSet, SameBets
    <3>6. Staked(p)' = rest
      BY <3>5 DEF Staked
    <3>7. Staked(p) = Placed(p, r) + rest
      BY <2>4, StakedParts
    <3>8. rest \in Int
      <4> DEFINE S == FeltSet(p) \ MyBets(p, r)
                 f == [b \in S |-> bets[b].amount]
      <4>1. IsFiniteSet(FeltSet(p)) /\ \A b \in FeltSet(p) : bets[b].amount \in Int
        BY TotalsAreInts
      <4>2. IsFiniteSet(S) /\ f \in [S -> Int]
        BY <4>1, FiniteParts
      <4> HIDE DEF S, f
      <4>3. Total(f) \in Int
        BY <4>2, TotalFacts
      <4> QED BY <4>3 DEF S, f
    <3> HIDE DEF rest
    <3> QED BY <1>5, <1>11, <1>12, <2>1, <2>2, <3>2, <3>3, <3>6, <3>7, <3>8
  <2> QED BY <2>3, <2>4
<1>14. Counted'
  <2>1. IsFiniteSet(DOMAIN settlements')
    BY <1>2, FS_AddElement DEF Counted
  <2>2. bankroll' \in [Player -> Int]
    BY <1>6, <1>13
  <2> QED BY <2>1, <2>2 DEF Counted
<1> QED BY <1>8, <1>9, <1>10, <1>13, <1>14 DEF Balanced

LEMMA BankInductive ==
  ASSUME ~HasWorkingBets, ~LateEvents
  PROVE  Spec => [](IInv /\ RoundsBounded /\ BankInv /\ Balanced)
<1>1. Init => IInv /\ RoundsBounded /\ BankInv /\ Balanced
  <2> SUFFICES ASSUME Init
               PROVE  RoundsBounded /\ BankInv /\ Balanced
    BY InitIInv
  <2>1. OpenedRounds = {}
    BY DEF Init, OpenedRounds
  <2>2. RoundsBounded
    BY <2>1 DEF RoundsBounded
  <2>3. DOMAIN slips = {} /\ DOMAIN settlements = {} /\ DOMAIN bets = {}
    BY DEF Init
  <2>4. BankInv
    BY <2>3, FS_EmptySet DEF Init, BankInv, SlipsMatch, SettledPaid, SheetsFull, Counted
  <2>5. \A p \in Player : Staked(p) = 0 /\ Earned(p) = 0
    <3> TAKE p \in Player
    <3>1. FeltSet(p) = {}
      BY <2>3 DEF FeltSet
    <3>2. [b \in FeltSet(p) |-> bets[b].amount] \in [{} -> Int]
      BY <3>1
    <3>3. [r \in DOMAIN settlements |-> ProfitIn(p, r)] \in [{} -> Int]
      BY <2>3
    <3> QED BY <3>2, <3>3, FS_EmptySet, TotalFacts DEF Staked, Earned
  <2>6. Balanced
    BY <2>5 DEF Init, Balanced
  <2> QED BY <2>2, <2>4, <2>6
<1>2. IInv /\ RoundsBounded /\ BankInv /\ Balanced /\ [Next]_vars
        => (IInv /\ RoundsBounded /\ BankInv /\ Balanced)'
  <2> SUFFICES ASSUME IInv, RoundsBounded, BankInv, Balanced, [Next]_vars
               PROVE  IInv' /\ RoundsBounded' /\ BankInv' /\ Balanced'
    OBVIOUS
  <2>1. IInv' /\ RoundsBounded'
    BY NextIInv, RoundsStayBounded DEF IInv
  <2>2. Step
    BY StepKinds
  <2>3. BankInv' /\ Balanced'
    BY <2>1, <2>2, NeutralKeeps, PlacingKeeps, RemovingKeeps, ReversingKeeps, SettlingKeeps DEF Step
  <2> QED BY <2>1, <2>3
<1> QED BY <1>1, <1>2, PTL DEF Spec

\* The bank of a game of round bets reconciles: however results are recorded, edited, undone,
\* deleted or rewritten in the history, each bankroll is what was issued and adjusted, less what
\* lies on the felt, plus the profit of the rounds that are settled, to the chip and with every
\* rounding (platform-reducer.ts, applySettlementBankrolls and reverseSettlementForRound).
THEOREM BankReconciles ==
  ASSUME ~HasWorkingBets, ~LateEvents
  PROVE  Spec => []ChipsReconcile
<1>1. IInv /\ BankInv /\ Balanced => ChipsReconcile
  BY BalancedReconciles
<1> QED BY <1>1, BankInductive, PTL
=============================================================================
