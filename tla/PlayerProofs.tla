------------------------------ MODULE PlayerProofs -----------------------------
(***************************************************************************)
(* Proofs about the player's page, for any slips, bets, removals, refusals, *)
(* presses, results, lost connections and numbers of rounds: no bet that    *)
(* the page stakes is more than the player has, as long as no bet is        *)
(* pressed by more than the page shows.                                     *)
(*                                                                         *)
(* The page checks its stakes against its own copy of the log, and the      *)
(* service checks nothing.  The proof therefore follows the copy: as long   *)
(* as it is right (neither corrected nor crossed), it is a beginning of the *)
(* log with the page's own unconfirmed events after it, the messages on the *)
(* way bring the rest, neither of the two logs ever owes chips, and the     *)
(* bets of the log are on the page, with no smaller a stake.                *)
(***************************************************************************)
EXTENDS PlayerShell, DataLemmas, SequenceTheorems, TLAPS

-----------------------------------------------------------------------------
(* The table of a player: what an event does to the chips, whoever sent it.   *)

Bet == [id : Nat, round : 1..MaxRound, n : Nat]
Ride == [id : Nat, round : 1..MaxRound]
Pay == [id : Nat, round : 1..MaxRound, n : Nat, stake : Nat]
Stages == {"none", "open", "closed", "settled"}
Table7 == [rounds : [1..MaxRound -> Stages], bets : SUBSET Bet, works : SUBSET Nat, rides : SUBSET Ride,
           paid : SUBSET Pay, bank : Int]
Tables == {t \in Table7 : IsFiniteSet(t.bets) /\ IsFiniteSet(t.paid)}

\* Events without a correction of the dealer: the player's own ones place, change and remove bets.
Own(e) == e.by # ByDealer
Kinds == {"issued", "opened", "closed", "bet", "updated", "toggled", "removed", "voided", "result"}
Happening ==
  {e \in [type : Kinds, round : 0..MaxRound, id : Nat, n : Nat, by : Nat] :
     /\ e.type \in {"opened", "closed", "bet", "result"} => e.round # 0
     /\ e.type = "bet" => e.id = e.by
     /\ Own(e) <=> e.type \in {"bet", "updated", "toggled", "removed"}}

\* The chips of the player: those in hand and those on the felt.
Wealth(t) == t.bank + Worth(t.bets)
ChipsOf == [b \in Bet |-> b.n]

WorthAdds(g, S) == g = [s \in SUBSET S |-> IF s = {} THEN 0 ELSE Pick(s).n + g[s \ {Pick(s)}]]

LEMMA WorthIsChosen ==
  ASSUME NEW S
  PROVE  Worth(S) = (CHOOSE g : WorthAdds(g, S))[S]
BY DEF Worth, MapThenSumSet, MapThenFoldSet, WorthAdds, Pick

LEMMA WorthIsSum ==
  ASSUME NEW S \in SUBSET Bet, IsFiniteSet(S)
  PROVE  Worth(S) = SumOf(ChipsOf, S)
<1> DEFINE f == ChipsOf
           c == CHOOSE g : WorthAdds(g, S)
<1>1. \A x \in S : f[x] = x.n /\ f[x] \in Int
  BY DEF ChipsOf, Bet
<1> HIDE DEF f
<1>2. \A s \in SUBSET S : s # {} => Pick(s) \in S
  BY DEF Pick
<1>3. \A g : WorthAdds(g, S) <=> Adds(g, f, S)
  <2> TAKE g
  <2>1. [s \in SUBSET S |-> IF s = {} THEN 0 ELSE Pick(s).n + g[s \ {Pick(s)}]]
      = [s \in SUBSET S |-> IF s = {} THEN 0 ELSE f[Pick(s)] + g[s \ {Pick(s)}]]
    BY <1>1, <1>2
  <2> QED BY <2>1 DEF WorthAdds, Adds
<1>4. WorthAdds(c, S)
  <2>1. \E g : Adds(g, f, S)
    BY AdderExists
  <2>2. \E g : WorthAdds(g, S)
    BY <1>3, <2>1
  <2> QED BY <2>2
<1>5. Worth(S) = c[S]
  BY WorthIsChosen
<1> HIDE DEF c
<1>6. Adds(c, f, S)
  BY <1>3, <1>4
<1>7. SumOf(f, S) = c[S]
  BY <1>1, <1>6, SumByAdder
<1> QED BY <1>5, <1>7 DEF f

\* The worth of a set of bets, of a part and of one more.
LEMMA WorthParts ==
  ASSUME NEW S \in SUBSET Bet, IsFiniteSet(S), NEW A \in SUBSET S
  PROVE  /\ Worth(S) \in Nat /\ Worth(A) \in Nat /\ Worth(S \ A) \in Nat
         /\ Worth(S) = Worth(A) + Worth(S \ A)
         /\ IsFiniteSet(A) /\ IsFiniteSet(S \ A)
<1> DEFINE f == ChipsOf
<1>1. \A x \in S : f[x] \in Nat
  BY DEF ChipsOf, Bet
<1>2. IsFiniteSet(A) /\ IsFiniteSet(S \ A)
  BY FiniteParts
<1>3. Worth(S) = SumOf(f, S) /\ Worth(A) = SumOf(f, A) /\ Worth(S \ A) = SumOf(f, S \ A)
  BY <1>2, WorthIsSum
<1> HIDE DEF f
<1>4. SumOf(f, S) = SumOf(f, A) + SumOf(f, S \ A)
  BY <1>1, SumParts
<1>5. ASSUME NEW B \in SUBSET S PROVE SumOf(f, B) \in Nat
  <2> DEFINE F == {s \in SUBSET B : SumOf(f, s) \in Nat}
  <2>0. \A s \in SUBSET B : IsFiniteSet(s) /\ IsFiniteSet(B)
    BY FiniteParts
  <2>1. {} \in F
    <3>1. IsFiniteSet({}) /\ \A x \in {} : f[x] \in Int
      BY <2>0
    <3> DEFINE e == {}
    <3>2. IsFiniteSet(e) /\ \A x \in e : f[x] \in Int
      BY <3>1
    <3> HIDE DEF e
    <3>3. SumOf(f, {}) = 0
      BY <3>2, SumSteps
    <3> QED BY <3>3
  <2>2. ASSUME NEW s \in SUBSET B, NEW x \in B \ s, s \in F PROVE s \cup {x} \in F
    <3> DEFINE u == s \cup {x}
    <3>1. IsFiniteSet(u) /\ u \in SUBSET B /\ x \in u /\ u \ {x} = s /\ \A y \in u : f[y] \in Int
      BY <1>1, <2>0
    <3> HIDE DEF u
    <3>2. SumOf(f, u) = f[x] + SumOf(f, s)
      BY <3>1, SumSteps
    <3>3. f[x] \in Nat /\ SumOf(f, s) \in Nat
      BY <1>1, <2>2
    <3>4. SumOf(f, u) \in Nat
      BY <3>2, <3>3
    <3> QED BY <3>1, <3>4 DEF u
  <2> HIDE DEF F
  <2>3. B \in F
    BY <2>0, <2>1, <2>2, FiniteBySteps
  <2> QED BY <2>3 DEF F
<1> QED BY <1>2, <1>3, <1>4, <1>5

LEMMA WorthMore ==
  ASSUME NEW S \in SUBSET Bet, IsFiniteSet(S), NEW A \in SUBSET S
  PROVE  Worth(A) <= Worth(S)
<1>1. /\ Worth(S) \in Nat /\ Worth(A) \in Nat /\ Worth(S \ A) \in Nat
      /\ Worth(S) = Worth(A) + Worth(S \ A)
  BY WorthParts
<1> QED BY <1>1

LEMMA WorthOne ==
  ASSUME NEW S \in SUBSET Bet, IsFiniteSet(S), NEW b \in Bet, b \notin S
  PROVE  IsFiniteSet(S \cup {b}) /\ Worth(S \cup {b}) = Worth(S) + b.n
<1> DEFINE u == S \cup {b}
           f == ChipsOf
<1>1. u \in SUBSET Bet /\ IsFiniteSet(u) /\ b \in u /\ u \ {b} = S
  BY FS_AddElement
<1>2. f[b] = b.n /\ \A x \in u : f[x] \in Int
  BY DEF ChipsOf, Bet
<1> HIDE DEF u, f
<1>3. SumOf(f, u) = f[b] + SumOf(f, S)
  BY <1>1, <1>2, SumSteps
<1>4. Worth(u) = SumOf(f, u) /\ Worth(S) = SumOf(f, S)
  BY <1>1, WorthIsSum DEF f
<1>5. Worth(S) \in Nat /\ b.n \in Nat
  BY WorthParts DEF Bet
<1> QED BY <1>1, <1>2, <1>3, <1>4, <1>5 DEF u

\* No two bets have an id, and each bet of the one set is in the other, with no smaller a stake.
Single(bs) == \A b, c \in bs : b.id = c.id => b = c
Under(as, bs) == \A a \in as : \E b \in bs : a.id = b.id /\ a.round = b.round /\ a.n <= b.n

LEMMA WorthUnder ==
  ASSUME NEW A \in SUBSET Bet, IsFiniteSet(A), Single(A), NEW B \in SUBSET Bet, IsFiniteSet(B), Under(A, B)
  PROVE  Worth(A) <= Worth(B)
<1> DEFINE Over(s) == {b \in B : \E a \in s : a.id = b.id}
           F == {s \in SUBSET A : Worth(s) <= Worth(Over(s))}
<1>1. \A s \in SUBSET A : s \in SUBSET Bet /\ IsFiniteSet(s) /\ Worth(s) \in Nat
  <2> TAKE s \in SUBSET A
  <2>1. Worth(s) \in Nat /\ IsFiniteSet(s)
    BY WorthParts
  <2> QED BY <2>1
<1>2. \A s : Over(s) \in SUBSET B /\ IsFiniteSet(Over(s)) /\ Worth(Over(s)) \in Nat
  <2> TAKE s
  <2> DEFINE O == Over(s)
  <2>1. O \in SUBSET B
    OBVIOUS
  <2> HIDE DEF O
  <2>2. Worth(O) \in Nat /\ IsFiniteSet(O)
    BY <2>1, WorthParts
  <2> QED BY <2>1, <2>2 DEF O
<1>3. {} \in F
  <2> DEFINE none == {}
             O == Over(none)
  <2>1. none \in SUBSET A /\ O = none
    OBVIOUS
  <2> HIDE DEF O
  <2>2. Worth(none) <= Worth(O)
    <3> HIDE DEF none
    <3>1. Worth(none) \in Nat
      BY <1>1, <2>1
    <3> QED BY <2>1, <3>1
  <2> QED BY <2>1, <2>2 DEF O
<1>4. ASSUME NEW s \in SUBSET A, NEW x \in A \ s, s \in F PROVE s \cup {x} \in F
  <2> DEFINE u == s \cup {x}
             O == Over(s)
             V == Over(u)
  <2>1. PICK y \in B : x.id = y.id /\ x.n <= y.n
    BY DEF Under
  <2>2. y \notin O
    <3> SUFFICES ASSUME NEW a \in s, a.id = y.id PROVE FALSE
      OBVIOUS
    <3>1. a \in A /\ x \in A /\ a.id = x.id
      BY <2>1
    <3> QED BY <3>1 DEF Single
  <2>3. O \cup {y} \in SUBSET V /\ u \in SUBSET A
    BY <2>1
  <2>4. Worth(s) <= Worth(O)
    BY <1>4
  <2>5. O \in SUBSET Bet /\ IsFiniteSet(O) /\ Worth(O) \in Nat /\ V \in SUBSET Bet /\ IsFiniteSet(V) /\ Worth(V) \in Nat
    BY <1>2
  <2> HIDE DEF O, V, u
  <2> DEFINE w == O \cup {y}
  <2>6. Worth(w) = Worth(O) + y.n /\ w \in SUBSET V
    <3>1. IsFiniteSet(O \cup {y}) /\ Worth(O \cup {y}) = Worth(O) + y.n
      BY <2>2, <2>5, WorthOne
    <3> QED BY <2>3, <3>1
  <2> HIDE DEF w
  <2>7. Worth(w) <= Worth(V)
    BY <2>5, <2>6, WorthMore
  <2>8. Worth(u) = Worth(s) + x.n
    <3>1. s \in SUBSET Bet /\ IsFiniteSet(s) /\ x \in Bet /\ x \notin s
      BY <1>1
    <3>2. IsFiniteSet(s \cup {x}) /\ Worth(s \cup {x}) = Worth(s) + x.n
      BY <3>1, WorthOne
    <3> QED BY <3>2 DEF u
  <2>9. Worth(s) \in Nat /\ x.n \in Nat /\ y.n \in Nat
    BY <1>1 DEF Bet
  <2>10. Worth(u) <= Worth(V)
    BY <2>1, <2>4, <2>5, <2>6, <2>7, <2>8, <2>9
  <2> QED BY <2>3, <2>10 DEF u, V
<1> HIDE DEF F
<1>5. A \in F
  BY <1>3, <1>4, FiniteBySteps
<1> DEFINE O == Over(A)
<1>6. O \in SUBSET B /\ Worth(A) <= Worth(O) /\ Worth(O) \in Nat
  BY <1>2, <1>5 DEF F
<1> HIDE DEF O, Over
<1>7. Worth(O) <= Worth(B)
  BY <1>6, WorthMore
<1>8. Worth(A) \in Nat /\ Worth(B) \in Nat
  <2>1. A \in SUBSET A /\ B \in SUBSET B
    OBVIOUS
  <2>2. Worth(A) \in Nat
    BY <1>1, <2>1
  <2>3. Worth(B) \in Nat
    BY <2>1, WorthParts
  <2> QED BY <2>2, <2>3
<1> QED BY <1>6, <1>7, <1>8

LEMMA InRoundIs ==
  ASSUME NEW t \in Table7, NEW b \in Bet
  PROVE  InRound(t, b) \in 1..MaxRound
<1> DEFINE S == {b.round} \cup {r.round : r \in {x \in t.rides : x.id = b.id}}
<1>1. b.round \in 1..MaxRound /\ t.rides \in SUBSET Ride /\ MaxRound \in Nat
  BY PlayerAssumption DEF Bet, Table7
<1>2. \A x \in S : x \in 1..MaxRound
  BY <1>1 DEF Ride
<1>3. S \subseteq Nat /\ S # {} /\ \A x \in S : x <= MaxRound
  BY <1>1, <1>2
<1>4. InRound(t, b) = Max(S)
  BY DEF InRound
<1> HIDE DEF S
<1>5. Max(S) \in S
  BY <1>1, <1>3, MaxOfBounded
<1> QED BY <1>2, <1>4, <1>5

\* The bet that an event places, and those that an event changes.
BetOf(e) == [id |-> e.id, round |-> e.round, n |-> e.n]
Without(ps, id) == {b \in ps : b.id # id}
Held(t, e) == {b \in t.bets : b.id = e.id /\ t.rounds[InRound(t, b)] = "open"}
Raised(b, n) == [b EXCEPT !.n = n]

\* Tables that only own events lie between have the same rounds.
SameRounds(t, u) == u.rounds = t.rounds /\ u.rides = t.rides

LEMMA TableParts ==
  ASSUME NEW t \in Tables
  PROVE  /\ t \in Table7 /\ IsFiniteSet(t.bets) /\ IsFiniteSet(t.paid) /\ t.bank \in Int
         /\ t.bets \in SUBSET Bet /\ t.rounds \in [1..MaxRound -> Stages] /\ t.works \in SUBSET Nat
         /\ t.rides \in SUBSET Ride /\ t.paid \in SUBSET Pay
BY DEF Tables, Table7

\* A table with other bets and chips.
LEMMA OtherBets ==
  ASSUME NEW t \in Tables, NEW bs \in SUBSET Bet, IsFiniteSet(bs), NEW m \in Int,
         NEW r, r = [t EXCEPT !.bank = m, !.bets = bs]
  PROVE  /\ r \in Tables /\ r.bets = bs /\ r.bank = m /\ SameRounds(t, r)
<1>1. /\ t \in Table7 /\ IsFiniteSet(t.bets) /\ IsFiniteSet(t.paid)
  BY TableParts
<1>2. r.bets = bs /\ r.bank = m /\ r.rounds = t.rounds /\ r.paid = t.paid /\ r.rides = t.rides
  BY <1>1 DEF Table7
<1>3. r \in Table7
  BY <1>1 DEF Table7
<1> QED BY <1>1, <1>2, <1>3 DEF Tables, SameRounds

LEMMA ReduceBet ==
  ASSUME NEW t \in Tables, NEW e \in Happening, e.type = "bet"
  PROVE  /\ Reduce(t, e) \in Tables /\ BetOf(e) \in Bet /\ e.round \in 1..MaxRound
         /\ SameRounds(t, Reduce(t, e))
         /\ t.rounds[e.round] # "open" => Reduce(t, e).bets = t.bets /\ Reduce(t, e).bank = t.bank
         /\ t.rounds[e.round] = "open" =>
              Reduce(t, e).bets = t.bets \cup {BetOf(e)} /\ Reduce(t, e).bank = t.bank - e.n
<1> DEFINE b == [id |-> e.id, round |-> e.round, n |-> e.n]
           bs == t.bets \cup {b}
           m == t.bank - e.n
           r == [t EXCEPT !.bank = m, !.bets = bs]
<1>1. b \in Bet /\ e.round \in 1..MaxRound /\ e.n \in Nat
  BY DEF Happening, Bet
<1>2. t \in Table7 /\ IsFiniteSet(t.bets) /\ t.bets \in SUBSET Bet /\ t.bank \in Int
  BY TableParts
<1>3. Reduce(t, e) = IF t.rounds[e.round] # "open" THEN t ELSE r
  <2>1. [t EXCEPT !.bank = @ - e.n, !.bets = @ \cup {b}] = r
    BY <1>2 DEF Table7
  <2> QED BY <2>1 DEF Reduce
<1>4. BetOf(e) = b
  BY DEF BetOf
<1> HIDE DEF b
<1>5. bs \in SUBSET Bet /\ IsFiniteSet(bs) /\ m \in Int
  BY <1>1, <1>2, FS_AddElement
<1> HIDE DEF bs, m
<1>6. r \in Tables /\ r.bets = bs /\ r.bank = m /\ SameRounds(t, r)
  BY <1>5, OtherBets
<1> HIDE DEF r
<1>7. SameRounds(t, t)
  BY DEF SameRounds
<1> QED BY <1>1, <1>3, <1>4, <1>6, <1>7 DEF bs, m

LEMMA ReduceBack ==
  ASSUME NEW t \in Tables, NEW e \in Happening, e.type \in {"removed", "voided"}
  PROVE  /\ Reduce(t, e) \in Tables
         /\ SameRounds(t, Reduce(t, e))
         /\ Reduce(t, e).bets = Without(t.bets, e.id)
         /\ Reduce(t, e).bank = t.bank + Worth(t.bets \ Without(t.bets, e.id))
         /\ Reduce(t, e).bank >= t.bank
         /\ Wealth(Reduce(t, e)) = Wealth(t)
<1> DEFINE gone == {b \in t.bets : b.id = e.id}
           left == Without(t.bets, e.id)
           all == t.bets
           m == t.bank + Worth(gone)
           r == [t EXCEPT !.bank = m, !.bets = left]
<1>1. t \in Table7 /\ IsFiniteSet(all) /\ all \in SUBSET Bet /\ t.bank \in Int
  BY TableParts
<1>2. gone = all \ left /\ left = all \ gone /\ left \in SUBSET all
  BY DEF Without
<1>3. Reduce(t, e) = r
  <2>1. [t EXCEPT !.bank = @ + Worth(gone), !.bets = @ \ gone] = r
    BY <1>1, <1>2 DEF Table7
  <2> QED BY <2>1 DEF Reduce
<1> HIDE DEF left, gone
<1>4. /\ Worth(all) \in Nat /\ Worth(left) \in Nat /\ Worth(all \ left) \in Nat
      /\ Worth(all) = Worth(left) + Worth(all \ left)
      /\ IsFiniteSet(left)
  <2> HIDE DEF all
  <2> QED BY <1>1, <1>2, WorthParts
<1>5. left \in SUBSET Bet /\ m \in Int /\ m = t.bank + Worth(all \ left)
  BY <1>1, <1>2, <1>4
<1> HIDE DEF m
<1>6. r \in Tables /\ r.bets = left /\ r.bank = m /\ SameRounds(t, r)
  BY <1>4, <1>5, OtherBets
<1> HIDE DEF r
<1>7. Wealth(r) = m + Worth(left) /\ Wealth(t) = t.bank + Worth(all)
  BY <1>6 DEF Wealth
<1>8. m >= t.bank /\ Wealth(r) = Wealth(t)
  BY <1>1, <1>4, <1>5, <1>7
<1> QED BY <1>3, <1>5, <1>6, <1>8 DEF left

\* A changed stake of the bets that are in an open round.
LEMMA ReduceUpdate ==
  ASSUME NEW t \in Tables, NEW e \in Happening, e.type = "updated"
  PROVE  /\ Reduce(t, e) \in Tables
         /\ SameRounds(t, Reduce(t, e))
         /\ Reduce(t, e).bets = (t.bets \ Held(t, e)) \cup {Raised(b, e.n) : b \in Held(t, e)}
         /\ Reduce(t, e).bank = (t.bank + Worth(Held(t, e))) - Worth({Raised(b, e.n) : b \in Held(t, e)})
         /\ {Raised(b, e.n) : b \in Held(t, e)} \in SUBSET Bet /\ IsFiniteSet({Raised(b, e.n) : b \in Held(t, e)})
<1> DEFINE all == t.bets
           held == Held(t, e)
           new == {Raised(b, e.n) : b \in held}
           bs == (all \ held) \cup new
           m == (t.bank + Worth(held)) - Worth(new)
           r == [t EXCEPT !.bank = m, !.bets = bs]
<1>1. t \in Table7 /\ IsFiniteSet(all) /\ all \in SUBSET Bet /\ t.bank \in Int
  BY TableParts
<1>2. held \in SUBSET all /\ e.n \in Nat
  BY DEF Held, Happening
<1>3. Reduce(t, e) = r
  <2> DEFINE h == {b \in t.bets : b.id = e.id /\ t.rounds[InRound(t, b)] = "open"}
             w == {[b EXCEPT !.n = e.n] : b \in h}
  <2>1. h = held /\ w = new
    BY DEF Held, Raised
  <2>2. Reduce(t, e) = [t EXCEPT !.bank = (@ + Worth(h)) - Worth(w), !.bets = (@ \ h) \cup w]
    BY DEF Reduce
  <2> HIDE DEF h, w, held, new
  <2>3. [t EXCEPT !.bank = (@ + Worth(held)) - Worth(new), !.bets = (@ \ held) \cup new] = r
    BY <1>1 DEF Table7
  <2> QED BY <2>1, <2>2, <2>3
<1>4. new \in SUBSET Bet /\ IsFiniteSet(new) /\ IsFiniteSet(held) /\ IsFiniteSet(all \ held)
  <2> DEFINE f == [b \in held |-> Raised(b, e.n)]
  <2>1. new = {f[b] : b \in held}
    OBVIOUS
  <2>2. \A b \in held : f[b] \in Bet
    BY <1>1, <1>2 DEF Raised, Bet
  <2>3. IsFiniteSet(held) /\ IsFiniteSet(all \ held)
    <3> HIDE DEF held, all
    <3>1. all \ held \in SUBSET all
      OBVIOUS
    <3> QED BY <1>1, <1>2, <3>1, FiniteParts
  <2> HIDE DEF f, held, new
  <2>4. IsFiniteSet({f[b] : b \in held})
    BY <2>3, FiniteImage
  <2> QED BY <2>1, <2>2, <2>3, <2>4
<1> HIDE DEF held, new
<1>5. Worth(held) \in Nat /\ Worth(new) \in Nat
  <2> HIDE DEF all
  <2>1. Worth(held) \in Nat
    BY <1>1, <1>2, WorthParts
  <2>2. new \in SUBSET new
    OBVIOUS
  <2> QED BY <1>4, <2>1, <2>2, WorthParts
<1>6. bs \in SUBSET Bet /\ IsFiniteSet(bs) /\ m \in Int
  <2> DEFINE rest == all \ held
  <2>1. IsFiniteSet(rest) /\ rest \in SUBSET Bet
    BY <1>1, <1>4
  <2> HIDE DEF rest, all
  <2>2. IsFiniteSet(rest \cup new)
    BY <1>4, <2>1, FS_Union
  <2> QED BY <1>1, <1>4, <1>5, <2>1, <2>2 DEF rest
<1> HIDE DEF bs, m
<1>7. r \in Tables /\ r.bets = bs /\ r.bank = m /\ SameRounds(t, r)
  BY <1>6, OtherBets
<1> HIDE DEF r
<1> QED BY <1>3, <1>4, <1>7 DEF bs, m, new, held

LEMMA ReduceToggle ==
  ASSUME NEW t \in Tables, NEW e \in Happening, e.type = "toggled"
  PROVE  /\ Reduce(t, e) \in Tables /\ SameRounds(t, Reduce(t, e))
         /\ Reduce(t, e).bets = t.bets /\ Reduce(t, e).bank = t.bank
<1> DEFINE held == {b \in t.bets : b.id = e.id /\ t.rounds[InRound(t, b)] = "open"}
           ws == IF held = {} THEN t.works ELSE IF e.n = 1 THEN t.works \cup {e.id} ELSE t.works \ {e.id}
           r == [t EXCEPT !.works = ws]
<1>1. t \in Table7 /\ IsFiniteSet(t.bets) /\ IsFiniteSet(t.paid) /\ t.works \in SUBSET Nat
  BY TableParts
<1>2. Reduce(t, e) = r
  <2> HIDE DEF held
  <2>1. [t EXCEPT !.works = IF held = {} THEN @ ELSE IF e.n = 1 THEN @ \cup {e.id} ELSE @ \ {e.id}] = r
    BY <1>1 DEF Table7
  <2> QED BY <2>1 DEF Reduce, held
<1>3. ws \in SUBSET Nat
  BY <1>1 DEF Happening
<1> HIDE DEF ws
<1>4. r \in Table7
  BY <1>1, <1>3 DEF Table7
<1>5. r.bets = t.bets /\ r.bank = t.bank /\ r.rounds = t.rounds /\ r.rides = t.rides /\ r.paid = t.paid
  BY <1>1 DEF Table7
<1> QED BY <1>1, <1>2, <1>4, <1>5 DEF Tables, SameRounds

LEMMA ReduceResult ==
  ASSUME NEW t \in Tables, NEW e \in Happening, e.type = "result"
  PROVE  /\ Reduce(t, e) \in Tables
         /\ Reduce(t, e).bets = t.bets /\ Reduce(t, e).bank >= t.bank
<1> DEFINE stays == {b \in BetsIn(t, e.round) : b.id = e.id}
           done == BetsIn(t, e.round) \ stays
           f == [b \in done |-> [id |-> b.id, round |-> e.round, n |-> e.n * b.n, stake |-> b.n]]
           paid == {[id |-> b.id, round |-> e.round, n |-> e.n * b.n, stake |-> b.n] : b \in done}
           rs == [t.rounds EXCEPT ![e.round] = "settled"]
           ws == t.works \cup {b.id : b \in stays}
           ps == t.paid \cup paid
           m == t.bank + e.n * Worth(done)
           r == [t EXCEPT !.rounds = rs, !.works = ws, !.paid = ps, !.bank = m]
<1>1. /\ t \in Table7 /\ IsFiniteSet(t.bets) /\ IsFiniteSet(t.paid) /\ t.bank \in Int
      /\ t.bets \in SUBSET Bet /\ t.rounds \in [1..MaxRound -> Stages] /\ t.works \in SUBSET Nat /\ t.paid \in SUBSET Pay
  BY TableParts
<1>2. e.n \in Nat /\ e.round \in 1..MaxRound
  BY DEF Happening
<1>3. Reduce(t, e) = IF t.rounds[e.round] \in {"none", "settled"} THEN t ELSE r
  <2> DEFINE wk == {b.id : b \in stays}
             gain == e.n * Worth(done)
  <2>1. Reduce(t, e) = IF t.rounds[e.round] \in {"none", "settled"} THEN t
                       ELSE [t EXCEPT !.rounds[e.round] = "settled", !.works = @ \cup wk,
                                      !.paid = @ \cup paid, !.bank = @ + gain]
    BY DEF Reduce
  <2> HIDE DEF wk, paid, gain, done, stays
  <2>2. [t EXCEPT !.rounds[e.round] = "settled", !.works = @ \cup wk, !.paid = @ \cup paid, !.bank = @ + gain]
          = [t EXCEPT !.rounds = [t.rounds EXCEPT ![e.round] = "settled"], !.works = t.works \cup wk,
                      !.paid = t.paid \cup paid, !.bank = t.bank + gain]
    BY <1>1 DEF Table7
  <2> QED BY <2>1, <2>2 DEF wk, gain
<1>4. done \in SUBSET t.bets /\ stays \in SUBSET t.bets
  BY DEF BetsIn
<1> HIDE DEF done, stays
<1>5. IsFiniteSet(done) /\ Worth(done) \in Nat
  <2> DEFINE all == t.bets
  <2>1. all \in SUBSET Bet /\ IsFiniteSet(all) /\ done \in SUBSET all
    BY <1>1, <1>4
  <2> HIDE DEF all
  <2> QED BY <2>1, WorthParts
<1>6. paid \in SUBSET Pay /\ IsFiniteSet(paid)
  <2>1. paid = {f[b] : b \in done}
    OBVIOUS
  <2>2. ASSUME NEW b \in done PROVE f[b] \in Pay
    <3>1. b \in Bet
      BY <1>1, <1>4
    <3>2. b.id \in Nat /\ b.n \in Nat
      BY <3>1 DEF Bet
    <3>3. e.n * b.n \in Nat
      BY <1>2, <3>2, TimesMore
    <3> QED BY <1>2, <3>2, <3>3 DEF Pay
  <2> HIDE DEF f, paid
  <2>3. IsFiniteSet({f[b] : b \in done})
    BY <1>5, FiniteImage
  <2> QED BY <2>1, <2>2, <2>3
<1>7. e.n * Worth(done) \in Nat
  BY <1>2, <1>5, TimesMore
<1>8. rs \in [1..MaxRound -> Stages]
  BY <1>1 DEF Stages
<1>9. ws \in SUBSET Nat
  <2>1. \A b \in stays : b.id \in Nat
    BY <1>1, <1>4 DEF Bet
  <2> QED BY <1>1, <2>1
<1> HIDE DEF paid
<1>10. ps \in SUBSET Pay /\ IsFiniteSet(ps)
  BY <1>1, <1>6, FS_Union
<1>11. m \in Int /\ m >= t.bank
  BY <1>1, <1>7
<1> HIDE DEF rs, ws, ps, m
<1>12. r \in Table7
  BY <1>1, <1>8, <1>9, <1>10, <1>11 DEF Table7
<1>13. r.bets = t.bets /\ r.bank = m /\ r.paid = ps
  BY <1>1 DEF Table7
<1>14. r \in Tables
  BY <1>1, <1>10, <1>12, <1>13 DEF Tables
<1> HIDE DEF r
<1> QED BY <1>1, <1>3, <1>11, <1>13, <1>14

LEMMA ReduceRest ==
  ASSUME NEW t \in Tables, NEW e \in Happening, e.type \in {"issued", "opened", "closed"}
  PROVE  /\ Reduce(t, e) \in Tables
         /\ Reduce(t, e).bets = t.bets /\ Reduce(t, e).bank >= t.bank
<1>1. /\ t \in Table7 /\ IsFiniteSet(t.bets) /\ IsFiniteSet(t.paid) /\ e.n \in Nat /\ t.bank \in Int
      /\ t.bets \in SUBSET Bet /\ t.rides \in SUBSET Ride
  BY TableParts DEF Happening
<1>2. CASE e.type = "issued"
  <2> DEFINE m == t.bank + e.n
             S == t.bets
             r == [t EXCEPT !.bank = m, !.bets = S]
  <2>1. Reduce(t, e) = r
    <3>1. [t EXCEPT !.bank = @ + e.n] = r
      BY <1>1 DEF Table7
    <3> QED BY <1>2, <3>1 DEF Reduce
  <2>2. m \in Int /\ m >= t.bank
    BY <1>1
  <2>3. r.bank = m /\ r.bets = S /\ r.paid = t.paid
    BY <1>1 DEF Table7
  <2> HIDE DEF m
  <2>5. r \in Table7
    BY <1>1, <2>2 DEF Table7
  <2>4. r \in Tables /\ r.bets = S /\ r.bank = m
    BY <1>1, <2>3, <2>5 DEF Tables
  <2> HIDE DEF r
  <2> QED BY <2>1, <2>2, <2>4 DEF S
<1>3. ASSUME NEW x \in Stages, e.round \in 1..MaxRound, NEW ds \in SUBSET Ride,
             NEW r, r = [t EXCEPT !.rounds = [t.rounds EXCEPT ![e.round] = x], !.rides = ds]
      PROVE  r \in Tables /\ r.bets = t.bets /\ r.bank = t.bank
  <2>1. r.bank = t.bank /\ r.bets = t.bets /\ r.paid = t.paid
    BY <1>1, <1>3 DEF Table7
  <2>2. r \in Table7
    <3> DEFINE rs == [t.rounds EXCEPT ![e.round] = x]
    <3>1. rs \in [1..MaxRound -> Stages]
      BY <1>1, <1>3 DEF Table7
    <3> HIDE DEF rs
    <3>2. r = [t EXCEPT !.rounds = rs, !.rides = ds]
      BY <1>3 DEF rs
    <3> QED BY <1>1, <3>1, <3>2 DEF Table7
  <2> QED BY <1>1, <2>1, <2>2 DEF Tables
<1>4. CASE e.type = "opened"
  <2> DEFINE riding == {b \in t.bets : b.id \in t.works /\ t.rounds[InRound(t, b)] = "settled"}
             more == {[id |-> b.id, round |-> e.round] : b \in riding}
             ds == t.rides \cup more
             r == [t EXCEPT !.rounds = [t.rounds EXCEPT ![e.round] = "open"], !.rides = ds]
  <2>1. e.round \in 1..MaxRound
    BY <1>4 DEF Happening
  <2>2. Reduce(t, e) = r
    <3>1. Reduce(t, e) = [t EXCEPT !.rounds[e.round] = "open", !.rides = @ \cup more]
      BY <1>4 DEF Reduce
    <3> HIDE DEF more
    <3> QED BY <1>1, <3>1 DEF Table7
  <2>3. ds \in SUBSET Ride
    <3>1. \A b \in riding : b.id \in Nat
      BY <1>1 DEF Bet
    <3> QED BY <1>1, <2>1, <3>1 DEF Ride
  <2> HIDE DEF ds
  <2>4. r \in Tables /\ r.bets = t.bets /\ r.bank = t.bank
    <3>1. "open" \in Stages
      BY DEF Stages
    <3> QED BY <1>3, <2>1, <2>3, <3>1
  <2> HIDE DEF r
  <2> QED BY <1>1, <2>2, <2>4
<1>5. CASE e.type = "closed"
  <2> DEFINE x == IF t.rounds[e.round] = "none" THEN "none" ELSE "closed"
             r == [t EXCEPT !.rounds = [t.rounds EXCEPT ![e.round] = x], !.rides = t.rides]
  <2>1. e.round \in 1..MaxRound /\ x \in Stages
    BY <1>5 DEF Happening, Stages
  <2>2. Reduce(t, e) = r
    <3>1. Reduce(t, e) = [t EXCEPT !.rounds[e.round] = IF @ = "none" THEN @ ELSE "closed"]
      BY <1>5 DEF Reduce
    <3>2. t.rounds[e.round] = "none" => t.rounds[e.round] = x
      OBVIOUS
    <3> QED BY <1>1, <3>1, <3>2 DEF Table7
  <2> HIDE DEF x
  <2>3. r \in Tables /\ r.bets = t.bets /\ r.bank = t.bank
    BY <1>1, <1>3, <2>1
  <2> HIDE DEF r
  <2> QED BY <1>1, <2>2, <2>3
<1> QED BY <1>2, <1>4, <1>5

\* What an event of the dealer does: chips and bets go to the player's bankroll, never from it.
LEMMA ReduceDealer ==
  ASSUME NEW t \in Tables, NEW e \in Happening, ~Own(e)
  PROVE  /\ Reduce(t, e) \in Tables
         /\ Reduce(t, e).bets \subseteq t.bets /\ Reduce(t, e).bank >= t.bank
         /\ Wealth(t) <= Wealth(Reduce(t, e))
<1>1. t.bets \in SUBSET Bet /\ IsFiniteSet(t.bets) /\ t.bank \in Int
  BY TableParts
<1>2. e.type \in {"issued", "opened", "closed", "voided", "result"}
  BY DEF Happening, Kinds
<1>3. CASE e.type = "voided"
  <2> DEFINE r == Reduce(t, e)
  <2>1. /\ r \in Tables /\ r.bets = Without(t.bets, e.id) /\ r.bank >= t.bank
        /\ Wealth(r) = Wealth(t)
    BY <1>3, ReduceBack
  <2>2. Wealth(t) \in Int
    <3>1. Worth(t.bets) \in Nat
      <4> DEFINE S == t.bets
      <4>1. S \in SUBSET Bet /\ IsFiniteSet(S) /\ S \in SUBSET S
        BY <1>1
      <4> HIDE DEF S
      <4>2. Worth(S) \in Nat
        BY <4>1, WorthParts
      <4> QED BY <4>2 DEF S
    <3> QED BY <1>1, <3>1 DEF Wealth
  <2> HIDE DEF r
  <2>3. Without(t.bets, e.id) \subseteq t.bets
    BY DEF Without
  <2> QED BY <2>1, <2>2, <2>3 DEF r
<1>4. CASE e.type # "voided"
  <2> DEFINE r == Reduce(t, e)
             S == t.bets
  <2>1. r \in Tables /\ r.bets = S /\ r.bank >= t.bank
    BY <1>2, <1>4, ReduceResult, ReduceRest
  <2>2. r.bank \in Int
    BY <2>1 DEF Tables, Table7
  <2>3. S \in SUBSET Bet /\ IsFiniteSet(S) /\ S \in SUBSET S
    BY <1>1
  <2>4. Wealth(r) = r.bank + Worth(S) /\ Wealth(t) = t.bank + Worth(S)
    BY <2>1 DEF Wealth
  <2> HIDE DEF r, S
  <2>5. Worth(S) \in Nat
    BY <2>3, WorthParts
  <2>6. r \in Tables /\ r.bets \subseteq S /\ r.bank >= t.bank /\ Wealth(t) <= Wealth(r)
    BY <1>1, <2>1, <2>2, <2>4, <2>5
  <2> QED BY <2>6 DEF r, S
<1> QED BY <1>3, <1>4

LEMMA ReduceKeeps ==
  ASSUME NEW t \in Tables, NEW e \in Happening
  PROVE  Reduce(t, e) \in Tables
<1>1. e.type \in Kinds
  BY DEF Happening
<1> QED BY <1>1, ReduceBet, ReduceBack, ReduceUpdate, ReduceToggle, ReduceResult, ReduceRest DEF Kinds

LEMMA NewTableIs ==
  /\ NewTable \in Tables /\ NewTable.bets = {} /\ NewTable.bank = 0
  /\ \A r \in 1..MaxRound : NewTable.rounds[r] = "none"
<1>1. NewTable \in Table7
  <2> DEFINE rs == [r \in 1..MaxRound |-> "none"]
  <2>1. rs \in [1..MaxRound -> Stages]
    BY DEF Stages
  <2> HIDE DEF rs
  <2>2. NewTable = [rounds |-> rs, bets |-> {}, works |-> {}, rides |-> {}, paid |-> {}, bank |-> 0]
    BY DEF NewTable, rs
  <2> QED BY <2>1, <2>2 DEF Table7
<1>2. NewTable.bets = {} /\ NewTable.paid = {} /\ NewTable.bank = 0 /\ \A r \in 1..MaxRound : NewTable.rounds[r] = "none"
  BY DEF NewTable
<1>3. IsFiniteSet({})
  BY FS_EmptySet
<1> QED BY <1>1, <1>2, <1>3 DEF Tables

-----------------------------------------------------------------------------
(* The table after a log of events, and after each of its prefixes.           *)

Reducer(g, s) ==
  g = [n \in 0..Len(s) |-> IF n = 0 THEN NewTable ELSE Reduce(g[n - 1], s[n])]

LEMMA TableIsChosen ==
  ASSUME NEW s
  PROVE  TableAfter(s) = (CHOOSE g : Reducer(g, s))[Len(s)]
BY DEF TableAfter, Reducer

Reduction == [p \in Tables \X Happening |-> Reduce(p[1], p[2])]

LEMMA TableFolds ==
  /\ Folding(Reduction, Tables, Happening)
  /\ \A t \in Tables, e \in Happening : Reduction[<<t, e>>] = Reduce(t, e)
  /\ \A s \in Seq(Happening) : TableAfter(s) = FoldOf(Reduction, NewTable, s)
<1> DEFINE X == Tables
           Y == Happening
           F == [p \in X \X Y |-> Reduce(p[1], p[2])]
           b == NewTable
<1>1. Folding(F, X, Y)
  BY ReduceKeeps DEF Folding
<1>2. \A r \in X, i \in Y : F[<<r, i>>] = Reduce(r, i)
  OBVIOUS
<1>3. b \in X
  BY NewTableIs
<1>4. Reduction = F
  BY DEF Reduction
<1> HIDE DEF F, X, Y, b
<1>5. /\ FoldOf(F, b, <<>>) = b
      /\ \A q \in Seq(Y) : /\ FoldOf(F, b, q) \in X
                           /\ \A e \in Y : FoldOf(F, b, Append(q, e)) = F[<<FoldOf(F, b, q), e>>]
  BY <1>1, <1>3, FoldSteps
<1>6. ASSUME NEW s \in Seq(Y) PROVE TableAfter(s) = FoldOf(F, b, s)
  <2> DEFINE P(n) == FoldOf(F, b, SubSeq(s, 1, n))
             h == [n \in 0..Len(s) |-> P(n)]
  <2>1. PICK k \in Nat : k = Len(s)
    OBVIOUS
  <2>2. \A n \in 1..k : /\ SubSeq(s, 1, n - 1) \in Seq(Y) /\ s[n] \in Y
                        /\ SubSeq(s, 1, n) = Append(SubSeq(s, 1, n - 1), s[n])
    BY <2>1, PrefixMore
  <2>3. \A n \in 1..k : P(n) = Reduce(P(n - 1), s[n])
    <3> TAKE n \in 1..k
    <3>1. /\ SubSeq(s, 1, n - 1) \in Seq(Y) /\ s[n] \in Y
          /\ SubSeq(s, 1, n) = Append(SubSeq(s, 1, n - 1), s[n])
      BY <2>2
    <3>2. P(n - 1) \in X /\ P(n) = F[<<P(n - 1), s[n]>>]
      BY <1>5, <3>1
    <3> QED BY <1>2, <3>1, <3>2
  <2>4. P(0) = b /\ P(k) = FoldOf(F, b, s)
    <3>1. SubSeq(s, 1, 0) = <<>> /\ SubSeq(s, 1, k) = s
      BY <2>1
    <3> QED BY <1>5, <3>1
  <2> HIDE DEF P
  <2>5. Reducer(h, s)
    <3>1. \A n \in 0..k : h[n] = P(n)
      BY <2>1
    <3>2. \A n \in 0..k : P(n) = IF n = 0 THEN b ELSE Reduce(h[n - 1], s[n])
      <4> TAKE n \in 0..k
      <4>1. CASE n = 0
        BY <2>4, <4>1
      <4>2. CASE n # 0
        <5>1. n \in 1..k /\ n - 1 \in 0..k
          BY <4>2
        <5>2. h[n - 1] = P(n - 1)
          BY <3>1, <5>1
        <5> QED BY <2>3, <4>2, <5>1, <5>2
      <4> QED BY <4>1, <4>2
    <3> HIDE DEF h
    <3>3. h = [n \in 0..Len(s) |-> P(n)]
      BY DEF h
    <3>4. h = [n \in 0..Len(s) |-> IF n = 0 THEN b ELSE Reduce(h[n - 1], s[n])]
      BY <2>1, <3>2, <3>3
    <3> QED BY <3>4 DEF Reducer, b
  <2> HIDE DEF h
  <2> DEFINE c == CHOOSE g : Reducer(g, s)
  <2>6. Reducer(c, s)
    BY <2>5
  <2>7. TableAfter(s) = c[k]
    BY <2>1, TableIsChosen
  <2> HIDE DEF c
  <2>8. \A n \in 0..k : c[n] = IF n = 0 THEN b ELSE Reduce(c[n - 1], s[n])
    <3>1. c = [n \in 0..k |-> IF n = 0 THEN b ELSE Reduce(c[n - 1], s[n])]
      BY <2>1, <2>6 DEF Reducer, b
    <3> QED BY <3>1
  <2> DEFINE T == {n \in Nat : n <= k => c[n] = P(n)}
  <2>9. 0 \in T
    <3>1. 0 \in 0..k
      OBVIOUS
    <3>2. c[0] = b
      BY <2>8, <3>1
    <3> QED BY <2>4, <3>2
  <2>10. \A n \in Nat : n \in T => n + 1 \in T
    <3> SUFFICES ASSUME NEW n \in Nat, n \in T, n + 1 <= k
                 PROVE  c[n + 1] = P(n + 1)
      OBVIOUS
    <3>1. n + 1 \in 1..k /\ n + 1 \in 0..k /\ (n + 1) - 1 = n /\ n <= k /\ n + 1 # 0
      OBVIOUS
    <3>2. c[n + 1] = Reduce(c[n], s[n + 1])
      BY <2>8, <3>1
    <3>3. P(n + 1) = Reduce(P(n), s[n + 1])
      BY <2>3, <3>1
    <3>4. c[n] = P(n)
      BY <3>1
    <3> QED BY <3>2, <3>3, <3>4
  <2> HIDE DEF T
  <2>11. Nat \subseteq T
    BY <2>9, <2>10, NaturalsBySteps
  <2>12. c[k] = P(k)
    <3>1. k \in T /\ k <= k
      BY <2>11
    <3> QED BY <3>1 DEF T
  <2> QED BY <2>4, <2>7, <2>12
<1> QED BY <1>1, <1>2, <1>4, <1>6 DEF X, Y, b

LEMMA TableSteps ==
  /\ TableAfter(<<>>) = NewTable
  /\ \A s \in Seq(Happening) :
       /\ TableAfter(s) \in Tables
       /\ \A e \in Happening : TableAfter(Append(s, e)) = Reduce(TableAfter(s), e)
<1> DEFINE X == Tables
           Y == Happening
           b == NewTable
           F == Reduction
<1>1. b \in X
  BY NewTableIs
<1>2. /\ Folding(F, X, Y) /\ \A t \in X, e \in Y : F[<<t, e>>] = Reduce(t, e)
      /\ \A s \in Seq(Y) : TableAfter(s) = FoldOf(F, b, s)
  BY TableFolds
<1> HIDE DEF X, Y, b, F
<1>3. /\ FoldOf(F, b, <<>>) = b
      /\ \A s \in Seq(Y) : /\ FoldOf(F, b, s) \in X
                           /\ \A e \in Y : FoldOf(F, b, Append(s, e)) = F[<<FoldOf(F, b, s), e>>]
  BY <1>1, <1>2, FoldSteps
<1>4. TableAfter(<<>>) = b
  <2> DEFINE none == <<>>
  <2>1. none \in Seq(Y) /\ FoldOf(F, b, none) = b
    BY <1>3
  <2> HIDE DEF none
  <2>2. TableAfter(none) = b
    BY <1>2, <2>1
  <2> QED BY <2>2 DEF none
<1>5. ASSUME NEW s \in Seq(Y)
      PROVE  TableAfter(s) \in X /\ \A e \in Y : TableAfter(Append(s, e)) = Reduce(TableAfter(s), e)
  <2>1. TableAfter(s) \in X
    BY <1>2, <1>3
  <2>2. ASSUME NEW e \in Y PROVE TableAfter(Append(s, e)) = Reduce(TableAfter(s), e)
    <3>1. Append(s, e) \in Seq(Y)
      OBVIOUS
    <3>2. TableAfter(Append(s, e)) = F[<<FoldOf(F, b, s), e>>]
      BY <1>2, <1>3, <3>1
    <3>3. F[<<TableAfter(s), e>>] = Reduce(TableAfter(s), e)
      BY <1>2, <2>1
    <3> QED BY <1>2, <3>2, <3>3
  <2> QED BY <2>1, <2>2
<1> QED BY <1>4, <1>5 DEF X, Y, b

\* The table when the first n events have happened.
After(s, n) == TableAfter(SubSeq(s, 1, n))

LEMMA AfterSteps ==
  ASSUME NEW s \in Seq(Happening)
  PROVE  /\ After(s, 0) = NewTable /\ After(s, Len(s)) = TableAfter(s)
         /\ \A n \in 0..Len(s) : After(s, n) \in Tables
         /\ \A n \in 1..Len(s) : s[n] \in Happening /\ After(s, n) = Reduce(After(s, n - 1), s[n])
<1> DEFINE Y == Happening
<1>0. s \in Seq(Y) /\ TableAfter(<<>>) = NewTable
  BY TableSteps
<1>1. \A r \in Seq(Y) : TableAfter(r) \in Tables /\ \A e \in Y : TableAfter(Append(r, e)) = Reduce(TableAfter(r), e)
  BY TableSteps
<1> HIDE DEF Y
<1>2. SubSeq(s, 1, 0) = <<>> /\ SubSeq(s, 1, Len(s)) = s
  BY <1>0
<1>3. \A n \in 1..Len(s) : /\ SubSeq(s, 1, n - 1) \in Seq(Y) /\ s[n] \in Y
                           /\ SubSeq(s, 1, n) = Append(SubSeq(s, 1, n - 1), s[n])
  BY <1>0, PrefixMore
<1>4. \A n \in 0..Len(s) : SubSeq(s, 1, n) \in Seq(Y)
  BY <1>0
<1>5. \A n \in 1..Len(s) : s[n] \in Y /\ After(s, n) = Reduce(After(s, n - 1), s[n])
  BY <1>1, <1>3 DEF After
<1>6. After(s, 0) = NewTable /\ After(s, Len(s)) = TableAfter(s)
  BY <1>0, <1>2 DEF After
<1>7. \A n \in 0..Len(s) : After(s, n) \in Tables
  BY <1>1, <1>4 DEF After
<1> QED BY <1>5, <1>6, <1>7 DEF Y

\* Logs that begin alike give the same table so far.
LEMMA AfterSame ==
  ASSUME NEW s \in Seq(Happening), NEW r \in Seq(Happening), NEW n \in Nat, n <= Len(s), n <= Len(r),
         \A i \in 1..n : s[i] = r[i]
  PROVE  After(s, n) = After(r, n)
<1> DEFINE T == {m \in Nat : m <= n => After(s, m) = After(r, m)}
<1>0. Len(s) \in Nat /\ Len(r) \in Nat
  OBVIOUS
<1>1. /\ After(s, 0) = NewTable
      /\ \A m \in 1..Len(s) : After(s, m) = Reduce(After(s, m - 1), s[m])
  BY AfterSteps
<1>2. /\ After(r, 0) = NewTable
      /\ \A m \in 1..Len(r) : After(r, m) = Reduce(After(r, m - 1), r[m])
  BY AfterSteps
<1>3. 0 \in T
  BY <1>1, <1>2
<1>4. \A m \in Nat : m \in T => m + 1 \in T
  <2> TAKE m \in Nat
  <2> HAVE m \in T
  <2>1. CASE m + 1 <= n
    <3>1. m + 1 \in 1..Len(s) /\ m + 1 \in 1..Len(r) /\ m + 1 \in 1..n /\ (m + 1) - 1 = m /\ m <= n
      BY <1>0, <2>1
    <3>2. After(s, m + 1) = Reduce(After(s, m), s[m + 1]) /\ After(r, m + 1) = Reduce(After(r, m), r[m + 1])
      BY <1>1, <1>2, <3>1
    <3>3. After(s, m + 1) = After(r, m + 1)
      BY <3>1, <3>2
    <3> QED BY <3>3
  <2>2. CASE ~(m + 1 <= n)
    BY <2>2
  <2> QED BY <2>1, <2>2
<1> HIDE DEF T
<1>5. Nat \subseteq T
  BY <1>3, <1>4, NaturalsBySteps
<1> QED BY <1>5 DEF T

\* The own events of a log come in the order of their client ids.
Rising(s) == \A i, j \in DOMAIN s : i < j /\ Own(s[i]) /\ Own(s[j]) => s[i].by < s[j].by

LEMMA BetIds ==
  ASSUME NEW s \in Seq(Happening), NEW n \in Nat, n <= Len(s)
  PROVE  \A b \in After(s, n).bets : \E i \in 1..n : s[i].type = "bet" /\ s[i].by = b.id
<1> DEFINE Known(m) == \A b \in After(s, m).bets : \E i \in 1..m : s[i].type = "bet" /\ s[i].by = b.id
           T == {m \in Nat : m <= Len(s) => Known(m)}
<1>0. Len(s) \in Nat
  OBVIOUS
<1>1. /\ After(s, 0) = NewTable
      /\ \A m \in 0..Len(s) : After(s, m) \in Tables
      /\ \A m \in 1..Len(s) : s[m] \in Happening /\ After(s, m) = Reduce(After(s, m - 1), s[m])
  BY AfterSteps
<1>2. 0 \in T
  BY <1>1, NewTableIs
<1> HIDE DEF Known
<1>3. \A m \in Nat : m \in T => m + 1 \in T
  <2> SUFFICES ASSUME NEW m \in Nat, m \in T, m + 1 <= Len(s)
               PROVE  Known(m + 1)
    OBVIOUS
  <2> DEFINE t == After(s, m)
             u == After(s, m + 1)
             e == s[m + 1]
  <2>1. Known(m) /\ m + 1 \in 1..Len(s) /\ (m + 1) - 1 = m /\ m \in 0..Len(s)
    BY <1>0
  <2>2. t \in Tables /\ e \in Happening /\ u = Reduce(t, e)
    BY <1>1, <2>1
  <2>3. \A b \in t.bets : \E i \in 1..m : s[i].type = "bet" /\ s[i].by = b.id
    BY <2>1 DEF Known
  <2> HIDE DEF t, u
  <2>4. ASSUME NEW b \in u.bets PROVE (\E c \in t.bets : c.id = b.id) \/ (e.type = "bet" /\ e.by = b.id)
    <3> HIDE DEF e
    <3>1. CASE e.type = "bet"
      <4>1. u.bets = t.bets \/ u.bets = t.bets \cup {BetOf(e)}
        BY <2>2, <3>1, ReduceBet
      <4>2. BetOf(e).id = e.by
        BY <2>2, <3>1 DEF BetOf, Happening
      <4> QED BY <2>4, <3>1, <4>1, <4>2
    <3>2. CASE e.type \in {"removed", "voided"}
      <4>1. u.bets = Without(t.bets, e.id)
        BY <2>2, <3>2, ReduceBack
      <4> QED BY <2>4, <4>1 DEF Without
    <3>3. CASE e.type \in {"issued", "opened", "closed", "result", "toggled"}
      <4>1. u.bets = t.bets
        BY <2>2, <3>3, ReduceRest, ReduceResult, ReduceToggle
      <4> QED BY <2>4, <4>1
    <3>4. CASE e.type = "updated"
      <4>1. u.bets = (t.bets \ Held(t, e)) \cup {Raised(c, e.n) : c \in Held(t, e)} /\ t.bets \in SUBSET Bet
        BY <2>2, <3>4, ReduceUpdate, TableParts
      <4>2. \A c \in Held(t, e) : c \in t.bets /\ Raised(c, e.n).id = c.id
        BY <4>1 DEF Held, Raised, Bet
      <4> QED BY <2>4, <4>1, <4>2
    <3>5. e.type \in Kinds
      BY <2>2 DEF Happening
    <3> QED BY <3>1, <3>2, <3>3, <3>4, <3>5 DEF Kinds
  <2>5. ASSUME NEW b \in u.bets PROVE \E i \in 1..m + 1 : s[i].type = "bet" /\ s[i].by = b.id
    <3>1. CASE \E c \in t.bets : c.id = b.id
      <4>1. PICK i \in 1..m : s[i].type = "bet" /\ s[i].by = b.id
        BY <2>3, <3>1
      <4>2. i \in 1..m + 1
        OBVIOUS
      <4> QED BY <4>1, <4>2
    <3>2. CASE e.type = "bet" /\ e.by = b.id
      <4>1. m + 1 \in 1..m + 1
        OBVIOUS
      <4> QED BY <3>2, <4>1
    <3> QED BY <2>4, <3>1, <3>2
  <2> QED BY <2>5 DEF u, Known
<1> HIDE DEF T
<1>4. Nat \subseteq T
  BY <1>2, <1>3, NaturalsBySteps
<1>5. n \in T
  BY <1>4
<1> QED BY <1>5 DEF T, Known

LEMMA WealthType ==
  ASSUME NEW t \in Tables
  PROVE  /\ t.bets \in SUBSET Bet /\ IsFiniteSet(t.bets) /\ t.bank \in Int
         /\ Worth(t.bets) \in Nat /\ Wealth(t) \in Int /\ Wealth(t) = t.bank + Worth(t.bets)
<1> DEFINE S == t.bets
<1>1. S \in SUBSET Bet /\ IsFiniteSet(S) /\ S \in SUBSET S /\ t.bank \in Int
  BY TableParts
<1>2. Wealth(t) = t.bank + Worth(S)
  BY DEF Wealth
<1> HIDE DEF S
<1>3. Worth(S) \in Nat
  BY <1>1, WorthParts
<1>4. Wealth(t) \in Int
  BY <1>1, <1>2, <1>3
<1> QED BY <1>1, <1>2, <1>3, <1>4 DEF S

\* What one event does to the chips.
Moves(t, e, u) ==
  /\ Wealth(t) \in Int /\ Wealth(u) \in Int /\ Wealth(t) <= Wealth(u)
  /\ Own(e) => Wealth(u) = Wealth(t) /\ SameRounds(t, u)
  /\ ~Own(e) => u.bets \subseteq t.bets /\ t.bank <= u.bank
  /\ Single(u.bets)

\* A changed stake moves chips between the hand and the felt, as long as only one bet has the id.
LEMMA UpdateMoves ==
  ASSUME NEW t \in Tables, NEW e \in Happening, e.type = "updated", Single(t.bets)
  PROVE  Wealth(Reduce(t, e)) = Wealth(t) /\ Single(Reduce(t, e).bets)
<1> DEFINE u == Reduce(t, e)
           all == t.bets
           held == Held(t, e)
           new == {Raised(b, e.n) : b \in held}
           rest == all \ held
           ub == u.bets
<1>1. u \in Tables /\ ub = rest \cup new /\ u.bank = (t.bank + Worth(held)) - Worth(new)
  BY ReduceUpdate
<1>2. all \in SUBSET Bet /\ IsFiniteSet(all) /\ t.bank \in Int /\ held \in SUBSET all
  BY TableParts DEF Held
<1>3. \A b \in held : b \in Bet /\ b.id = e.id /\ Raised(b, e.n) \in Bet /\ Raised(b, e.n).id = e.id
  BY <1>2 DEF Held, Raised, Bet, Happening
<1>4. \A b, c \in all : b.id = c.id => b = c
  BY DEF Single
<1>5. \A b \in held, c \in rest : c.id # e.id
  BY <1>2, <1>3, <1>4
<1>6. \A x \in new : x.id = e.id /\ x \in Bet /\ held # {}
  BY <1>3
<1>7. \A x, y \in new : x = y
  BY <1>2, <1>3, <1>4
<1>8. new \cap rest = {}
  BY <1>5, <1>6
<1>9. ub \in SUBSET Bet /\ IsFiniteSet(ub)
  BY <1>1, TableParts
<1>10. Single(ub)
  <2> SUFFICES ASSUME NEW b \in ub, NEW c \in ub, b.id = c.id PROVE b = c
    BY DEF Single
  <2> HIDE DEF ub, u, new
  <2>1. CASE b \in rest /\ c \in rest
    BY <1>4, <2>1
  <2>2. CASE b \in new /\ c \in new
    BY <1>7, <2>2
  <2>3. CASE b \in rest /\ c \in new
    BY <1>5, <1>6, <2>3
  <2>4. CASE b \in new /\ c \in rest
    BY <1>5, <1>6, <2>4
  <2> QED BY <1>1, <2>1, <2>2, <2>3, <2>4
<1>11. Wealth(u) = u.bank + Worth(ub) /\ Wealth(t) = t.bank + Worth(all)
  BY DEF Wealth
<1>12. ub \ new = rest /\ new \in SUBSET ub
  BY <1>1, <1>8
<1> HIDE DEF ub, u, new, held, all
<1>13. /\ Worth(all) \in Nat /\ Worth(held) \in Nat /\ Worth(all \ held) \in Nat
       /\ Worth(all) = Worth(held) + Worth(all \ held)
  BY <1>2, WorthParts
<1>14. /\ Worth(ub) \in Nat /\ Worth(new) \in Nat /\ Worth(ub \ new) \in Nat
       /\ Worth(ub) = Worth(new) + Worth(ub \ new)
  BY <1>9, <1>12, WorthParts
<1>15. Worth(ub \ new) = Worth(all \ held)
  BY <1>12
<1>16. Wealth(u) = Wealth(t)
  BY <1>1, <1>2, <1>11, <1>13, <1>14, <1>15
<1> QED BY <1>10, <1>16 DEF ub, u

LEMMA ReduceMoves ==
  ASSUME NEW t \in Tables, NEW e \in Happening, e.type = "bet" => \A b \in t.bets : b.id # e.by, Single(t.bets)
  PROVE  Moves(t, e, Reduce(t, e))
<1> DEFINE u == Reduce(t, e)
<1>1. u \in Tables
  BY ReduceKeeps
<1>2. Wealth(t) \in Int /\ Wealth(u) \in Int
  BY <1>1, WealthType
<1>3. CASE ~Own(e)
  <2>1. u.bets \subseteq t.bets /\ u.bank >= t.bank /\ Wealth(t) <= Wealth(u)
    BY <1>3, ReduceDealer
  <2>2. t.bank \in Int /\ u.bank \in Int
    BY <1>1, WealthType
  <2>3. Single(u.bets)
    BY <2>1 DEF Single
  <2> QED BY <1>2, <1>3, <2>1, <2>2, <2>3 DEF Moves
<1>4. CASE Own(e) /\ e.type = "removed"
  <2>1. SameRounds(t, u) /\ Wealth(u) = Wealth(t) /\ u.bets = Without(t.bets, e.id)
    BY <1>4, ReduceBack
  <2>2. Single(u.bets)
    BY <2>1 DEF Single, Without
  <2> QED BY <1>2, <1>4, <2>1, <2>2 DEF Moves
<1>6. CASE Own(e) /\ e.type = "updated"
  <2>1. SameRounds(t, u)
    BY <1>6, ReduceUpdate
  <2>2. Wealth(u) = Wealth(t) /\ Single(u.bets)
    BY <1>6, UpdateMoves
  <2> QED BY <1>2, <1>6, <2>1, <2>2 DEF Moves
<1>7. CASE Own(e) /\ e.type = "toggled"
  <2>1. SameRounds(t, u) /\ u.bets = t.bets /\ u.bank = t.bank
    BY <1>7, ReduceToggle
  <2>2. Wealth(u) = Wealth(t)
    BY <2>1 DEF Wealth
  <2> QED BY <1>2, <1>7, <2>1, <2>2 DEF Moves
<1>5. CASE Own(e) /\ e.type = "bet"
  <2>1. BetOf(e) \in Bet /\ BetOf(e).id = e.by /\ BetOf(e).n = e.n /\ e.n \in Nat
    <3>1. BetOf(e) \in Bet
      BY <1>5, ReduceBet
    <3>2. BetOf(e).id = e.by /\ BetOf(e).n = e.n /\ e.n \in Nat
      BY <1>5 DEF BetOf, Happening
    <3> QED BY <3>1, <3>2
  <2>2. SameRounds(t, u)
    BY <1>5, ReduceBet
  <2>3. CASE t.rounds[e.round] # "open"
    <3>1. u.bets = t.bets /\ u.bank = t.bank
      BY <1>5, <2>3, ReduceBet
    <3>2. Wealth(u) = Wealth(t)
      BY <3>1 DEF Wealth
    <3> QED BY <1>2, <1>5, <2>2, <3>1, <3>2 DEF Moves
  <2>4. CASE t.rounds[e.round] = "open"
    <3> DEFINE S == t.bets
               b == BetOf(e)
    <3>1. u.bets = S \cup {b} /\ u.bank = t.bank - e.n
      BY <1>5, <2>4, ReduceBet
    <3>2. S \in SUBSET Bet /\ IsFiniteSet(S) /\ b \in Bet /\ b \notin S /\ b.n = e.n /\ e.n \in Nat
      BY <1>5, <2>1, WealthType
    <3>3. Wealth(u) = u.bank + Worth(S \cup {b}) /\ Wealth(t) = t.bank + Worth(S) /\ t.bank \in Int /\ Worth(S) \in Nat
      BY <3>1, WealthType DEF Wealth
    <3>6. Single(u.bets)
      BY <1>5, <2>1, <3>1 DEF Single
    <3> HIDE DEF S, b
    <3>4. Worth(S \cup {b}) = Worth(S) + b.n
      BY <3>2, WorthOne
    <3>5. Wealth(u) = Wealth(t)
      BY <3>1, <3>2, <3>3, <3>4
    <3> QED BY <1>2, <1>5, <2>2, <3>5, <3>6 DEF Moves
  <2> QED BY <2>3, <2>4
<1>8. Own(e) => e.type \in {"bet", "updated", "toggled", "removed"}
  BY DEF Happening
<1> QED BY <1>3, <1>4, <1>5, <1>6, <1>7, <1>8

\* Every event of a log finds no bet of its client id.
LEMMA FreshId ==
  ASSUME NEW s \in Seq(Happening), Rising(s), NEW n \in 1..Len(s), s[n].type = "bet",
         NEW b \in After(s, n - 1).bets
  PROVE  b.id # s[n].by
<1>1. PICK m \in Nat : m = n - 1
  OBVIOUS
<1>2. Len(s) \in Nat /\ m <= Len(s) /\ DOMAIN s = 1..Len(s) /\ b \in After(s, m).bets
  BY <1>1
<1>3. PICK i \in 1..m : s[i].type = "bet" /\ s[i].by = b.id
  BY <1>2, BetIds
<1>4. i \in DOMAIN s /\ n \in DOMAIN s /\ i < n
  BY <1>1, <1>2
<1>5. s[i] \in Happening /\ s[n] \in Happening
  BY <1>4
<1>6. Own(s[i]) /\ Own(s[n])
  BY <1>3, <1>5 DEF Happening
<1>7. s[i].by < s[n].by
  BY <1>4, <1>6 DEF Rising
<1>8. s[i].by \in Nat /\ s[n].by \in Nat
  BY <1>5 DEF Happening
<1> QED BY <1>3, <1>7, <1>8

LEMMA AfterSingle ==
  ASSUME NEW s \in Seq(Happening), Rising(s), NEW n \in 0..Len(s)
  PROVE  Single(After(s, n).bets)
<1> DEFINE T == {m \in Nat : m <= Len(s) => Single(After(s, m).bets)}
<1>0. Len(s) \in Nat
  OBVIOUS
<1>1. /\ After(s, 0) = NewTable
      /\ \A m \in 0..Len(s) : After(s, m) \in Tables
      /\ \A m \in 1..Len(s) : s[m] \in Happening /\ After(s, m) = Reduce(After(s, m - 1), s[m])
  BY AfterSteps
<1>2. 0 \in T
  BY <1>1, NewTableIs DEF Single
<1>3. \A m \in Nat : m \in T => m + 1 \in T
  <2> SUFFICES ASSUME NEW m \in Nat, m \in T, m + 1 <= Len(s)
               PROVE  Single(After(s, m + 1).bets)
    OBVIOUS
  <2> DEFINE t == After(s, m)
             u == After(s, m + 1)
             e == s[m + 1]
  <2>1. m + 1 \in 1..Len(s) /\ (m + 1) - 1 = m /\ m \in 0..Len(s) /\ m <= Len(s)
    BY <1>0
  <2>2. t \in Tables /\ e \in Happening /\ u = Reduce(t, e) /\ Single(t.bets)
    BY <1>1, <2>1
  <2>3. e.type = "bet" => \A b \in t.bets : b.id # e.by
    <3>1. PICK k \in 1..Len(s) : k = m + 1 /\ k - 1 = m
      BY <2>1
    <3>2. s[k].type = "bet" => \A b \in After(s, k - 1).bets : b.id # s[k].by
      BY FreshId
    <3> QED BY <3>1, <3>2
  <2> HIDE DEF t, u, e
  <2>4. Moves(t, e, Reduce(t, e))
    BY <2>2, <2>3, ReduceMoves
  <2>5. Single(u.bets)
    BY <2>2, <2>4 DEF Moves
  <2> QED BY <2>5 DEF u
<1> HIDE DEF T
<1>4. Nat \subseteq T
  BY <1>2, <1>3, NaturalsBySteps
<1>5. n \in T /\ n <= Len(s)
  BY <1>0, <1>4
<1> QED BY <1>5 DEF T

LEMMA AfterMoves ==
  ASSUME NEW s \in Seq(Happening), Rising(s), NEW n \in 1..Len(s)
  PROVE  /\ After(s, n - 1) \in Tables /\ After(s, n) \in Tables /\ s[n] \in Happening
         /\ After(s, n) = Reduce(After(s, n - 1), s[n])
         /\ s[n].type = "bet" => \A b \in After(s, n - 1).bets : b.id # s[n].by
         /\ Moves(After(s, n - 1), s[n], After(s, n))
<1> DEFINE m == n - 1
           t == After(s, m)
           e == s[n]
<1>0. Len(s) \in Nat /\ m \in 0..Len(s) /\ n \in 0..Len(s)
  OBVIOUS
<1>1. /\ \A i \in 0..Len(s) : After(s, i) \in Tables
      /\ \A i \in 1..Len(s) : s[i] \in Happening /\ After(s, i) = Reduce(After(s, i - 1), s[i])
  BY AfterSteps
<1>2. t \in Tables /\ After(s, n) \in Tables /\ e \in Happening /\ After(s, n) = Reduce(t, e)
  BY <1>0, <1>1
<1>3. e.type = "bet" => \A b \in t.bets : b.id # e.by
  BY FreshId
<1>4. Single(t.bets)
  <2> HIDE DEF m
  <2> QED BY <1>0, AfterSingle
<1> HIDE DEF t, e
<1>5. Moves(t, e, Reduce(t, e))
  BY <1>2, <1>3, <1>4, ReduceMoves
<1> QED BY <1>2, <1>3, <1>5 DEF t, e

\* From one prefix of a log to a longer one.
LEMMA WealthRises ==
  ASSUME NEW s \in Seq(Happening), Rising(s), NEW m \in Nat, NEW n \in Nat, m <= n, n <= Len(s)
  PROVE  Wealth(After(s, m)) <= Wealth(After(s, n)) /\ Wealth(After(s, m)) \in Int /\ Wealth(After(s, n)) \in Int
<1> DEFINE w == [i \in Nat |-> Wealth(After(s, i))]
           T == {d \in Nat : m + d <= Len(s) => w[m] <= w[m + d]}
<1>0. Len(s) \in Nat
  OBVIOUS
<1>1. \A i \in 0..Len(s) : w[i] \in Int
  <2> TAKE i \in 0..Len(s)
  <2>1. After(s, i) \in Tables
    BY AfterSteps
  <2>2. Wealth(After(s, i)) \in Int
    BY <2>1, WealthType
  <2> QED BY <2>2
<1>2. \A i \in 1..Len(s) : w[i - 1] <= w[i]
  <2> TAKE i \in 1..Len(s)
  <2>1. Moves(After(s, i - 1), s[i], After(s, i))
    BY AfterMoves
  <2>2. Wealth(After(s, i - 1)) <= Wealth(After(s, i))
    BY <2>1 DEF Moves
  <2>3. i \in Nat /\ i - 1 \in Nat
    OBVIOUS
  <2> QED BY <2>2, <2>3
<1>3. w[m] = Wealth(After(s, m)) /\ w[n] = Wealth(After(s, n))
  OBVIOUS
<1> HIDE DEF w
<1>4. 0 \in T
  BY <1>0, <1>1
<1>5. \A d \in Nat : d \in T => d + 1 \in T
  <2> SUFFICES ASSUME NEW d \in Nat, d \in T, m + (d + 1) <= Len(s)
               PROVE  w[m] <= w[m + (d + 1)]
    OBVIOUS
  <2>1. m + (d + 1) \in 1..Len(s) /\ (m + (d + 1)) - 1 = m + d /\ m + d \in 0..Len(s) /\ m \in 0..Len(s) /\ m + (d + 1) \in 0..Len(s)
    BY <1>0
  <2>2. w[m] <= w[m + d]
    BY <2>1
  <2>3. w[m + d] <= w[m + (d + 1)]
    BY <1>2, <2>1
  <2>4. w[m] \in Int /\ w[m + d] \in Int /\ w[m + (d + 1)] \in Int
    BY <1>1, <2>1
  <2> QED BY <2>2, <2>3, <2>4
<1> HIDE DEF T
<1>6. Nat \subseteq T
  BY <1>4, <1>5, NaturalsBySteps
<1>7. n - m \in T /\ m + (n - m) = n
  BY <1>6
<1>8. w[m] <= w[n]
  BY <1>7 DEF T
<1> QED BY <1>0, <1>1, <1>3, <1>8

\* Own events move chips between the hand and the felt, and leave the rounds alone.
LEMMA OwnRun ==
  ASSUME NEW s \in Seq(Happening), Rising(s), NEW m \in Nat, NEW n \in Nat, m <= n, n <= Len(s),
         \A i \in m + 1..n : Own(s[i])
  PROVE  Wealth(After(s, n)) = Wealth(After(s, m)) /\ SameRounds(After(s, m), After(s, n))
<1> DEFINE w == [i \in Nat |-> Wealth(After(s, i))]
           r == [i \in Nat |-> <<After(s, i).rounds, After(s, i).rides>>]
           T == {d \in Nat : m + d <= n => w[m + d] = w[m] /\ r[m + d] = r[m]}
<1>0. Len(s) \in Nat
  OBVIOUS
<1>2. \A i \in m + 1..n : w[i] = w[i - 1] /\ r[i] = r[i - 1]
  <2> TAKE i \in m + 1..n
  <2>0. i \in 1..Len(s) /\ i \in Nat /\ i - 1 \in Nat
    BY <1>0
  <2>1. Moves(After(s, i - 1), s[i], After(s, i))
    BY <2>0, AfterMoves
  <2>2. /\ Wealth(After(s, i)) = Wealth(After(s, i - 1))
        /\ After(s, i).rounds = After(s, i - 1).rounds /\ After(s, i).rides = After(s, i - 1).rides
    BY <2>1 DEF Moves, SameRounds
  <2> QED BY <2>0, <2>2
<1>3. /\ w[m] = Wealth(After(s, m)) /\ w[n] = Wealth(After(s, n))
      /\ r[m] = <<After(s, m).rounds, After(s, m).rides>> /\ r[n] = <<After(s, n).rounds, After(s, n).rides>>
  OBVIOUS
<1> HIDE DEF w, r
<1>4. 0 \in T
  OBVIOUS
<1>5. \A d \in Nat : d \in T => d + 1 \in T
  <2> SUFFICES ASSUME NEW d \in Nat, d \in T, m + (d + 1) <= n
               PROVE  w[m + (d + 1)] = w[m] /\ r[m + (d + 1)] = r[m]
    OBVIOUS
  <2>1. m + (d + 1) \in m + 1..n /\ (m + (d + 1)) - 1 = m + d /\ m + d <= n
    OBVIOUS
  <2> QED BY <1>2, <2>1
<1> HIDE DEF T
<1>6. Nat \subseteq T
  BY <1>4, <1>5, NaturalsBySteps
<1>7. n - m \in T /\ m + (n - m) = n
  BY <1>6
<1>8. w[n] = w[m] /\ r[n] = r[m]
  BY <1>7 DEF T
<1> QED BY <1>3, <1>8 DEF SameRounds

\* The dealer places no bet.
LEMMA DealerRun ==
  ASSUME NEW s \in Seq(Happening), Rising(s), NEW m \in Nat, NEW n \in Nat, m <= n, n <= Len(s),
         \A i \in m + 1..n : ~Own(s[i])
  PROVE  After(s, n).bets \subseteq After(s, m).bets
<1> DEFINE b == [i \in Nat |-> After(s, i).bets]
           T == {d \in Nat : m + d <= n => b[m + d] \subseteq b[m]}
<1>0. Len(s) \in Nat
  OBVIOUS
<1>2. \A i \in m + 1..n : b[i] \subseteq b[i - 1]
  <2> TAKE i \in m + 1..n
  <2>0. i \in 1..Len(s) /\ i \in Nat /\ i - 1 \in Nat
    BY <1>0
  <2>1. Moves(After(s, i - 1), s[i], After(s, i))
    BY <2>0, AfterMoves
  <2>2. After(s, i).bets \subseteq After(s, i - 1).bets
    BY <2>1 DEF Moves
  <2> QED BY <2>0, <2>2
<1>3. b[m] = After(s, m).bets /\ b[n] = After(s, n).bets
  OBVIOUS
<1> HIDE DEF b
<1>4. 0 \in T
  OBVIOUS
<1>5. \A d \in Nat : d \in T => d + 1 \in T
  <2> SUFFICES ASSUME NEW d \in Nat, d \in T, m + (d + 1) <= n
               PROVE  b[m + (d + 1)] \subseteq b[m]
    OBVIOUS
  <2>1. m + (d + 1) \in m + 1..n /\ (m + (d + 1)) - 1 = m + d /\ m + d <= n
    OBVIOUS
  <2>2. b[m + (d + 1)] \subseteq b[m + d] /\ b[m + d] \subseteq b[m]
    BY <1>2, <2>1
  <2> QED BY <2>2
<1> HIDE DEF T
<1>6. Nat \subseteq T
  BY <1>4, <1>5, NaturalsBySteps
<1>7. n - m \in T /\ m + (n - m) = n
  BY <1>6
<1>8. b[n] \subseteq b[m]
  BY <1>7 DEF T
<1> QED BY <1>3, <1>8

\* r is s without its i-th event, an own one that only own events follow.
Dropped(r, s, i) ==
  /\ i \in 1..Len(s) /\ Len(r) = Len(s) - 1
  /\ \A j \in 1..i - 1 : r[j] = s[j]
  /\ \A j \in i..Len(s) - 1 : r[j] = s[j + 1]
  /\ \A j \in i..Len(s) : Own(s[j])

\* What the lost bet makes of a later table: its own chips come back, and no others move.
LessOne(t, u, id) ==
  /\ SameRounds(t, u)
  /\ t.bets \subseteq u.bets /\ \A b \in u.bets : b \in t.bets \/ b.id = id

LEMMA DropStep ==
  ASSUME NEW t \in Tables, NEW u \in Tables, NEW e \in Happening, Own(e), NEW id, LessOne(t, u, id)
  PROVE  LessOne(Reduce(t, e), Reduce(u, e), id)
<1> DEFINE t1 == Reduce(t, e)
           u1 == Reduce(u, e)
<1>0. /\ t.rounds = u.rounds /\ t.rides = u.rides
      /\ t.bets \subseteq u.bets /\ \A b \in u.bets : b \in t.bets \/ b.id = id
  BY DEF LessOne, SameRounds
<1>1. CASE e.type = "bet"
  <2>1. SameRounds(t, t1) /\ SameRounds(u, u1)
    BY <1>1, ReduceBet
  <2>2. CASE t.rounds[e.round] # "open"
    <3>1. u.rounds[e.round] # "open"
      BY <1>0, <2>2
    <3>2. t1.bets = t.bets /\ u1.bets = u.bets
      BY <1>1, <2>2, <3>1, ReduceBet
    <3> HIDE DEF t1, u1
    <3>3. LessOne(t1, u1, id)
      BY <1>0, <2>1, <3>2 DEF LessOne, SameRounds
    <3> QED BY <3>3 DEF t1, u1
  <2>3. CASE t.rounds[e.round] = "open"
    <3>1. u.rounds[e.round] = "open"
      BY <1>0, <2>3
    <3>2. t1.bets = t.bets \cup {BetOf(e)} /\ u1.bets = u.bets \cup {BetOf(e)}
      BY <1>1, <2>3, <3>1, ReduceBet
    <3> HIDE DEF t1, u1
    <3>3. LessOne(t1, u1, id)
      BY <1>0, <2>1, <3>2 DEF LessOne, SameRounds
    <3> QED BY <3>3 DEF t1, u1
  <2> QED BY <2>2, <2>3
<1>2. CASE e.type = "removed"
  <2>1. SameRounds(t, t1) /\ SameRounds(u, u1)
    BY <1>2, ReduceBack
  <2>2. t1.bets = Without(t.bets, e.id) /\ u1.bets = Without(u.bets, e.id)
    BY <1>2, ReduceBack
  <2> HIDE DEF t1, u1
  <2>3. LessOne(t1, u1, id)
    BY <1>0, <2>1, <2>2 DEF LessOne, SameRounds, Without
  <2> QED BY <2>3 DEF t1, u1
<1>3. CASE e.type = "toggled"
  <2>1. SameRounds(t, t1) /\ SameRounds(u, u1) /\ t1.bets = t.bets /\ u1.bets = u.bets
    BY <1>3, ReduceToggle
  <2> HIDE DEF t1, u1
  <2>3. LessOne(t1, u1, id)
    BY <1>0, <2>1 DEF LessOne, SameRounds
  <2> QED BY <2>3 DEF t1, u1
<1>4. CASE e.type = "updated"
  <2>1. SameRounds(t, t1) /\ SameRounds(u, u1)
    BY <1>4, ReduceUpdate
  <2>2. /\ t1.bets = (t.bets \ Held(t, e)) \cup {Raised(b, e.n) : b \in Held(t, e)}
        /\ u1.bets = (u.bets \ Held(u, e)) \cup {Raised(b, e.n) : b \in Held(u, e)}
    BY <1>4, ReduceUpdate
  <2>3. \A b : InRound(t, b) = InRound(u, b)
    BY <1>0 DEF InRound
  <2>4. Held(t, e) \subseteq Held(u, e) /\ t.bets \cap Held(u, e) = Held(t, e)
    BY <1>0, <2>3 DEF Held
  <2>5. \A b \in Held(u, e) : b \in u.bets
    BY DEF Held
  <2>6. \A b \in u.bets : Raised(b, e.n).id = b.id
    BY TableParts DEF Raised, Bet
  <2> HIDE DEF t1, u1
  <2>7. t1.bets \subseteq u1.bets
    BY <1>0, <2>2, <2>4
  <2>8. ASSUME NEW b \in u1.bets PROVE b \in t1.bets \/ b.id = id
    <3>1. CASE b \in u.bets \ Held(u, e)
      BY <1>0, <2>2, <2>4, <3>1
    <3>2. CASE b \in {Raised(c, e.n) : c \in Held(u, e)}
      <4>1. PICK c \in Held(u, e) : b = Raised(c, e.n)
        BY <3>2
      <4>2. c \in u.bets /\ b.id = c.id /\ (c \in t.bets \/ c.id = id)
        BY <1>0, <2>5, <2>6, <4>1
      <4>3. CASE c \in t.bets
        BY <2>2, <2>4, <4>1, <4>3
      <4> QED BY <4>2, <4>3
    <3> QED BY <2>2, <2>8, <3>1, <3>2
  <2>9. LessOne(t1, u1, id)
    BY <1>0, <2>1, <2>7, <2>8 DEF LessOne, SameRounds
  <2> QED BY <2>9 DEF t1, u1
<1> QED BY <1>1, <1>2, <1>3, <1>4 DEF Happening

LEMMA DropRising ==
  ASSUME NEW s \in Seq(Happening), Rising(s), NEW r \in Seq(Happening), NEW i, Dropped(r, s, i)
  PROVE  Rising(r)
<1>1. i \in 1..Len(s) /\ Len(r) = Len(s) - 1 /\ Len(s) \in Nat /\ Len(r) \in Nat
  BY DEF Dropped
<1>2. DOMAIN r = 1..Len(r) /\ DOMAIN s = 1..Len(s)
  OBVIOUS
<1> SUFFICES ASSUME NEW a \in DOMAIN r, NEW b \in DOMAIN r, a < b, Own(r[a]), Own(r[b])
             PROVE  r[a].by < r[b].by
  BY DEF Rising
<1> DEFINE Old(j) == IF j < i THEN j ELSE j + 1
<1>3. ASSUME NEW j \in DOMAIN r PROVE Old(j) \in DOMAIN s /\ r[j] = s[Old(j)]
  <2>1. CASE j < i
    <3>1. j \in 1..i - 1
      BY <1>1, <1>2, <2>1
    <3> QED BY <1>1, <1>2, <2>1, <3>1 DEF Dropped
  <2>2. CASE ~(j < i)
    <3>1. j \in i..Len(s) - 1
      BY <1>1, <1>2, <2>2
    <3> QED BY <1>1, <1>2, <2>2, <3>1 DEF Dropped
  <2> QED BY <2>1, <2>2
<1>4. Old(a) < Old(b)
  BY <1>1, <1>2
<1>5. Old(a) \in DOMAIN s /\ Old(b) \in DOMAIN s /\ r[a] = s[Old(a)] /\ r[b] = s[Old(b)]
  BY <1>3
<1> HIDE DEF Old
<1> QED BY <1>4, <1>5 DEF Rising

LEMMA DropBet ==
  ASSUME NEW s \in Seq(Happening), Rising(s), NEW r \in Seq(Happening), NEW i, Dropped(r, s, i), s[i].type \in {"bet", "toggled"}
  PROVE  /\ Rising(r)
         /\ \A n \in 0..i - 1 : After(r, n) = After(s, n)
         /\ \A n \in i..Len(s) : /\ LessOne(After(r, n - 1), After(s, n), s[i].by)
                                 /\ After(s, n).bank <= After(r, n - 1).bank
<1>0. Rising(r)
  BY DropRising
<1>1. /\ i \in 1..Len(s) /\ i \in Nat /\ i - 1 \in Nat /\ Len(r) = Len(s) - 1 /\ Len(s) \in Nat /\ Len(r) \in Nat
      /\ i - 1 <= Len(r)
  BY DEF Dropped
<1>2. \A n \in 0..i - 1 : After(r, n) = After(s, n)
  <2> TAKE n \in 0..i - 1
  <2>1. n \in Nat /\ n <= Len(s) /\ n <= Len(r)
    BY <1>1
  <2>2. \A j \in 1..n : r[j] = s[j]
    BY <1>1 DEF Dropped
  <2> QED BY <2>1, <2>2, AfterSame
<1>3. /\ \A n \in 0..Len(s) : After(s, n) \in Tables
      /\ \A n \in 1..Len(s) : s[n] \in Happening /\ After(s, n) = Reduce(After(s, n - 1), s[n])
  BY AfterSteps
<1>4. /\ \A n \in 0..Len(r) : After(r, n) \in Tables
      /\ \A n \in 1..Len(r) : r[n] \in Happening /\ After(r, n) = Reduce(After(r, n - 1), r[n])
  BY AfterSteps
<1> DEFINE id == s[i].by
           Ok(d) == LessOne(After(r, (i + d) - 1), After(s, i + d), id)
           T == {d \in Nat : i + d <= Len(s) => Ok(d)}
<1> HIDE DEF Ok
<1>5. 0 \in T
  <2> DEFINE t == After(s, i - 1)
             u == After(s, i)
             e == s[i]
  <2>1. t \in Tables /\ e \in Happening /\ e.type \in {"bet", "toggled"} /\ u = Reduce(t, e)
    BY <1>1, <1>3
  <2>2. After(r, i - 1) = t
    BY <1>1, <1>2
  <2>3. e.type = "bet" => BetOf(e).id = e.by
    BY <2>1 DEF BetOf, Happening
  <2> HIDE DEF t, u, e
  <2>4. SameRounds(t, u) /\ (u.bets = t.bets \/ (e.type = "bet" /\ u.bets = t.bets \cup {BetOf(e)}))
    BY <2>1, ReduceBet, ReduceToggle
  <2>5. LessOne(t, u, e.by)
    BY <2>3, <2>4 DEF LessOne
  <2>6. (i + 0) - 1 = i - 1 /\ i + 0 = i
    BY <1>1
  <2>7. Ok(0)
    BY <2>2, <2>5, <2>6 DEF Ok, t, u, e
  <2> QED BY <2>7
<1>6. \A d \in Nat : d \in T => d + 1 \in T
  <2> SUFFICES ASSUME NEW d \in Nat, d \in T, i + (d + 1) <= Len(s)
               PROVE  Ok(d + 1)
    OBVIOUS
  <2> DEFINE n == i + d
             e == s[n + 1]
             t == After(r, n - 1)
             u == After(s, n)
  <2>1. /\ n \in 0..Len(s) /\ n - 1 \in 0..Len(r) /\ n \in 1..Len(r) /\ n + 1 \in 1..Len(s) /\ (n + 1) - 1 = n
        /\ n \in i..Len(s) - 1 /\ n + 1 \in i..Len(s) /\ (i + (d + 1)) - 1 = n /\ i + (d + 1) = n + 1
    BY <1>1
  <2>2. Ok(d)
    BY <1>1
  <2>3. t \in Tables /\ u \in Tables /\ e \in Happening /\ Own(e) /\ r[n] = e
    BY <1>3, <1>4, <2>1 DEF Dropped
  <2>4. After(s, n + 1) = Reduce(u, e) /\ After(r, n) = Reduce(t, e)
    BY <1>3, <1>4, <2>1, <2>3
  <2>5. LessOne(t, u, id)
    BY <2>2 DEF Ok
  <2> HIDE DEF t, u, e, id
  <2>6. LessOne(Reduce(t, e), Reduce(u, e), id)
    BY <2>3, <2>5, DropStep
  <2> HIDE DEF n
  <2> QED BY <2>1, <2>4, <2>6 DEF Ok
<1> HIDE DEF T
<1>7. Nat \subseteq T
  BY <1>5, <1>6, NaturalsBySteps
<1>8. ASSUME NEW n \in i..Len(s)
      PROVE  /\ LessOne(After(r, n - 1), After(s, n), s[i].by)
             /\ After(s, n).bank <= After(r, n - 1).bank
  <2>1. n - i \in T /\ i + (n - i) = n /\ n \in Nat /\ n <= Len(s) /\ n - 1 \in Nat /\ n - 1 <= Len(r) /\ i - 1 <= n - 1 /\ i - 1 <= n
    BY <1>1, <1>7
  <2>2. Ok(n - i)
    BY <2>1 DEF T
  <2> DEFINE t == After(r, n - 1)
             u == After(s, n)
             m == i - 1
             k == n - 1
  <2>3. LessOne(t, u, id)
    BY <2>1, <2>2 DEF Ok
  <2>4. t \in Tables /\ u \in Tables
    BY <1>1, <1>3, <1>4, <2>1
  <2>5. Wealth(u) = Wealth(After(s, m))
    <3>1. \A j \in m + 1..n : Own(s[j])
      BY <1>1, <2>1 DEF Dropped
    <3>2. m \in Nat /\ m <= n
      BY <1>1, <2>1
    <3> HIDE DEF m, u
    <3>3. Wealth(After(s, n)) = Wealth(After(s, m))
      BY <2>1, <3>1, <3>2, OwnRun
    <3> QED BY <3>3 DEF u
  <2>6. Wealth(t) = Wealth(After(r, m))
    <3>1. \A j \in m + 1..k : Own(r[j])
      <4> TAKE j \in m + 1..k
      <4>1. j \in i..Len(s) - 1 /\ j + 1 \in i..Len(s)
        BY <1>1, <2>1
      <4> QED BY <4>1 DEF Dropped
    <3>2. m \in Nat /\ k \in Nat /\ m <= k /\ k <= Len(r)
      BY <1>1, <2>1
    <3> HIDE DEF m, k
    <3>3. Wealth(After(r, k)) = Wealth(After(r, m))
      BY <1>0, <3>1, <3>2, OwnRun
    <3> QED BY <3>3 DEF k
  <2>7. After(r, m) = After(s, m)
    BY <1>1, <1>2
  <2> HIDE DEF t, u, m, k
  <2>8. /\ Worth(t.bets) \in Nat /\ Worth(u.bets) \in Nat /\ t.bank \in Int /\ u.bank \in Int
        /\ Wealth(t) = t.bank + Worth(t.bets) /\ Wealth(u) = u.bank + Worth(u.bets)
    BY <2>4, WealthType
  <2>9. Worth(t.bets) <= Worth(u.bets)
    <3> DEFINE A == t.bets
               S == u.bets
    <3>1. S \in SUBSET Bet /\ IsFiniteSet(S) /\ A \in SUBSET S
      BY <2>3, <2>4, WealthType DEF LessOne
    <3> HIDE DEF A, S
    <3>2. Worth(A) <= Worth(S)
      BY <3>1, WorthMore
    <3> QED BY <3>2 DEF A, S
  <2>10. Wealth(t) = Wealth(u)
    BY <2>5, <2>6, <2>7
  <2>11. u.bank <= t.bank
    BY <2>8, <2>9, <2>10
  <2> QED BY <2>3, <2>11 DEF t, u, id
<1> QED BY <1>0, <1>2, <1>8

\* Stakes that are under others.
LEMMA UnderSubset ==
  ASSUME NEW A \in SUBSET Bet, NEW B, A \subseteq B
  PROVE  Under(A, B)
<1>1. \A a \in A : a \in B /\ a.n <= a.n
  BY DEF Bet
<1> QED BY <1>1 DEF Under

LEMMA UnderTrans ==
  ASSUME NEW A \in SUBSET Bet, NEW B \in SUBSET Bet, NEW C \in SUBSET Bet, Under(A, B), Under(B, C)
  PROVE  Under(A, C)
<1> SUFFICES ASSUME NEW a \in A PROVE \E c \in C : a.id = c.id /\ a.round = c.round /\ a.n <= c.n
  BY DEF Under
<1>1. PICK b \in B : a.id = b.id /\ a.round = b.round /\ a.n <= b.n
  BY DEF Under
<1>2. PICK c \in C : b.id = c.id /\ b.round = c.round /\ b.n <= c.n
  BY DEF Under
<1>3. a.n \in Nat /\ b.n \in Nat /\ c.n \in Nat
  BY DEF Bet
<1> QED BY <1>1, <1>2, <1>3

\* A stake that is pressed is raised, in a round that is open.
Pressable(t, e) == \A c \in t.bets : c.id = e.id => c.n <= e.n /\ t.rounds[InRound(t, c)] = "open"

\* Two tables with the same bets on the one as on the other, or smaller ones, after an own event:
\* where it places a bet on the one it does on the other, and where it raises a stake too.
LEMMA UnderReduce ==
  ASSUME NEW t \in Tables, NEW p \in Tables, NEW e \in Happening, Own(e), Under(t.bets, p.bets),
         e.type = "bet" => p.rounds[e.round] = "open", e.type = "updated" => Pressable(p, e)
  PROVE  Under(Reduce(t, e).bets, Reduce(p, e).bets)
<1> DEFINE t1 == Reduce(t, e)
           p1 == Reduce(p, e)
           A == t.bets
           B == p.bets
<1>0. A \in SUBSET Bet /\ B \in SUBSET Bet
  BY TableParts
<1>1. CASE e.type = "bet"
  <2>1. p1.bets = B \cup {BetOf(e)} /\ (t1.bets = A \/ t1.bets = A \cup {BetOf(e)}) /\ BetOf(e) \in Bet
    BY <1>1, ReduceBet
  <2>2. BetOf(e).n <= BetOf(e).n
    BY <2>1 DEF Bet
  <2> HIDE DEF t1, p1
  <2>3. Under(t1.bets, p1.bets)
    BY <2>1, <2>2 DEF Under
  <2> QED BY <2>3 DEF t1, p1
<1>2. CASE e.type = "removed"
  <2>1. p1.bets = Without(B, e.id) /\ t1.bets = Without(A, e.id)
    BY <1>2, ReduceBack
  <2> HIDE DEF t1, p1
  <2>2. Under(t1.bets, p1.bets)
    BY <2>1 DEF Under, Without
  <2> QED BY <2>2 DEF t1, p1
<1>3. CASE e.type = "toggled"
  <2>1. p1.bets = B /\ t1.bets = A
    BY <1>3, ReduceToggle
  <2> QED BY <2>1
<1>4. CASE e.type = "updated"
  <2> DEFINE F == Held(t, e)
             H == Held(p, e)
  <2>1. /\ p1.bets = (B \ H) \cup {Raised(c, e.n) : c \in H}
        /\ t1.bets = (A \ F) \cup {Raised(c, e.n) : c \in F}
    BY <1>4, ReduceUpdate
  <2>2. e.n \in Nat
    BY DEF Happening
  <2>3. \A c \in Bet : Raised(c, e.n).id = c.id /\ Raised(c, e.n).round = c.round /\ Raised(c, e.n).n = e.n
    BY DEF Raised, Bet
  <2>4. \A c \in B : c.id = e.id => c \in H /\ c.n <= e.n
    BY <1>4 DEF Pressable, Held
  <2>5. (\A c \in H : c \in B /\ c.id = e.id) /\ (\A c \in F : c \in A /\ c.id = e.id)
    BY DEF Held
  <2> HIDE DEF t1, p1, F, H
  <2>6. \A a \in A : \E b \in B : a.id = b.id /\ a.round = b.round /\ a.n <= b.n
    BY DEF Under
  <2> SUFFICES ASSUME NEW a \in t1.bets
               PROVE  \E b \in p1.bets : a.id = b.id /\ a.round = b.round /\ a.n <= b.n
    BY DEF Under, t1, p1
  <2>7. PICK c \in A : a.id = c.id /\ a.round = c.round /\ (a = c \/ (c \in F /\ a.n = e.n))
    <3>1. CASE a \in A \ F
      BY <3>1
    <3>2. CASE a \in {Raised(c, e.n) : c \in F}
      <4>1. PICK c \in F : a = Raised(c, e.n)
        BY <3>2
      <4> QED BY <1>0, <2>3, <2>5, <4>1
    <3> QED BY <2>1, <3>1, <3>2
  <2>8. PICK b \in B : c.id = b.id /\ c.round = b.round /\ c.n <= b.n
    BY <2>6
  <2>9. b \in Bet /\ c \in Bet /\ b.n \in Nat /\ c.n \in Nat
    BY <1>0 DEF Bet
  <2>10. CASE b \in H
    <3>1. Raised(b, e.n) \in p1.bets
      BY <2>1, <2>10
    <3>2. a.n <= e.n
      BY <2>2, <2>4, <2>5, <2>7, <2>8, <2>9, <2>10
    <3> QED BY <2>3, <2>7, <2>8, <2>9, <3>1, <3>2
  <2>11. CASE b \notin H
    <3>1. b.id # e.id
      BY <2>4, <2>11
    <3>2. a = c
      BY <2>5, <2>7, <2>8, <3>1
    <3>3. b \in p1.bets
      BY <2>1, <2>11
    <3> QED BY <2>8, <3>2, <3>3
  <2> QED BY <2>10, <2>11
<1>5. e.type \in {"bet", "updated", "toggled", "removed"}
  BY DEF Happening
<1> QED BY <1>1, <1>2, <1>3, <1>4, <1>5

\* What may be pressed may be pressed too when another bet is gone.
LEMMA BetsAfter ==
  ASSUME NEW s \in Seq(Happening)
  PROVE  TableAfter(s).bets \in SUBSET Bet /\ \A n \in 0..Len(s) : After(s, n).bets \in SUBSET Bet
<1>1. TableAfter(s) \in Tables /\ \A n \in 0..Len(s) : After(s, n) \in Tables
  BY AfterSteps, TableSteps
<1> QED BY <1>1, TableParts

LEMMA PressableLess ==
  ASSUME NEW t, NEW p, NEW id, LessOne(t, p, id), NEW e, Pressable(p, e)
  PROVE  Pressable(t, e)
<1>1. t.rounds = p.rounds /\ t.rides = p.rides /\ t.bets \subseteq p.bets
  BY DEF LessOne, SameRounds
<1>2. \A c : InRound(t, c) = InRound(p, c)
  BY <1>1 DEF InRound
<1> QED BY <1>1, <1>2 DEF Pressable

-----------------------------------------------------------------------------
(* What holds of the page and the log as long as the copy is right: the copy  *)
(* begins with k events of the log, own ones that are still to be confirmed   *)
(* follow; the service has answered the first h events of the copy.           *)

Sheet == [seq : Nat, event : Happening]
Calls == [op : {"event"}, event : Happening] \cup [op : {"join"}, since : Nat]
Msgs == [op : {"ack"}, id : Nat, seq : Nat] \cup [op : {"sheet"}, seq : Nat, event : Happening]
          \cup [op : {"reject"}, id : Nat]
          \cup [op : {"joined"}, replace : BOOLEAN, sheets : Seq(Sheet), top : Nat]

Copy(k, h, led, sh, una, tp) ==
  /\ led \in Seq(Happening) /\ sh \in Seq(Sheet)
  /\ k \in 1..Len(sh) /\ k <= Len(led) /\ h \in k..Len(sh)
  /\ \A i \in 1..k : sh[i].seq = i /\ sh[i].event = led[i]
  /\ \A i \in k + 1..Len(sh) : Own(sh[i].event)
  /\ \A i, j \in k..Len(sh) : i < j => sh[i].seq < sh[j].seq
  /\ una = {sh[i].event.by : i \in k + 1..Len(sh)}
  /\ tp = sh[Len(sh)].seq

\* The own events are logged in the order of their client ids; those in the log that the copy
\* has not confirmed are among the ones that the service has answered.
Order(k, h, led, sh, w) ==
  /\ w \in Nat /\ Rising(led) /\ Rising(EventsOf(sh))
  /\ \A i \in 1..Len(led), j \in h + 1..Len(sh) : led[i].by < sh[j].event.by
  /\ \A i \in 1..Len(led) : led[i].by <= w
  /\ \A i \in 1..Len(sh) : sh[i].event.by <= w
  /\ \A p \in k + 1..Len(led) : Own(led[p]) => \E i \in k + 1..h : sh[i].event = led[p]

\* The messages on the way bring the rest of the log, each event once and in order: an own one by
\* its confirmation, one of the dealer by itself.
Advances(m) == m.op = "ack" \/ (m.op = "sheet" /\ ~Own(m.event))
InTurn(k, led, d) ==
  /\ \A j \in DOMAIN d : Advances(d[j]) => d[j].seq \in k + 1..Len(led)
  /\ \A i, j \in DOMAIN d : i < j /\ Advances(d[i]) /\ Advances(d[j]) => d[i].seq < d[j].seq
  /\ \A p \in k + 1..Len(led) : \E j \in DOMAIN d : Advances(d[j]) /\ d[j].seq = p
Truthful(k, led, d) ==
  /\ \A j \in DOMAIN d : d[j] \in Msgs /\ d[j].op # "joined"
  /\ \A j \in DOMAIN d : d[j].op = "ack" => d[j].id # ByDealer /\ d[j].seq \in 1..Len(led) /\ led[d[j].seq].by = d[j].id
  /\ \A j \in DOMAIN d : d[j].op = "sheet" => d[j].seq \in 1..Len(led) /\ led[d[j].seq] = d[j].event
  /\ \A j \in DOMAIN d : d[j].op = "sheet" /\ Own(d[j].event) =>
       d[j].seq <= k \/ \E i \in 1..j - 1 : d[i].op = "ack" /\ d[i].seq = d[j].seq
Refused(k, h, led, sh, d) ==
  /\ \A j \in DOMAIN d : d[j].op = "reject" =>
       /\ \A p \in 1..Len(led) : led[p].by # d[j].id
       /\ \E i \in k + 1..h : sh[i].event.by = d[j].id /\ (sh[i].event.type \in {"removed", "updated"} => i = Len(sh))
  /\ \A i, j \in DOMAIN d : d[i].op = "reject" /\ d[j].op = "reject" /\ d[i].id = d[j].id => i = j
News(k, h, led, sh, d) == d \in Seq(Msgs) /\ InTurn(k, led, d) /\ Truthful(k, led, d) /\ Refused(k, h, led, sh, d)

NumbersOf(led, from, to) == [i \in 1..to - from |-> [seq |-> from + i, event |-> led[from + i]]]
Linked(k, h, led, sh, u, d) ==
  /\ u \in Seq(Calls) /\ Len(sh) = h + Len(u)
  /\ \A i \in 1..Len(u) : u[i].op = "event" /\ u[i].event = sh[h + i].event
  /\ News(k, h, led, sh, d)
Joining(k, h, led, sh, u, d) ==
  /\ h = k /\ k = Len(sh) /\ u \in Seq(Calls) /\ d \in Seq(Msgs)
  /\ \/ u = <<>> /\ d = <<>>
     \/ u = <<[op |-> "join", since |-> k]>> /\ d = <<>>
     \/ /\ u = <<>> /\ d # <<>> /\ d[1].op = "joined" /\ d[1].top \in k..Len(led)
        /\ d[1].sheets = NumbersOf(led, IF d[1].replace THEN 0 ELSE k, d[1].top)
        /\ News(d[1].top, d[1].top, led, sh, Tail(d))

\* The chips: nothing that either log says is more than the player had.  The bets of the table are
\* on the page when it has sent what the service has answered, unless the page has taken one back
\* that the service is about to give it again, or pressed one that the service leaves as it was.
NoDebt(s) == \A n \in 0..Len(s) : After(s, n).bank >= 0
Placeable(k, sh) ==
  /\ \A i \in k + 1..Len(sh) : sh[i].event.type = "bet" => After(EventsOf(sh), k).rounds[sh[i].event.round] = "open"
  /\ \A i \in k + 1..Len(sh) : sh[i].event.type = "updated" => Pressable(After(EventsOf(sh), i - 1), sh[i].event)
Refusals(d) == {d[j].id : j \in {x \in DOMAIN d : d[x].op = "reject"}}
GivenBack(k, h, sh, u, d) ==
  u = <<>> /\ h > k /\ sh[h].event.type \in {"removed", "updated"} /\ sh[h].event.by \in Refusals(d)
OnThePage(k, h, led, sh, u, d) ==
  Under(TableAfter(led).bets, After(EventsOf(sh), IF GivenBack(k, h, sh, u, d) THEN h - 1 ELSE h).bets)
Covers(k, h, led, sh, u, d) ==
  NoDebt(led) /\ NoDebt(EventsOf(sh)) /\ Placeable(k, sh) /\ OnThePage(k, h, led, sh, u, d)

InStep(k, h, led, sh, una, tp, u, d, w) ==
  Copy(k, h, led, sh, una, tp) /\ Order(k, h, led, sh, w) /\ Covers(k, h, led, sh, u, d)
CopyRight(k, h) ==
  /\ InStep(k, h, ledger, sheets, unanswered, top, up, down, wrote)
  /\ linked => Linked(k, h, ledger, sheets, up, down)
  /\ ~linked => Joining(k, h, ledger, sheets, up, down)

PlayerInv == corrected \/ crossed \/ beyond \/ \E k, h \in Nat : CopyRight(k, h)

LEMMA MsgKinds ==
  ASSUME NEW m \in Msgs
  PROVE  /\ m.op \in {"ack", "sheet", "reject", "joined"}
         /\ m.op = "ack" => m.id \in Nat /\ m.seq \in Nat
         /\ m.op = "sheet" => m.seq \in Nat /\ m.event \in Happening
         /\ m.op = "reject" => m.id \in Nat
         /\ m.op = "joined" => m.replace \in BOOLEAN /\ m.sheets \in Seq(Sheet) /\ m.top \in Nat
BY DEF Msgs

LEMMA RefusalsTail ==
  ASSUME NEW d \in Seq(Msgs), d # <<>>
  PROVE  Refusals(d) = IF d[1].op = "reject" THEN Refusals(Tail(d)) \cup {d[1].id} ELSE Refusals(Tail(d))
<1> DEFINE M == Msgs
           t == Tail(d)
<1>0. d \in Seq(M)
  OBVIOUS
<1> HIDE DEF M
<1>1. /\ Len(t) = Len(d) - 1 /\ Len(d) \in Nat /\ DOMAIN d = 1..Len(d) /\ DOMAIN t = 1..Len(t) /\ 1 \in DOMAIN d
      /\ \A j \in DOMAIN t : t[j] = d[j + 1] /\ j + 1 \in DOMAIN d
  BY <1>0
<1>2. \A j \in DOMAIN d : j = 1 \/ (j - 1 \in DOMAIN t /\ t[j - 1] = d[j])
  BY <1>0, <1>1
<1> HIDE DEF t
<1>3. Refusals(t) \subseteq Refusals(d)
  BY <1>1 DEF Refusals
<1>4. ASSUME NEW x \in Refusals(d) PROVE x \in Refusals(t) \/ (d[1].op = "reject" /\ x = d[1].id)
  <2>1. PICK j \in DOMAIN d : d[j].op = "reject" /\ x = d[j].id
    BY <1>4 DEF Refusals
  <2>2. CASE j = 1
    BY <2>1, <2>2
  <2>3. CASE j - 1 \in DOMAIN t /\ t[j - 1] = d[j]
    BY <2>1, <2>3 DEF Refusals
  <2> QED BY <1>2, <2>2, <2>3
<1>5. d[1].op = "reject" => d[1].id \in Refusals(d)
  BY <1>1 DEF Refusals
<1> QED BY <1>3, <1>4, <1>5 DEF t

LEMMA RefusalsAppend ==
  ASSUME NEW d \in Seq(Msgs), NEW m \in Msgs, NEW f, f = Append(d, m)
  PROVE  Refusals(f) = IF m.op = "reject" THEN Refusals(d) \cup {m.id} ELSE Refusals(d)
<1> DEFINE M == Msgs
<1>0. d \in Seq(M) /\ m \in M
  OBVIOUS
<1> HIDE DEF M
<1>1. /\ Len(f) = Len(d) + 1 /\ Len(d) \in Nat /\ DOMAIN d = 1..Len(d) /\ DOMAIN f = 1..Len(d) + 1
      /\ \A j \in 1..Len(d) : f[j] = d[j]
      /\ f[Len(d) + 1] = m
  BY <1>0
<1>2. \A j \in DOMAIN f : j = Len(d) + 1 \/ j \in DOMAIN d
  BY <1>1
<1>3. Refusals(d) \subseteq Refusals(f)
  BY <1>1 DEF Refusals
<1>4. ASSUME NEW x \in Refusals(f) PROVE x \in Refusals(d) \/ (m.op = "reject" /\ x = m.id)
  <2>1. PICK j \in DOMAIN f : f[j].op = "reject" /\ x = f[j].id
    BY <1>4 DEF Refusals
  <2>2. CASE j = Len(d) + 1
    BY <1>1, <2>1, <2>2
  <2>3. CASE j \in DOMAIN d
    BY <1>1, <2>1, <2>3 DEF Refusals
  <2> QED BY <1>2, <2>2, <2>3
<1>5. m.op = "reject" => m.id \in Refusals(f)
  <2>1. Len(d) + 1 \in DOMAIN f
    BY <1>1
  <2> QED BY <1>1, <2>1 DEF Refusals
<1> QED BY <1>3, <1>4, <1>5

LEMMA RefusalsAre ==
  ASSUME NEW k, NEW h, NEW led, NEW sh, NEW d, Refused(k, h, led, sh, d), NEW x \in Refusals(d)
  PROVE  /\ \A p \in 1..Len(led) : led[p].by # x
         /\ \E i \in k + 1..h : sh[i].event.by = x /\ (sh[i].event.type \in {"removed", "updated"} => i = Len(sh))
<1>1. PICK j \in DOMAIN d : d[j].op = "reject" /\ x = d[j].id
  BY DEF Refusals
<1> QED BY <1>1 DEF Refused

LEMMA EventsAre ==
  ASSUME NEW sh \in Seq(Sheet)
  PROVE  /\ EventsOf(sh) \in Seq(Happening) /\ Len(EventsOf(sh)) = Len(sh) /\ Len(sh) \in Nat
         /\ DOMAIN sh = 1..Len(sh) /\ DOMAIN EventsOf(sh) = 1..Len(sh)
         /\ \A i \in 1..Len(sh) : /\ sh[i] \in Sheet /\ sh[i].seq \in Nat /\ sh[i].event \in Happening
                                  /\ EventsOf(sh)[i] = sh[i].event
<1>1. Len(sh) \in Nat /\ DOMAIN sh = 1..Len(sh) /\ \A i \in 1..Len(sh) : sh[i] \in Sheet
  OBVIOUS
<1>2. \A i \in 1..Len(sh) : sh[i].seq \in Nat /\ sh[i].event \in Happening
  BY <1>1 DEF Sheet
<1>3. EventsOf(sh) = [i \in 1..Len(sh) |-> sh[i].event]
  BY <1>1 DEF EventsOf
<1> DEFINE Y == Happening
           s == EventsOf(sh)
<1>4. DOMAIN s = 1..Len(sh) /\ \A i \in 1..Len(sh) : s[i] = sh[i].event /\ s[i] \in Y
  BY <1>2, <1>3
<1>5. s \in [1..Len(sh) -> Y]
  BY <1>2, <1>3
<1> HIDE DEF Y, s
<1>6. s \in Seq(Y) /\ Len(s) = Len(sh)
  BY <1>1, <1>4, <1>5
<1> QED BY <1>1, <1>2, <1>4, <1>6 DEF Y, s

\* The first message that brings something brings what comes next.
LEMMA NextInTurn ==
  ASSUME NEW k \in Nat, NEW led \in Seq(Happening), NEW d \in Seq(Msgs), d # <<>>,
         InTurn(k, led, d), Truthful(k, led, d), Advances(d[1])
  PROVE  /\ d[1].seq = k + 1 /\ k + 1 \in 1..Len(led)
         /\ Tail(d) \in Seq(Msgs) /\ InTurn(k + 1, led, Tail(d)) /\ Truthful(k + 1, led, Tail(d))
<1> DEFINE M == Msgs
           t == Tail(d)
<1>1. d \in Seq(M)
  OBVIOUS
<1> HIDE DEF M
<1>2. /\ t \in Seq(M) /\ Len(t) = Len(d) - 1 /\ Len(d) \in Nat /\ DOMAIN d = 1..Len(d) /\ DOMAIN t = 1..Len(t)
      /\ \A j \in DOMAIN t : t[j] = d[j + 1] /\ j + 1 \in DOMAIN d /\ j \in Nat
      /\ 1 \in DOMAIN d /\ Len(led) \in Nat
  BY <1>1
<1> HIDE DEF t
<1>3. d[1].seq \in k + 1..Len(led) /\ k + 1 \in k + 1..Len(led)
  BY <1>2 DEF InTurn
<1>4. PICK j \in DOMAIN d : Advances(d[j]) /\ d[j].seq = k + 1
  BY <1>3 DEF InTurn
<1>5. d[1].seq = k + 1
  <2>1. CASE j = 1
    BY <1>4, <2>1
  <2>2. CASE j # 1
    <3>1. 1 < j
      BY <1>2, <2>2
    <3>2. d[1].seq < d[j].seq
      BY <1>2, <1>4, <3>1 DEF InTurn
    <3> QED BY <1>3, <1>4, <3>2
  <2> QED BY <2>1, <2>2
<1>6. InTurn(k + 1, led, t)
  <2>1. ASSUME NEW a \in DOMAIN t, Advances(t[a]) PROVE t[a].seq \in k + 2..Len(led)
    <3>1. a + 1 \in DOMAIN d /\ 1 < a + 1 /\ t[a] = d[a + 1]
      BY <1>2
    <3>2. d[1].seq < d[a + 1].seq /\ d[a + 1].seq \in k + 1..Len(led)
      BY <1>2, <2>1, <3>1 DEF InTurn
    <3> QED BY <1>5, <3>1, <3>2
  <2>2. ASSUME NEW a \in DOMAIN t, NEW b \in DOMAIN t, a < b, Advances(t[a]), Advances(t[b])
        PROVE  t[a].seq < t[b].seq
    <3>1. a + 1 \in DOMAIN d /\ b + 1 \in DOMAIN d /\ a + 1 < b + 1 /\ t[a] = d[a + 1] /\ t[b] = d[b + 1]
      BY <1>2, <2>2
    <3> QED BY <2>2, <3>1 DEF InTurn
  <2>3. ASSUME NEW p \in k + 2..Len(led) PROVE \E a \in DOMAIN t : Advances(t[a]) /\ t[a].seq = p
    <3>1. p \in k + 1..Len(led)
      OBVIOUS
    <3>2. PICK a \in DOMAIN d : Advances(d[a]) /\ d[a].seq = p
      BY <3>1 DEF InTurn
    <3>3. a # 1
      BY <1>5, <3>2
    <3>4. a - 1 \in DOMAIN t /\ (a - 1) + 1 = a
      BY <1>2, <3>3
    <3>5. t[a - 1] = d[a]
      BY <1>2, <3>4
    <3> QED BY <3>2, <3>4, <3>5
  <2>4. (k + 1) + 1 = k + 2
    OBVIOUS
  <2> QED BY <2>1, <2>2, <2>3, <2>4 DEF InTurn
<1>7. Truthful(k + 1, led, t)
  <2>1. ASSUME NEW a \in DOMAIN t, t[a].op = "sheet", Own(t[a].event)
        PROVE  t[a].seq <= k + 1 \/ \E i \in 1..a - 1 : t[i].op = "ack" /\ t[i].seq = t[a].seq
    <3>1. a + 1 \in DOMAIN d /\ t[a] = d[a + 1] /\ a \in Nat
      BY <1>2
    <3>2. d[a + 1].seq <= k \/ \E i \in 1..(a + 1) - 1 : d[i].op = "ack" /\ d[i].seq = d[a + 1].seq
      BY <2>1, <3>1 DEF Truthful
    <3>3. CASE d[a + 1].seq <= k
      <4>1. d[a + 1].seq \in Nat
        BY <2>1, <3>1, MsgKinds DEF Truthful
      <4> QED BY <3>1, <3>3, <4>1
    <3>4. ASSUME NEW i \in 1..(a + 1) - 1, d[i].op = "ack", d[i].seq = d[a + 1].seq
          PROVE  t[a].seq <= k + 1 \/ \E b \in 1..a - 1 : t[b].op = "ack" /\ t[b].seq = t[a].seq
      <4>1. CASE i = 1
        BY <1>5, <3>1, <3>4, <4>1
      <4>2. CASE i # 1
        <5>1. i - 1 \in 1..a - 1 /\ i - 1 \in DOMAIN t /\ (i - 1) + 1 = i
          BY <1>2, <3>1, <4>2
        <5>2. t[i - 1] = d[i]
          BY <1>2, <5>1
        <5> QED BY <3>1, <3>4, <5>1, <5>2
      <4> QED BY <4>1, <4>2
    <3> QED BY <3>2, <3>3, <3>4
  <2>2. ASSUME NEW a \in DOMAIN t
        PROVE  /\ t[a] \in Msgs /\ t[a].op # "joined"
               /\ t[a].op = "ack" => t[a].id # ByDealer /\ t[a].seq \in 1..Len(led) /\ led[t[a].seq].by = t[a].id
               /\ t[a].op = "sheet" => t[a].seq \in 1..Len(led) /\ led[t[a].seq] = t[a].event
    <3>1. a + 1 \in DOMAIN d /\ t[a] = d[a + 1]
      BY <1>2
    <3> QED BY <3>1 DEF Truthful
  <2> QED BY <2>1, <2>2 DEF Truthful
<1>8. k + 1 \in 1..Len(led)
  BY <1>2, <1>3
<1> QED BY <1>2, <1>5, <1>6, <1>7, <1>8 DEF t, M

\* A message that brings nothing new.
LEMMA SkipMessage ==
  ASSUME NEW k \in Nat, NEW led \in Seq(Happening), NEW d \in Seq(Msgs), d # <<>>,
         InTurn(k, led, d), Truthful(k, led, d), ~Advances(d[1])
  PROVE  /\ d[1].op = "sheet" => d[1].seq <= k
         /\ Tail(d) \in Seq(Msgs) /\ InTurn(k, led, Tail(d)) /\ Truthful(k, led, Tail(d))
<1> DEFINE M == Msgs
           t == Tail(d)
<1>1. d \in Seq(M)
  OBVIOUS
<1> HIDE DEF M
<1>2. /\ t \in Seq(M) /\ Len(t) = Len(d) - 1 /\ Len(d) \in Nat /\ DOMAIN d = 1..Len(d) /\ DOMAIN t = 1..Len(t)
      /\ \A j \in DOMAIN t : t[j] = d[j + 1] /\ j + 1 \in DOMAIN d /\ j \in Nat
      /\ 1 \in DOMAIN d /\ Len(led) \in Nat
  BY <1>1
<1> HIDE DEF t
<1>3. d[1].op = "sheet" => d[1].seq <= k
  <2> HAVE d[1].op = "sheet"
  <2>1. Own(d[1].event)
    BY DEF Advances
  <2>2. d[1].seq <= k \/ \E i \in 1..1 - 1 : d[i].op = "ack" /\ d[i].seq = d[1].seq
    BY <1>2, <2>1 DEF Truthful
  <2> QED BY <2>2
<1>4. InTurn(k, led, t)
  <2>1. ASSUME NEW a \in DOMAIN t, Advances(t[a]) PROVE t[a].seq \in k + 1..Len(led)
    BY <1>2, <2>1 DEF InTurn
  <2>2. ASSUME NEW a \in DOMAIN t, NEW b \in DOMAIN t, a < b, Advances(t[a]), Advances(t[b])
        PROVE  t[a].seq < t[b].seq
    <3>1. a + 1 \in DOMAIN d /\ b + 1 \in DOMAIN d /\ a + 1 < b + 1 /\ t[a] = d[a + 1] /\ t[b] = d[b + 1]
      BY <1>2, <2>2
    <3> QED BY <2>2, <3>1 DEF InTurn
  <2>3. ASSUME NEW p \in k + 1..Len(led) PROVE \E a \in DOMAIN t : Advances(t[a]) /\ t[a].seq = p
    <3>2. PICK a \in DOMAIN d : Advances(d[a]) /\ d[a].seq = p
      BY DEF InTurn
    <3>3. a # 1
      BY <3>2
    <3>4. a - 1 \in DOMAIN t /\ (a - 1) + 1 = a
      BY <1>2, <3>3
    <3>5. t[a - 1] = d[a]
      BY <1>2, <3>4
    <3> QED BY <3>2, <3>4, <3>5
  <2> QED BY <2>1, <2>2, <2>3 DEF InTurn
<1>7. Truthful(k, led, t)
  <2>1. ASSUME NEW a \in DOMAIN t, t[a].op = "sheet", Own(t[a].event)
        PROVE  t[a].seq <= k \/ \E i \in 1..a - 1 : t[i].op = "ack" /\ t[i].seq = t[a].seq
    <3>1. a + 1 \in DOMAIN d /\ t[a] = d[a + 1] /\ a \in Nat
      BY <1>2
    <3>2. d[a + 1].seq <= k \/ \E i \in 1..(a + 1) - 1 : d[i].op = "ack" /\ d[i].seq = d[a + 1].seq
      BY <2>1, <3>1 DEF Truthful
    <3>4. ASSUME NEW i \in 1..(a + 1) - 1, d[i].op = "ack", d[i].seq = d[a + 1].seq
          PROVE  \E b \in 1..a - 1 : t[b].op = "ack" /\ t[b].seq = t[a].seq
      <4>1. i # 1
        BY <3>4 DEF Advances
      <4>2. i - 1 \in 1..a - 1 /\ i - 1 \in DOMAIN t /\ (i - 1) + 1 = i
        BY <1>2, <3>1, <4>1
      <4>3. t[i - 1] = d[i]
        BY <1>2, <4>2
      <4> QED BY <3>1, <3>4, <4>2, <4>3
    <3> QED BY <3>1, <3>2, <3>4
  <2>2. ASSUME NEW a \in DOMAIN t
        PROVE  /\ t[a] \in Msgs /\ t[a].op # "joined"
               /\ t[a].op = "ack" => t[a].id # ByDealer /\ t[a].seq \in 1..Len(led) /\ led[t[a].seq].by = t[a].id
               /\ t[a].op = "sheet" => t[a].seq \in 1..Len(led) /\ led[t[a].seq] = t[a].event
    <3>1. a + 1 \in DOMAIN d /\ t[a] = d[a + 1]
      BY <1>2
    <3> QED BY <3>1 DEF Truthful
  <2> QED BY <2>1, <2>2 DEF Truthful
<1> QED BY <1>2, <1>3, <1>4, <1>7 DEF t, M

\* More messages, about a log that may have got longer.
Longer(a, b) == Len(a) <= Len(b) /\ \A i \in 1..Len(a) : b[i] = a[i]

LEMMA MoreInTurn ==
  ASSUME NEW k \in Nat, NEW led \in Seq(Happening), NEW d \in Seq(Msgs), InTurn(k, led, d), k <= Len(led),
         NEW r \in Seq(Happening), NEW f \in Seq(Msgs), Len(f) > Len(d), Len(r) = Len(led) + 1, Longer(d, f),
         Advances(f[Len(d) + 1]), f[Len(d) + 1].seq = Len(r),
         \A j \in Len(d) + 2..Len(f) : ~Advances(f[j])
  PROVE  InTurn(k, r, f)
<1> DEFINE n == Len(d)
           m == Len(led)
           l == Len(f)
<1>0. n \in Nat /\ DOMAIN d = 1..n
  OBVIOUS
<1>a. l \in Nat /\ DOMAIN f = 1..l
  OBVIOUS
<1>b. m \in Nat
  OBVIOUS
<1>c. /\ l > n /\ Len(r) = m + 1 /\ k <= m /\ \A j \in n + 2..l : ~Advances(f[j])
      /\ f[n + 1].seq = m + 1 /\ Advances(f[n + 1]) /\ \A j \in 1..n : f[j] = d[j]
  BY DEF Longer
<1> HIDE DEF n, m, l
<1>1. /\ n \in Nat /\ m \in Nat /\ l \in Nat /\ DOMAIN d = 1..n /\ DOMAIN f = 1..l /\ n + 1 \in 1..l
      /\ Len(r) = m + 1 /\ k <= m /\ n < l
  BY <1>0, <1>a, <1>b, <1>c
<1>2. \A j \in DOMAIN f : Advances(f[j]) => (j \in 1..n /\ f[j] = d[j]) \/ j = n + 1
  <2> TAKE j \in DOMAIN f
  <2>1. j \in 1..n \/ j = n + 1 \/ j \in n + 2..l
    BY <1>1
  <2> QED BY <1>c, <2>1
<1>3. f[n + 1].seq = m + 1 /\ Advances(f[n + 1]) /\ n + 1 \in DOMAIN f
  BY <1>1, <1>c
<1>4. \A j \in 1..n : f[j] = d[j] /\ j \in DOMAIN f
  BY <1>1, <1>c
<1>5. /\ \A j \in 1..n : Advances(d[j]) => d[j].seq \in k + 1..m
      /\ \A i, j \in 1..n : i < j /\ Advances(d[i]) /\ Advances(d[j]) => d[i].seq < d[j].seq
      /\ \A p \in k + 1..m : \E j \in 1..n : Advances(d[j]) /\ d[j].seq = p
  BY <1>1 DEF InTurn, m
<1>6. ASSUME NEW j \in DOMAIN f, Advances(f[j]) PROVE f[j].seq \in k + 1..m + 1
  <2>1. CASE j \in 1..n /\ f[j] = d[j]
    <3>1. d[j].seq \in k + 1..m
      BY <1>5, <1>6, <2>1
    <3> QED BY <1>1, <2>1, <3>1
  <2>2. CASE j = n + 1
    <3>1. m + 1 \in k + 1..m + 1
      BY <1>1
    <3> QED BY <1>3, <2>2, <3>1
  <2> QED BY <1>2, <1>6, <2>1, <2>2
<1>7. ASSUME NEW i \in DOMAIN f, NEW j \in DOMAIN f, i < j, Advances(f[i]), Advances(f[j])
      PROVE  f[i].seq < f[j].seq
  <2>1. CASE j \in 1..n /\ f[j] = d[j]
    <3>1. i \in 1..n
      BY <1>1, <1>7, <2>1
    <3> QED BY <1>4, <1>5, <1>7, <2>1, <3>1
  <2>2. CASE j = n + 1
    <3>1. i \in 1..n /\ f[i] = d[i]
      BY <1>1, <1>2, <1>7, <2>2
    <3>2. d[i].seq \in k + 1..m
      BY <1>5, <1>7, <3>1
    <3> QED BY <1>1, <1>3, <2>2, <3>1, <3>2
  <2> QED BY <1>2, <1>7, <2>1, <2>2
<1>8. ASSUME NEW p \in k + 1..m + 1 PROVE \E j \in DOMAIN f : Advances(f[j]) /\ f[j].seq = p
  <2>1. CASE p = m + 1
    BY <1>3, <2>1
  <2>2. CASE p # m + 1
    <3>1. p \in k + 1..m
      BY <1>1, <2>2
    <3>2. PICK j \in 1..n : Advances(d[j]) /\ d[j].seq = p
      BY <1>5, <3>1
    <3> QED BY <1>4, <3>2
  <2> QED BY <2>1, <2>2
<1> QED BY <1>1, <1>6, <1>7, <1>8 DEF InTurn

LEMMA SameInTurn ==
  ASSUME NEW k \in Nat, NEW led \in Seq(Happening), NEW d \in Seq(Msgs), InTurn(k, led, d),
         NEW f \in Seq(Msgs), Longer(d, f), \A j \in Len(d) + 1..Len(f) : ~Advances(f[j])
  PROVE  InTurn(k, led, f)
<1> DEFINE n == Len(d)
<1>1. n \in Nat /\ Len(f) \in Nat /\ DOMAIN d = 1..n /\ DOMAIN f = 1..Len(f) /\ n <= Len(f)
  BY DEF Longer
<1>2. \A j \in DOMAIN f : Advances(f[j]) => j \in DOMAIN d /\ f[j] = d[j]
  BY <1>1 DEF Longer
<1>3. \A j \in DOMAIN d : f[j] = d[j] /\ j \in DOMAIN f
  BY <1>1 DEF Longer
<1> HIDE DEF n
<1>4. ASSUME NEW j \in DOMAIN f, Advances(f[j]) PROVE f[j].seq \in k + 1..Len(led)
  BY <1>2, <1>4 DEF InTurn
<1>5. ASSUME NEW i \in DOMAIN f, NEW j \in DOMAIN f, i < j, Advances(f[i]), Advances(f[j])
      PROVE  f[i].seq < f[j].seq
  BY <1>2, <1>5 DEF InTurn
<1>6. ASSUME NEW p \in k + 1..Len(led) PROVE \E j \in DOMAIN f : Advances(f[j]) /\ f[j].seq = p
  <2>1. PICK j \in DOMAIN d : Advances(d[j]) /\ d[j].seq = p
    BY DEF InTurn
  <2> QED BY <1>3, <2>1
<1> QED BY <1>4, <1>5, <1>6 DEF InTurn

\* What a message says of the log.
Says(m, led) ==
  /\ m \in Msgs /\ m.op # "joined"
  /\ m.op = "ack" => m.id # ByDealer /\ m.seq \in 1..Len(led) /\ led[m.seq].by = m.id
  /\ m.op = "sheet" => m.seq \in 1..Len(led) /\ led[m.seq] = m.event

LEMMA MoreTruthful ==
  ASSUME NEW k \in Nat, NEW led \in Seq(Happening), NEW d \in Seq(Msgs), Truthful(k, led, d),
         NEW r \in Seq(Happening), NEW f \in Seq(Msgs), Longer(d, f), Longer(led, r),
         \A j \in Len(d) + 1..Len(f) : /\ Says(f[j], r)
                                       /\ f[j].op = "sheet" /\ Own(f[j].event) =>
                                            \E i \in 1..j - 1 : f[i].op = "ack" /\ f[i].seq = f[j].seq
  PROVE  Truthful(k, r, f)
<1> DEFINE n == Len(d)
<1>1. n \in Nat /\ Len(f) \in Nat /\ DOMAIN d = 1..n /\ DOMAIN f = 1..Len(f) /\ n <= Len(f)
  BY DEF Longer
<1>2. \A j \in DOMAIN f : j \in DOMAIN d \/ j \in n + 1..Len(f)
  BY <1>1
<1>3. \A j \in DOMAIN d : f[j] = d[j] /\ j \in Nat
  BY <1>1 DEF Longer
<1>4. Len(led) \in Nat /\ Len(r) \in Nat /\ Len(led) <= Len(r) /\ \A p \in 1..Len(led) : r[p] = led[p] /\ p \in 1..Len(r)
  BY DEF Longer
<1>5. ASSUME NEW j \in DOMAIN d PROVE Says(d[j], r)
  <2>1. Says(d[j], led)
    BY DEF Truthful, Says
  <2> QED BY <1>4, <2>1 DEF Says
<1>6. \A j \in DOMAIN f : Says(f[j], r)
  BY <1>2, <1>3, <1>5
<1>7. ASSUME NEW j \in DOMAIN f, f[j].op = "sheet", Own(f[j].event)
      PROVE  f[j].seq <= k \/ \E i \in 1..j - 1 : f[i].op = "ack" /\ f[i].seq = f[j].seq
  <2>1. CASE j \in DOMAIN d
    <3>1. f[j] = d[j] /\ j \in Nat
      BY <1>3, <2>1
    <3>2. d[j].seq <= k \/ \E i \in 1..j - 1 : d[i].op = "ack" /\ d[i].seq = d[j].seq
      BY <1>7, <2>1, <3>1 DEF Truthful
    <3>3. \A i \in 1..j - 1 : i \in DOMAIN d
      BY <1>1, <2>1
    <3> QED BY <1>3, <3>1, <3>2, <3>3
  <2>2. CASE j \in n + 1..Len(f)
    BY <1>7, <2>2
  <2> QED BY <1>2, <2>1, <2>2
<1> HIDE DEF n
<1> QED BY <1>6, <1>7 DEF Truthful, Says

\* No event of the copy has the client id of another own one.
LEMMA OneEntry ==
  ASSUME NEW sh \in Seq(Sheet), Rising(EventsOf(sh)), NEW i \in 1..Len(sh), NEW j \in 1..Len(sh),
         Own(sh[i].event), sh[i].event.by = sh[j].event.by
  PROVE  i = j
<1> DEFINE s == EventsOf(sh)
<1>1. /\ s \in Seq(Happening) /\ Len(sh) \in Nat /\ DOMAIN s = 1..Len(sh)
      /\ \A a \in 1..Len(sh) : s[a] = sh[a].event /\ s[a] \in Happening
  BY EventsAre
<1> HIDE DEF s
<1>2. Own(s[i]) /\ Own(s[j]) /\ s[i].by = s[j].by /\ s[i].by \in Nat
  BY <1>1 DEF Own, Happening
<1>3. ~(s[i].by < s[j].by) /\ ~(s[j].by < s[i].by)
  BY <1>2
<1>4. ~(i < j) /\ ~(j < i)
  BY <1>1, <1>2, <1>3 DEF Rising, s
<1> QED BY <1>1, <1>4

\* Facts of a copy that is in step.
LEMMA CopyFacts ==
  ASSUME NEW k \in Nat, NEW h \in Nat, NEW led, NEW sh, NEW una, NEW tp, NEW w,
         Copy(k, h, led, sh, una, tp), Order(k, h, led, sh, w)
  PROVE  /\ led \in Seq(Happening) /\ sh \in Seq(Sheet) /\ Len(sh) \in Nat /\ Len(led) \in Nat
         /\ 1 <= k /\ k <= h /\ h <= Len(sh) /\ k <= Len(led)
         /\ Rising(led) /\ Rising(EventsOf(sh))
         /\ \A i \in 1..Len(led) : led[i] \in Happening /\ led[i].by \in Nat
         /\ \A i \in 1..Len(sh) : sh[i].event \in Happening /\ sh[i].event.by \in Nat /\ sh[i].seq \in Nat
         /\ sh[k].seq = k /\ tp \in Nat
         /\ \A i \in k + 1..Len(sh) : sh[i].seq >= k + 1 /\ sh[i].seq <= tp
<1>1. led \in Seq(Happening) /\ sh \in Seq(Sheet) /\ k \in 1..Len(sh) /\ k <= Len(led) /\ h \in k..Len(sh)
  BY DEF Copy
<1>2. /\ Len(sh) \in Nat
      /\ \A i \in 1..Len(sh) : sh[i].event \in Happening /\ sh[i].seq \in Nat
  BY <1>1, EventsAre
<1>3. Len(led) \in Nat /\ \A i \in 1..Len(led) : led[i] \in Happening
  BY <1>1
<1>4. \A i \in 1..Len(sh) : sh[i].event.by \in Nat
  BY <1>2 DEF Happening
<1>5. \A i \in 1..Len(led) : led[i].by \in Nat
  BY <1>3 DEF Happening
<1>6. sh[k].seq = k
  BY <1>1 DEF Copy
<1>7. Len(sh) \in 1..Len(sh) /\ tp = sh[Len(sh)].seq
  BY <1>1, <1>2 DEF Copy
<1>8. ASSUME NEW i \in k + 1..Len(sh) PROVE sh[i].seq >= k + 1 /\ sh[i].seq <= tp
  <2>1. k \in k..Len(sh) /\ i \in k..Len(sh) /\ Len(sh) \in k..Len(sh) /\ k < i /\ i \in 1..Len(sh)
    BY <1>1, <1>2
  <2>2. sh[k].seq < sh[i].seq
    BY <2>1 DEF Copy
  <2>3. i < Len(sh) => sh[i].seq < sh[Len(sh)].seq
    BY <2>1 DEF Copy
  <2>4. sh[i].seq \in Nat /\ sh[Len(sh)].seq \in Nat
    BY <1>2, <1>7, <2>1
  <2>5. sh[i].seq <= tp
    <3>1. CASE i < Len(sh)
      BY <1>7, <2>3, <2>4, <3>1
    <3>2. CASE ~(i < Len(sh))
      <4>1. i = Len(sh)
        BY <1>2, <3>2
      <4> QED BY <1>7, <2>4, <4>1
    <3> QED BY <3>1, <3>2
  <2> QED BY <1>1, <1>6, <2>2, <2>4, <2>5
<1>9. tp \in Nat
  BY <1>2, <1>7
<1>10. Rising(led) /\ Rising(EventsOf(sh))
  BY DEF Order
<1>11. 1 <= k /\ k <= h /\ h <= Len(sh)
  BY <1>1, <1>2
<1> QED BY <1>1, <1>2, <1>3, <1>4, <1>5, <1>6, <1>8, <1>9, <1>10, <1>11

\* The tables of the copy and of the log are the same as far as the copy is confirmed.
LEMMA CopyTables ==
  ASSUME NEW k \in Nat, NEW h \in Nat, NEW led, NEW sh, NEW una, NEW tp, NEW w,
         Copy(k, h, led, sh, una, tp), Order(k, h, led, sh, w)
  PROVE  \A n \in 0..k : After(EventsOf(sh), n) = After(led, n)
<1> TAKE n \in 0..k
<1>1. led \in Seq(Happening) /\ sh \in Seq(Sheet) /\ Len(sh) \in Nat /\ k <= Len(led) /\ k <= h /\ h <= Len(sh) /\ Len(led) \in Nat
  BY CopyFacts
<1> DEFINE s == EventsOf(sh)
<1>2. s \in Seq(Happening) /\ Len(s) = Len(sh) /\ \A i \in 1..Len(sh) : s[i] = sh[i].event
  BY <1>1, EventsAre
<1> HIDE DEF s
<1>3. n \in Nat /\ n <= Len(s) /\ n <= Len(led)
  BY <1>1, <1>2
<1>4. \A i \in 1..n : s[i] = led[i]
  <2> TAKE i \in 1..n
  <2>1. i \in 1..Len(sh) /\ i \in 1..k
    BY <1>1
  <2> QED BY <1>2, <2>1 DEF Copy
<1>5. After(s, n) = After(led, n)
  BY <1>1, <1>2, <1>3, <1>4, AfterSame
<1> QED BY <1>5 DEF s

\* An own event is confirmed under the number that the page guessed.
LEMMA AckStep ==
  ASSUME NEW k \in Nat, NEW h \in Nat, NEW led, NEW sh, NEW una, NEW tp, NEW u, NEW d, NEW w,
         InStep(k, h, led, sh, una, tp, u, d, w), Linked(k, h, led, sh, u, d), d # <<>>, d[1].op = "ack",
         NEW e \in 1..Len(sh), sh[e].event.by = d[1].id, sh[e].seq = d[1].seq
  PROVE  /\ InStep(k + 1, h, led, sh, una \ {d[1].id}, tp, u, Tail(d), w) /\ Linked(k + 1, h, led, sh, u, Tail(d))
         /\ d[1].id \in una /\ tp \in Nat /\ d[1].seq \in Nat /\ d[1].seq <= tp
<1>0. /\ Copy(k, h, led, sh, una, tp) /\ Order(k, h, led, sh, w) /\ Covers(k, h, led, sh, u, d)
      /\ Linked(k, h, led, sh, u, d) /\ News(k, h, led, sh, d)
  BY DEF InStep, Linked
<1>1. /\ led \in Seq(Happening) /\ sh \in Seq(Sheet) /\ Len(sh) \in Nat /\ Len(led) \in Nat
      /\ 1 <= k /\ k <= h /\ h <= Len(sh) /\ k <= Len(led)
      /\ Rising(led) /\ Rising(EventsOf(sh))
      /\ \A i \in 1..Len(led) : led[i] \in Happening /\ led[i].by \in Nat
      /\ \A i \in 1..Len(sh) : sh[i].event \in Happening /\ sh[i].event.by \in Nat /\ sh[i].seq \in Nat
      /\ sh[k].seq = k /\ tp \in Nat
      /\ \A i \in k + 1..Len(sh) : sh[i].seq >= k + 1 /\ sh[i].seq <= tp
  BY <1>0, CopyFacts
<1>2. d \in Seq(Msgs) /\ InTurn(k, led, d) /\ Truthful(k, led, d) /\ Refused(k, h, led, sh, d) /\ Advances(d[1])
  BY <1>0 DEF News, Advances
<1>3. /\ d[1].seq = k + 1 /\ k + 1 \in 1..Len(led)
      /\ Tail(d) \in Seq(Msgs) /\ InTurn(k + 1, led, Tail(d)) /\ Truthful(k + 1, led, Tail(d))
  BY <1>1, <1>2, NextInTurn
<1> DEFINE id == d[1].id
           t == Tail(d)
<1>4. id # ByDealer /\ led[k + 1].by = id
  <2>1. 1 \in DOMAIN d
    BY <1>2
  <2> QED BY <1>2, <1>3, <2>1 DEF Truthful
<1>5. PICK i \in k + 1..h : sh[i].event = led[k + 1]
  <2>1. k + 1 \in k + 1..Len(led) /\ Own(led[k + 1])
    BY <1>1, <1>3, <1>4 DEF Own
  <2> QED BY <1>0, <2>1 DEF Order
<1>6. e = i
  <2>1. i \in 1..Len(sh) /\ Own(sh[i].event) /\ sh[i].event.by = sh[e].event.by
    BY <1>1, <1>4, <1>5 DEF Own
  <2> QED BY <1>1, <2>1, OneEntry
<1>7. i = k + 1
  <2>1. CASE i > k + 1
    <3>1. k + 1 \in k..Len(sh) /\ i \in k..Len(sh) /\ k + 1 \in k + 1..Len(sh)
      BY <1>1, <2>1
    <3>2. sh[k + 1].seq < sh[i].seq
      BY <1>0, <2>1, <3>1 DEF Copy
    <3>3. sh[k + 1].seq >= k + 1 /\ sh[k + 1].seq \in Nat
      BY <1>1, <3>1
    <3> QED BY <1>3, <1>6, <3>2, <3>3
  <2> QED BY <1>5, <2>1
<1>8. k + 1 \in k + 1..h /\ k + 1 \in 1..Len(sh) /\ sh[k + 1].event = led[k + 1] /\ sh[k + 1].seq = k + 1
  BY <1>1, <1>3, <1>5, <1>6, <1>7
<1>9. id \in una
  BY <1>0, <1>1, <1>4, <1>8 DEF Copy
<1> HIDE DEF id, t
<1>10. Copy(k + 1, h, led, sh, una \ {id}, tp)
  <2>1. \A a \in 1..k + 1 : sh[a].seq = a /\ sh[a].event = led[a]
    <3> TAKE a \in 1..k + 1
    <3>1. a \in 1..k \/ a = k + 1
      OBVIOUS
    <3> QED BY <1>0, <1>8, <3>1 DEF Copy
  <2>2. una \ {id} = {sh[a].event.by : a \in k + 2..Len(sh)}
    <3>1. una = {sh[a].event.by : a \in k + 1..Len(sh)}
      BY <1>0 DEF Copy
    <3>2. \A a \in k + 1..Len(sh) : a = k + 1 \/ (a \in k + 2..Len(sh))
      OBVIOUS
    <3>3. ASSUME NEW a \in k + 2..Len(sh) PROVE sh[a].event.by # id
      <4>1. a \in 1..Len(sh) /\ a # k + 1 /\ Own(sh[k + 1].event)
        BY <1>1, <1>4, <1>8 DEF Own
      <4>2. sh[k + 1].event.by # sh[a].event.by
        BY <1>1, <1>8, <4>1, OneEntry
      <4> QED BY <1>4, <1>8, <4>2
    <3>4. sh[k + 1].event.by = id /\ \A a \in k + 2..Len(sh) : a \in k + 1..Len(sh)
      BY <1>4, <1>8
    <3> QED BY <3>1, <3>2, <3>3, <3>4
  <2>3. (k + 1) + 1 = k + 2
    OBVIOUS
  <2>4. \A a \in k + 2..Len(sh) : a \in k + 1..Len(sh)
    OBVIOUS
  <2>5. \A a \in k + 1..Len(sh) : a \in k..Len(sh)
    OBVIOUS
  <2>6. k + 1 \in 1..Len(sh) /\ k + 1 <= Len(led) /\ h \in k + 1..Len(sh)
    BY <1>1, <1>3, <1>8
  <2>7. \A a \in k + 2..Len(sh) : Own(sh[a].event)
    BY <1>0, <2>4 DEF Copy
  <2>8. \A a, b \in k + 1..Len(sh) : a < b => sh[a].seq < sh[b].seq
    BY <1>0, <2>5 DEF Copy
  <2>9. tp = sh[Len(sh)].seq
    BY <1>0 DEF Copy
  <2> QED BY <1>1, <2>1, <2>2, <2>3, <2>6, <2>7, <2>8, <2>9 DEF Copy
<1>11. Order(k + 1, h, led, sh, w)
  <2>1. ASSUME NEW p \in k + 2..Len(led), Own(led[p]) PROVE \E a \in k + 2..h : sh[a].event = led[p]
    <3>1. p \in k + 1..Len(led) /\ p \in 1..Len(led) /\ k + 1 < p
      BY <1>1
    <3>2. PICK a \in k + 1..h : sh[a].event = led[p]
      BY <1>0, <2>1, <3>1 DEF Order
    <3>3. led[k + 1].by < led[p].by /\ led[p].by \in Nat /\ led[k + 1].by \in Nat
      <4>1. p \in DOMAIN led /\ k + 1 \in DOMAIN led /\ Own(led[k + 1])
        BY <1>1, <1>3, <1>4, <3>1 DEF Own
      <4> QED BY <1>1, <1>3, <2>1, <3>1, <4>1 DEF Rising
    <3>4. a # k + 1
      BY <1>8, <3>2, <3>3
    <3> QED BY <3>2, <3>4
  <2>2. (k + 1) + 1 = k + 2
    OBVIOUS
  <2> QED BY <1>0, <2>1, <2>2 DEF Order
<1>12. Refused(k + 1, h, led, sh, t)
  <2>1. /\ Len(t) = Len(d) - 1 /\ Len(d) \in Nat /\ DOMAIN d = 1..Len(d) /\ DOMAIN t = 1..Len(t)
        /\ \A j \in DOMAIN t : t[j] = d[j + 1] /\ j + 1 \in DOMAIN d
    <3> DEFINE M == Msgs
    <3>1. d \in Seq(M)
      BY <1>2
    <3> HIDE DEF M
    <3> QED BY <3>1 DEF t
  <2>2. ASSUME NEW j \in DOMAIN t, t[j].op = "reject"
        PROVE  /\ \A p \in 1..Len(led) : led[p].by # t[j].id
               /\ \E a \in k + 2..h : sh[a].event.by = t[j].id /\ (sh[a].event.type \in {"removed", "updated"} => a = Len(sh))
    <3>1. /\ \A p \in 1..Len(led) : led[p].by # t[j].id
          /\ \E a \in k + 1..h : sh[a].event.by = t[j].id /\ (sh[a].event.type \in {"removed", "updated"} => a = Len(sh))
      BY <1>2, <2>1, <2>2 DEF Refused
    <3>2. PICK a \in k + 1..h : sh[a].event.by = t[j].id /\ (sh[a].event.type \in {"removed", "updated"} => a = Len(sh))
      BY <3>1
    <3>3. a # k + 1
      BY <1>3, <1>8, <3>1, <3>2
    <3>4. a \in k + 2..h
      BY <3>3
    <3> QED BY <3>1, <3>2, <3>4
  <2>3. ASSUME NEW i1 \in DOMAIN t, NEW j1 \in DOMAIN t, t[i1].op = "reject", t[j1].op = "reject", t[i1].id = t[j1].id
        PROVE  i1 = j1
    <3>1. i1 + 1 = j1 + 1
      BY <1>2, <2>1, <2>3 DEF Refused
    <3> QED BY <2>1, <3>1
  <2>4. (k + 1) + 1 = k + 2
    OBVIOUS
  <2> QED BY <2>2, <2>3, <2>4 DEF Refused
<1>13. Linked(k + 1, h, led, sh, u, t)
  BY <1>0, <1>3, <1>12 DEF Linked, News, t
<1>14. Covers(k + 1, h, led, sh, u, t)
  <2> DEFINE s == EventsOf(sh)
  <2>1. s \in Seq(Happening) /\ Len(s) = Len(sh) /\ DOMAIN s = 1..Len(sh) /\ \A a \in 1..Len(sh) : s[a] = sh[a].event
    BY <1>1, EventsAre
  <2>2. After(s, k + 1).rounds = After(s, k).rounds
    <3> HIDE DEF s
    <3>1. Rising(s) /\ Own(s[k + 1]) /\ k + 1 \in 1..Len(s) /\ (k + 1) - 1 = k
      BY <1>1, <1>4, <1>8, <2>1 DEF s, Own
    <3> DEFINE n == k + 1
    <3>2. n \in 1..Len(s) /\ n - 1 = k /\ Own(s[n])
      BY <3>1
    <3> HIDE DEF n
    <3>3. Moves(After(s, n - 1), s[n], After(s, n))
      BY <2>1, <3>1, <3>2, AfterMoves
    <3>4. After(s, n).rounds = After(s, n - 1).rounds
      BY <3>2, <3>3 DEF Moves, SameRounds
    <3> QED BY <3>2, <3>4 DEF n
  <2>3. Placeable(k + 1, sh)
    <3>1. (k + 1) + 1 = k + 2 /\ \A a \in k + 2..Len(sh) : a \in k + 1..Len(sh)
      OBVIOUS
    <3>2. /\ \A a \in k + 1..Len(sh) : sh[a].event.type = "bet" => After(s, k).rounds[sh[a].event.round] = "open"
          /\ \A a \in k + 1..Len(sh) : sh[a].event.type = "updated" => Pressable(After(s, a - 1), sh[a].event)
      BY <1>0 DEF Covers, Placeable
    <3> HIDE DEF s
    <3> QED BY <2>2, <3>1, <3>2 DEF Placeable, s
  <2> HIDE DEF s
  <2>4. GivenBack(k + 1, h, sh, u, t) <=> GivenBack(k, h, sh, u, d)
    <3>1. Refusals(t) = Refusals(d)
      BY <1>2, RefusalsTail DEF t
    <3>2. ASSUME h = k + 1 PROVE sh[h].event.by \notin Refusals(d)
      <4>1. sh[h].event.by = led[k + 1].by
        BY <1>8, <3>2
      <4> QED BY <1>2, <1>3, <4>1, RefusalsAre
    <3>3. h > k /\ (h > k + 1 \/ h = k + 1)
      BY <1>8
    <3> QED BY <3>1, <3>2, <3>3 DEF GivenBack
  <2>5. OnThePage(k + 1, h, led, sh, u, t)
    BY <1>0, <2>4 DEF Covers, OnThePage
  <2> QED BY <1>0, <2>3, <2>5 DEF Covers
<1>15. InStep(k + 1, h, led, sh, una \ {id}, tp, u, t, w)
  BY <1>10, <1>11, <1>14 DEF InStep
<1>16. d[1].seq \in Nat /\ d[1].seq <= tp
  <2>1. k + 1 \in k + 1..Len(sh)
    BY <1>1, <1>8
  <2> QED BY <1>1, <1>3, <1>8, <2>1
<1> QED BY <1>1, <1>9, <1>13, <1>15, <1>16 DEF id, t

\* sh2 is the copy without its i-th event.
Less(sh2, sh, i) ==
  /\ sh2 \in Seq(Sheet) /\ Len(sh2) = Len(sh) - 1
  /\ \A j \in 1..i - 1 : sh2[j] = sh[j]
  /\ \A j \in i..Len(sh) - 1 : sh2[j] = sh[j + 1]

\* A refused event leaves the copy; it is an own one that the service has answered.
LEMMA RefusedEntry ==
  ASSUME NEW k \in Nat, NEW h \in Nat, NEW led, NEW sh, NEW una, NEW tp, NEW u, NEW d, NEW w,
         InStep(k, h, led, sh, una, tp, u, d, w), Linked(k, h, led, sh, u, d), d # <<>>, d[1].op = "reject",
         NEW i \in 1..Len(sh), sh[i].event.by = d[1].id
  PROVE  /\ i \in k + 1..h /\ Own(sh[i].event) /\ d[1].id \in una
         /\ \A p \in 1..Len(led) : led[p].by # d[1].id
         /\ sh[i].event.type \in {"removed", "updated"} => i = Len(sh)
<1>0. /\ Copy(k, h, led, sh, una, tp) /\ Order(k, h, led, sh, w) /\ News(k, h, led, sh, d)
  BY DEF InStep, Linked
<1>1. sh \in Seq(Sheet) /\ Len(sh) \in Nat /\ 1 <= k /\ k <= h /\ h <= Len(sh) /\ Rising(EventsOf(sh))
  BY <1>0, CopyFacts
<1>2. 1 \in DOMAIN d /\ Refused(k, h, led, sh, d)
  BY <1>0 DEF News
<1>3. /\ \A p \in 1..Len(led) : led[p].by # d[1].id
      /\ \E a \in k + 1..h : sh[a].event.by = d[1].id /\ (sh[a].event.type \in {"removed", "updated"} => a = Len(sh))
  BY <1>2 DEF Refused
<1>4. PICK a \in k + 1..h : sh[a].event.by = d[1].id /\ (sh[a].event.type \in {"removed", "updated"} => a = Len(sh))
  BY <1>3
<1>5. a \in k + 1..Len(sh) /\ a \in 1..Len(sh)
  BY <1>1
<1>6. Own(sh[a].event)
  BY <1>0, <1>5 DEF Copy
<1>7. a = i
  BY <1>1, <1>4, <1>5, <1>6, OneEntry
<1>8. d[1].id \in una
  BY <1>0, <1>4, <1>5 DEF Copy
<1> QED BY <1>3, <1>4, <1>6, <1>7, <1>8

LEMMA LessEvents ==
  ASSUME NEW sh \in Seq(Sheet), NEW sh2, NEW i \in 1..Len(sh), Less(sh2, sh, i),
         \A j \in i..Len(sh) : Own(sh[j].event)
  PROVE  Dropped(EventsOf(sh2), EventsOf(sh), i)
<1>1. sh2 \in Seq(Sheet) /\ Len(sh2) = Len(sh) - 1
  BY DEF Less
<1> DEFINE s == EventsOf(sh)
           r == EventsOf(sh2)
<1>2. Len(s) = Len(sh) /\ Len(sh) \in Nat /\ \A j \in 1..Len(sh) : s[j] = sh[j].event
  BY EventsAre
<1>3. Len(r) = Len(sh2) /\ Len(sh2) \in Nat /\ \A j \in 1..Len(sh2) : r[j] = sh2[j].event
  BY <1>1, EventsAre
<1> HIDE DEF s, r
<1>4. ASSUME NEW j \in 1..i - 1 PROVE r[j] = s[j]
  <2>1. j \in 1..Len(sh) /\ j \in 1..Len(sh2) /\ sh2[j] = sh[j]
    BY <1>1, <1>2 DEF Less
  <2> QED BY <1>2, <1>3, <2>1
<1>5. ASSUME NEW j \in i..Len(s) - 1 PROVE r[j] = s[j + 1]
  <2>1. j + 1 \in 1..Len(sh) /\ j \in 1..Len(sh2) /\ sh2[j] = sh[j + 1]
    BY <1>1, <1>2 DEF Less
  <2> QED BY <1>2, <1>3, <2>1
<1>6. ASSUME NEW j \in i..Len(s) PROVE Own(s[j])
  <2>1. j \in 1..Len(sh) /\ j \in i..Len(sh)
    BY <1>2
  <2> QED BY <1>2, <2>1
<1>7. i \in 1..Len(s) /\ Len(r) = Len(s) - 1
  BY <1>1, <1>2, <1>3
<1> QED BY <1>4, <1>5, <1>6, <1>7 DEF Dropped, s, r

LEMMA RejectCopy ==
  ASSUME NEW k \in Nat, NEW h \in Nat, NEW led, NEW sh, NEW una, NEW tp, NEW u, NEW d, NEW w,
         InStep(k, h, led, sh, una, tp, u, d, w), Linked(k, h, led, sh, u, d), d # <<>>, d[1].op = "reject",
         NEW i \in 1..Len(sh), sh[i].event.by = d[1].id, NEW sh2, Less(sh2, sh, i)
  PROVE  /\ Copy(k, h - 1, led, sh2, una \ {d[1].id}, sh2[Len(sh2)].seq) /\ Order(k, h - 1, led, sh2, w)
         /\ Linked(k, h - 1, led, sh2, u, Tail(d)) /\ Placeable(k, sh2)
<1> DEFINE id == d[1].id
           t == Tail(d)
<1>0. /\ Copy(k, h, led, sh, una, tp) /\ Order(k, h, led, sh, w) /\ Covers(k, h, led, sh, u, d)
      /\ Linked(k, h, led, sh, u, d) /\ News(k, h, led, sh, d)
  BY DEF InStep, Linked
<1>1. /\ led \in Seq(Happening) /\ sh \in Seq(Sheet) /\ Len(sh) \in Nat /\ Len(led) \in Nat
      /\ 1 <= k /\ k <= h /\ h <= Len(sh) /\ k <= Len(led)
      /\ Rising(led) /\ Rising(EventsOf(sh))
  BY <1>0, CopyFacts
<1>2. /\ i \in k + 1..h /\ Own(sh[i].event) /\ id \in una
      /\ \A p \in 1..Len(led) : led[p].by # id
      /\ sh[i].event.type \in {"removed", "updated"} => i = Len(sh)
  <2> HIDE DEF id, t
  <2>1. /\ InStep(k, h, led, sh, una, tp, u, d, w) /\ Linked(k, h, led, sh, u, d) /\ d # <<>> /\ d[1].op = "reject"
        /\ i \in 1..Len(sh) /\ sh[i].event.by = d[1].id
    OBVIOUS
  <2>2. /\ i \in k + 1..h /\ Own(sh[i].event) /\ d[1].id \in una
        /\ \A p \in 1..Len(led) : led[p].by # d[1].id
        /\ sh[i].event.type \in {"removed", "updated"} => i = Len(sh)
    BY <2>1, RefusedEntry
  <2> QED BY <2>2 DEF id
<1>3. /\ sh2 \in Seq(Sheet) /\ Len(sh2) = Len(sh) - 1 /\ Len(sh2) \in Nat
      /\ \A j \in 1..i - 1 : sh2[j] = sh[j]
      /\ \A j \in i..Len(sh) - 1 : sh2[j] = sh[j + 1]
  <2>1. sh2 \in Seq(Sheet)
    BY DEF Less
  <2>2. Len(sh2) \in Nat
    BY <2>1, EventsAre
  <2>3. Len(sh2) = Len(sh) - 1
    BY DEF Less
  <2>4. \A j \in 1..i - 1 : sh2[j] = sh[j]
    BY DEF Less
  <2>5. \A j \in i..Len(sh) - 1 : sh2[j] = sh[j + 1]
    BY DEF Less
  <2> QED BY <2>1, <2>2, <2>3, <2>4, <2>5
<1>4. d \in Seq(Msgs) /\ InTurn(k, led, d) /\ Truthful(k, led, d) /\ Refused(k, h, led, sh, d) /\ ~Advances(d[1])
  BY <1>0 DEF News, Advances
<1>5. t \in Seq(Msgs) /\ InTurn(k, led, t) /\ Truthful(k, led, t)
  BY <1>1, <1>4, SkipMessage
<1>6. /\ Len(t) = Len(d) - 1 /\ Len(d) \in Nat /\ DOMAIN d = 1..Len(d) /\ DOMAIN t = 1..Len(t)
      /\ \A j \in DOMAIN t : t[j] = d[j + 1] /\ j + 1 \in DOMAIN d /\ j \in Nat
      /\ 1 \in DOMAIN d
  <2> DEFINE M == Msgs
  <2>1. d \in Seq(M)
    BY <1>4
  <2> HIDE DEF M
  <2> QED BY <2>1
<1>7. sh[i].event.by = id
  OBVIOUS
<1> HIDE DEF id, t
\* Where an event of the shorter copy was.
<1> DEFINE Old(j) == IF j < i THEN j ELSE j + 1
<1>8. ASSUME NEW j \in 1..Len(sh2) PROVE Old(j) \in 1..Len(sh) /\ Old(j) # i /\ sh2[j] = sh[Old(j)]
  <2>1. CASE j < i
    <3>1. j \in 1..i - 1
      BY <2>1
    <3> QED BY <1>1, <1>3, <2>1, <3>1
  <2>2. CASE ~(j < i)
    <3>1. j \in i..Len(sh) - 1
      BY <1>1, <1>3, <2>2
    <3> QED BY <1>1, <1>3, <2>2, <3>1
  <2> QED BY <2>1, <2>2
<1>9. \A j \in 1..Len(sh) : j # i => \E a \in 1..Len(sh2) : Old(a) = j
  <2> TAKE j \in 1..Len(sh)
  <2> HAVE j # i
  <2>1. CASE j < i
    <3>1. j \in 1..Len(sh2) /\ Old(j) = j
      BY <1>1, <1>3, <2>1
    <3> QED BY <3>1
  <2>2. CASE ~(j < i)
    <3>1. j - 1 \in 1..Len(sh2) /\ Old(j - 1) = j
      BY <1>1, <1>3, <2>2
    <3> QED BY <3>1
  <2> QED BY <2>1, <2>2
<1>10. /\ \A a, b \in 1..Len(sh2) : a < b => Old(a) < Old(b)
       /\ \A a \in 1..Len(sh2) : /\ (a <= k => Old(a) = a) /\ (a > k => Old(a) > k)
                                 /\ (a >= h => Old(a) = a + 1) /\ (a >= k => Old(a) >= k) /\ (Old(a) <= h => a <= h - 1)
                                 /\ (Old(a) > k => a > k)
       /\ k <= Len(sh2) /\ k <= h - 1 /\ h - 1 <= Len(sh2)
       /\ \A a \in 1..Len(sh2) : Old(a) = Len(sh) => a = Len(sh2)
  BY <1>1, <1>2, <1>3
<1>16. \A a \in 1..Len(sh2) : (a < i => Old(a) = a) /\ (a >= i => Old(a) = a + 1)
  OBVIOUS
<1> HIDE DEF Old
<1>11. Copy(k, h - 1, led, sh2, una \ {id}, sh2[Len(sh2)].seq)
  <2>1. \A a \in 1..k : sh2[a].seq = a /\ sh2[a].event = led[a]
    <3> TAKE a \in 1..k
    <3>1. a \in 1..Len(sh2) /\ Old(a) = a
      BY <1>3, <1>10
    <3> QED BY <1>0, <1>8, <3>1 DEF Copy
  <2>2. \A a \in k + 1..Len(sh2) : Own(sh2[a].event)
    <3> TAKE a \in k + 1..Len(sh2)
    <3>1. a \in 1..Len(sh2) /\ a > k
      BY <1>3
    <3>2. Old(a) \in k + 1..Len(sh) /\ sh2[a] = sh[Old(a)]
      BY <1>1, <1>8, <1>10, <3>1
    <3> QED BY <1>0, <3>2 DEF Copy
  <2>3. \A a, b \in k..Len(sh2) : a < b => sh2[a].seq < sh2[b].seq
    <3> TAKE a, b \in k..Len(sh2)
    <3> HAVE a < b
    <3>1. a \in 1..Len(sh2) /\ b \in 1..Len(sh2) /\ a >= k /\ b >= k
      BY <1>1, <1>3
    <3>2. Old(a) \in k..Len(sh) /\ Old(b) \in k..Len(sh) /\ Old(a) < Old(b) /\ sh2[a] = sh[Old(a)] /\ sh2[b] = sh[Old(b)]
      BY <1>1, <1>8, <1>10, <3>1
    <3> QED BY <1>0, <3>2 DEF Copy
  <2>4. una \ {id} = {sh2[a].event.by : a \in k + 1..Len(sh2)}
    <3>1. una = {sh[a].event.by : a \in k + 1..Len(sh)}
      BY <1>0 DEF Copy
    <3>2. ASSUME NEW a \in k + 1..Len(sh), sh[a].event.by # id
          PROVE  \E b \in k + 1..Len(sh2) : sh2[b].event.by = sh[a].event.by
      <4>1. a \in 1..Len(sh) /\ a # i /\ a > k
        BY <1>1, <1>7, <3>2
      <4>2. PICK b \in 1..Len(sh2) : Old(b) = a
        BY <1>9, <4>1
      <4>3. b \in k + 1..Len(sh2) /\ sh2[b] = sh[a]
        BY <1>3, <1>8, <1>10, <4>1, <4>2
      <4> QED BY <4>3
    <3>3. ASSUME NEW b \in k + 1..Len(sh2)
          PROVE  /\ sh2[b].event.by # id
                 /\ \E a \in k + 1..Len(sh) : sh2[b].event.by = sh[a].event.by
      <4>1. b \in 1..Len(sh2) /\ b > k
        BY <1>3
      <4>2. Old(b) \in 1..Len(sh) /\ Old(b) # i /\ sh2[b] = sh[Old(b)] /\ Old(b) > k
        BY <1>8, <1>10, <4>1
      <4>3. Old(b) \in k + 1..Len(sh)
        BY <1>1, <4>2
      <4>4. sh[Old(b)].event.by # id
        BY <1>1, <1>2, <1>7, <4>2, OneEntry
      <4> QED BY <4>2, <4>3, <4>4
    <3> DEFINE B == {sh2[a].event.by : a \in k + 1..Len(sh2)}
    <3>4. ASSUME NEW x \in una \ {id} PROVE x \in B
      <4>1. PICK a \in k + 1..Len(sh) : x = sh[a].event.by
        BY <3>1
      <4> QED BY <3>2, <4>1
    <3>5. ASSUME NEW x \in B PROVE x \in una \ {id}
      <4>1. PICK b \in k + 1..Len(sh2) : x = sh2[b].event.by
        OBVIOUS
      <4> HIDE DEF B
      <4>2. x # id /\ \E a \in k + 1..Len(sh) : x = sh[a].event.by
        BY <3>3, <4>1
      <4> QED BY <3>1, <4>2
    <3> HIDE DEF B
    <3>6. una \ {id} = B
      BY <3>4, <3>5
    <3> QED BY <3>6 DEF B
  <2>5. k \in 1..Len(sh2) /\ h - 1 \in k..Len(sh2)
    BY <1>1, <1>3, <1>10
  <2> QED BY <1>1, <1>3, <2>1, <2>2, <2>3, <2>4, <2>5 DEF Copy
<1>12. Order(k, h - 1, led, sh2, w)
  <2>1. Rising(EventsOf(sh2))
    <3>1. \A j \in i..Len(sh) : Own(sh[j].event)
      <4> TAKE j \in i..Len(sh)
      <4>1. j \in k + 1..Len(sh)
        BY <1>1, <1>2
      <4> QED BY <1>0, <4>1 DEF Copy
    <3>2. Dropped(EventsOf(sh2), EventsOf(sh), i)
      BY <1>1, <3>1, LessEvents
    <3> DEFINE s == EventsOf(sh)
               r == EventsOf(sh2)
    <3>3. s \in Seq(Happening) /\ r \in Seq(Happening) /\ Rising(s) /\ Dropped(r, s, i)
      BY <1>1, <1>3, <3>2, EventsAre
    <3> HIDE DEF s, r
    <3>4. Rising(r)
      BY <3>3, DropRising
    <3> QED BY <3>4 DEF r
  <2>2. \A a \in 1..Len(led), j \in h..Len(sh2) : led[a].by < sh2[j].event.by
    <3> TAKE a \in 1..Len(led), j \in h..Len(sh2)
    <3>1. j \in 1..Len(sh2) /\ j >= h
      BY <1>1, <1>3
    <3>2. j + 1 \in h + 1..Len(sh) /\ sh2[j] = sh[j + 1]
      BY <1>1, <1>3, <1>8, <1>10, <3>1
    <3> QED BY <1>0, <3>2 DEF Order
  <2>3. \A j \in 1..Len(sh2) : sh2[j].event.by <= w
    BY <1>0, <1>8 DEF Order
  <2>4. \A p \in k + 1..Len(led) : Own(led[p]) => \E a \in k + 1..h - 1 : sh2[a].event = led[p]
    <3> TAKE p \in k + 1..Len(led)
    <3> HAVE Own(led[p])
    <3>1. PICK a \in k + 1..h : sh[a].event = led[p]
      BY <1>0 DEF Order
    <3>2. a \in 1..Len(sh) /\ a # i /\ a > k /\ a <= h
      <4>1. p \in 1..Len(led)
        BY <1>1
      <4> QED BY <1>1, <1>2, <1>7, <3>1, <4>1
    <3>3. PICK b \in 1..Len(sh2) : Old(b) = a
      BY <1>9, <3>2
    <3>4. b \in k + 1..h - 1 /\ sh2[b] = sh[a]
      BY <1>3, <1>8, <1>10, <3>2, <3>3
    <3> QED BY <3>1, <3>4
  <2>5. (h - 1) + 1 = h
    OBVIOUS
  <2> QED BY <1>0, <2>1, <2>2, <2>3, <2>4, <2>5 DEF Order
<1>13. Refused(k, h - 1, led, sh2, t)
  <2>1. ASSUME NEW j \in DOMAIN t, t[j].op = "reject"
        PROVE  /\ \A p \in 1..Len(led) : led[p].by # t[j].id
               /\ \E a \in k + 1..h - 1 : sh2[a].event.by = t[j].id /\ (sh2[a].event.type \in {"removed", "updated"} => a = Len(sh2))
    <3>1. j + 1 \in DOMAIN d /\ t[j] = d[j + 1] /\ j + 1 # 1
      BY <1>6
    <3>2. /\ \A p \in 1..Len(led) : led[p].by # t[j].id
          /\ \E a \in k + 1..h : sh[a].event.by = t[j].id /\ (sh[a].event.type \in {"removed", "updated"} => a = Len(sh))
      BY <1>4, <2>1, <3>1 DEF Refused
    <3>3. PICK a \in k + 1..h : sh[a].event.by = t[j].id /\ (sh[a].event.type \in {"removed", "updated"} => a = Len(sh))
      BY <3>2
    <3>4. t[j].id # id
      BY <1>4, <1>6, <2>1, <3>1 DEF Refused, id
    <3>5. a \in 1..Len(sh) /\ a # i /\ a > k /\ a <= h
      BY <1>1, <1>7, <3>3, <3>4
    <3>6. PICK b \in 1..Len(sh2) : Old(b) = a
      BY <1>9, <3>5
    <3>7. b \in k + 1..h - 1 /\ sh2[b] = sh[a] /\ (a = Len(sh) => b = Len(sh2))
      BY <1>3, <1>8, <1>10, <3>5, <3>6
    <3> QED BY <3>2, <3>3, <3>7
  <2>2. ASSUME NEW a \in DOMAIN t, NEW b \in DOMAIN t, t[a].op = "reject", t[b].op = "reject", t[a].id = t[b].id
        PROVE  a = b
    <3>1. a + 1 = b + 1
      BY <1>4, <1>6, <2>2 DEF Refused
    <3> QED BY <1>6, <3>1
  <2> QED BY <2>1, <2>2 DEF Refused
<1>14. Linked(k, h - 1, led, sh2, u, t)
  <2>1. u \in Seq(Calls) /\ Len(sh) = h + Len(u) /\ Len(u) \in Nat
        /\ \A a \in 1..Len(u) : u[a].op = "event" /\ u[a].event = sh[h + a].event
    BY <1>0 DEF Linked
  <2>2. Len(sh2) = (h - 1) + Len(u)
    BY <1>3, <2>1
  <2>3. \A a \in 1..Len(u) : u[a].event = sh2[(h - 1) + a].event
    <3> TAKE a \in 1..Len(u)
    <3>1. (h - 1) + a \in 1..Len(sh2) /\ (h - 1) + a >= h /\ ((h - 1) + a) + 1 = h + a
      BY <1>1, <2>1, <2>2
    <3>2. sh2[(h - 1) + a] = sh[h + a]
      BY <1>8, <1>10, <3>1
    <3> QED BY <2>1, <3>2
  <2> QED BY <1>5, <1>13, <2>1, <2>2, <2>3 DEF Linked, News
<1>15. Placeable(k, sh2)
  <2> DEFINE s == EventsOf(sh)
             r == EventsOf(sh2)
  <2>1. /\ s \in Seq(Happening) /\ Len(s) = Len(sh) /\ \A j \in 1..Len(sh) : s[j] = sh[j].event
        /\ r \in Seq(Happening) /\ Len(r) = Len(sh2) /\ \A j \in 1..Len(sh2) : r[j] = sh2[j].event
    BY <1>1, <1>3, EventsAre
  <2>2. /\ \A a \in k + 1..Len(sh) : sh[a].event.type = "bet" => After(s, k).rounds[sh[a].event.round] = "open"
        /\ \A a \in k + 1..Len(sh) : sh[a].event.type = "updated" => Pressable(After(s, a - 1), sh[a].event)
    BY <1>0 DEF Covers, Placeable
  <2>3. Dropped(r, s, i)
    <3>1. \A j \in i..Len(sh) : Own(sh[j].event)
      <4> TAKE j \in i..Len(sh)
      <4>1. j \in k + 1..Len(sh)
        BY <1>1, <1>2
      <4> QED BY <1>0, <4>1 DEF Copy
    <3> QED BY <1>1, <3>1, LessEvents
  <2>4. Rising(s)
    BY <1>1
  <2> HIDE DEF s, r
  <2>5. \A n \in 0..i - 1 : After(r, n) = After(s, n)
    <3> TAKE n \in 0..i - 1
    <3>1. n \in Nat /\ n <= Len(s) /\ n <= Len(r)
      BY <1>1, <1>3, <2>1
    <3>2. \A j \in 1..n : r[j] = s[j]
      BY <2>3 DEF Dropped
    <3> QED BY <2>1, <3>1, <3>2, AfterSame
  <2>6. ASSUME NEW a \in k + 1..Len(sh2), sh2[a].event.type = "bet" PROVE After(r, k).rounds[sh2[a].event.round] = "open"
    <3>1. a \in 1..Len(sh2) /\ a > k /\ k \in 0..i - 1
      BY <1>1, <1>2, <1>3
    <3>2. Old(a) \in k + 1..Len(sh) /\ sh2[a] = sh[Old(a)]
      BY <1>1, <1>8, <1>10, <3>1
    <3> QED BY <2>2, <2>5, <2>6, <3>1, <3>2
  <2>7. ASSUME NEW a \in k + 1..Len(sh2), sh2[a].event.type = "updated"
        PROVE  Pressable(After(r, a - 1), sh2[a].event)
    <3>1. a \in 1..Len(sh2) /\ a > k
      BY <1>3
    <3>2. Old(a) \in k + 1..Len(sh) /\ sh2[a] = sh[Old(a)]
      BY <1>1, <1>8, <1>10, <3>1
    <3>3. Pressable(After(s, Old(a) - 1), sh2[a].event)
      BY <2>2, <2>7, <3>2
    <3>4. CASE a < i
      <4>1. Old(a) = a /\ a - 1 \in 0..i - 1
        BY <1>16, <3>1, <3>4
      <4> QED BY <2>5, <3>3, <4>1
    <3>5. CASE a >= i
      <4>1. Old(a) = a + 1 /\ (a + 1) - 1 = a /\ a \in i..Len(s)
        BY <1>3, <1>16, <2>1, <3>1, <3>5
      <4>2. s[i].type \in {"bet", "toggled"}
        <5>1. i # Len(sh)
          BY <1>3, <3>1, <3>5
        <5>2. sh[i].event \in Happening
          BY <1>1, EventsAre
        <5> QED BY <1>2, <2>1, <5>1, <5>2 DEF Happening
      <4>3. LessOne(After(r, a - 1), After(s, a), s[i].by)
        BY <2>1, <2>3, <2>4, <4>1, <4>2, DropBet
      <4>4. Pressable(After(s, a), sh2[a].event)
        BY <3>3, <4>1
      <4> QED BY <4>3, <4>4, PressableLess
    <3> QED BY <1>2, <3>1, <3>4, <3>5
  <2> QED BY <2>6, <2>7 DEF Placeable, r
<1> QED BY <1>11, <1>12, <1>14, <1>15 DEF id, t

\* The chips when an event is refused: a bet gives its own back; a removal or a press is the last
\* event.
LEMMA RejectCovers ==
  ASSUME NEW k \in Nat, NEW h \in Nat, NEW led, NEW sh, NEW una, NEW tp, NEW u, NEW d, NEW w,
         InStep(k, h, led, sh, una, tp, u, d, w), Linked(k, h, led, sh, u, d), d # <<>>, d[1].op = "reject",
         NEW i \in 1..Len(sh), sh[i].event.by = d[1].id, NEW sh2, Less(sh2, sh, i)
  PROVE  NoDebt(EventsOf(sh2)) /\ OnThePage(k, h - 1, led, sh2, u, Tail(d))
<1> DEFINE id == d[1].id
           t == Tail(d)
           s == EventsOf(sh)
           r == EventsOf(sh2)
<1>0. /\ Copy(k, h, led, sh, una, tp) /\ Order(k, h, led, sh, w) /\ Covers(k, h, led, sh, u, d)
      /\ News(k, h, led, sh, d) /\ Refused(k, h, led, sh, d) /\ d \in Seq(Msgs)
      /\ Len(sh) = h + Len(u) /\ u \in Seq(Calls)
  BY DEF InStep, Linked, News
<1>1. /\ led \in Seq(Happening) /\ sh \in Seq(Sheet) /\ Len(sh) \in Nat /\ Len(led) \in Nat
      /\ 1 <= k /\ k <= h /\ h <= Len(sh) /\ k <= Len(led)
      /\ Rising(led) /\ Rising(s)
  BY <1>0, CopyFacts
<1>2. /\ i \in k + 1..h /\ Own(sh[i].event) /\ id \in una
      /\ \A p \in 1..Len(led) : led[p].by # id
      /\ sh[i].event.type \in {"removed", "updated"} => i = Len(sh)
  <2> HIDE DEF id, t, s, r
  <2>1. /\ InStep(k, h, led, sh, una, tp, u, d, w) /\ Linked(k, h, led, sh, u, d) /\ d # <<>> /\ d[1].op = "reject"
        /\ i \in 1..Len(sh) /\ sh[i].event.by = d[1].id
    OBVIOUS
  <2>2. /\ i \in k + 1..h /\ Own(sh[i].event) /\ d[1].id \in una
        /\ \A p \in 1..Len(led) : led[p].by # d[1].id
        /\ sh[i].event.type \in {"removed", "updated"} => i = Len(sh)
    BY <2>1, RefusedEntry
  <2> QED BY <2>2 DEF id
<1>3. sh2 \in Seq(Sheet) /\ Len(sh2) = Len(sh) - 1
  BY DEF Less
<1>4. /\ s \in Seq(Happening) /\ Len(s) = Len(sh) /\ \A j \in 1..Len(sh) : s[j] = sh[j].event /\ s[j] \in Happening
      /\ r \in Seq(Happening) /\ Len(r) = Len(sh2) /\ \A j \in 1..Len(sh2) : r[j] = sh2[j].event
  BY <1>1, <1>3, EventsAre
<1>5. Dropped(r, s, i)
  <2>1. \A j \in i..Len(sh) : Own(sh[j].event)
    <3> TAKE j \in i..Len(sh)
    <3>1. j \in k + 1..Len(sh)
      BY <1>1, <1>2
    <3> QED BY <1>0, <3>1 DEF Copy
  <2> QED BY <1>1, <2>1, LessEvents
<1>6. sh[i].event.by = id /\ s[i].by = id /\ i \in 1..Len(s)
  BY <1>4
<1>7. NoDebt(s) /\ OnThePage(k, h, led, sh, u, d)
  BY <1>0 DEF Covers
<1>8. Refusals(d) = Refusals(t) \cup {id}
  BY <1>0, RefusalsTail
<1> HIDE DEF s, r, id, t
<1>12. u = <<>> => h = Len(sh)
  BY <1>0, <1>1
<1>13. ASSUME i = h PROVE ~GivenBack(k, h - 1, sh2, u, t)
  <2> SUFFICES ASSUME GivenBack(k, h - 1, sh2, u, t) PROVE FALSE
    OBVIOUS
  <2>1. h - 1 > k /\ sh2[h - 1].event.type \in {"removed", "updated"} /\ sh2[h - 1].event.by \in Refusals(d) /\ h = Len(sh)
    BY <1>8, <1>12 DEF GivenBack
  <2>2. h - 1 \in 1..i - 1 /\ h - 1 \in 1..Len(sh) /\ h - 1 \in k + 1..Len(sh)
    BY <1>1, <1>13, <2>1
  <2>10. Own(sh[h - 1].event)
    BY <1>0, <2>2 DEF Copy
  <2>11. \A j \in 1..i - 1 : sh2[j] = sh[j]
    BY DEF Less
  <2>3. sh2[h - 1] = sh[h - 1] /\ Own(sh[h - 1].event)
    BY <2>2, <2>10, <2>11
  <2>4. PICK x : x = sh[h - 1].event.by
    OBVIOUS
  <2>5. \E a \in k + 1..h : sh[a].event.by = x /\ (sh[a].event.type \in {"removed", "updated"} => a = Len(sh))
    <3>1. x \in Refusals(d) /\ Refused(k, h, led, sh, d)
      BY <1>0, <2>1, <2>3, <2>4
    <3> QED BY <3>1, RefusalsAre
  <2>6. PICK a \in k + 1..h : sh[a].event.by = x /\ (sh[a].event.type \in {"removed", "updated"} => a = Len(sh))
    BY <2>5
  <2>7. PICK c : c = h - 1
    OBVIOUS
  <2>8. c \in 1..Len(sh) /\ a \in 1..Len(sh) /\ Own(sh[c].event) /\ sh[c].event.by = sh[a].event.by
    BY <1>1, <2>2, <2>3, <2>4, <2>6, <2>7
  <2>14. Rising(EventsOf(sh)) /\ sh \in Seq(Sheet)
    BY <1>1 DEF s
  <2>9. c = a
    BY <2>8, <2>14, OneEntry
  <2>12. sh[a].event.type \in {"removed", "updated"} /\ a = h - 1
    BY <2>1, <2>3, <2>7, <2>9
  <2>13. a = Len(sh)
    BY <2>6, <2>12
  <2> QED BY <1>1, <2>1, <2>12, <2>13
<1>9. CASE s[i].type \in {"removed", "updated"}
  <2>1. i = Len(sh) /\ h = Len(sh) /\ h = i /\ u = <<>> /\ h > k
    BY <1>0, <1>1, <1>2, <1>4, <1>9
  <2>2. \A n \in 0..h - 1 : After(r, n) = After(s, n)
    <3> TAKE n \in 0..h - 1
    <3>1. n \in Nat /\ n <= Len(s) /\ n <= Len(r)
      BY <1>1, <1>3, <1>4, <2>1
    <3>2. \A j \in 1..n : r[j] = s[j]
      BY <1>5, <2>1 DEF Dropped
    <3> QED BY <1>4, <3>1, <3>2, AfterSame
  <2>3. NoDebt(r)
    <3>1. Len(r) = h - 1 /\ \A n \in 0..h - 1 : n \in 0..Len(s)
      BY <1>1, <1>3, <1>4, <2>1
    <3> QED BY <1>7, <2>2, <3>1 DEF NoDebt
  <2>4. GivenBack(k, h, sh, u, d)
    BY <1>4, <1>6, <1>8, <1>9, <2>1 DEF GivenBack
  <2>5. h - 1 \in 0..h - 1
    BY <1>1
  <2>6. Under(TableAfter(led).bets, After(r, h - 1).bets)
    BY <1>7, <2>2, <2>4, <2>5 DEF OnThePage, s
  <2>7. ~GivenBack(k, h - 1, sh2, u, t)
    BY <1>13, <2>1
  <2> QED BY <2>3, <2>6, <2>7 DEF OnThePage, r, t
<1>10. CASE s[i].type \in {"bet", "toggled"}
  <2>1. /\ \A n \in 0..i - 1 : After(r, n) = After(s, n)
        /\ \A n \in i..Len(s) : /\ LessOne(After(r, n - 1), After(s, n), s[i].by)
                                /\ After(s, n).bank <= After(r, n - 1).bank
    BY <1>1, <1>4, <1>5, <1>10, DropBet
  <2>2. NoDebt(r)
    <3> SUFFICES ASSUME NEW n \in 0..Len(r) PROVE After(r, n).bank >= 0
      BY DEF NoDebt
    <3>1. CASE n <= i - 1
      <4>1. n \in 0..i - 1 /\ n \in 0..Len(s)
        BY <1>1, <1>3, <1>4, <3>1
      <4>2. After(s, n).bank >= 0
        BY <1>7, <4>1 DEF NoDebt
      <4> QED BY <2>1, <4>1, <4>2
    <3>2. CASE n >= i
      <4> DEFINE m == n + 1
      <4>1. m \in i..Len(s) /\ m - 1 = n /\ m \in 0..Len(s) /\ m \in 1..Len(s) /\ n \in 0..Len(r)
        BY <1>1, <1>3, <1>4, <3>2
      <4> HIDE DEF m
      <4>2. After(s, m).bank <= After(r, n).bank
        BY <2>1, <4>1
      <4>3. After(s, m).bank >= 0
        BY <1>7, <4>1 DEF NoDebt
      <4>4. After(s, m).bank \in Int /\ After(r, n).bank \in Int
        <5>1. After(s, m) \in Tables /\ After(r, n) \in Tables
          BY <1>4, <4>1, AfterSteps
        <5> QED BY <5>1, WealthType
      <4> QED BY <4>2, <4>3, <4>4
    <3>3. n <= i - 1 \/ n >= i
      OBVIOUS
    <3> QED BY <3>1, <3>2, <3>3
  <2>3. \A b \in TableAfter(led).bets : b.id # id
    <3> TAKE b \in TableAfter(led).bets
    <3> DEFINE m == Len(led)
    <3>1. m \in Nat /\ m <= Len(led) /\ After(led, m) = TableAfter(led)
      BY <1>1, AfterSteps
    <3> HIDE DEF m
    <3>2. PICK p \in 1..m : led[p].type = "bet" /\ led[p].by = b.id
      BY <1>1, <3>1, BetIds
    <3>3. p \in 1..Len(led)
      BY <1>1, <3>1
    <3> QED BY <1>2, <3>2, <3>3
  <2>4. ASSUME NEW n \in i..Len(s), Under(TableAfter(led).bets, After(s, n).bets)
        PROVE  Under(TableAfter(led).bets, After(r, n - 1).bets)
    <3>1. LessOne(After(r, n - 1), After(s, n), id)
      BY <1>6, <2>1
    <3> DEFINE A == TableAfter(led).bets
               B == After(s, n).bets
               C == After(r, n - 1).bets
    <3>2. \A b \in B : b \in C \/ b.id = id
      BY <3>1 DEF LessOne
    <3>3. (\A b \in A : b.id # id) /\ Under(A, B)
      BY <2>3, <2>4
    <3> HIDE DEF A, B, C
    <3>4. Under(A, C)
      BY <3>2, <3>3 DEF Under
    <3> QED BY <3>4 DEF A, C
  <2>5. h \in i..Len(s)
    BY <1>1, <1>2, <1>4
  <2>6. GivenBack(k, h - 1, sh2, u, t) <=> GivenBack(k, h, sh, u, d)
    <3>1. CASE i = h
      <4>1. ~GivenBack(k, h, sh, u, d)
        BY <1>4, <1>10, <3>1 DEF GivenBack
      <4> QED BY <1>13, <3>1, <4>1
    <3>2. CASE i # h
      <4>1. h - 1 \in i..Len(sh) - 1 /\ (h - 1) + 1 = h /\ h - 1 > k /\ h > k /\ i \in 1..Len(sh) /\ h \in 1..Len(sh)
        BY <1>1, <1>2, <3>2
      <4>2. sh2[h - 1] = sh[h]
        BY <4>1 DEF Less
      <4>3. sh[h].event.by # id
        BY <1>1, <1>2, <1>6, <3>2, <4>1, OneEntry DEF s
      <4> QED BY <1>8, <4>1, <4>2, <4>3 DEF GivenBack
    <3> QED BY <3>1, <3>2
  <2>7. CASE GivenBack(k, h, sh, u, d)
    <3>1. h # i /\ h - 1 \in i..Len(s)
      BY <1>1, <1>2, <1>4, <1>10, <2>5, <2>7 DEF GivenBack
    <3>2. Under(TableAfter(led).bets, After(s, h - 1).bets)
      BY <1>7, <2>7 DEF OnThePage, s
    <3>3. Under(TableAfter(led).bets, After(r, (h - 1) - 1).bets)
      BY <2>4, <3>1, <3>2
    <3> QED BY <2>2, <2>6, <2>7, <3>3 DEF OnThePage, r, t
  <2>8. CASE ~GivenBack(k, h, sh, u, d)
    <3>1. Under(TableAfter(led).bets, After(s, h).bets)
      BY <1>7, <2>8 DEF OnThePage, s
    <3>2. Under(TableAfter(led).bets, After(r, h - 1).bets)
      BY <2>4, <2>5, <3>1
    <3> QED BY <2>2, <2>6, <2>8, <3>2 DEF OnThePage, r, t
  <2> QED BY <2>7, <2>8
<1>11. s[i].type \in {"bet", "toggled", "updated", "removed"}
  BY <1>2, <1>4 DEF Happening, Own
<1> QED BY <1>9, <1>10, <1>11 DEF r, t

LEMMA RejectStep ==
  ASSUME NEW k \in Nat, NEW h \in Nat, NEW led, NEW sh, NEW una, NEW tp, NEW u, NEW d, NEW w,
         InStep(k, h, led, sh, una, tp, u, d, w), Linked(k, h, led, sh, u, d), d # <<>>, d[1].op = "reject",
         NEW i \in 1..Len(sh), sh[i].event.by = d[1].id, NEW sh2, Less(sh2, sh, i)
  PROVE  /\ InStep(k, h - 1, led, sh2, una \ {d[1].id}, sh2[Len(sh2)].seq, u, Tail(d), w)
         /\ Linked(k, h - 1, led, sh2, u, Tail(d))
<1>0. /\ InStep(k, h, led, sh, una, tp, u, d, w) /\ Linked(k, h, led, sh, u, d) /\ d # <<>> /\ d[1].op = "reject"
      /\ i \in 1..Len(sh) /\ sh[i].event.by = d[1].id /\ Less(sh2, sh, i)
  OBVIOUS
<1>1. /\ Copy(k, h - 1, led, sh2, una \ {d[1].id}, sh2[Len(sh2)].seq) /\ Order(k, h - 1, led, sh2, w)
      /\ Linked(k, h - 1, led, sh2, u, Tail(d)) /\ Placeable(k, sh2)
  BY <1>0, RejectCopy
<1>2. NoDebt(EventsOf(sh2)) /\ OnThePage(k, h - 1, led, sh2, u, Tail(d))
  BY <1>0, RejectCovers
<1>3. NoDebt(led)
  BY DEF InStep, Covers
<1> QED BY <1>1, <1>2, <1>3 DEF InStep, Covers

\* A copy that is the first n events of the log, with no own event after them.
Begins(sh, led, n) ==
  /\ sh \in Seq(Sheet) /\ Len(sh) = n
  /\ \A i \in 1..n : sh[i].seq = i /\ sh[i].event = led[i]

LEMMA PrefixStep ==
  ASSUME NEW led \in Seq(Happening), Rising(led), NoDebt(led), NEW w \in Nat, \A i \in 1..Len(led) : led[i].by <= w,
         NEW n \in Nat, 1 <= n, n <= Len(led), \A p \in n + 1..Len(led) : ~Own(led[p]),
         NEW sh, Begins(sh, led, n), NEW u, NEW d
  PROVE  InStep(n, n, led, sh, {}, n, u, d, w)
<1>1. sh \in Seq(Sheet) /\ Len(sh) = n /\ Len(led) \in Nat
  BY DEF Begins
<1> DEFINE s == EventsOf(sh)
<1>2. /\ s \in Seq(Happening) /\ Len(s) = n /\ DOMAIN s = 1..n
      /\ \A i \in 1..n : s[i] = sh[i].event
  BY <1>1, EventsAre
<1>3. \A i \in 1..n : s[i] = led[i] /\ sh[i].event = led[i] /\ sh[i].seq = i /\ i \in 1..Len(led)
  BY <1>1, <1>2 DEF Begins
<1> HIDE DEF s
<1>4. \A m \in 0..n : After(s, m) = After(led, m)
  <2> TAKE m \in 0..n
  <2>1. m \in Nat /\ m <= Len(s) /\ m <= Len(led) /\ \A i \in 1..m : s[i] = led[i]
    BY <1>1, <1>2, <1>3
  <2> QED BY <1>2, <2>1, AfterSame
<1>5. Copy(n, n, led, sh, {}, n)
  <2>1. n \in 1..Len(sh) /\ n \in n..Len(sh) /\ n \in 1..n
    BY <1>1
  <2>2. \A i \in n + 1..Len(sh) : FALSE
    BY <1>1
  <2>3. {} = {sh[i].event.by : i \in n + 1..Len(sh)}
    BY <2>2
  <2>4. n = sh[Len(sh)].seq
    BY <1>1, <1>3, <2>1
  <2>5. \A i, j \in n..Len(sh) : i < j => sh[i].seq < sh[j].seq
    BY <1>1
  <2> QED BY <1>1, <1>3, <2>1, <2>2, <2>3, <2>4, <2>5 DEF Copy
<1>6. Rising(s)
  <2>1. \A i \in DOMAIN s : i \in DOMAIN led /\ s[i] = led[i]
    BY <1>1, <1>2, <1>3
  <2> QED BY <2>1 DEF Rising
<1>7. Order(n, n, led, sh, w)
  <2>1. \A i \in 1..Len(led), j \in n + 1..Len(sh) : led[i].by < sh[j].event.by
    BY <1>1
  <2>2. \A i \in 1..Len(sh) : sh[i].event.by <= w
    BY <1>1, <1>3
  <2> QED BY <1>6, <2>1, <2>2 DEF Order, s
<1>8. NoDebt(s)
  <2>1. \A m \in 0..n : m \in 0..Len(led)
    BY <1>1
  <2> QED BY <1>2, <1>4, <2>1 DEF NoDebt
<1>9. Placeable(n, sh)
  BY <1>1 DEF Placeable
<1>10. TableAfter(led).bets \subseteq After(s, n).bets
  <2> DEFINE m == Len(led)
  <2>1. m \in Nat /\ n <= m /\ m <= Len(led) /\ After(led, m) = TableAfter(led) /\ \A p \in n + 1..m : ~Own(led[p])
    BY <1>1, AfterSteps
  <2> HIDE DEF m
  <2>2. After(led, m).bets \subseteq After(led, n).bets
    BY <2>1, DealerRun
  <2>3. n \in 0..n
    OBVIOUS
  <2> QED BY <1>4, <2>1, <2>2, <2>3
<1>12. Under(TableAfter(led).bets, After(s, n).bets)
  BY <1>10, BetsAfter, UnderSubset
<1>13. ~GivenBack(n, n, sh, u, d)
  BY DEF GivenBack
<1>11. Covers(n, n, led, sh, u, d)
  BY <1>8, <1>9, <1>12, <1>13 DEF Covers, OnThePage, s
<1> QED BY <1>5, <1>7, <1>11 DEF InStep

\* Nothing can be refused of a copy that has nothing to be confirmed.
LEMMA NoneRefused ==
  ASSUME NEW k \in Nat, NEW led, NEW sh, NEW sh2, NEW d, Refused(k, k, led, sh, d)
  PROVE  \A m \in Nat : Refused(m, m, led, sh2, d)
<1>1. \A j \in DOMAIN d : d[j].op # "reject"
  BY DEF Refused
<1> QED BY <1>1 DEF Refused

LEMMA TailParts ==
  ASSUME NEW Y, NEW d \in Seq(Y), d # <<>>
  PROVE  /\ Tail(d) \in Seq(Y) /\ Len(Tail(d)) = Len(d) - 1 /\ Len(d) \in Nat
         /\ DOMAIN d = 1..Len(d) /\ DOMAIN Tail(d) = 1..Len(Tail(d)) /\ 1 \in DOMAIN d
         /\ \A j \in DOMAIN Tail(d) : Tail(d)[j] = d[j + 1] /\ j + 1 \in DOMAIN d /\ j \in Nat
         /\ \A j \in DOMAIN d : j # 1 => j - 1 \in DOMAIN Tail(d) /\ Tail(d)[j - 1] = d[j]
<1> DEFINE t == Tail(d)
<1>1. /\ t \in Seq(Y) /\ Len(t) = Len(d) - 1 /\ Len(d) \in Nat
      /\ DOMAIN d = 1..Len(d) /\ DOMAIN t = 1..Len(t) /\ 1 \in DOMAIN d
      /\ \A j \in DOMAIN t : t[j] = d[j + 1] /\ j + 1 \in DOMAIN d /\ j \in Nat
  OBVIOUS
<1> HIDE DEF t
<1>2. ASSUME NEW j \in DOMAIN d, j # 1 PROVE j - 1 \in DOMAIN t /\ t[j - 1] = d[j]
  <2>1. j - 1 \in DOMAIN t /\ (j - 1) + 1 = j
    BY <1>1, <1>2
  <2> QED BY <1>1, <2>1
<1> QED BY <1>1, <1>2 DEF t

LEMMA TailRefused ==
  ASSUME NEW k \in Nat, NEW h \in Nat, NEW led, NEW sh, NEW d \in Seq(Msgs), d # <<>>, Refused(k, h, led, sh, d)
  PROVE  Refused(k, h, led, sh, Tail(d))
<1> DEFINE t == Tail(d)
           M == Msgs
<1>1. d \in Seq(M)
  OBVIOUS
<1> HIDE DEF M
<1>2. /\ DOMAIN t \subseteq Nat
      /\ \A j \in DOMAIN t : t[j] = d[j + 1] /\ j + 1 \in DOMAIN d
  BY <1>1, TailParts
<1> HIDE DEF t
<1>3. ASSUME NEW j \in DOMAIN t, t[j].op = "reject"
      PROVE  /\ \A p \in 1..Len(led) : led[p].by # t[j].id
             /\ \E i \in k + 1..h : sh[i].event.by = t[j].id /\ (sh[i].event.type \in {"removed", "updated"} => i = Len(sh))
  BY <1>2, <1>3 DEF Refused
<1>4. ASSUME NEW a \in DOMAIN t, NEW b \in DOMAIN t, t[a].op = "reject", t[b].op = "reject", t[a].id = t[b].id
      PROVE  a = b
  <2>1. a + 1 = b + 1
    BY <1>2, <1>4 DEF Refused
  <2> QED BY <1>2, <2>1
<1>5. Refused(k, h, led, sh, t)
  BY <1>3, <1>4 DEF Refused
<1> QED BY <1>5 DEF t

\* An event of the dealer comes to a copy that has nothing to be confirmed.
LEMMA DealerSheetStep ==
  ASSUME NEW k \in Nat, NEW h \in Nat, NEW led, NEW sh, NEW una, NEW tp, NEW u, NEW d, NEW w,
         InStep(k, h, led, sh, una, tp, u, d, w), Linked(k, h, led, sh, u, d), d # <<>>,
         d[1].op = "sheet", ~Own(d[1].event), d[1].seq > tp, NEW sh2, sh2 = Append(sh, [seq |-> d[1].seq, event |-> d[1].event])
  PROVE  /\ d[1].seq = tp + 1
         /\ InStep(k + 1, k + 1, led, sh2, una, tp + 1, u, Tail(d), w) /\ Linked(k + 1, k + 1, led, sh2, u, Tail(d))
<1> DEFINE t == Tail(d)
           n == k + 1
<1>0. /\ Copy(k, h, led, sh, una, tp) /\ Order(k, h, led, sh, w) /\ Covers(k, h, led, sh, u, d)
      /\ Linked(k, h, led, sh, u, d) /\ News(k, h, led, sh, d)
  BY DEF InStep, Linked
<1>1. /\ led \in Seq(Happening) /\ sh \in Seq(Sheet) /\ Len(sh) \in Nat /\ Len(led) \in Nat
      /\ 1 <= k /\ k <= h /\ h <= Len(sh) /\ k <= Len(led)
      /\ Rising(led) /\ Rising(EventsOf(sh))
      /\ sh[k].seq = k /\ tp \in Nat
      /\ \A i \in k + 1..Len(sh) : sh[i].seq >= k + 1 /\ sh[i].seq <= tp
      /\ \A i \in 1..Len(sh) : sh[i].seq \in Nat
  BY <1>0, CopyFacts
<1>2. d \in Seq(Msgs) /\ InTurn(k, led, d) /\ Truthful(k, led, d) /\ Refused(k, h, led, sh, d) /\ Advances(d[1])
  BY <1>0 DEF News, Advances
<1>3. /\ d[1].seq = n /\ n \in 1..Len(led)
      /\ t \in Seq(Msgs) /\ InTurn(n, led, t) /\ Truthful(n, led, t)
  BY <1>1, <1>2, NextInTurn
<1>4. d[1].event = led[n]
  <2>1. 1 \in DOMAIN d
    BY <1>2
  <2>2. led[d[1].seq] = d[1].event
    BY <1>2, <2>1 DEF Truthful
  <2> QED BY <1>3, <2>2
<1>5. Len(sh) = k /\ h = k
  <2>1. CASE Len(sh) >= k + 1
    <3>1. k + 1 \in k + 1..Len(sh) /\ k + 1 \in 1..Len(sh)
      BY <1>1, <2>1
    <3>2. sh[k + 1].seq >= k + 1 /\ sh[k + 1].seq <= tp /\ sh[k + 1].seq \in Nat
      BY <1>1, <3>1
    <3> QED BY <1>1, <1>3, <3>2
  <2> QED BY <1>1, <2>1
<1>6. tp = k /\ una = {}
  <2>1. tp = sh[Len(sh)].seq /\ una = {sh[i].event.by : i \in k + 1..Len(sh)}
    BY <1>0 DEF Copy
  <2>2. \A i \in k + 1..Len(sh) : FALSE
    BY <1>5
  <2> QED BY <1>1, <1>5, <2>1, <2>2
<1>7. Begins(sh2, led, n)
  <2> DEFINE e == [seq |-> d[1].seq, event |-> d[1].event]
             S == Sheet
  <2>1. e \in S
    <3>1. d[1].event \in Happening /\ d[1].seq \in Nat
      BY <1>1, <1>3, <1>4
    <3> QED BY <3>1 DEF Sheet
  <2>2. sh2 = Append(sh, e) /\ sh \in Seq(S) /\ e.seq = n /\ e.event = led[n]
    BY <1>1, <1>3, <1>4
  <2> HIDE DEF e, S
  <2>3. sh2 \in Seq(S) /\ Len(sh2) = n /\ sh2[n] = e /\ \A i \in 1..k : sh2[i] = sh[i]
    BY <1>1, <1>5, <2>1, <2>2
  <2>4. \A i \in 1..k : sh2[i].seq = i /\ sh2[i].event = led[i]
    BY <1>0, <2>3 DEF Copy
  <2>5. \A i \in 1..n : i \in 1..k \/ i = n
    OBVIOUS
  <2> HIDE DEF n
  <2>6. sh2[n].seq = n /\ sh2[n].event = led[n]
    BY <2>2, <2>3
  <2> QED BY <2>3, <2>4, <2>5, <2>6 DEF Begins, S
<1>8. \A p \in n + 1..Len(led) : ~Own(led[p])
  <2> TAKE p \in n + 1..Len(led)
  <2>1. p \in k + 1..Len(led) /\ \A i \in k + 1..h : FALSE
    BY <1>5
  <2> QED BY <1>0, <2>1 DEF Order
<1>9. n \in Nat /\ 1 <= n /\ n <= Len(led) /\ w \in Nat /\ NoDebt(led) /\ \A i \in 1..Len(led) : led[i].by <= w
  BY <1>0, <1>1, <1>3 DEF Order, Covers
<1> HIDE DEF n, t
<1>10. InStep(n, n, led, sh2, {}, n, u, t, w)
  BY <1>1, <1>7, <1>8, <1>9, PrefixStep
<1>11. Refused(n, n, led, sh2, t)
  <2>1. Refused(k, k, led, sh, t)
    BY <1>2, <1>5, TailRefused DEF t
  <2> QED BY <1>9, <2>1, NoneRefused
<1>12. Linked(n, n, led, sh2, u, t)
  <2>1. u \in Seq(Calls) /\ Len(sh) = h + Len(u) /\ Len(u) \in Nat
    BY <1>0 DEF Linked
  <2>2. Len(u) = 0
    BY <1>1, <1>5, <2>1
  <2>3. Len(sh2) = n
    BY <1>7 DEF Begins
  <2>4. Len(sh2) = n + Len(u) /\ \A i \in 1..Len(u) : FALSE
    BY <1>9, <2>2, <2>3
  <2> QED BY <1>3, <1>11, <2>1, <2>4 DEF Linked, News
<1>13. tp + 1 = n /\ d[1].seq = tp + 1
  BY <1>3, <1>6 DEF n
<1> QED BY <1>6, <1>10, <1>12, <1>13 DEF n, t

\* An own event comes that is on the page already.
LEMMA OldSheetStep ==
  ASSUME NEW k \in Nat, NEW h \in Nat, NEW led, NEW sh, NEW una, NEW tp, NEW u, NEW d, NEW w,
         InStep(k, h, led, sh, una, tp, u, d, w), Linked(k, h, led, sh, u, d), d # <<>>,
         d[1].op = "sheet", Own(d[1].event)
  PROVE  /\ d[1].seq <= tp
         /\ InStep(k, h, led, sh, una, tp, u, Tail(d), w) /\ Linked(k, h, led, sh, u, Tail(d))
<1> DEFINE t == Tail(d)
<1>0. /\ Copy(k, h, led, sh, una, tp) /\ Order(k, h, led, sh, w) /\ Covers(k, h, led, sh, u, d)
      /\ Linked(k, h, led, sh, u, d) /\ News(k, h, led, sh, d)
  BY DEF InStep, Linked
<1>1. /\ led \in Seq(Happening) /\ sh \in Seq(Sheet) /\ Len(sh) \in Nat
      /\ 1 <= k /\ k <= h /\ h <= Len(sh)
      /\ sh[k].seq = k /\ tp \in Nat
      /\ \A i \in k + 1..Len(sh) : sh[i].seq >= k + 1 /\ sh[i].seq <= tp
      /\ \A i \in 1..Len(sh) : sh[i].seq \in Nat
  BY <1>0, CopyFacts
<1>2. d \in Seq(Msgs) /\ InTurn(k, led, d) /\ Truthful(k, led, d) /\ Refused(k, h, led, sh, d) /\ ~Advances(d[1])
  BY <1>0 DEF News, Advances
<1>3. d[1].seq <= k /\ t \in Seq(Msgs) /\ InTurn(k, led, t) /\ Truthful(k, led, t)
  BY <1>1, <1>2, SkipMessage
<1>4. k <= tp
  <2>1. CASE Len(sh) = k
    BY <1>0, <1>1, <2>1 DEF Copy
  <2>2. CASE Len(sh) > k
    <3>1. Len(sh) \in k + 1..Len(sh) /\ Len(sh) \in 1..Len(sh)
      BY <1>1, <2>2
    <3>2. sh[Len(sh)].seq >= k + 1 /\ sh[Len(sh)].seq <= tp /\ sh[Len(sh)].seq \in Nat
      BY <1>1, <3>1
    <3> QED BY <1>1, <3>2
  <2> QED BY <1>1, <2>1, <2>2
<1>5. d[1].seq \in Nat
  <2>1. d[1] \in Msgs
    BY <1>2
  <2> QED BY <2>1, MsgKinds
<1>6. Refused(k, h, led, sh, t)
  BY <1>2, TailRefused
<1>7. Covers(k, h, led, sh, u, t)
  <2>1. OnThePage(k, h, led, sh, u, t)
    <3>1. Refusals(t) = Refusals(d)
      BY <1>2, RefusalsTail
    <3>2. GivenBack(k, h, sh, u, t) <=> GivenBack(k, h, sh, u, d)
      BY <3>1 DEF GivenBack
    <3> QED BY <1>0, <3>2 DEF Covers, OnThePage
  <2> QED BY <1>0, <2>1 DEF Covers
<1> HIDE DEF t
<1>8. Linked(k, h, led, sh, u, t)
  BY <1>0, <1>3, <1>6 DEF Linked, News
<1>9. d[1].seq <= tp
  BY <1>1, <1>3, <1>4, <1>5
<1> QED BY <1>0, <1>7, <1>8, <1>9 DEF InStep, t

\* The answer to a join brings the rest of the log, or all of it.
LEMMA JoinedStep ==
  ASSUME NEW k \in Nat, NEW h \in Nat, NEW led, NEW sh, NEW una, NEW tp, NEW u, NEW d, NEW w,
         InStep(k, h, led, sh, una, tp, u, d, w), Joining(k, h, led, sh, u, d), d # <<>>,
         NEW sh2, Begins(sh2, led, d[1].top)
  PROVE  /\ d[1].top \in Nat /\ una = {}
         /\ InStep(d[1].top, d[1].top, led, sh2, {}, d[1].top, u, Tail(d), w)
         /\ Linked(d[1].top, d[1].top, led, sh2, u, Tail(d))
<1> DEFINE t == Tail(d)
           n == d[1].top
<1>0. /\ Copy(k, h, led, sh, una, tp) /\ Order(k, h, led, sh, w) /\ Covers(k, h, led, sh, u, d)
  BY DEF InStep
<1>1. /\ led \in Seq(Happening) /\ sh \in Seq(Sheet) /\ Len(sh) \in Nat /\ Len(led) \in Nat
      /\ 1 <= k /\ Rising(led)
  BY <1>0, CopyFacts
<1>2. /\ h = k /\ k = Len(sh) /\ u = <<>> /\ n \in k..Len(led)
      /\ News(n, n, led, sh, t)
  BY DEF Joining
<1>3. una = {}
  <2>1. una = {sh[i].event.by : i \in k + 1..Len(sh)} /\ \A i \in k + 1..Len(sh) : FALSE
    BY <1>0, <1>2 DEF Copy
  <2> QED BY <2>1
<1>4. \A p \in n + 1..Len(led) : ~Own(led[p])
  <2> TAKE p \in n + 1..Len(led)
  <2>1. p \in k + 1..Len(led) /\ \A i \in k + 1..h : FALSE
    BY <1>1, <1>2
  <2> QED BY <1>0, <2>1 DEF Order
<1>5. n \in Nat /\ 1 <= n /\ n <= Len(led) /\ w \in Nat /\ NoDebt(led) /\ \A i \in 1..Len(led) : led[i].by <= w
  BY <1>0, <1>1, <1>2 DEF Order, Covers
<1>6. Begins(sh2, led, n)
  OBVIOUS
<1> HIDE DEF n, t
<1>7. InStep(n, n, led, sh2, {}, n, u, t, w)
  BY <1>1, <1>4, <1>5, <1>6, PrefixStep
<1>8. Refused(n, n, led, sh2, t)
  <2>1. Refused(n, n, led, sh, t)
    BY <1>2 DEF News
  <2> QED BY <1>5, <2>1, NoneRefused
<1>9. Linked(n, n, led, sh2, u, t)
  <2>1. Len(sh2) = n
    BY <1>6 DEF Begins
  <2>2. u \in Seq(Calls) /\ Len(u) = 0
    BY <1>2
  <2>3. Len(sh2) = n + Len(u) /\ \A i \in 1..Len(u) : FALSE
    BY <1>5, <2>1, <2>2
  <2> QED BY <1>2, <1>8, <2>2, <2>3 DEF Linked, News
<1> QED BY <1>3, <1>5, <1>7, <1>9 DEF n, t

\* One more event in the log.
LEMMA LogMore ==
  ASSUME NEW led \in Seq(Happening), NEW e \in Happening
  PROVE  /\ Append(led, e) \in Seq(Happening) /\ Len(Append(led, e)) = Len(led) + 1 /\ Len(led) \in Nat
         /\ Longer(led, Append(led, e)) /\ Append(led, e)[Len(led) + 1] = e
         /\ \A p \in 1..Len(led) : Append(led, e)[p] = led[p]
         /\ \A p \in 1..Len(led) + 1 : p \in 1..Len(led) \/ p = Len(led) + 1
         /\ \A n \in 0..Len(led) : After(Append(led, e), n) = After(led, n)
         /\ TableAfter(Append(led, e)) = Reduce(TableAfter(led), e)
         /\ After(Append(led, e), Len(led) + 1) = TableAfter(Append(led, e)) /\ After(led, Len(led)) = TableAfter(led)
         /\ TableAfter(led) \in Tables
<1> DEFINE r == Append(led, e)
           Y == Happening
<1>0. led \in Seq(Y) /\ e \in Y
  OBVIOUS
<1> HIDE DEF Y
<1>1. /\ r \in Seq(Y) /\ Len(r) = Len(led) + 1 /\ Len(led) \in Nat
      /\ r[Len(led) + 1] = e /\ \A p \in 1..Len(led) : r[p] = led[p]
  BY <1>0
<1>2. TableAfter(r) = Reduce(TableAfter(led), e) /\ TableAfter(led) \in Tables
  BY TableSteps
<1>3. After(led, Len(led)) = TableAfter(led)
  BY AfterSteps
<1> HIDE DEF r
<1>4. After(r, Len(r)) = TableAfter(r)
  BY <1>1, AfterSteps DEF Y
<1>5. \A n \in 0..Len(led) : After(r, n) = After(led, n)
  <2> TAKE n \in 0..Len(led)
  <2>1. n \in Nat /\ n <= Len(r) /\ n <= Len(led) /\ \A i \in 1..n : r[i] = led[i]
    BY <1>1
  <2> QED BY <1>1, <2>1, AfterSame DEF Y
<1>6. Longer(led, r)
  BY <1>1 DEF Longer
<1>7. \A p \in 1..Len(led) + 1 : p \in 1..Len(led) \/ p = Len(led) + 1
  BY <1>1
<1> QED BY <1>1, <1>2, <1>3, <1>4, <1>5, <1>6, <1>7 DEF r, Y

\* The dealer writes: the log gets longer, and the bets of the table no more.
LEMMA DealerLog ==
  ASSUME NEW k \in Nat, NEW h \in Nat, NEW led, NEW sh, NEW una, NEW tp, NEW u, NEW d, NEW w,
         InStep(k, h, led, sh, una, tp, u, d, w), NEW e \in Happening, ~Own(e),
         NEW f, h > k => Refusals(f) = Refusals(d)
  PROVE  InStep(k, h, Append(led, e), sh, una, tp, u, f, w)
<1> DEFINE r == Append(led, e)
           m == Len(led)
           s == EventsOf(sh)
<1>0. /\ Copy(k, h, led, sh, una, tp) /\ Order(k, h, led, sh, w) /\ Covers(k, h, led, sh, u, d)
  BY DEF InStep
<1>1. /\ led \in Seq(Happening) /\ sh \in Seq(Sheet) /\ Len(sh) \in Nat
      /\ 1 <= k /\ k <= h /\ h <= Len(sh) /\ k <= m
      /\ Rising(led)
      /\ \A i \in 1..Len(sh) : sh[i].event \in Happening /\ sh[i].event.by \in Nat
  BY <1>0, CopyFacts
<1>2. /\ r \in Seq(Happening) /\ Len(r) = m + 1 /\ m \in Nat
      /\ r[m + 1] = e
      /\ \A p \in 1..m : r[p] = led[p]
      /\ \A p \in 1..m + 1 : p \in 1..m \/ p = m + 1
      /\ \A n \in 0..m : After(r, n) = After(led, n)
      /\ TableAfter(r) = Reduce(TableAfter(led), e)
      /\ After(r, m + 1) = TableAfter(r) /\ After(led, m) = TableAfter(led)
      /\ TableAfter(led) \in Tables
  BY <1>1, LogMore
<1>3. e.by = 0 /\ ByDealer = 0
  BY DEF Own, ByDealer
<1>4. DOMAIN led = 1..m /\ DOMAIN r = 1..m + 1
  BY <1>1, <1>2
<1> HIDE DEF r, m, s
<1>5. Copy(k, h, r, sh, una, tp)
  <2>1. \A i \in 1..k : i \in 1..m
    BY <1>1, <1>2
  <2>2. k <= Len(r)
    BY <1>1, <1>2
  <2> QED BY <1>0, <1>2, <2>1, <2>2 DEF Copy
<1>6. Rising(r)
  <2> SUFFICES ASSUME NEW i \in DOMAIN r, NEW j \in DOMAIN r, i < j, Own(r[i]), Own(r[j]) PROVE r[i].by < r[j].by
    BY DEF Rising
  <2>1. i \in 1..m /\ j \in 1..m
    BY <1>2, <1>4
  <2> QED BY <1>1, <1>2, <1>4, <2>1 DEF Rising
<1>7. Order(k, h, r, sh, w)
  <2>1. w \in Nat /\ Rising(EventsOf(sh))
    BY <1>0 DEF Order
  <2>2. \A i \in 1..m + 1, j \in h + 1..Len(sh) : r[i].by < sh[j].event.by
    <3> TAKE i \in 1..m + 1, j \in h + 1..Len(sh)
    <3>1. CASE i \in 1..m
      BY <1>0, <1>2, <3>1 DEF Order, m
    <3>2. CASE i = m + 1
      <4>1. j \in k + 1..Len(sh) /\ j \in 1..Len(sh)
        BY <1>1
      <4>2. sh[j].event.by # ByDealer /\ sh[j].event.by \in Nat
        BY <1>0, <1>1, <4>1 DEF Copy, Own
      <4> QED BY <1>2, <1>3, <3>2, <4>2
    <3> QED BY <1>2, <3>1, <3>2
  <2>3. \A i \in 1..m + 1 : r[i].by <= w
    <3> TAKE i \in 1..m + 1
    <3>1. CASE i \in 1..m
      BY <1>0, <1>2, <3>1 DEF Order, m
    <3>2. CASE i = m + 1
      BY <1>2, <1>3, <2>1, <3>2
    <3> QED BY <1>2, <3>1, <3>2
  <2>4. \A i \in 1..Len(sh) : sh[i].event.by <= w
    BY <1>0 DEF Order
  <2>5. \A p \in k + 1..m + 1 : Own(r[p]) => \E i \in k + 1..h : sh[i].event = r[p]
    <3> TAKE p \in k + 1..m + 1
    <3> HAVE Own(r[p])
    <3>1. p \in 1..m + 1
      BY <1>1
    <3>2. p \in 1..m
      BY <1>2, <3>1
    <3>3. p \in k + 1..m
      BY <3>2
    <3> QED BY <1>0, <1>2, <3>2, <3>3 DEF Order, m
  <2> QED BY <1>2, <1>6, <2>1, <2>2, <2>3, <2>4, <2>5 DEF Order
<1> DEFINE t == TableAfter(led)
<1>8. Reduce(t, e).bets \subseteq t.bets /\ Reduce(t, e).bank >= t.bank /\ Reduce(t, e) \in Tables
  <2>1. t \in Tables
    BY <1>2
  <2> HIDE DEF t
  <2> QED BY <2>1, ReduceDealer
<1>9. NoDebt(r)
  <2> SUFFICES ASSUME NEW n \in 0..m + 1 PROVE After(r, n).bank >= 0
    BY <1>2 DEF NoDebt
  <2>1. CASE n \in 0..m
    BY <1>0, <1>2, <2>1 DEF Covers, NoDebt, m
  <2>2. CASE n = m + 1
    <3>1. m \in 0..m
      BY <1>2
    <3>2. t.bank >= 0
      BY <1>0, <1>2, <3>1 DEF Covers, NoDebt, m
    <3>3. t.bank \in Int /\ Reduce(t, e).bank \in Int
      BY <1>2, <1>8, WealthType
    <3>4. After(r, n).bank = Reduce(t, e).bank
      BY <1>2, <2>2
    <3> HIDE DEF t
    <3> QED BY <1>8, <3>2, <3>3, <3>4
  <2>3. n \in 0..m \/ n = m + 1
    BY <1>2
  <2> QED BY <2>1, <2>2, <2>3
<1>10. OnThePage(k, h, r, sh, u, f)
  <2>1. TableAfter(r).bets \subseteq t.bets
    BY <1>2, <1>8
  <2>2. OnThePage(k, h, led, sh, u, d)
    BY <1>0 DEF Covers
  <2>3. GivenBack(k, h, sh, u, f) <=> GivenBack(k, h, sh, u, d)
    BY DEF GivenBack
  <2> DEFINE n == IF GivenBack(k, h, sh, u, d) THEN h - 1 ELSE h
             A == TableAfter(r).bets
             B == t.bets
             C == After(EventsOf(sh), n).bets
  <2>4. n \in 0..Len(sh)
    BY <1>1
  <2>5. Under(B, C)
    BY <2>2 DEF OnThePage
  <2> HIDE DEF n
  <2>6. A \in SUBSET Bet /\ B \in SUBSET Bet /\ C \in SUBSET Bet
    <3> DEFINE q == EventsOf(sh)
    <3>1. q \in Seq(Happening) /\ Len(q) = Len(sh)
      BY <1>1, EventsAre
    <3> HIDE DEF q
    <3>2. \A i \in 0..Len(q) : After(q, i).bets \in SUBSET Bet
      BY <3>1, BetsAfter
    <3>3. TableAfter(r).bets \in SUBSET Bet /\ TableAfter(led).bets \in SUBSET Bet
      BY <1>1, <1>2, BetsAfter
    <3> QED BY <2>4, <3>1, <3>2, <3>3 DEF q
  <2> HIDE DEF A, B, C
  <2>7. Under(A, B)
    BY <2>1, <2>6, UnderSubset DEF A, B
  <2>8. Under(A, C)
    BY <2>5, <2>6, <2>7, UnderTrans
  <2> QED BY <2>3, <2>8 DEF OnThePage, A, C, n
<1>11. Covers(k, h, r, sh, u, f)
  BY <1>0, <1>9, <1>10 DEF Covers
<1> QED BY <1>5, <1>7, <1>11 DEF InStep, r

LEMMA AppendParts ==
  ASSUME NEW Y, NEW d \in Seq(Y), NEW m \in Y
  PROVE  /\ Append(d, m) \in Seq(Y) /\ Len(Append(d, m)) = Len(d) + 1 /\ Len(d) \in Nat
         /\ Append(d, m)[Len(d) + 1] = m /\ Longer(d, Append(d, m)) /\ Append(d, m) # <<>>
         /\ \A j \in DOMAIN d : j \in DOMAIN Append(d, m) /\ Append(d, m)[j] = d[j]
         /\ d # <<>> => Tail(Append(d, m)) = Append(Tail(d), m) /\ Append(d, m)[1] = d[1]
<1>1. /\ Append(d, m) \in Seq(Y) /\ Len(Append(d, m)) = Len(d) + 1 /\ Len(d) \in Nat
      /\ Append(d, m)[Len(d) + 1] = m /\ \A i \in 1..Len(d) : Append(d, m)[i] = d[i]
  OBVIOUS
<1>2. Longer(d, Append(d, m))
  BY <1>1 DEF Longer
<1>3. \A j \in DOMAIN d : j \in DOMAIN Append(d, m) /\ Append(d, m)[j] = d[j]
  OBVIOUS
<1>4. d # <<>> => Tail(Append(d, m)) = Append(Tail(d), m) /\ Append(d, m)[1] = d[1]
  OBVIOUS
<1>5. Append(d, m) # <<>>
  BY <1>1
<1> QED BY <1>1, <1>2, <1>3, <1>4, <1>5

\* The message about it comes after the others.
LEMMA DealerNews ==
  ASSUME NEW k \in Nat, NEW h \in Nat, NEW led \in Seq(Happening), k <= Len(led), NEW sh, NEW d,
         News(k, h, led, sh, d), NEW e \in Happening, ~Own(e),
         \A i \in k + 1..h : sh[i].event.by # ByDealer
  PROVE  News(k, h, Append(led, e), sh, Append(d, SheetOf(Len(led) + 1, e)))
<1> DEFINE r == Append(led, e)
           m == SheetOf(Len(led) + 1, e)
           f == Append(d, m)
           M == Msgs
<1>1. /\ r \in Seq(Happening) /\ Len(r) = Len(led) + 1 /\ Len(led) \in Nat
      /\ r[Len(led) + 1] = e /\ Longer(led, r)
      /\ \A p \in 1..Len(led) : r[p] = led[p]
      /\ \A p \in 1..Len(led) + 1 : p \in 1..Len(led) \/ p = Len(led) + 1
  BY LogMore
<1>2. m.op = "sheet" /\ m.seq = Len(led) + 1 /\ m.event = e
  BY DEF SheetOf
<1>3. m \in M
  BY <1>1 DEF SheetOf, Msgs
<1>4. d \in Seq(M) /\ InTurn(k, led, d) /\ Truthful(k, led, d) /\ Refused(k, h, led, sh, d)
  BY DEF News
<1>5. e.by = ByDealer
  BY DEF Own
<1> HIDE DEF M, m, r
<1>6. /\ f \in Seq(M) /\ Len(f) = Len(d) + 1 /\ Len(d) \in Nat
      /\ f[Len(d) + 1] = m /\ Longer(d, f)
      /\ \A j \in DOMAIN d : j \in DOMAIN f /\ f[j] = d[j]
      /\ DOMAIN d = 1..Len(d) /\ DOMAIN f = 1..Len(d) + 1
  BY <1>3, <1>4, AppendParts
<1> HIDE DEF f
<1>7. d \in Seq(Msgs) /\ f \in Seq(Msgs)
  BY <1>4, <1>6 DEF M
<1>8. InTurn(k, r, f)
  <2>1. Len(f) > Len(d) /\ \A j \in Len(d) + 2..Len(f) : FALSE
    BY <1>6
  <2>2. Advances(f[Len(d) + 1]) /\ f[Len(d) + 1].seq = Len(r)
    BY <1>1, <1>2, <1>6 DEF Advances
  <2> QED BY <1>1, <1>4, <1>6, <1>7, <2>1, <2>2, MoreInTurn
<1>9. Truthful(k, r, f)
  <2>1. \A j \in Len(d) + 1..Len(f) : f[j] = m
    BY <1>6
  <2>2. Says(m, r)
    <3>1. Len(led) + 1 \in 1..Len(r)
      BY <1>1
    <3> QED BY <1>1, <1>2, <1>3, <3>1 DEF Says, M
  <2>3. ~Own(m.event)
    BY <1>2
  <2> QED BY <1>1, <1>4, <1>6, <1>7, <2>1, <2>2, <2>3, MoreTruthful
<1>10. Refused(k, h, r, sh, f)
  <2>1. \A j \in DOMAIN f : f[j].op = "reject" => j \in DOMAIN d /\ f[j] = d[j]
    <3> TAKE j \in DOMAIN f
    <3> HAVE f[j].op = "reject"
    <3>1. j # Len(d) + 1
      BY <1>2, <1>6
    <3>2. j \in DOMAIN d
      BY <1>6, <3>1
    <3> QED BY <1>6, <3>2
  <2>2. ASSUME NEW j \in DOMAIN f, f[j].op = "reject"
        PROVE  /\ \A p \in 1..Len(r) : r[p].by # f[j].id
               /\ \E i \in k + 1..h : sh[i].event.by = f[j].id /\ (sh[i].event.type \in {"removed", "updated"} => i = Len(sh))
    <3>1. /\ \A p \in 1..Len(led) : led[p].by # f[j].id
          /\ \E i \in k + 1..h : sh[i].event.by = f[j].id /\ (sh[i].event.type \in {"removed", "updated"} => i = Len(sh))
      BY <1>4, <2>1, <2>2 DEF Refused
    <3>2. f[j].id # ByDealer
      BY <3>1
    <3>3. \A p \in 1..Len(r) : r[p].by # f[j].id
      BY <1>1, <1>5, <3>1, <3>2
    <3> QED BY <3>1, <3>3
  <2>3. ASSUME NEW a \in DOMAIN f, NEW b \in DOMAIN f, f[a].op = "reject", f[b].op = "reject", f[a].id = f[b].id
        PROVE  a = b
    BY <1>4, <2>1, <2>3 DEF Refused
  <2> QED BY <2>2, <2>3 DEF Refused
<1> QED BY <1>7, <1>8, <1>9, <1>10 DEF News, f, r, m

LEMMA DealerLinkedStep ==
  ASSUME NEW k \in Nat, NEW h \in Nat, NEW led, NEW sh, NEW una, NEW tp, NEW u, NEW d, NEW w,
         InStep(k, h, led, sh, una, tp, u, d, w), Linked(k, h, led, sh, u, d), NEW e \in Happening, ~Own(e),
         NEW f, f = Append(d, SheetOf(Len(led) + 1, e))
  PROVE  InStep(k, h, Append(led, e), sh, una, tp, u, f, w) /\ Linked(k, h, Append(led, e), sh, u, f)
<1>0. Copy(k, h, led, sh, una, tp) /\ Order(k, h, led, sh, w) /\ News(k, h, led, sh, d)
  BY DEF InStep, Linked
<1>1. /\ led \in Seq(Happening) /\ sh \in Seq(Sheet) /\ Len(sh) \in Nat /\ Len(led) \in Nat
      /\ k <= h /\ h <= Len(sh) /\ k <= Len(led)
  BY <1>0, CopyFacts
<1>2. Refusals(f) = Refusals(d)
  <2> DEFINE m == SheetOf(Len(led) + 1, e)
  <2>1. d \in Seq(Msgs)
    BY <1>0 DEF News
  <2>2. m \in Msgs /\ m.op # "reject"
    BY <1>1 DEF SheetOf, Msgs
  <2>3. f = Append(d, m)
    OBVIOUS
  <2> HIDE DEF m
  <2> QED BY <2>1, <2>2, <2>3, RefusalsAppend
<1>3. InStep(k, h, Append(led, e), sh, una, tp, u, f, w)
  BY <1>2, DealerLog
<1>4. \A i \in k + 1..h : sh[i].event.by # ByDealer
  <2> TAKE i \in k + 1..h
  <2>1. i \in k + 1..Len(sh)
    BY <1>1
  <2> QED BY <1>0, <2>1 DEF Copy, Own
<1>5. News(k, h, Append(led, e), sh, f)
  BY <1>0, <1>1, <1>4, DealerNews
<1> QED BY <1>3, <1>5 DEF Linked

DealerAdds(k, h, led, sh, una, tp, u, d, w, e, f) ==
  /\ k \in Nat /\ h \in Nat
  /\ InStep(k, h, led, sh, una, tp, u, d, w) /\ Joining(k, h, led, sh, u, d) /\ e \in Happening /\ ~Own(e)
  /\ f = IF d # <<>> THEN Append(d, SheetOf(Len(led) + 1, e)) ELSE d

LEMMA DealerUnlinkedStep ==
  ASSUME NEW k, NEW h, NEW led, NEW sh, NEW una, NEW tp, NEW u, NEW d, NEW w, NEW e, NEW f,
         DealerAdds(k, h, led, sh, una, tp, u, d, w, e, f)
  PROVE  InStep(k, h, Append(led, e), sh, una, tp, u, f, w) /\ Joining(k, h, Append(led, e), sh, u, f)
<1> SUFFICES
      ASSUME k \in Nat, h \in Nat,
             InStep(k, h, led, sh, una, tp, u, d, w), Joining(k, h, led, sh, u, d), e \in Happening, ~Own(e),
             f = IF d # <<>> THEN Append(d, SheetOf(Len(led) + 1, e)) ELSE d
      PROVE  InStep(k, h, Append(led, e), sh, una, tp, u, f, w) /\ Joining(k, h, Append(led, e), sh, u, f)
  BY DEF DealerAdds
<1> DEFINE r == Append(led, e)
           M == Msgs
           m == SheetOf(Len(led) + 1, e)
<1>0. Copy(k, h, led, sh, una, tp) /\ Order(k, h, led, sh, w)
  BY DEF InStep
<1>1. led \in Seq(Happening) /\ sh \in Seq(Sheet) /\ Len(led) \in Nat /\ 1 <= k /\ k <= Len(led)
  BY <1>0, CopyFacts
<1>2. /\ Len(r) = Len(led) + 1 /\ \A p \in 1..Len(led) : r[p] = led[p]
  BY <1>1, LogMore
<1>3. d \in Seq(M) /\ h = k /\ k = Len(sh) /\ u \in Seq(Calls)
  BY DEF Joining
<1>4. m \in M
  BY <1>1 DEF SheetOf, Msgs
<1>5. f = IF d # <<>> THEN Append(d, m) ELSE d
  OBVIOUS
<1> HIDE DEF M, m, r
<1>6. ~(h > k)
  BY <1>1, <1>3
<1>7. InStep(k, h, Append(led, e), sh, una, tp, u, f, w)
  BY <1>6, DealerLog
<1>8. f \in Seq(M)
  BY <1>3, <1>4, <1>5, AppendParts
<1>9. CASE d = <<>>
  <2>1. f = <<>>
    BY <1>5, <1>9
  <2>2. (u = <<>> \/ u = <<[op |-> "join", since |-> k]>>)
    BY <1>9 DEF Joining
  <2>3. Joining(k, h, r, sh, u, f)
    BY <1>3, <1>8, <2>1, <2>2 DEF Joining, M
  <2> QED BY <1>7, <2>3 DEF r
<1>10. CASE d # <<>>
  <2>1. /\ u = <<>> /\ d[1].op = "joined" /\ d[1].top \in k..Len(led)
        /\ d[1].sheets = NumbersOf(led, IF d[1].replace THEN 0 ELSE k, d[1].top)
        /\ News(d[1].top, d[1].top, led, sh, Tail(d))
    BY <1>10 DEF Joining
  <2>2. f = Append(d, m) /\ f # <<>> /\ Tail(f) = Append(Tail(d), m) /\ f[1] = d[1]
    BY <1>3, <1>4, <1>5, <1>10, AppendParts
  <2> DEFINE n == d[1].top
  <2>3. n \in Nat /\ n <= Len(led) /\ n \in k..Len(r)
    BY <1>1, <1>2, <2>1
  <2> DEFINE g == Tail(d)
  <2>4. News(n, n, r, sh, Append(g, m))
    <3>1. \A i \in n + 1..n : sh[i].event.by # ByDealer
      BY <2>3
    <3>2. News(n, n, led, sh, g)
      BY <2>1
    <3> HIDE DEF n, g
    <3> QED BY <1>1, <2>3, <3>1, <3>2, DealerNews DEF r, m
  <2>5. \A a \in {0, k} : NumbersOf(r, a, n) = NumbersOf(led, a, n)
    <3> TAKE a \in {0, k}
    <3> HIDE DEF n
    <3>1. a \in Nat
      OBVIOUS
    <3>2. \A i \in 1..n - a : a + i \in 1..Len(led)
      BY <1>1, <2>3, <3>1
    <3> QED BY <1>2, <3>2 DEF NumbersOf
  <2>6. d[1].sheets = NumbersOf(r, IF d[1].replace THEN 0 ELSE k, n)
    BY <2>1, <2>5
  <2>7. Joining(k, h, r, sh, u, f)
    <3>1. /\ u = <<>> /\ f # <<>> /\ f[1].op = "joined" /\ f[1].top \in k..Len(r)
          /\ f[1].sheets = NumbersOf(r, IF f[1].replace THEN 0 ELSE k, f[1].top)
      BY <2>1, <2>2, <2>3, <2>6
    <3>2. News(f[1].top, f[1].top, r, sh, Tail(f))
      BY <2>2, <2>4
    <3> HIDE DEF n, g
    <3> QED BY <1>3, <1>8, <3>1, <3>2 DEF Joining, M
  <2> QED BY <1>7, <2>7 DEF r
<1> QED BY <1>9, <1>10

LEMMA TwoMore ==
  ASSUME NEW Y, NEW d \in Seq(Y), NEW a \in Y, NEW b \in Y
  PROVE  /\ d \o <<a, b>> \in Seq(Y) /\ Len(d \o <<a, b>>) = Len(d) + 2 /\ Len(d) \in Nat
         /\ (d \o <<a, b>>)[Len(d) + 1] = a /\ (d \o <<a, b>>)[Len(d) + 2] = b
         /\ Longer(d, d \o <<a, b>>)
<1> DEFINE f == d \o <<a, b>>
<1>1. f \in Seq(Y) /\ Len(f) = Len(d) + 2 /\ Len(d) \in Nat
  OBVIOUS
<1>2. f[Len(d) + 1] = a /\ f[Len(d) + 2] = b
  OBVIOUS
<1>3. \A i \in 1..Len(d) : f[i] = d[i]
  OBVIOUS
<1>4. Longer(d, f)
  BY <1>1, <1>3 DEF Longer
<1> QED BY <1>1, <1>2, <1>4

\* The first call on the way is the next own event.
LEMMA NextCall ==
  ASSUME NEW k \in Nat, NEW h \in Nat, NEW led, NEW sh, NEW una, NEW tp, NEW u, NEW d, NEW w,
         InStep(k, h, led, sh, una, tp, u, d, w), Linked(k, h, led, sh, u, d), u # <<>>
  PROVE  /\ u[1].op = "event" /\ u[1].event = sh[h + 1].event
         /\ h + 1 \in k + 1..Len(sh) /\ h + 1 \in 1..Len(sh) /\ h + 1 \in h + 1..Len(sh)
         /\ u[1].event \in Happening /\ Own(u[1].event) /\ u[1].event.by \in Nat /\ u[1].event.by <= w
         /\ \A p \in 1..Len(led) : led[p].by < u[1].event.by
         /\ Len(sh) = h + 1 + Len(Tail(u)) /\ Tail(u) \in Seq(Calls)
         /\ \A i \in 1..Len(Tail(u)) : Tail(u)[i].op = "event" /\ Tail(u)[i].event = sh[(h + 1) + i].event
<1>0. Copy(k, h, led, sh, una, tp) /\ Order(k, h, led, sh, w)
  BY DEF InStep
<1>1. /\ sh \in Seq(Sheet) /\ Len(sh) \in Nat /\ 1 <= k /\ k <= h /\ h <= Len(sh)
      /\ \A i \in 1..Len(sh) : sh[i].event \in Happening /\ sh[i].event.by \in Nat
  BY <1>0, CopyFacts
<1> DEFINE t == Tail(u)
           C == Calls
<1>2. /\ u \in Seq(C) /\ Len(sh) = h + Len(u)
      /\ \A i \in 1..Len(u) : u[i].op = "event" /\ u[i].event = sh[h + i].event
  BY DEF Linked
<1> HIDE DEF C
<1>3. /\ t \in Seq(C) /\ Len(t) = Len(u) - 1 /\ Len(u) \in Nat
      /\ DOMAIN u = 1..Len(u) /\ DOMAIN t = 1..Len(t) /\ 1 \in DOMAIN u
      /\ \A j \in DOMAIN t : t[j] = u[j + 1] /\ j + 1 \in DOMAIN u /\ j \in Nat
  BY <1>2, TailParts
<1> HIDE DEF t
<1>4. h + 1 \in k + 1..Len(sh) /\ h + 1 \in 1..Len(sh) /\ h + 1 \in h + 1..Len(sh)
  BY <1>1, <1>2, <1>3
<1>5. u[1].op = "event" /\ u[1].event = sh[h + 1].event
  BY <1>2, <1>3
<1> DEFINE e == sh[h + 1].event
<1>6. e \in Happening /\ Own(e) /\ e.by \in Nat
  BY <1>0, <1>1, <1>4 DEF Copy
<1>7. e.by <= w /\ \A p \in 1..Len(led) : led[p].by < e.by
  BY <1>0, <1>4 DEF Order
<1>8. Len(sh) = h + 1 + Len(t)
  BY <1>1, <1>2, <1>3
<1>9. \A i \in 1..Len(t) : t[i].op = "event" /\ t[i].event = sh[(h + 1) + i].event
  <2> TAKE i \in 1..Len(t)
  <2>1. t[i] = u[i + 1] /\ i + 1 \in 1..Len(u) /\ h + (i + 1) = (h + 1) + i
    BY <1>3
  <2> QED BY <1>2, <2>1
<1> HIDE DEF e
<1> QED BY <1>3, <1>4, <1>5, <1>6, <1>7, <1>8, <1>9 DEF t, e, C

\* The service logs an own event: the page has the chips for it.
LEMMA AcceptLog ==
  ASSUME NEW k \in Nat, NEW h \in Nat, NEW led, NEW sh, NEW una, NEW tp, NEW u, NEW d, NEW w,
         InStep(k, h, led, sh, una, tp, u, d, w), Linked(k, h, led, sh, u, d), u # <<>>,
         NEW v, NEW f, u[1].event.by \notin Refusals(f)
  PROVE  InStep(k, h + 1, Append(led, u[1].event), sh, una, tp, v, f, w)
<1> DEFINE e == u[1].event
           r == Append(led, e)
           m == Len(led)
           s == EventsOf(sh)
           g == h + 1
<1>0. /\ Copy(k, h, led, sh, una, tp) /\ Order(k, h, led, sh, w) /\ Covers(k, h, led, sh, u, d)
  BY DEF InStep
<1>1. /\ led \in Seq(Happening) /\ sh \in Seq(Sheet) /\ Len(sh) \in Nat
      /\ 1 <= k /\ k <= h /\ h <= Len(sh) /\ k <= m
      /\ Rising(led) /\ Rising(s)
      /\ \A i \in 1..Len(sh) : sh[i].event \in Happening /\ sh[i].event.by \in Nat
  BY <1>0, CopyFacts
<1>2. /\ e = sh[g].event
      /\ g \in k + 1..Len(sh) /\ g \in 1..Len(sh) /\ g \in h + 1..Len(sh)
      /\ e \in Happening /\ Own(e) /\ e.by \in Nat /\ e.by <= w
      /\ \A p \in 1..Len(led) : led[p].by < e.by
  BY NextCall
<1> HIDE DEF e
<1>3. /\ r \in Seq(Happening) /\ Len(r) = m + 1 /\ m \in Nat
      /\ r[m + 1] = e
      /\ \A p \in 1..m : r[p] = led[p]
      /\ \A p \in 1..m + 1 : p \in 1..m \/ p = m + 1
      /\ \A n \in 0..m : After(r, n) = After(led, n)
      /\ TableAfter(r) = Reduce(TableAfter(led), e)
      /\ After(r, m + 1) = TableAfter(r) /\ After(led, m) = TableAfter(led)
      /\ TableAfter(led) \in Tables
  BY <1>1, <1>2, LogMore
<1>4. /\ s \in Seq(Happening) /\ Len(s) = Len(sh) /\ DOMAIN s = 1..Len(sh)
      /\ \A i \in 1..Len(sh) : s[i] = sh[i].event
  BY <1>1, EventsAre
<1>5. DOMAIN led = 1..m /\ DOMAIN r = 1..m + 1 /\ g \in Nat /\ g - 1 = h /\ g = h + 1
  BY <1>1, <1>3
<1> HIDE DEF r, m, s, g
<1>6. Copy(k, g, r, sh, una, tp)
  <2>1. \A i \in 1..k : i \in 1..m
    BY <1>1, <1>3
  <2>2. k <= Len(r) /\ g \in k..Len(sh)
    BY <1>1, <1>2, <1>3
  <2> QED BY <1>0, <1>3, <2>1, <2>2 DEF Copy
<1>7. Rising(r)
  <2> SUFFICES ASSUME NEW i \in DOMAIN r, NEW j \in DOMAIN r, i < j, Own(r[i]), Own(r[j]) PROVE r[i].by < r[j].by
    BY DEF Rising
  <2>1. i \in 1..m
    BY <1>3, <1>5
  <2>2. CASE j \in 1..m
    BY <1>1, <1>3, <1>5, <2>1, <2>2 DEF Rising
  <2>3. CASE j = m + 1
    BY <1>2, <1>3, <2>1, <2>3 DEF m
  <2> QED BY <1>3, <1>5, <2>2, <2>3
<1>8. Order(k, g, r, sh, w)
  <2>1. w \in Nat /\ Rising(EventsOf(sh))
    BY <1>0 DEF Order
  <2>2. \A i \in 1..m + 1, j \in g + 1..Len(sh) : r[i].by < sh[j].event.by
    <3> TAKE i \in 1..m + 1, j \in g + 1..Len(sh)
    <3>0. j \in h + 1..Len(sh) /\ j \in 1..Len(sh) /\ g < j /\ j \in k + 1..Len(sh)
      BY <1>1, <1>2, <1>5
    <3>1. CASE i \in 1..m
      BY <1>0, <1>3, <3>0, <3>1 DEF Order, m
    <3>2. CASE i = m + 1
      <4>1. s[g].by < s[j].by
        <5>1. Own(s[g]) /\ Own(s[j])
          BY <1>0, <1>2, <1>4, <3>0 DEF Copy
        <5> QED BY <1>1, <1>2, <1>4, <3>0, <5>1 DEF Rising
      <4> QED BY <1>2, <1>3, <1>4, <3>0, <3>2, <4>1
    <3> QED BY <1>3, <3>1, <3>2
  <2>3. \A i \in 1..m + 1 : r[i].by <= w
    <3> TAKE i \in 1..m + 1
    <3>1. CASE i \in 1..m
      BY <1>0, <1>3, <3>1 DEF Order, m
    <3>2. CASE i = m + 1
      BY <1>2, <1>3, <3>2
    <3> QED BY <1>3, <3>1, <3>2
  <2>4. \A i \in 1..Len(sh) : sh[i].event.by <= w
    BY <1>0 DEF Order
  <2>5. \A p \in k + 1..m + 1 : Own(r[p]) => \E i \in k + 1..g : sh[i].event = r[p]
    <3> TAKE p \in k + 1..m + 1
    <3> HAVE Own(r[p])
    <3>1. p \in 1..m + 1
      BY <1>1
    <3>2. CASE p \in 1..m
      <4>1. p \in k + 1..m
        BY <3>2
      <4>2. PICK i \in k + 1..h : sh[i].event = r[p]
        BY <1>0, <1>3, <3>2, <4>1 DEF Order, m
      <4>3. i \in k + 1..g
        BY <1>5
      <4> QED BY <4>2, <4>3
    <3>3. CASE p = m + 1
      <4>1. g \in k + 1..g
        BY <1>2
      <4> QED BY <1>2, <1>3, <3>3, <4>1
    <3> QED BY <1>3, <3>1, <3>2, <3>3
  <2> QED BY <1>3, <1>7, <2>1, <2>2, <2>3, <2>4, <2>5 DEF Order
<1> DEFINE T0 == TableAfter(led)
           T1 == TableAfter(r)
           P == After(s, h)
           Q == After(s, g)
<1>9. T0 \in Tables /\ T1 = Reduce(T0, e) /\ Moves(T0, e, T1) /\ T1 \in Tables
  <2>1. m + 1 \in 1..Len(r) /\ (m + 1) - 1 = m /\ m \in 0..m
    BY <1>3
  <2> DEFINE x == m + 1
  <2>2. x \in 1..Len(r) /\ x - 1 = m /\ r[x] = e
    BY <1>3, <2>1
  <2> HIDE DEF x
  <2>3. /\ After(r, x - 1) \in Tables /\ After(r, x) \in Tables /\ Moves(After(r, x - 1), r[x], After(r, x))
    BY <1>3, <1>7, <2>2, AfterMoves
  <2> QED BY <1>3, <2>1, <2>2, <2>3 DEF x
<1>10. /\ P \in Tables /\ Q \in Tables /\ s[g] = e /\ Q = Reduce(P, e)
  <2>1. g \in 1..Len(s)
    BY <1>2, <1>4
  <2>2. /\ After(s, g - 1) \in Tables /\ After(s, g) \in Tables
        /\ After(s, g) = Reduce(After(s, g - 1), s[g])
    BY <1>1, <1>4, <2>1, AfterMoves
  <2> QED BY <1>2, <1>4, <1>5, <2>2
<1>11. Under(T0.bets, P.bets)
  <2>1. OnThePage(k, h, led, sh, u, d)
    BY <1>0 DEF Covers
  <2>2. ~GivenBack(k, h, sh, u, d)
    BY DEF GivenBack
  <2> QED BY <2>1, <2>2 DEF OnThePage, s
\* The wealth of the page is that of its confirmed part, and the log is worth no less.
<1>12. Wealth(Q) = Wealth(After(s, k)) /\ P.rounds = After(s, k).rounds
  <2>1. \A i \in k + 1..g : Own(s[i])
    <3> TAKE i \in k + 1..g
    <3>1. i \in k + 1..Len(sh) /\ i \in 1..Len(sh)
      BY <1>1, <1>2
    <3> QED BY <1>0, <1>4, <3>1 DEF Copy
  <2>2. k <= g /\ g <= Len(s) /\ h <= Len(s) /\ \A i \in k + 1..h : i \in k + 1..g
    BY <1>1, <1>2, <1>4, <1>5
  <2>3. Wealth(After(s, g)) = Wealth(After(s, k))
    BY <1>1, <1>4, <1>5, <2>1, <2>2, OwnRun
  <2>4. After(s, h).rounds = After(s, k).rounds
    BY <1>1, <1>4, <1>5, <2>1, <2>2, OwnRun DEF SameRounds
  <2> QED BY <2>3, <2>4
<1>13. Wealth(After(s, k)) <= Wealth(T0)
  <2>1. k \in 0..k /\ k <= m /\ m <= Len(led)
    BY <1>1, <1>3 DEF m
  <2>2. After(s, k) = After(led, k)
    BY <1>0, <2>1, CopyTables DEF s
  <2>3. Wealth(After(led, k)) <= Wealth(After(led, m))
    BY <1>1, <1>3, <2>1, WealthRises
  <2> QED BY <1>3, <2>2, <2>3
<1>14. Under(T1.bets, Q.bets)
  <2> HIDE DEF T0, T1, P, Q
  <2>1. e.type = "bet" => P.rounds[e.round] = "open"
    <3> SUFFICES ASSUME e.type = "bet" PROVE P.rounds[e.round] = "open"
      OBVIOUS
    <3>1. After(s, k).rounds[e.round] = "open"
      BY <1>0, <1>2 DEF Covers, Placeable, s
    <3> QED BY <1>12, <3>1
  <2>2. e.type = "updated" => Pressable(P, e)
    <3>1. \A i \in k + 1..Len(sh) : sh[i].event.type = "updated" => Pressable(After(s, i - 1), sh[i].event)
      BY <1>0 DEF Covers, Placeable, s
    <3>2. e.type = "updated" => Pressable(After(s, g - 1), e)
      BY <1>2, <3>1
    <3> QED BY <1>5, <3>2 DEF P
  <2>3. Under(Reduce(T0, e).bets, Reduce(P, e).bets)
    BY <1>2, <1>9, <1>10, <1>11, <2>1, <2>2, UnderReduce
  <2> QED BY <1>9, <1>10, <2>3
<1>15. T1.bank >= 0
  <2>1. Q.bank >= 0
    <3>1. g \in 0..Len(s)
      BY <1>2, <1>4
    <3> QED BY <1>0, <3>1 DEF Covers, NoDebt, s
  <2>2. Wealth(T1) = Wealth(T0)
    BY <1>2, <1>9 DEF Moves
  <2>3. After(s, k) \in Tables
    <3>1. k \in 0..Len(s)
      BY <1>1, <1>4
    <3> QED BY <1>4, <3>1, AfterSteps
  <2>4. Worth(T1.bets) <= Worth(Q.bets)
    <3> DEFINE A == T1.bets
               B == Q.bets
    <3>1. /\ A \in SUBSET Bet /\ IsFiniteSet(A) /\ Single(A)
          /\ B \in SUBSET Bet /\ IsFiniteSet(B) /\ Under(A, B)
      BY <1>9, <1>10, <1>14, WealthType DEF Moves
    <3> HIDE DEF A, B
    <3>2. Worth(A) <= Worth(B)
      BY <3>1, WorthUnder
    <3> QED BY <3>2 DEF A, B
  <2> HIDE DEF T0, T1, P, Q
  <2>5. /\ T1.bank \in Int /\ Worth(T1.bets) \in Nat /\ Wealth(T1) = T1.bank + Worth(T1.bets)
        /\ Q.bank \in Int /\ Worth(Q.bets) \in Nat /\ Wealth(Q) = Q.bank + Worth(Q.bets)
        /\ Wealth(T0) \in Int /\ Wealth(After(s, k)) \in Int
    BY <1>9, <1>10, <2>3, WealthType
  <2> QED BY <1>12, <1>13, <2>1, <2>2, <2>4, <2>5
<1>16. NoDebt(r)
  <2> SUFFICES ASSUME NEW n \in 0..m + 1 PROVE After(r, n).bank >= 0
    BY <1>3 DEF NoDebt
  <2>1. CASE n \in 0..m
    BY <1>0, <1>3, <2>1 DEF Covers, NoDebt, m
  <2>2. CASE n = m + 1
    BY <1>3, <1>15, <2>2
  <2>3. n \in 0..m \/ n = m + 1
    BY <1>3
  <2> QED BY <2>1, <2>2, <2>3
<1>18. ~GivenBack(k, g, sh, v, f)
  <2>1. e.by \notin Refusals(f)
    BY DEF e
  <2> QED BY <1>2, <2>1 DEF GivenBack
<1>17. Covers(k, g, r, sh, v, f)
  BY <1>0, <1>14, <1>16, <1>18 DEF Covers, OnThePage, s
<1> QED BY <1>6, <1>8, <1>17 DEF InStep, r, g, e

\* The confirmation of an own event, and the event, come after the other messages.
LEMMA AcceptNews ==
  ASSUME NEW k \in Nat, NEW h \in Nat, NEW led \in Seq(Happening), k <= Len(led), NEW sh \in Seq(Sheet),
         h + 1 \in 1..Len(sh), Rising(EventsOf(sh)), NEW d, News(k, h, led, sh, d),
         NEW e \in Happening, Own(e), e = sh[h + 1].event
  PROVE  News(k, h + 1, Append(led, e), sh, d \o <<AckOf(e.by, Len(led) + 1), SheetOf(Len(led) + 1, e)>>)
<1> DEFINE r == Append(led, e)
           a == AckOf(e.by, Len(led) + 1)
           b == SheetOf(Len(led) + 1, e)
           f == d \o <<a, b>>
           M == Msgs
           g == h + 1
<1>1. /\ r \in Seq(Happening) /\ Len(r) = Len(led) + 1 /\ Len(led) \in Nat
      /\ r[Len(led) + 1] = e /\ Longer(led, r)
      /\ \A p \in 1..Len(led) : r[p] = led[p]
      /\ \A p \in 1..Len(led) + 1 : p \in 1..Len(led) \/ p = Len(led) + 1
  BY LogMore
<1>2. /\ a.op = "ack" /\ a.seq = Len(led) + 1 /\ a.id = e.by
      /\ b.op = "sheet" /\ b.seq = Len(led) + 1 /\ b.event = e /\ e.by \in Nat /\ e.by # ByDealer
  BY DEF AckOf, SheetOf, Own, Happening
<1>3. a \in M /\ b \in M
  BY <1>1, <1>2 DEF AckOf, SheetOf, Msgs
<1>4. d \in Seq(M) /\ InTurn(k, led, d) /\ Truthful(k, led, d) /\ Refused(k, h, led, sh, d)
  BY DEF News
<1>5. g \in 1..Len(sh) /\ sh[g].event = e /\ g = h + 1 /\ g \in Nat
  OBVIOUS
<1> HIDE DEF M, a, b, r, g
<1>6. /\ f \in Seq(M) /\ Len(f) = Len(d) + 2 /\ Len(d) \in Nat
      /\ f[Len(d) + 1] = a /\ f[Len(d) + 2] = b /\ Longer(d, f)
  BY <1>3, <1>4, TwoMore
<1> HIDE DEF f
<1>7. d \in Seq(Msgs) /\ f \in Seq(Msgs)
  BY <1>4, <1>6 DEF M
<1>8. DOMAIN d = 1..Len(d) /\ DOMAIN f = 1..Len(f)
  BY <1>7
<1>9. InTurn(k, r, f)
  <2>1. Len(f) > Len(d)
    BY <1>6
  <2>2. Advances(f[Len(d) + 1]) /\ f[Len(d) + 1].seq = Len(r)
    BY <1>1, <1>2, <1>6 DEF Advances
  <2>3. \A j \in Len(d) + 2..Len(f) : ~Advances(f[j])
    <3> TAKE j \in Len(d) + 2..Len(f)
    <3>1. f[j] = b
      BY <1>6
    <3> QED BY <1>2, <3>1 DEF Advances
  <2> QED BY <1>1, <1>4, <1>6, <1>7, <2>1, <2>2, <2>3, MoreInTurn
<1>10. Truthful(k, r, f)
  <2>1. \A j \in Len(d) + 1..Len(f) : f[j] = a \/ (f[j] = b /\ j = Len(d) + 2)
    BY <1>6
  <2>2. Len(led) + 1 \in 1..Len(r) /\ Len(d) + 1 \in 1..(Len(d) + 2) - 1
    BY <1>1, <1>6
  <2>3. Says(a, r) /\ Says(b, r)
    BY <1>1, <1>2, <1>3, <2>2 DEF Says, M
  <2>4. \A j \in Len(d) + 1..Len(f) :
          /\ Says(f[j], r)
          /\ f[j].op = "sheet" /\ Own(f[j].event) => \E i \in 1..j - 1 : f[i].op = "ack" /\ f[i].seq = f[j].seq
    <3> TAKE j \in Len(d) + 1..Len(f)
    <3>1. Says(f[j], r)
      BY <2>1, <2>3
    <3>2. ASSUME f[j].op = "sheet"
          PROVE  \E i \in 1..j - 1 : f[i].op = "ack" /\ f[i].seq = f[j].seq
      <4>1. f[j] = b /\ j = Len(d) + 2
        BY <1>2, <2>1, <3>2
      <4>2. f[Len(d) + 1].op = "ack" /\ f[Len(d) + 1].seq = f[j].seq /\ Len(d) + 1 \in 1..j - 1
        BY <1>2, <1>6, <2>2, <4>1
      <4> QED BY <4>2
    <3> QED BY <3>1, <3>2
  <2> QED BY <1>1, <1>4, <1>6, <1>7, <2>4, MoreTruthful
<1>11. Refused(k, g, r, sh, f)
  <2>1. \A j \in DOMAIN f : f[j].op = "reject" => j \in DOMAIN d /\ f[j] = d[j]
    <3> TAKE j \in DOMAIN f
    <3> HAVE f[j].op = "reject"
    <3>1. j # Len(d) + 1 /\ j # Len(d) + 2
      BY <1>2, <1>6
    <3>2. j \in 1..Len(f) /\ Len(f) = Len(d) + 2 /\ Len(d) \in Nat
      BY <1>6, <1>8
    <3>3. j \in 1..Len(d)
      BY <3>1, <3>2
    <3>4. f[j] = d[j]
      BY <1>6, <3>3 DEF Longer
    <3> QED BY <1>8, <3>3, <3>4
  <2>2. ASSUME NEW j \in DOMAIN f, f[j].op = "reject"
        PROVE  /\ \A p \in 1..Len(r) : r[p].by # f[j].id
               /\ \E i \in k + 1..g : sh[i].event.by = f[j].id /\ (sh[i].event.type \in {"removed", "updated"} => i = Len(sh))
    <3>1. j \in DOMAIN d /\ f[j] = d[j]
      BY <2>1, <2>2
    <3>2. /\ \A p \in 1..Len(led) : led[p].by # f[j].id
          /\ \E i \in k + 1..h : sh[i].event.by = f[j].id /\ (sh[i].event.type \in {"removed", "updated"} => i = Len(sh))
      BY <1>4, <2>2, <3>1 DEF Refused
    <3>3. PICK i \in k + 1..h : sh[i].event.by = f[j].id /\ (sh[i].event.type \in {"removed", "updated"} => i = Len(sh))
      BY <3>2
    <3>4. i \in k + 1..g /\ i \in 1..Len(sh) /\ i # g
      BY <1>5
    <3>5. f[j].id # e.by
      <4> SUFFICES ASSUME f[j].id = e.by PROVE FALSE
        OBVIOUS
      <4>1. sh[g].event.by = sh[i].event.by /\ Own(sh[g].event)
        BY <1>5, <3>3
      <4>2. g = i
        BY <1>5, <3>4, <4>1, OneEntry
      <4> QED BY <3>4, <4>2
    <3>6. \A p \in 1..Len(r) : r[p].by # f[j].id
      BY <1>1, <3>2, <3>5
    <3> QED BY <3>3, <3>4, <3>6
  <2>3. ASSUME NEW x \in DOMAIN f, NEW y \in DOMAIN f, f[x].op = "reject", f[y].op = "reject", f[x].id = f[y].id
        PROVE  x = y
    BY <1>4, <2>1, <2>3 DEF Refused
  <2> QED BY <2>2, <2>3 DEF Refused
<1> QED BY <1>5, <1>7, <1>9, <1>10, <1>11 DEF News, f, r, a, b, g

LEMMA AcceptStep ==
  ASSUME NEW k \in Nat, NEW h \in Nat, NEW led, NEW sh, NEW una, NEW tp, NEW u, NEW d, NEW w,
         InStep(k, h, led, sh, una, tp, u, d, w), Linked(k, h, led, sh, u, d), u # <<>>,
         NEW e, e = u[1].event, NEW f, f = d \o <<AckOf(e.by, Len(led) + 1), SheetOf(Len(led) + 1, e)>>
  PROVE  InStep(k, h + 1, Append(led, e), sh, una, tp, Tail(u), f, w) /\ Linked(k, h + 1, Append(led, e), sh, Tail(u), f)
<1> DEFINE v == Tail(u)
<1>0. Copy(k, h, led, sh, una, tp) /\ Order(k, h, led, sh, w) /\ News(k, h, led, sh, d)
  BY DEF InStep, Linked
<1>1. /\ led \in Seq(Happening) /\ sh \in Seq(Sheet) /\ k <= Len(led) /\ Rising(EventsOf(sh))
  BY <1>0, CopyFacts
<1>2. /\ e = sh[h + 1].event /\ h + 1 \in 1..Len(sh) /\ e \in Happening /\ Own(e)
      /\ Len(sh) = h + 1 + Len(v) /\ v \in Seq(Calls)
      /\ \A i \in 1..Len(v) : v[i].op = "event" /\ v[i].event = sh[(h + 1) + i].event
  <2>0. InStep(k, h, led, sh, una, tp, u, d, w) /\ Linked(k, h, led, sh, u, d) /\ u # <<>>
    OBVIOUS
  <2>1. u[1].event = sh[h + 1].event /\ h + 1 \in 1..Len(sh)
    BY ONLY k \in Nat, h \in Nat, <2>0, NextCall
  <2>2. u[1].event \in Happening /\ Own(u[1].event)
    BY ONLY k \in Nat, h \in Nat, <2>0, NextCall
  <2>3. Len(sh) = h + 1 + Len(Tail(u)) /\ Tail(u) \in Seq(Calls)
    BY ONLY k \in Nat, h \in Nat, <2>0, NextCall
  <2>4. \A i \in 1..Len(Tail(u)) : Tail(u)[i].op = "event" /\ Tail(u)[i].event = sh[(h + 1) + i].event
    BY ONLY k \in Nat, h \in Nat, <2>0, NextCall
  <2> QED BY <2>1, <2>2, <2>3, <2>4
<1> HIDE DEF v
<1>5. e.by \notin Refusals(f)
  <2> DEFINE x == AckOf(e.by, Len(led) + 1)
             y == SheetOf(Len(led) + 1, e)
             M == Msgs
             c == Append(d, x)
  <2>1. x \in Msgs /\ y \in Msgs /\ x.op = "ack" /\ y.op = "sheet"
    <3>1. e.by \in Nat /\ Len(led) + 1 \in Nat
      BY <1>1, <1>2 DEF Happening
    <3> QED BY <1>2, <3>1 DEF AckOf, SheetOf, Msgs
  <2>2. d \in Seq(M) /\ Refused(k, h, led, sh, d)
    BY <1>0 DEF News
  <2>3. f = d \o <<x, y>> /\ x \in M /\ y \in M
    BY <2>1
  <2> HIDE DEF x, y, M
  <2>4. f = Append(c, y) /\ c \in Seq(M)
    BY <2>2, <2>3
  <2>5. Refusals(c) = Refusals(d)
    BY <2>1, <2>2, RefusalsAppend DEF M
  <2> HIDE DEF c
  <2>6. Refusals(f) = Refusals(d)
    BY <2>1, <2>4, <2>5, RefusalsAppend DEF M
  <2> SUFFICES ASSUME e.by \in Refusals(d) PROVE FALSE
    BY <2>6
  <2>7. PICK z : z = e.by
    OBVIOUS
  <2>8. z \in Refusals(d)
    BY <2>7
  <2>9. \E i \in k + 1..h : sh[i].event.by = z /\ (sh[i].event.type \in {"removed", "updated"} => i = Len(sh))
    BY <2>2, <2>8, RefusalsAre
  <2>10. PICK i \in k + 1..h : sh[i].event.by = z
    BY <2>9
  <2>11. PICK g : g = h + 1
    OBVIOUS
  <2>12. g \in 1..Len(sh) /\ i \in 1..Len(sh) /\ Own(sh[g].event) /\ sh[g].event.by = sh[i].event.by /\ g # i
    BY <1>2, <2>7, <2>10, <2>11
  <2> QED BY <1>1, <2>12, OneEntry
<1>3. InStep(k, h + 1, Append(led, e), sh, una, tp, v, f, w)
  BY <1>5, AcceptLog
<1>4. News(k, h + 1, Append(led, e), sh, f)
  BY <1>0, <1>1, <1>2, AcceptNews
<1> QED BY <1>2, <1>3, <1>4 DEF Linked, v

\* The service refuses an own event, in a message after the others.
LEMMA RefuseNews ==
  ASSUME NEW k \in Nat, NEW h \in Nat, NEW led \in Seq(Happening), NEW sh \in Seq(Sheet),
         k <= h, h + 1 \in 1..Len(sh), Rising(EventsOf(sh)), NEW d, News(k, h, led, sh, d),
         NEW e \in Happening, Own(e), e = sh[h + 1].event, \A p \in 1..Len(led) : led[p].by < e.by,
         e.type \in {"removed", "updated"} => h + 1 = Len(sh)
  PROVE  News(k, h + 1, led, sh, Append(d, [op |-> "reject", id |-> e.by]))
<1> DEFINE m == [op |-> "reject", id |-> e.by]
           f == Append(d, m)
           M == Msgs
           g == h + 1
<1>1. e.by \in Nat
  BY DEF Happening
<1>2. m.op = "reject" /\ m.id = e.by
  OBVIOUS
<1>3. m \in M
  BY <1>1 DEF Msgs
<1>4. d \in Seq(M) /\ InTurn(k, led, d) /\ Truthful(k, led, d) /\ Refused(k, h, led, sh, d)
  BY DEF News
<1>5. /\ g \in 1..Len(sh) /\ sh[g].event = e /\ g = h + 1 /\ g \in Nat /\ g \in k + 1..g
      /\ e.type \in {"removed", "updated"} => g = Len(sh)
  OBVIOUS
<1>6. \A p \in 1..Len(led) : led[p].by \in Nat
  <2> TAKE p \in 1..Len(led)
  <2>1. led[p] \in Happening
    OBVIOUS
  <2> QED BY <2>1 DEF Happening
<1> HIDE DEF M, m, g
<1>7. /\ f \in Seq(M) /\ Len(f) = Len(d) + 1 /\ Len(d) \in Nat
      /\ f[Len(d) + 1] = m /\ Longer(d, f)
  BY <1>3, <1>4, AppendParts
<1> HIDE DEF f
<1>8. d \in Seq(Msgs) /\ f \in Seq(Msgs)
  BY <1>4, <1>7 DEF M
<1>9. DOMAIN d = 1..Len(d) /\ DOMAIN f = 1..Len(f)
  BY <1>8
<1>10. \A j \in Len(d) + 1..Len(f) : f[j] = m
  BY <1>7
<1>11. InTurn(k, led, f)
  <2>1. ~Advances(m)
    BY <1>2 DEF Advances
  <2> QED BY <1>4, <1>7, <1>8, <1>10, <2>1, SameInTurn
<1>12. Truthful(k, led, f)
  <2>1. Says(m, led) /\ m.op # "sheet"
    BY <1>2, <1>3 DEF Says, M
  <2>2. Longer(led, led)
    BY DEF Longer
  <2> QED BY <1>4, <1>7, <1>8, <1>10, <2>1, <2>2, MoreTruthful
<1>13. \A j \in DOMAIN f : (j \in DOMAIN d /\ f[j] = d[j]) \/ (j = Len(d) + 1 /\ f[j] = m)
  <2> TAKE j \in DOMAIN f
  <2>1. j \in 1..Len(f) /\ Len(f) = Len(d) + 1 /\ Len(d) \in Nat
    BY <1>7, <1>9
  <2>2. j \in 1..Len(d) \/ j = Len(d) + 1
    BY <2>1
  <2> QED BY <1>7, <1>9, <2>2 DEF Longer
<1>14. \A j \in DOMAIN d : d[j].op = "reject" => d[j].id # e.by
  <2> TAKE j \in DOMAIN d
  <2> HAVE d[j].op = "reject"
  <2> SUFFICES ASSUME d[j].id = e.by PROVE FALSE
    OBVIOUS
  <2>1. PICK i \in k + 1..h : sh[i].event.by = d[j].id
    BY <1>4 DEF Refused
  <2>2. sh[g].event.by = sh[i].event.by /\ Own(sh[g].event) /\ i \in 1..Len(sh) /\ i # g
    BY <1>5, <2>1
  <2>3. g = i
    BY <1>5, <2>2, OneEntry
  <2> QED BY <2>2, <2>3
<1>15. Refused(k, g, led, sh, f)
  <2>1. ASSUME NEW j \in DOMAIN f, f[j].op = "reject"
        PROVE  /\ \A p \in 1..Len(led) : led[p].by # f[j].id
               /\ \E i \in k + 1..g : sh[i].event.by = f[j].id /\ (sh[i].event.type \in {"removed", "updated"} => i = Len(sh))
    <3>1. CASE j \in DOMAIN d /\ f[j] = d[j]
      <4>1. /\ \A p \in 1..Len(led) : led[p].by # f[j].id
            /\ \E i \in k + 1..h : sh[i].event.by = f[j].id /\ (sh[i].event.type \in {"removed", "updated"} => i = Len(sh))
        BY <1>4, <2>1, <3>1 DEF Refused
      <4>2. \A i \in k + 1..h : i \in k + 1..g
        BY <1>5
      <4> QED BY <4>1, <4>2
    <3>2. CASE f[j] = m
      <4>1. \A p \in 1..Len(led) : led[p].by # e.by
        BY <1>1, <1>6
      <4> QED BY <1>2, <1>5, <3>2, <4>1
    <3> QED BY <1>13, <2>1, <3>1, <3>2
  <2>2. ASSUME NEW x \in DOMAIN f, NEW y \in DOMAIN f, f[x].op = "reject", f[y].op = "reject", f[x].id = f[y].id
        PROVE  x = y
    <3>1. CASE x \in DOMAIN d /\ f[x] = d[x] /\ y \in DOMAIN d /\ f[y] = d[y]
      BY <1>4, <2>2, <3>1 DEF Refused
    <3>2. CASE x \in DOMAIN d /\ f[x] = d[x] /\ f[y] = m
      BY <1>2, <1>14, <2>2, <3>2
    <3>3. CASE f[x] = m /\ y \in DOMAIN d /\ f[y] = d[y]
      BY <1>2, <1>14, <2>2, <3>3
    <3> QED BY <1>13, <2>2, <3>1, <3>2, <3>3
  <2> QED BY <2>1, <2>2 DEF Refused
<1> QED BY <1>5, <1>8, <1>11, <1>12, <1>15 DEF News, f, m, g

\* A removal or a press is only refused, while the copy stays right, when it is the last event that
\* the page sent.
LEMMA RefuseStep ==
  ASSUME NEW k \in Nat, NEW h \in Nat, NEW led, NEW sh, NEW una, NEW tp, NEW u, NEW d, NEW w,
         InStep(k, h, led, sh, una, tp, u, d, w), Linked(k, h, led, sh, u, d), u # <<>>,
         NEW e, e = u[1].event, e.type \in {"removed", "updated"} => ~(e.by < w),
         NEW f, f = Append(d, [op |-> "reject", id |-> e.by])
  PROVE  InStep(k, h + 1, led, sh, una, tp, Tail(u), f, w) /\ Linked(k, h + 1, led, sh, Tail(u), f)
<1> DEFINE v == Tail(u)
           s == EventsOf(sh)
           g == h + 1
<1>0. Copy(k, h, led, sh, una, tp) /\ Order(k, h, led, sh, w) /\ News(k, h, led, sh, d) /\ Covers(k, h, led, sh, u, d)
  BY DEF InStep, Linked
<1>1. /\ led \in Seq(Happening) /\ sh \in Seq(Sheet) /\ k <= Len(led) /\ Rising(s) /\ k <= h /\ Len(sh) \in Nat
      /\ h <= Len(sh) /\ 1 <= k
      /\ \A i \in 1..Len(sh) : sh[i].event \in Happening /\ sh[i].event.by \in Nat
  BY <1>0, CopyFacts
<1>2. /\ e = sh[g].event /\ g \in 1..Len(sh) /\ g \in k + 1..Len(sh) /\ e \in Happening /\ Own(e) /\ e.by \in Nat /\ e.by <= w
      /\ \A p \in 1..Len(led) : led[p].by < e.by
      /\ Len(sh) = g + Len(v) /\ v \in Seq(Calls)
      /\ \A i \in 1..Len(v) : v[i].op = "event" /\ v[i].event = sh[g + i].event
  <2>1. /\ u[1].event = sh[h + 1].event /\ h + 1 \in 1..Len(sh) /\ h + 1 \in k + 1..Len(sh)
        /\ u[1].event \in Happening /\ Own(u[1].event) /\ u[1].event.by \in Nat /\ u[1].event.by <= w
        /\ \A p \in 1..Len(led) : led[p].by < u[1].event.by
        /\ Len(sh) = h + 1 + Len(Tail(u)) /\ Tail(u) \in Seq(Calls)
        /\ \A i \in 1..Len(Tail(u)) : Tail(u)[i].op = "event" /\ Tail(u)[i].event = sh[(h + 1) + i].event
    BY NextCall
  <2> QED BY <2>1
<1>3. /\ s \in Seq(Happening) /\ Len(s) = Len(sh) /\ DOMAIN s = 1..Len(sh)
      /\ \A i \in 1..Len(sh) : s[i] = sh[i].event
  BY <1>1, EventsAre
<1>4. g = h + 1 /\ g - 1 = h /\ g \in Nat /\ Len(v) \in Nat
  BY <1>2
<1> HIDE DEF v, s, g
<1>5. e.type \in {"removed", "updated"} => g = Len(sh)
  <2> SUFFICES ASSUME e.type \in {"removed", "updated"}, g # Len(sh) PROVE FALSE
    OBVIOUS
  <2>0. g \in Nat /\ g \in k + 1..Len(sh) /\ Len(sh) \in Nat /\ g # Len(sh)
    BY <1>1, <1>2, <1>4
  <2>1. g + 1 \in k + 1..Len(sh) /\ g + 1 \in 1..Len(sh) /\ g < g + 1
    BY <2>0
  <2>2. Own(s[g]) /\ Own(s[g + 1])
    BY <1>0, <1>2, <1>3, <2>1 DEF Copy
  <2>3. s[g].by < s[g + 1].by
    BY <1>1, <1>2, <1>3, <2>1, <2>2 DEF Rising
  <2>4. s[g + 1].by <= w /\ w \in Nat /\ s[g].by = e.by /\ s[g + 1].by \in Nat
    BY <1>0, <1>1, <1>2, <1>3, <2>1 DEF Order
  <2> QED BY <1>2, <2>3, <2>4
<1>6. News(k, g, led, sh, f)
  BY <1>0, <1>1, <1>2, <1>5, RefuseNews DEF g, s
<1>7. Copy(k, g, led, sh, una, tp)
  <2>1. g \in k..Len(sh)
    BY <1>2
  <2> QED BY <1>0, <2>1 DEF Copy
<1>8. Order(k, g, led, sh, w)
  <2>1. \A j \in g + 1..Len(sh) : j \in h + 1..Len(sh)
    BY <1>1, <1>4
  <2>2. \A i \in k + 1..h : i \in k + 1..g
    BY <1>4
  <2> QED BY <1>0, <2>1, <2>2 DEF Order
<1> DEFINE T == TableAfter(led)
           P == After(s, h)
           Q == After(s, g)
<1>9. Under(T.bets, P.bets)
  <2>1. OnThePage(k, h, led, sh, u, d)
    BY <1>0 DEF Covers
  <2>2. ~GivenBack(k, h, sh, u, d)
    BY DEF GivenBack
  <2> QED BY <2>1, <2>2 DEF OnThePage, s
<1>10. P \in Tables /\ Q = Reduce(P, e)
  <2>1. g \in 1..Len(s)
    BY <1>2, <1>3
  <2>2. /\ After(s, g - 1) \in Tables /\ After(s, g) = Reduce(After(s, g - 1), s[g])
    BY <1>1, <1>3, <2>1, AfterMoves
  <2> QED BY <1>2, <1>3, <1>4, <2>2
<1>11. OnThePage(k, g, led, sh, v, f)
  <2> HIDE DEF T, P, Q
  <2>1. CASE e.type \in {"bet", "toggled"}
    <3>1. P.bets \subseteq Q.bets
      <4>1. CASE e.type = "bet"
        <5>1. Q.bets = P.bets \/ Q.bets = P.bets \cup {BetOf(e)}
          BY <1>2, <1>10, <4>1, ReduceBet
        <5> QED BY <5>1
      <4>2. CASE e.type = "toggled"
        <5>1. Q.bets = P.bets
          BY <1>2, <1>10, <4>2, ReduceToggle
        <5> QED BY <5>1
      <4> QED BY <2>1, <4>1, <4>2
    <3>2. Under(T.bets, Q.bets)
      BY <1>9, <3>1 DEF Under
    <3>3. ~GivenBack(k, g, sh, v, f)
      BY <1>2, <2>1 DEF GivenBack
    <3> QED BY <3>2, <3>3 DEF OnThePage, T, Q, s
  <2>2. CASE e.type \in {"removed", "updated"}
    <3>1. Len(v) = 0
      BY <1>2, <1>4, <1>5, <2>2
    <3>2. v = <<>> /\ g > k /\ sh[g].event.type \in {"removed", "updated"}
      BY <1>1, <1>2, <1>4, <2>2, <3>1
    <3>3. sh[g].event.by \in Refusals(f)
      <4> DEFINE m == [op |-> "reject", id |-> e.by]
      <4>1. m.op = "reject" /\ m.id = sh[g].event.by
        BY <1>2
      <4>2. d \in Seq(Msgs)
        BY <1>0 DEF News
      <4>3. m \in Msgs
        BY <1>2 DEF Msgs
      <4>4. f = Append(d, m)
        OBVIOUS
      <4> HIDE DEF m
      <4>5. Refusals(f) = Refusals(d) \cup {m.id}
        BY <4>1, <4>2, <4>3, <4>4, RefusalsAppend
      <4> QED BY <4>1, <4>5
    <3>4. Under(T.bets, After(s, g - 1).bets)
      BY <1>4, <1>9 DEF P
    <3>5. GivenBack(k, g, sh, v, f)
      BY <3>2, <3>3 DEF GivenBack
    <3> QED BY <3>4, <3>5 DEF OnThePage, T, s
  <2> QED BY <1>2, <2>1, <2>2 DEF Happening, Own
<1>12. Covers(k, g, led, sh, v, f)
  BY <1>0, <1>11 DEF Covers
<1>13. Linked(k, g, led, sh, v, f)
  BY <1>2, <1>6 DEF Linked
<1> QED BY <1>7, <1>8, <1>12, <1>13 DEF InStep, v, g

LEMMA NumbersType ==
  ASSUME NEW led \in Seq(Happening), NEW a \in Nat, NEW n \in Nat, a <= n, n <= Len(led)
  PROVE  /\ NumbersOf(led, a, n) \in Seq(Sheet) /\ Len(NumbersOf(led, a, n)) = n - a /\ DOMAIN NumbersOf(led, a, n) = 1..n - a
         /\ \A i \in 1..n - a : /\ NumbersOf(led, a, n)[i].seq = a + i /\ NumbersOf(led, a, n)[i].event = led[a + i]
                                /\ a + i \in 1..Len(led)
<1> DEFINE s == NumbersOf(led, a, n)
           Y == Sheet
<1>1. Len(led) \in Nat /\ n - a \in Nat /\ \A i \in 1..n - a : a + i \in 1..Len(led) /\ a + i \in Nat
  OBVIOUS
<1>2. DOMAIN s = 1..n - a /\ \A i \in 1..n - a : s[i] = [seq |-> a + i, event |-> led[a + i]]
  BY DEF NumbersOf
<1>3. \A i \in 1..n - a : led[a + i] \in Happening
  BY <1>1
<1>4. \A i \in 1..n - a : s[i] \in Y
  BY <1>1, <1>2, <1>3 DEF Sheet
<1>5. s \in [1..n - a -> Y]
  BY <1>2, <1>4 DEF NumbersOf
<1>6. \A i \in 1..n - a : s[i].seq = a + i /\ s[i].event = led[a + i]
  BY <1>2
<1> HIDE DEF s, Y
<1>7. s \in Seq(Y) /\ Len(s) = n - a
  BY <1>1, <1>5
<1> QED BY <1>1, <1>2, <1>6, <1>7 DEF s, Y

\* What the service answers when the page joins again with the first k events.
JoinedTo(led, k) ==
  IF k >= Len(led)
    THEN [op |-> "joined", replace |-> TRUE, sheets |-> NumbersOf(led, 0, Len(led)), top |-> Len(led)]
    ELSE [op |-> "joined", replace |-> FALSE, sheets |-> NumbersOf(led, k, Len(led)), top |-> Len(led)]

LEMMA JoinCallStep ==
  ASSUME NEW k \in Nat, NEW h \in Nat, NEW led, NEW sh, NEW una, NEW tp, NEW u, NEW d, NEW w,
         InStep(k, h, led, sh, una, tp, u, d, w), Joining(k, h, led, sh, u, d), u # <<>>,
         NEW f, f = Append(d, JoinedTo(led, k))
  PROVE  /\ u[1].op = "join" /\ u[1].since = k /\ k >= 1
         /\ InStep(k, h, led, sh, una, tp, Tail(u), f, w) /\ Joining(k, h, led, sh, Tail(u), f)
<1> DEFINE m == JoinedTo(led, k)
           n == Len(led)
           M == Msgs
<1>0. Copy(k, h, led, sh, una, tp) /\ Order(k, h, led, sh, w) /\ Covers(k, h, led, sh, u, d)
  BY DEF InStep
<1>1. led \in Seq(Happening) /\ n \in Nat /\ 1 <= k /\ k <= n /\ sh \in Seq(Sheet)
  BY <1>0, CopyFacts
<1>2. u = <<[op |-> "join", since |-> k]>> /\ d = <<>> /\ h = k /\ k = Len(sh)
  BY DEF Joining
<1>3. u[1].op = "join" /\ u[1].since = k /\ Tail(u) = <<>>
  BY <1>2
<1>4. /\ m.op = "joined" /\ m.top = n /\ m.replace \in BOOLEAN
      /\ m.sheets = NumbersOf(led, IF m.replace THEN 0 ELSE k, n)
  BY DEF JoinedTo
<1>5. m \in M
  <2>1. NumbersOf(led, 0, n) \in Seq(Sheet)
    <3> DEFINE a == 0
    <3>1. a \in Nat /\ a <= n /\ n <= Len(led)
      BY <1>1
    <3> HIDE DEF a, n
    <3>2. NumbersOf(led, a, n) \in Seq(Sheet)
      BY <1>1, <3>1, NumbersType
    <3> QED BY <3>2 DEF a
  <2>2. NumbersOf(led, k, n) \in Seq(Sheet)
    <3>1. n <= Len(led)
      BY <1>1
    <3> HIDE DEF n
    <3> QED BY <1>1, <3>1, NumbersType
  <2>3. CASE k >= n
    <3>1. m = [op |-> "joined", replace |-> TRUE, sheets |-> NumbersOf(led, 0, n), top |-> n]
      BY <2>3 DEF JoinedTo
    <3> HIDE DEF m, n
    <3> QED BY <1>1, <2>1, <3>1 DEF Msgs
  <2>4. CASE ~(k >= n)
    <3>1. m = [op |-> "joined", replace |-> FALSE, sheets |-> NumbersOf(led, k, n), top |-> n]
      BY <2>4 DEF JoinedTo
    <3> HIDE DEF m, n
    <3> QED BY <1>1, <2>2, <3>1 DEF Msgs
  <2> QED BY <2>3, <2>4
<1>6. f = <<m>>
  BY <1>2
<1> HIDE DEF m, M
<1>7. f \in Seq(M) /\ f[1] = m /\ Tail(f) = <<>> /\ f # <<>>
  BY <1>5, <1>6
<1> DEFINE z == <<>>
<1>8. News(n, n, led, sh, Tail(f))
  <2>1. z = Tail(f) /\ DOMAIN z = {} /\ z \in Seq(Msgs)
    BY <1>7
  <2>2. \A p \in n + 1..Len(led) : FALSE
    BY <1>1
  <2> HIDE DEF z, n
  <2>3. InTurn(n, led, z)
    BY <2>1, <2>2 DEF InTurn
  <2>4. Truthful(n, led, z) /\ Refused(n, n, led, sh, z)
    BY <2>1 DEF Truthful, Refused
  <2> QED BY <2>1, <2>3, <2>4 DEF News
<1>9. Joining(k, h, led, sh, Tail(u), f)
  <2>1. n \in k..Len(led)
    BY <1>1
  <2>2. Tail(u) \in Seq(Calls)
    <3> DEFINE C == Calls
    <3>1. u \in Seq(C) /\ u # <<>>
      BY DEF Joining
    <3> HIDE DEF C
    <3>2. Tail(u) \in Seq(C)
      BY <3>1, TailParts
    <3> QED BY <3>2 DEF C
  <2>3. News(f[1].top, f[1].top, led, sh, Tail(f)) /\ f[1].top \in k..Len(led)
    BY <1>4, <1>7, <1>8, <2>1
  <2> QED BY <1>2, <1>3, <1>4, <1>7, <2>2, <2>3 DEF Joining, M
<1>10. Covers(k, h, led, sh, Tail(u), f)
  <2>1. ~GivenBack(k, h, sh, u, d) /\ ~GivenBack(k, h, sh, Tail(u), f)
    BY <1>1, <1>2 DEF GivenBack
  <2> QED BY <1>0, <2>1 DEF Covers, OnThePage
<1> QED BY <1>0, <1>1, <1>3, <1>9, <1>10 DEF InStep

-----------------------------------------------------------------------------
(* The store applies a run of numbered events.                                *)

StoreStates == [sheets : Seq(Sheet), top : Nat, gap : BOOLEAN]

LEMMA TakeKeeps ==
  ASSUME NEW c \in StoreStates, NEW x \in Sheet
  PROVE  TakeSheet(c, x) \in StoreStates
<1> DEFINE Y == Sheet
           z == Append(c.sheets, x)
<1>1. c.sheets \in Seq(Y) /\ c.top \in Nat /\ c.gap \in BOOLEAN /\ c = [sheets |-> c.sheets, top |-> c.top, gap |-> c.gap]
  BY DEF StoreStates
<1>2. x.seq \in Nat /\ x \in Y
  BY DEF Sheet
<1> HIDE DEF Y
<1>3. z \in Seq(Y)
  BY <1>1, <1>2
<1> HIDE DEF z
<1>4. [c EXCEPT !.gap = TRUE] \in StoreStates
  BY <1>1 DEF StoreStates
<1>5. [c EXCEPT !.sheets = z, !.top = x.seq] \in StoreStates
  BY <1>1, <1>2, <1>3 DEF StoreStates, Y
<1> QED BY <1>4, <1>5 DEF TakeSheet, z

Taker(g, c, s) ==
  g = [S \in SUBSET DOMAIN s |-> IF S = {} THEN c ELSE TakeSheet(g[S \ {Max(S)}], s[Max(S)])]

LEMMA ApplyIsChosen ==
  ASSUME NEW c, NEW s
  PROVE  ApplySheets(c, s) = (CHOOSE g : Taker(g, c, s))[DOMAIN s]
BY DEF ApplySheets, FoldLeft, MapThenFoldSet, Taker

Taking == [p \in StoreStates \X Sheet |-> TakeSheet(p[1], p[2])]

LEMMA ApplyFolds ==
  /\ Folding(Taking, StoreStates, Sheet)
  /\ \A c \in StoreStates, x \in Sheet : Taking[<<c, x>>] = TakeSheet(c, x)
  /\ \A c \in StoreStates, s \in Seq(Sheet) : ApplySheets(c, s) = FoldOf(Taking, c, s)
<1> DEFINE X == StoreStates
           Y == Sheet
           F == [p \in X \X Y |-> TakeSheet(p[1], p[2])]
<1>1. Folding(F, X, Y)
  BY TakeKeeps DEF Folding
<1>2. \A r \in X, i \in Y : F[<<r, i>>] = TakeSheet(r, i)
  OBVIOUS
<1>4. Taking = F
  BY DEF Taking
<1> HIDE DEF F, X, Y
<1>5. ASSUME NEW b \in X, NEW s \in Seq(Y) PROVE ApplySheets(b, s) = FoldOf(F, b, s)
  <2> DEFINE c == CHOOSE g : Taker(g, b, s)
             k == Len(s)
  <2>1. k \in Nat /\ DOMAIN s = 1..k
    OBVIOUS
  <2>2. ASSUME NEW S \in SUBSET DOMAIN s, S # {}
        PROVE  s[Max(S)] \in Y /\ S \ {Max(S)} \in SUBSET DOMAIN s
    <3>1. \A j \in DOMAIN s : s[j] \in Y
      OBVIOUS
    <3> HIDE DEF k
    <3>2. S \in SUBSET (1..k)
      BY <2>1
    <3>3. Max(S) \in S
      BY <2>1, <2>2, <3>2, MaxOfPart
    <3> QED BY <3>1, <3>3
  <2>3. Taker(c, b, s)
    <3>1. PICK g : Folder(g, F, b, s) /\ \A S \in SUBSET DOMAIN s : g[S] \in X
      BY <1>1, TypedFolder
    <3>2. ASSUME NEW S \in SUBSET DOMAIN s
          PROVE  (IF S = {} THEN b ELSE F[<<g[S \ {Max(S)}], s[Max(S)]>>])
               = (IF S = {} THEN b ELSE TakeSheet(g[S \ {Max(S)}], s[Max(S)]))
      BY <1>2, <2>2, <3>1
    <3>3. Taker(g, b, s)
      BY <3>1, <3>2 DEF Folder, Taker
    <3> QED BY <3>3
  <2>4. ApplySheets(b, s) = c[DOMAIN s]
    BY ApplyIsChosen
  <2> HIDE DEF c
  <2>5. FoldsBy(c, F, b, s, Len(s), X)
    <3>1. c[{}] = b
      BY <2>3 DEF Taker
    <3>2. ASSUME NEW S \in SUBSET (1..Len(s)), S # {}, c[S \ {Max(S)}] \in X
          PROVE  c[S] = F[<<c[S \ {Max(S)}], s[Max(S)]>>]
      <4>1. S \in SUBSET DOMAIN s
        BY <2>1
      <4>2. c[S] = TakeSheet(c[S \ {Max(S)}], s[Max(S)])
        BY <2>3, <3>2, <4>1 DEF Taker
      <4>3. s[Max(S)] \in Y
        BY <2>2, <3>2, <4>1
      <4> QED BY <1>2, <3>2, <4>2, <4>3
    <3> QED BY <3>1, <3>2 DEF FoldsBy
  <2>6. c[DOMAIN s] = FoldOf(F, b, s)
    BY <1>1, <2>5, FoldByFunction
  <2> QED BY <2>4, <2>6
<1> QED BY <1>1, <1>2, <1>4, <1>5 DEF X, Y

LEMMA ApplySteps ==
  ASSUME NEW c \in StoreStates
  PROVE  /\ ApplySheets(c, <<>>) = c
         /\ \A s \in Seq(Sheet) :
              /\ ApplySheets(c, s) \in StoreStates
              /\ \A x \in Sheet : ApplySheets(c, Append(s, x)) = TakeSheet(ApplySheets(c, s), x)
         /\ \A x \in Sheet : ApplySheets(c, <<x>>) = TakeSheet(c, x)
<1> DEFINE X == StoreStates
           Y == Sheet
           F == Taking
<1>1. c \in X
  OBVIOUS
<1>2. /\ Folding(F, X, Y) /\ \A t \in X, e \in Y : F[<<t, e>>] = TakeSheet(t, e)
      /\ \A t \in X, s \in Seq(Y) : ApplySheets(t, s) = FoldOf(F, t, s)
  BY ApplyFolds
<1> HIDE DEF X, Y, F
<1>3. /\ FoldOf(F, c, <<>>) = c
      /\ \A s \in Seq(Y) : /\ FoldOf(F, c, s) \in X
                           /\ \A e \in Y : FoldOf(F, c, Append(s, e)) = F[<<FoldOf(F, c, s), e>>]
  BY <1>1, <1>2, FoldSteps
<1> DEFINE none == <<>>
<1>4. none \in Seq(Y) /\ ApplySheets(c, none) = c
  <2>1. none \in Seq(Y) /\ FoldOf(F, c, none) = c
    BY <1>3
  <2> HIDE DEF none
  <2> QED BY <1>1, <1>2, <2>1
<1>5. ASSUME NEW s \in Seq(Y)
      PROVE  ApplySheets(c, s) \in X /\ \A e \in Y : ApplySheets(c, Append(s, e)) = TakeSheet(ApplySheets(c, s), e)
  <2>1. ApplySheets(c, s) \in X
    BY <1>1, <1>2, <1>3
  <2>2. ASSUME NEW e \in Y PROVE ApplySheets(c, Append(s, e)) = TakeSheet(ApplySheets(c, s), e)
    <3>1. Append(s, e) \in Seq(Y)
      OBVIOUS
    <3>2. ApplySheets(c, Append(s, e)) = F[<<FoldOf(F, c, s), e>>]
      BY <1>1, <1>2, <1>3, <3>1
    <3>3. F[<<ApplySheets(c, s), e>>] = TakeSheet(ApplySheets(c, s), e)
      BY <1>2, <2>1
    <3> QED BY <1>1, <1>2, <3>2, <3>3
  <2> QED BY <2>1, <2>2
<1>6. ASSUME NEW x \in Y PROVE ApplySheets(c, <<x>>) = TakeSheet(c, x)
  <2>1. <<x>> = Append(none, x)
    OBVIOUS
  <2> HIDE DEF none
  <2>2. ApplySheets(c, Append(none, x)) = TakeSheet(ApplySheets(c, none), x)
    BY <1>4, <1>5
  <2> QED BY <1>4, <2>1, <2>2
<1> QED BY <1>4, <1>5, <1>6 DEF X, Y, none

\* A copy with the first a events of the log, and what the log says from there to n.
LEMMA ApplyRun ==
  ASSUME NEW led \in Seq(Happening), NEW a \in Nat, NEW c \in StoreStates, ~c.gap, c.top = a, Begins(c.sheets, led, a),
         NEW n \in Nat, a <= n, n <= Len(led)
  PROVE  /\ ApplySheets(c, NumbersOf(led, a, n)) \in StoreStates /\ ~ApplySheets(c, NumbersOf(led, a, n)).gap
         /\ ApplySheets(c, NumbersOf(led, a, n)).top = n /\ Begins(ApplySheets(c, NumbersOf(led, a, n)).sheets, led, n)
<1> DEFINE A(m) == ApplySheets(c, NumbersOf(led, a, m))
           Good(m) == A(m) \in StoreStates /\ ~A(m).gap /\ A(m).top = m /\ Begins(A(m).sheets, led, m)
           T == {m \in Nat : a + m <= Len(led) => Good(a + m)}
<1>0. Len(led) \in Nat
  OBVIOUS
<1>1. 0 \in T
  <2>1. NumbersOf(led, a, a) = <<>>
    <3>1. 1..a - a = {}
      OBVIOUS
    <3> QED BY <3>1 DEF NumbersOf
  <2>2. A(a) = c
    BY <2>1, ApplySteps
  <2> HIDE DEF A
  <2>3. Good(a)
    BY <2>2
  <2> HIDE DEF Good
  <2>4. a + 0 = a
    OBVIOUS
  <2> QED BY <2>3, <2>4
<1>2. \A m \in Nat : m \in T => m + 1 \in T
  <2> SUFFICES ASSUME NEW m \in Nat, m \in T, a + (m + 1) <= Len(led) PROVE Good(a + (m + 1))
    OBVIOUS
  <2> DEFINE b == a + m
             e == led[b + 1]
             x == [seq |-> b + 1, event |-> e]
             s == NumbersOf(led, a, b)
  <2>1. b \in Nat /\ b + 1 = a + (m + 1) /\ b <= Len(led) /\ b + 1 <= Len(led) /\ a <= b /\ b + 1 \in Nat /\ b + 1 \in 1..Len(led)
    BY <1>0
  <2>2. Good(b)
    BY <2>1
  <2> HIDE DEF b
  <2>3. e \in Happening
    BY <2>1
  <2>4. x \in Sheet /\ x.seq = b + 1 /\ x.event = e
    BY <2>1, <2>3 DEF Sheet
  <2>5. s \in Seq(Sheet) /\ Len(s) = b - a /\ DOMAIN s = 1..b - a
    BY <2>1, NumbersType
  <2>6. NumbersOf(led, a, b + 1) = Append(s, x)
    <3> DEFINE q == NumbersOf(led, a, b + 1)
               r == Append(s, x)
    <3>1. q = [i \in 1..(b + 1) - a |-> [seq |-> a + i, event |-> led[a + i]]]
      BY DEF NumbersOf
    <3>2. s = [i \in 1..b - a |-> [seq |-> a + i, event |-> led[a + i]]]
      BY DEF NumbersOf
    <3>3. r = [i \in 1..Len(s) + 1 |-> IF i = Len(s) + 1 THEN x ELSE s[i]]
      <4> DEFINE Y == Sheet
      <4>1. s \in Seq(Y) /\ x \in Y
        BY <2>4, <2>5
      <4> HIDE DEF Y, s, x
      <4>2. r \in Seq(Y) /\ Len(r) = Len(s) + 1
        BY <4>1
      <4>3. \A i \in 1..Len(s) + 1 : r[i] = IF i = Len(s) + 1 THEN x ELSE s[i]
        BY <4>1
      <4> HIDE DEF r
      <4>4. r \in [1..Len(r) -> Y]
        BY <4>2
      <4> QED BY <4>2, <4>3, <4>4
    <3>4. (b + 1) - a = Len(s) + 1 /\ Len(s) \in Nat /\ Len(s) = b - a
      BY <2>1, <2>5
    <3>5. ASSUME NEW i \in 1..Len(s) + 1
          PROVE  [seq |-> a + i, event |-> led[a + i]] = IF i = Len(s) + 1 THEN x ELSE s[i]
      <4>1. CASE i = Len(s) + 1
        <5>1. a + i = b + 1
          BY <2>1, <3>4, <4>1
        <5> QED BY <4>1, <5>1
      <4>2. CASE i # Len(s) + 1
        <5>1. i \in 1..b - a
          BY <3>4, <4>2
        <5> QED BY <3>2, <4>2, <5>1
      <4> QED BY <4>1, <4>2
    <3> HIDE DEF q, r, s, x
    <3> QED BY <3>1, <3>3, <3>4, <3>5 DEF q, r
  <2> HIDE DEF x, s
  <2>7. A(b + 1) = TakeSheet(A(b), x)
    <3>1. A(b) = ApplySheets(c, s) /\ A(b + 1) = ApplySheets(c, Append(s, x))
      BY <2>6 DEF s
    <3> HIDE DEF A
    <3> QED BY <2>4, <2>5, <3>1, ApplySteps
  <2> DEFINE o == A(b)
             p == A(b + 1)
  <2>8. o \in StoreStates /\ ~o.gap /\ o.top = b /\ Begins(o.sheets, led, b)
    BY <2>2
  <2>9. p = TakeSheet(o, x)
    BY <2>7
  <2> HIDE DEF o, p
  <2>10. p = [o EXCEPT !.sheets = Append(@, x), !.top = b + 1]
    BY <2>1, <2>4, <2>8, <2>9 DEF TakeSheet
  <2>11. p \in StoreStates
    BY <2>4, <2>8, <2>9, TakeKeeps
  <2>12. p.sheets = Append(o.sheets, x) /\ p.top = b + 1 /\ p.gap = o.gap
    BY <2>8, <2>10 DEF StoreStates
  <2>13. Begins(p.sheets, led, b + 1)
    <3> DEFINE Y == Sheet
               q == o.sheets
    <3>1. q \in Seq(Y) /\ Len(q) = b /\ x \in Y /\ \A i \in 1..b : q[i].seq = i /\ q[i].event = led[i]
      BY <2>4, <2>8 DEF Begins
    <3>2. p.sheets = Append(q, x)
      BY <2>12
    <3> HIDE DEF q, Y
    <3>3. /\ p.sheets \in Seq(Y) /\ Len(p.sheets) = b + 1 /\ p.sheets[b + 1] = x
          /\ \A i \in 1..b : p.sheets[i] = q[i]
      BY <3>1, <3>2
    <3>4. \A i \in 1..b + 1 : p.sheets[i].seq = i /\ p.sheets[i].event = led[i]
      <4> TAKE i \in 1..b + 1
      <4>1. CASE i \in 1..b
        BY <3>1, <3>3, <4>1
      <4>2. CASE i = b + 1
        BY <2>4, <3>3, <4>2 DEF e
      <4>3. i \in 1..b \/ i = b + 1
        BY <2>1
      <4> QED BY <4>1, <4>2, <4>3
    <3> QED BY <3>3, <3>4 DEF Begins, Y
  <2>14. Good(b + 1)
    BY <2>8, <2>11, <2>12, <2>13 DEF p
  <2> HIDE DEF Good
  <2> QED BY <2>1, <2>14
<1> HIDE DEF T
<1>3. Nat \subseteq T
  BY <1>1, <1>2, NaturalsBySteps
<1>4. n - a \in Nat /\ a + (n - a) = n
  OBVIOUS
<1>5. n - a \in T
  BY <1>3, <1>4
<1> HIDE DEF Good
<1>6. Good(n)
  BY <1>4, <1>5 DEF T
<1> QED BY <1>6 DEF Good

-----------------------------------------------------------------------------
(* What the store makes of each message.                                      *)

LEMMA MaxIs ==
  ASSUME NEW S, S \subseteq Nat, NEW m \in S, \A x \in S : x <= m
  PROVE  Max(S) = m
<1>1. \E x \in S : \A y \in S : x >= y
  <2>1. \A y \in S : m >= y
    OBVIOUS
  <2> QED BY <2>1
<1> DEFINE c == Max(S)
<1>2. c \in S /\ \A y \in S : c >= y
  BY <1>1 DEF Max
<1> HIDE DEF c
<1>3. c \in Nat /\ m \in Nat /\ c >= m /\ c <= m
  BY <1>2
<1> QED BY <1>3 DEF c

LEMMA TopIs ==
  ASSUME NEW k \in Nat, NEW h \in Nat, NEW led, NEW sh, NEW una, NEW tp, NEW w,
         Copy(k, h, led, sh, una, tp), Order(k, h, led, sh, w)
  PROVE  TopOf(sh) = sh[Len(sh)].seq
<1>1. /\ sh \in Seq(Sheet) /\ Len(sh) \in Nat /\ 1 <= k /\ k <= Len(sh) /\ sh[k].seq = k /\ tp \in Nat
      /\ \A i \in 1..Len(sh) : sh[i].seq \in Nat
      /\ \A i \in k + 1..Len(sh) : sh[i].seq >= k + 1 /\ sh[i].seq <= tp
  BY CopyFacts
<1>2. tp = sh[Len(sh)].seq /\ \A i \in 1..k : sh[i].seq = i
  BY DEF Copy
<1>3. k <= tp
  <2>1. CASE k = Len(sh)
    BY <1>1, <1>2, <2>1
  <2>2. CASE k # Len(sh)
    <3>1. Len(sh) \in k + 1..Len(sh)
      BY <1>1, <2>2
    <3> QED BY <1>1, <1>2, <3>1
  <2> QED BY <2>1, <2>2
<1> DEFINE S == {sh[i].seq : i \in DOMAIN sh} \cup {0}
<1>4. DOMAIN sh = 1..Len(sh)
  BY <1>1
<1>5. S \subseteq Nat
  BY <1>1, <1>4
<1>6. tp \in S
  <2>1. Len(sh) \in DOMAIN sh
    BY <1>1, <1>4
  <2> QED BY <1>2, <2>1
<1>7. \A x \in S : x <= tp
  <2> TAKE x \in S
  <2>1. CASE x = 0
    BY <1>1, <2>1
  <2>2. CASE \E i \in DOMAIN sh : x = sh[i].seq
    <3>1. PICK i \in 1..Len(sh) : x = sh[i].seq
      BY <1>4, <2>2
    <3>2. CASE i \in 1..k
      BY <1>1, <1>2, <1>3, <3>1, <3>2
    <3>3. CASE i \in k + 1..Len(sh)
      BY <1>1, <3>1, <3>3
    <3>4. i \in 1..k \/ i \in k + 1..Len(sh)
      BY <1>1
    <3> QED BY <3>2, <3>3, <3>4
  <2> QED BY <2>1, <2>2
<1> HIDE DEF S
<1>8. Max(S) = tp
  BY <1>5, <1>6, <1>7, MaxIs
<1> QED BY <1>2, <1>8 DEF TopOf, S

\* The places of an own event in the copy.
Places(sh, id) == {i \in DOMAIN sh : sh[i].event.by = id}

LEMMA OnePlace ==
  ASSUME NEW sh \in Seq(Sheet), Rising(EventsOf(sh)), NEW i \in 1..Len(sh), Own(sh[i].event)
  PROVE  Places(sh, sh[i].event.by) = {i} /\ Max(Places(sh, sh[i].event.by)) = i
<1> DEFINE S == Places(sh, sh[i].event.by)
<1>1. DOMAIN sh = 1..Len(sh)
  OBVIOUS
<1>2. i \in S
  BY <1>1 DEF Places
<1>3. \A j \in S : j = i
  <2> TAKE j \in S
  <2>1. j \in 1..Len(sh) /\ sh[i].event.by = sh[j].event.by
    BY <1>1 DEF Places
  <2> QED BY <2>1, OneEntry
<1> HIDE DEF S
<1>4. S = {i}
  BY <1>2, <1>3
<1>5. Max(S) = i
  <2>1. S \subseteq Nat /\ \A x \in S : x <= i
    BY <1>4
  <2> QED BY <1>2, <2>1, MaxIs
<1> QED BY <1>4, <1>5 DEF S

AckReads(k, h, led, sh, una, tp, u, d, w, id, sq, sh2, tp2) ==
  /\ k \in Nat /\ h \in Nat
  /\ InStep(k, h, led, sh, una, tp, u, d, w) /\ Linked(k, h, led, sh, u, d) /\ d # <<>> /\ d[1].op = "ack"
  /\ id = d[1].id /\ sq = d[1].seq
  /\ sh2 = [i \in DOMAIN sh |-> IF i \in Places(sh, id) /\ id \in una /\ i = Max(Places(sh, id))
                                  THEN [sh[i] EXCEPT !.seq = sq] ELSE sh[i]]
  /\ sh2 = sh /\ tp2 = IF id \in una THEN Max({tp, sq}) ELSE tp

LEMMA AckTaken ==
  ASSUME NEW k, NEW h, NEW led, NEW sh, NEW una, NEW tp, NEW u, NEW d, NEW w, NEW id, NEW sq, NEW sh2, NEW tp2,
         AckReads(k, h, led, sh, una, tp, u, d, w, id, sq, sh2, tp2)
  PROVE  InStep(k + 1, h, led, sh2, una \ {id}, tp2, u, Tail(d), w) /\ Linked(k + 1, h, led, sh2, u, Tail(d))
<1> SUFFICES
      ASSUME k \in Nat, h \in Nat,
             InStep(k, h, led, sh, una, tp, u, d, w), Linked(k, h, led, sh, u, d), d # <<>>, d[1].op = "ack",
             id = d[1].id, sq = d[1].seq,
             sh2 = [i \in DOMAIN sh |-> IF i \in Places(sh, id) /\ id \in una /\ i = Max(Places(sh, id))
                                         THEN [sh[i] EXCEPT !.seq = sq] ELSE sh[i]],
             sh2 = sh, tp2 = IF id \in una THEN Max({tp, sq}) ELSE tp
      PROVE  InStep(k + 1, h, led, sh2, una \ {id}, tp2, u, Tail(d), w) /\ Linked(k + 1, h, led, sh2, u, Tail(d))
  BY DEF AckReads
<1>0. /\ Copy(k, h, led, sh, una, tp) /\ Order(k, h, led, sh, w) /\ News(k, h, led, sh, d)
  BY DEF InStep, Linked
<1>1. /\ led \in Seq(Happening) /\ sh \in Seq(Sheet) /\ Rising(EventsOf(sh)) /\ Len(sh) \in Nat /\ k <= h /\ h <= Len(sh)
      /\ \A i \in 1..Len(sh) : sh[i].seq \in Nat
  BY <1>0, CopyFacts
<1>2. 1 \in DOMAIN d
  <2> DEFINE M == Msgs
  <2>1. d \in Seq(M)
    BY <1>0 DEF News
  <2> HIDE DEF M
  <2> QED BY <2>1, TailParts
<1>3. id # ByDealer /\ sq \in 1..Len(led) /\ led[sq].by = id
  BY <1>0, <1>2 DEF News, Truthful
<1>4. sq \in k + 1..Len(led)
  BY <1>0, <1>2 DEF News, InTurn, Advances
<1>5. PICK e \in k + 1..h : sh[e].event = led[sq]
  BY <1>0, <1>3, <1>4 DEF Order, Own
<1>6. e \in 1..Len(sh) /\ Own(sh[e].event) /\ sh[e].event.by = id /\ e \in k + 1..Len(sh) /\ e \in DOMAIN sh
  BY <1>1, <1>3, <1>5 DEF Own
<1>7. Places(sh, id) = {e} /\ Max(Places(sh, id)) = e
  <2>1. Places(sh, sh[e].event.by) = {e} /\ Max(Places(sh, sh[e].event.by)) = e
    BY <1>1, <1>6, OnePlace
  <2> QED BY <1>6, <2>1
<1>8. id \in una
  BY <1>0, <1>6 DEF Copy
<1>9. sh[e].seq = sq
  <2>1. sh2[e] = [sh[e] EXCEPT !.seq = sq]
    BY <1>6, <1>7, <1>8
  <2>2. sh[e] \in Sheet
    BY <1>1, <1>6
  <2>3. [sh[e] EXCEPT !.seq = sq].seq = sq
    BY <2>2 DEF Sheet
  <2> QED BY <2>1, <2>3
<1>10. /\ InStep(k + 1, h, led, sh, una \ {d[1].id}, tp, u, Tail(d), w) /\ Linked(k + 1, h, led, sh, u, Tail(d))
       /\ d[1].id \in una /\ tp \in Nat /\ d[1].seq \in Nat /\ d[1].seq <= tp
  <2>1. /\ InStep(k, h, led, sh, una, tp, u, d, w) /\ Linked(k, h, led, sh, u, d) /\ d # <<>> /\ d[1].op = "ack"
        /\ e \in 1..Len(sh) /\ sh[e].event.by = d[1].id /\ sh[e].seq = d[1].seq
    BY <1>6, <1>9
  <2> QED BY <2>1, AckStep
<1>11. tp2 = tp
  <2> DEFINE S == {tp, sq}
  <2>1. S \subseteq Nat /\ tp \in S /\ \A x \in S : x <= tp
    BY <1>10
  <2>2. tp2 = Max(S)
    BY <1>8
  <2> HIDE DEF S
  <2>3. Max(S) = tp
    BY <2>1, MaxIs
  <2> QED BY <2>2, <2>3
<1> QED BY <1>10, <1>11

LEMMA RemovedIs ==
  ASSUME NEW sh \in Seq(Sheet), NEW i \in 1..Len(sh), NEW sh2, sh2 = RemoveAt(sh, i)
  PROVE  Less(sh2, sh, i)
<1> DEFINE Y == Sheet
<1>1. sh \in Seq(Y) /\ Len(sh) \in Nat /\ i \in 1..Len(sh) /\ \A j \in 1..Len(sh) : sh[j] \in Y
  OBVIOUS
<1> HIDE DEF Y
<1>2. PICK a \in Int, b \in Int, c \in Int : a = i - 1 /\ b = i + 1 /\ c = Len(sh)
  <2>1. i - 1 \in Int /\ i + 1 \in Int /\ Len(sh) \in Int
    BY <1>1
  <2> QED BY <2>1
<1>3. i \in Nat /\ c \in Nat /\ 1 <= i /\ i <= c
  BY <1>1, <1>2
<1>4. /\ SubSeq(sh, 1, a) \in Seq(Y) /\ Len(SubSeq(sh, 1, a)) = a
      /\ \A j \in 1..a : SubSeq(sh, 1, a)[j] = sh[j]
  <2>1. \A j \in 1..a : sh[j] \in Y
    BY <1>1, <1>2, <1>3
  <2>2. /\ SubSeq(sh, 1, a) \in Seq(Y) /\ Len(SubSeq(sh, 1, a)) = IF 1 <= a THEN a - 1 + 1 ELSE 0
        /\ \A j \in 1..a - 1 + 1 : SubSeq(sh, 1, a)[j] = sh[1 + j - 1]
    BY <2>1, <1>2, SubSeqProperties
  <2> QED BY <2>2, <1>2, <1>3
<1>5. /\ SubSeq(sh, b, c) \in Seq(Y) /\ Len(SubSeq(sh, b, c)) = c - i
      /\ \A j \in 1..c - i : SubSeq(sh, b, c)[j] = sh[i + j]
  <2>1. \A j \in b..c : sh[j] \in Y
    BY <1>1, <1>2, <1>3
  <2>2. /\ SubSeq(sh, b, c) \in Seq(Y) /\ Len(SubSeq(sh, b, c)) = IF b <= c THEN c - b + 1 ELSE 0
        /\ \A j \in 1..c - b + 1 : SubSeq(sh, b, c)[j] = sh[b + j - 1]
    BY <2>1, <1>2, SubSeqProperties
  <2>3. /\ (IF b <= c THEN c - b + 1 ELSE 0) = c - i /\ c - b + 1 = c - i
        /\ \A j \in 1..c - i : b + j - 1 = i + j
    BY <1>2, <1>3
  <2> QED BY <2>2, <2>3
<1>6. PICK f \in Seq(Y), g \in Seq(Y) : f = SubSeq(sh, 1, a) /\ g = SubSeq(sh, b, c) /\ sh2 = f \o g
  BY <1>2, <1>4, <1>5 DEF RemoveAt
<1>7. /\ Len(f) = a /\ Len(g) = c - i
      /\ \A j \in 1..a : f[j] = sh[j]
      /\ \A j \in 1..c - i : g[j] = sh[i + j]
  BY <1>4, <1>5, <1>6
<1>8. sh2 \in Seq(Y) /\ Len(sh2) = c - 1
  <2>1. sh2 \in Seq(Y) /\ Len(sh2) = Len(f) + Len(g)
    BY <1>6, ConcatProperties
  <2>2. Len(f) + Len(g) = c - 1
    BY <1>2, <1>3, <1>7
  <2> QED BY <2>1, <2>2
<1>9. ASSUME NEW j \in 1..i - 1 PROVE sh2[j] = sh[j]
  <2>1. j \in 1..a /\ j \in 1..Len(f)
    BY <1>2, <1>3, <1>7
  <2>2. sh2[j] = f[j]
    BY <1>6, <2>1
  <2> QED BY <1>7, <2>1, <2>2
<1>10. ASSUME NEW j \in i..c - 1 PROVE sh2[j] = sh[j + 1]
  <2>1. /\ j \in Len(f) + 1..Len(f) + Len(g) /\ j - Len(f) \in 1..c - i /\ i + (j - Len(f)) = j + 1
    BY <1>2, <1>3, <1>7
  <2>2. sh2[j] = g[j - Len(f)]
    BY <1>6, <2>1
  <2> QED BY <1>7, <2>1, <2>2
<1> QED BY <1>2, <1>8, <1>9, <1>10 DEF Less, Y

RejectReads(k, h, led, sh, una, tp, u, d, w, id, sh2, tp2) ==
  /\ k \in Nat /\ h \in Nat
  /\ InStep(k, h, led, sh, una, tp, u, d, w) /\ Linked(k, h, led, sh, u, d) /\ d # <<>> /\ d[1].op = "reject"
  /\ id = d[1].id
  /\ sh2 = IF id \in una /\ Places(sh, id) # {} THEN RemoveAt(sh, Max(Places(sh, id))) ELSE sh
  /\ tp2 = IF id \in una THEN TopOf(sh2) ELSE tp

LEMMA RejectTaken ==
  ASSUME NEW k, NEW h, NEW led, NEW sh, NEW una, NEW tp, NEW u, NEW d, NEW w, NEW id, NEW sh2, NEW tp2,
         RejectReads(k, h, led, sh, una, tp, u, d, w, id, sh2, tp2)
  PROVE  /\ h - 1 \in Nat
         /\ InStep(k, h - 1, led, sh2, una \ {id}, tp2, u, Tail(d), w) /\ Linked(k, h - 1, led, sh2, u, Tail(d))
<1> SUFFICES
      ASSUME k \in Nat, h \in Nat,
             InStep(k, h, led, sh, una, tp, u, d, w), Linked(k, h, led, sh, u, d), d # <<>>, d[1].op = "reject",
             id = d[1].id,
             sh2 = IF id \in una /\ Places(sh, id) # {} THEN RemoveAt(sh, Max(Places(sh, id))) ELSE sh,
             tp2 = IF id \in una THEN TopOf(sh2) ELSE tp
      PROVE  /\ h - 1 \in Nat
             /\ InStep(k, h - 1, led, sh2, una \ {id}, tp2, u, Tail(d), w) /\ Linked(k, h - 1, led, sh2, u, Tail(d))
  BY DEF RejectReads
<1>0. /\ Copy(k, h, led, sh, una, tp) /\ Order(k, h, led, sh, w) /\ News(k, h, led, sh, d)
  BY DEF InStep, Linked
<1>1. /\ sh \in Seq(Sheet) /\ Rising(EventsOf(sh)) /\ Len(sh) \in Nat /\ k <= h /\ h <= Len(sh) /\ 1 <= k
  BY <1>0, CopyFacts
<1>2. 1 \in DOMAIN d
  <2> DEFINE M == Msgs
  <2>1. d \in Seq(M)
    BY <1>0 DEF News
  <2> HIDE DEF M
  <2> QED BY <2>1, TailParts
<1>3. PICK i \in k + 1..h : sh[i].event.by = id
  BY <1>0, <1>2 DEF News, Refused
<1>4. i \in 1..Len(sh) /\ i \in k + 1..Len(sh) /\ h - 1 \in Nat
  BY <1>1
<1>5. Own(sh[i].event) /\ id \in una
  BY <1>0, <1>3, <1>4 DEF Copy
<1>6. Places(sh, id) = {i} /\ Max(Places(sh, id)) = i
  <2>1. Places(sh, sh[i].event.by) = {i} /\ Max(Places(sh, sh[i].event.by)) = i
    BY <1>1, <1>4, <1>5, OnePlace
  <2> QED BY <1>3, <2>1
<1>7. sh2 = RemoveAt(sh, i)
  BY <1>5, <1>6
<1>8. Less(sh2, sh, i)
  BY <1>1, <1>4, <1>7, RemovedIs
<1>9. /\ InStep(k, h - 1, led, sh2, una \ {d[1].id}, sh2[Len(sh2)].seq, u, Tail(d), w)
      /\ Linked(k, h - 1, led, sh2, u, Tail(d))
  <2>1. /\ InStep(k, h, led, sh, una, tp, u, d, w) /\ Linked(k, h, led, sh, u, d) /\ d # <<>> /\ d[1].op = "reject"
        /\ i \in 1..Len(sh) /\ sh[i].event.by = d[1].id /\ Less(sh2, sh, i)
    BY <1>3, <1>4, <1>8
  <2> QED BY <2>1, RejectStep
<1>10. tp2 = sh2[Len(sh2)].seq
  <2> DEFINE g == h - 1
             x == una \ {d[1].id}
             y == sh2[Len(sh2)].seq
  <2>1. Copy(k, g, led, sh2, x, y) /\ Order(k, g, led, sh2, w) /\ g \in Nat
    BY <1>4, <1>9 DEF InStep
  <2> HIDE DEF g, x, y
  <2>2. TopOf(sh2) = sh2[Len(sh2)].seq
    BY <2>1, TopIs
  <2> QED BY <1>5, <2>2
<1> QED BY <1>4, <1>9, <1>10

SheetReads(k, h, led, sh, una, tp, u, d, w, x, c) ==
  /\ k \in Nat /\ h \in Nat
  /\ InStep(k, h, led, sh, una, tp, u, d, w) /\ Linked(k, h, led, sh, u, d) /\ d # <<>> /\ d[1].op = "sheet"
  /\ x = [seq |-> d[1].seq, event |-> d[1].event]
  /\ c = TakeSheet([sheets |-> sh, top |-> tp, gap |-> FALSE], x)
  /\ ~(c.sheets = sh /\ ~c.gap /\ d[1].event.by = ByDealer)

LEMMA SheetTaken ==
  ASSUME NEW k, NEW h, NEW led, NEW sh, NEW una, NEW tp, NEW u, NEW d, NEW w, NEW x, NEW c,
         SheetReads(k, h, led, sh, una, tp, u, d, w, x, c)
  PROVE  /\ ~c.gap
         /\ \E n, g \in Nat : InStep(n, g, led, c.sheets, una, c.top, u, Tail(d), w) /\ Linked(n, g, led, c.sheets, u, Tail(d))
<1> SUFFICES
      ASSUME k \in Nat, h \in Nat,
             InStep(k, h, led, sh, una, tp, u, d, w), Linked(k, h, led, sh, u, d), d # <<>>, d[1].op = "sheet",
             x = [seq |-> d[1].seq, event |-> d[1].event],
             c = TakeSheet([sheets |-> sh, top |-> tp, gap |-> FALSE], x),
             ~(c.sheets = sh /\ ~c.gap /\ d[1].event.by = ByDealer)
      PROVE  /\ ~c.gap
             /\ \E n, g \in Nat : InStep(n, g, led, c.sheets, una, c.top, u, Tail(d), w) /\ Linked(n, g, led, c.sheets, u, Tail(d))
  BY DEF SheetReads
<1>0. /\ InStep(k, h, led, sh, una, tp, u, d, w) /\ Linked(k, h, led, sh, u, d) /\ d # <<>> /\ d[1].op = "sheet"
  OBVIOUS
<1>1. tp \in Nat
  BY CopyFacts DEF InStep
<1> DEFINE b == [sheets |-> sh, top |-> tp, gap |-> FALSE]
<1>2. b.sheets = sh /\ b.top = tp /\ ~b.gap /\ x.seq = d[1].seq /\ x.event = d[1].event /\ c = TakeSheet(b, x)
  OBVIOUS
<1>3. d[1].seq \in Nat
  <2> DEFINE M == Msgs
  <2>1. d \in Seq(M)
    BY DEF Linked, News
  <2> HIDE DEF M
  <2>2. d[1] \in M
    BY <2>1
  <2> QED BY <1>0, <2>2, MsgKinds DEF M
<1>4. CASE Own(d[1].event)
  <2>1. /\ d[1].seq <= tp
        /\ InStep(k, h, led, sh, una, tp, u, Tail(d), w) /\ Linked(k, h, led, sh, u, Tail(d))
    <3>1. Own(d[1].event)
      BY <1>4
    <3> QED BY <1>0, <3>1, OldSheetStep
  <2>2. c = b
    <3> HIDE DEF b
    <3> QED BY <1>2, <2>1 DEF TakeSheet
  <2> QED BY <1>2, <2>1, <2>2
<1>5. CASE ~Own(d[1].event)
  <2>1. d[1].seq > tp
    <3> SUFFICES ASSUME d[1].seq <= tp PROVE FALSE
      BY <1>1, <1>3
    <3> HIDE DEF b
    <3>1. c = b
      BY <1>2 DEF TakeSheet
    <3> QED BY <1>2, <1>5, <3>1 DEF Own
  <2> DEFINE sh2 == Append(sh, x)
  <2>2. sh2 = Append(sh, [seq |-> d[1].seq, event |-> d[1].event])
    OBVIOUS
  <2> HIDE DEF sh2, b
  <2>3. /\ d[1].seq = tp + 1
        /\ InStep(k + 1, k + 1, led, sh2, una, tp + 1, u, Tail(d), w) /\ Linked(k + 1, k + 1, led, sh2, u, Tail(d))
    <3>1. ~Own(d[1].event)
      BY <1>5
    <3>2. /\ InStep(k, h, led, sh, una, tp, u, d, w) /\ Linked(k, h, led, sh, u, d) /\ d # <<>>
          /\ d[1].op = "sheet" /\ ~Own(d[1].event) /\ d[1].seq > tp
          /\ sh2 = Append(sh, [seq |-> d[1].seq, event |-> d[1].event])
      BY <1>0, <2>1, <2>2, <3>1
    <3> QED BY <3>2, <1>0, <1>1, <1>3, <2>1, <2>2, <3>1, DealerSheetStep
  <2>4. ~(x.seq <= b.top) /\ x.seq = b.top + 1
    BY <1>1, <1>2, <1>3, <2>1, <2>3
  <2>5. c = [b EXCEPT !.sheets = Append(@, x), !.top = x.seq]
    BY <1>2, <2>4 DEF TakeSheet
  <2>6. c.sheets = sh2 /\ c.top = tp + 1 /\ ~c.gap
    <3>1. sh \in Seq(Sheet)
      BY CopyFacts DEF InStep
    <3>2. b \in StoreStates
      BY <1>1, <3>1 DEF b, StoreStates
    <3>3. c.sheets = Append(b.sheets, x) /\ c.top = x.seq /\ c.gap = b.gap
      BY <2>5, <3>2 DEF StoreStates
    <3> QED BY <1>2, <2>3, <3>3 DEF sh2
  <2>7. k + 1 \in Nat
    OBVIOUS
  <2> QED BY <2>3, <2>6, <2>7
<1> QED BY <1>4, <1>5

JoinedReads(k, h, led, sh, una, tp, u, d, w, c, tp2) ==
  /\ k \in Nat /\ h \in Nat
  /\ InStep(k, h, led, sh, una, tp, u, d, w) /\ Joining(k, h, led, sh, u, d) /\ d # <<>>
  /\ c = ApplySheets(IF d[1].replace THEN [sheets |-> <<>>, top |-> 0, gap |-> FALSE]
                                      ELSE [sheets |-> sh, top |-> tp, gap |-> FALSE], d[1].sheets)
  /\ tp2 = Max({c.top, d[1].top})

LEMMA JoinedTaken ==
  ASSUME NEW k, NEW h, NEW led, NEW sh, NEW una, NEW tp, NEW u, NEW d, NEW w, NEW c, NEW tp2,
         JoinedReads(k, h, led, sh, una, tp, u, d, w, c, tp2)
  PROVE  /\ d[1].op = "joined" /\ ~c.gap /\ d[1].top \in Nat
         /\ InStep(d[1].top, d[1].top, led, c.sheets, una, tp2, u, Tail(d), w)
         /\ Linked(d[1].top, d[1].top, led, c.sheets, u, Tail(d))
<1> SUFFICES
      ASSUME k \in Nat, h \in Nat,
             InStep(k, h, led, sh, una, tp, u, d, w), Joining(k, h, led, sh, u, d), d # <<>>,
             c = ApplySheets(IF d[1].replace THEN [sheets |-> <<>>, top |-> 0, gap |-> FALSE]
                                             ELSE [sheets |-> sh, top |-> tp, gap |-> FALSE], d[1].sheets),
             tp2 = Max({c.top, d[1].top})
      PROVE  /\ d[1].op = "joined" /\ ~c.gap /\ d[1].top \in Nat
             /\ InStep(d[1].top, d[1].top, led, c.sheets, una, tp2, u, Tail(d), w)
             /\ Linked(d[1].top, d[1].top, led, c.sheets, u, Tail(d))
  BY DEF JoinedReads
<1> DEFINE n == d[1].top
           b1 == [sheets |-> <<>>, top |-> 0, gap |-> FALSE]
           b2 == [sheets |-> sh, top |-> tp, gap |-> FALSE]
           a == IF d[1].replace THEN 0 ELSE k
           b == IF d[1].replace THEN b1 ELSE b2
<1>0. /\ InStep(k, h, led, sh, una, tp, u, d, w) /\ Joining(k, h, led, sh, u, d) /\ d # <<>>
      /\ Copy(k, h, led, sh, una, tp) /\ Order(k, h, led, sh, w)
  BY DEF InStep
<1>1. /\ led \in Seq(Happening) /\ sh \in Seq(Sheet) /\ Len(sh) \in Nat /\ Len(led) \in Nat /\ tp \in Nat
  BY <1>0, CopyFacts
<1>2. /\ k = Len(sh) /\ d[1].op = "joined" /\ n \in k..Len(led)
      /\ d[1].sheets = NumbersOf(led, a, n)
  BY <1>0 DEF Joining
<1>3. tp = k /\ \A i \in 1..k : sh[i].seq = i /\ sh[i].event = led[i]
  BY <1>0, <1>2 DEF Copy
<1>4. a \in Nat /\ n \in Nat /\ a <= n /\ n <= Len(led)
  BY <1>1, <1>2
<1>5. b1 \in StoreStates /\ ~b1.gap /\ b1.top = 0 /\ Begins(b1.sheets, led, 0)
  <2> DEFINE Y == Sheet
             z == <<>>
  <2>1. z \in Seq(Y) /\ Len(z) = 0
    OBVIOUS
  <2>2. b1 = [sheets |-> z, top |-> 0, gap |-> FALSE]
    OBVIOUS
  <2> HIDE DEF Y, z
  <2>3. b1 \in StoreStates
    BY <2>1, <2>2 DEF StoreStates, Y
  <2>4. Begins(z, led, 0)
    BY <2>1 DEF Begins, Y
  <2> QED BY <2>2, <2>3, <2>4
<1>6. b2 \in StoreStates /\ ~b2.gap /\ b2.top = k /\ Begins(b2.sheets, led, k)
  <2>1. b2 \in StoreStates
    BY <1>1 DEF StoreStates
  <2>2. Begins(sh, led, k)
    BY <1>1, <1>2, <1>3 DEF Begins
  <2> QED BY <1>3, <2>1, <2>2
<1>7. b \in StoreStates /\ ~b.gap /\ b.top = a /\ Begins(b.sheets, led, a)
  <2> HIDE DEF b1, b2
  <2>1. CASE d[1].replace
    BY <1>5, <2>1
  <2>2. CASE ~d[1].replace
    BY <1>6, <2>2
  <2> QED BY <2>1, <2>2
<1>8. c = ApplySheets(b, NumbersOf(led, a, n))
  BY <1>2
<1> HIDE DEF n, a, b, b1, b2
<1>9. ~c.gap /\ c.top = n /\ Begins(c.sheets, led, n)
  BY <1>1, <1>4, <1>7, <1>8, ApplyRun
<1>10. tp2 = n
  <2> DEFINE S == {c.top, n}
  <2>1. S \subseteq Nat /\ n \in S /\ \A x \in S : x <= n
    BY <1>4, <1>9
  <2>2. tp2 = Max(S)
    BY DEF n
  <2> HIDE DEF S
  <2> QED BY <2>1, <2>2, MaxIs
<1>11. /\ una = {} /\ InStep(d[1].top, d[1].top, led, c.sheets, {}, d[1].top, u, Tail(d), w)
       /\ Linked(d[1].top, d[1].top, led, c.sheets, u, Tail(d))
  <2> DEFINE sh2 == c.sheets
  <2>1. Begins(sh2, led, d[1].top)
    BY <1>9 DEF n
  <2> HIDE DEF sh2
  <2>2. /\ d[1].top \in Nat /\ una = {}
        /\ InStep(d[1].top, d[1].top, led, sh2, {}, d[1].top, u, Tail(d), w)
        /\ Linked(d[1].top, d[1].top, led, sh2, u, Tail(d))
    BY <1>0, <2>1, JoinedStep
  <2> QED BY <2>2 DEF sh2
<1> QED BY <1>2, <1>4, <1>9, <1>10, <1>11 DEF n

-----------------------------------------------------------------------------
(* The page sends.                                                            *)

LEMMA CopyMore ==
  ASSUME NEW sh \in Seq(Sheet), NEW x \in Sheet
  PROVE  /\ Append(sh, x) \in Seq(Sheet) /\ Len(Append(sh, x)) = Len(sh) + 1 /\ Len(sh) \in Nat
         /\ Append(sh, x)[Len(sh) + 1] = x /\ \A i \in 1..Len(sh) : Append(sh, x)[i] = sh[i]
         /\ EventsOf(Append(sh, x)) = Append(EventsOf(sh), x.event)
<1> DEFINE Y == Sheet
           r == Append(sh, x)
           s == EventsOf(sh)
           e == x.event
           q == EventsOf(r)
           n == Len(sh)
<1>0. sh \in Seq(Y) /\ x \in Y /\ n = Len(sh) /\ n \in Nat
  OBVIOUS
<1> HIDE DEF Y
<1>1. r \in Seq(Y) /\ Len(r) = n + 1 /\ r[n + 1] = x /\ \A i \in 1..n : r[i] = sh[i]
  BY <1>0
<1>2. s \in Seq(Happening) /\ Len(s) = n /\ \A i \in 1..n : s[i] = sh[i].event
  BY EventsAre
<1>3. e \in Happening
  BY DEF Sheet
<1> HIDE DEF r, s, n
<1>4. q \in Seq(Happening) /\ Len(q) = n + 1 /\ \A i \in 1..n + 1 : q[i] = r[i].event
  BY <1>1, EventsAre DEF Y
<1> DEFINE a == Append(s, e)
<1>5. a \in Seq(Happening) /\ Len(a) = n + 1 /\ a[n + 1] = e /\ \A i \in 1..n : a[i] = s[i]
  BY <1>2, <1>3, LogMore
<1>6. \A i \in 1..n + 1 : q[i] = a[i]
  <2> TAKE i \in 1..n + 1
  <2>1. CASE i \in 1..n
    <3>1. q[i] = r[i].event /\ r[i] = sh[i] /\ a[i] = s[i] /\ s[i] = sh[i].event
      BY <1>1, <1>2, <1>4, <1>5, <2>1
    <3> QED BY <3>1
  <2>2. CASE i = n + 1
    <3>1. q[i] = r[i].event /\ r[i] = x /\ a[i] = e
      BY <1>1, <1>4, <1>5, <2>2
    <3> QED BY <3>1
  <2>3. i \in 1..n \/ i = n + 1
    BY <1>0
  <2> QED BY <2>1, <2>2, <2>3
<1> HIDE DEF a, q, e
<1> DEFINE Z == Happening
<1>7. q = a
  <2>1. q \in Seq(Z) /\ a \in Seq(Z) /\ Len(q) = Len(a) /\ \A i \in 1..Len(q) : q[i] = a[i]
    BY <1>4, <1>5, <1>6
  <2> HIDE DEF Z
  <2> QED BY <2>1, SeqEqual
<1> QED BY <1>0, <1>1, <1>7 DEF r, s, e, q, a, Y, n

\* One own event is shown at once and sent.
\* The copy r tells of one event more than sh.
Tells(r, sh, e) == TableAfter(EventsOf(r)) = Reduce(TableAfter(EventsOf(sh)), e)

\* An own event e that the page may send, after which the copy is r and the calls are v.
Sends(k, h, led, sh, una, tp, u, d, w, e, r, v) ==
  /\ k \in Nat /\ h \in Nat
  /\ InStep(k, h, led, sh, una, tp, u, d, w) /\ Linked(k, h, led, sh, u, d) /\ \A j \in DOMAIN d : d[j].op # "reject"
  /\ e \in Happening /\ Own(e) /\ e.by = w + 1 /\ Reduce(TableAfter(EventsOf(sh)), e).bank >= 0
  /\ e.type = "bet" => TableAfter(EventsOf(sh)).rounds[e.round] = "open"
  /\ e.type = "updated" => Pressable(TableAfter(EventsOf(sh)), e)
  /\ r = Append(sh, [seq |-> tp + 1, event |-> e]) /\ v = Append(u, [op |-> "event", event |-> e])

LEMMA SendOne ==
  ASSUME NEW k, NEW h, NEW led, NEW sh, NEW una, NEW tp, NEW u, NEW d, NEW w, NEW e, NEW r, NEW v,
         Sends(k, h, led, sh, una, tp, u, d, w, e, r, v)
  PROVE  /\ InStep(k, h, led, r, una \cup {w + 1}, tp + 1, v, d, w + 1) /\ Linked(k, h, led, r, v, d)
         /\ Tells(r, sh, e)
<1> SUFFICES
      ASSUME k \in Nat, h \in Nat, InStep(k, h, led, sh, una, tp, u, d, w), Linked(k, h, led, sh, u, d),
             \A j \in DOMAIN d : d[j].op # "reject",
             e \in Happening, Own(e), e.by = w + 1, Reduce(TableAfter(EventsOf(sh)), e).bank >= 0,
             e.type = "bet" => TableAfter(EventsOf(sh)).rounds[e.round] = "open",
             e.type = "updated" => Pressable(TableAfter(EventsOf(sh)), e),
             r = Append(sh, [seq |-> tp + 1, event |-> e]), v = Append(u, [op |-> "event", event |-> e])
      PROVE  /\ InStep(k, h, led, r, una \cup {w + 1}, tp + 1, v, d, w + 1) /\ Linked(k, h, led, r, v, d)
             /\ Tells(r, sh, e)
  BY DEF Sends
<1> DEFINE s == EventsOf(sh)
           z == EventsOf(r)
           n == Len(sh)
           x == [seq |-> tp + 1, event |-> e]
<1>0. Copy(k, h, led, sh, una, tp) /\ Order(k, h, led, sh, w) /\ Covers(k, h, led, sh, u, d)
  BY DEF InStep
<1>1. /\ led \in Seq(Happening) /\ sh \in Seq(Sheet) /\ n \in Nat /\ n = Len(sh) /\ Len(led) \in Nat
      /\ 1 <= k /\ k <= h /\ h <= n /\ k <= Len(led)
      /\ Rising(led) /\ Rising(s) /\ tp \in Nat
      /\ \A i \in 1..Len(led) : led[i] \in Happening /\ led[i].by \in Nat
      /\ \A i \in 1..n : sh[i].event \in Happening /\ sh[i].event.by \in Nat /\ sh[i].seq \in Nat
  BY <1>0, CopyFacts
<1>2. w \in Nat /\ \A i \in 1..n : sh[i].event.by <= w
  BY <1>0 DEF Order
<1>3. x.seq = tp + 1 /\ x.event = e /\ x \in Sheet /\ tp + 1 \in Nat
  <2>1. tp + 1 \in Nat
    BY <1>1
  <2> QED BY <2>1 DEF Sheet
<1>4. r = Append(sh, x)
  OBVIOUS
<1> HIDE DEF x, s, n, z
<1>5. /\ r \in Seq(Sheet) /\ Len(r) = n + 1 /\ r[n + 1] = x /\ \A i \in 1..n : r[i] = sh[i]
      /\ z = Append(s, e)
  BY <1>1, <1>3, <1>4, CopyMore DEF n, s, z
<1>6. /\ s \in Seq(Happening) /\ Len(s) = n /\ DOMAIN s = 1..n
      /\ \A i \in 1..n : s[i] = sh[i].event
  BY <1>1, EventsAre DEF s, n
<1>7. /\ z \in Seq(Happening) /\ Len(z) = n + 1 /\ z[n + 1] = e
      /\ \A p \in 1..n : z[p] = s[p]
      /\ \A p \in 1..n + 1 : p \in 1..n \/ p = n + 1
      /\ \A m \in 0..n : After(z, m) = After(s, m)
      /\ TableAfter(z) = Reduce(TableAfter(s), e)
      /\ After(z, n + 1) = TableAfter(z) /\ After(s, n) = TableAfter(s)
  <2>1. /\ Append(s, e) \in Seq(Happening) /\ Len(Append(s, e)) = Len(s) + 1
        /\ Append(s, e)[Len(s) + 1] = e
        /\ \A p \in 1..Len(s) : Append(s, e)[p] = s[p]
        /\ \A p \in 1..Len(s) + 1 : p \in 1..Len(s) \/ p = Len(s) + 1
        /\ \A m \in 0..Len(s) : After(Append(s, e), m) = After(s, m)
        /\ TableAfter(Append(s, e)) = Reduce(TableAfter(s), e)
        /\ After(Append(s, e), Len(s) + 1) = TableAfter(Append(s, e)) /\ After(s, Len(s)) = TableAfter(s)
    BY <1>6, LogMore
  <2> QED BY <1>5, <1>6, <2>1
<1>8. n + 1 \in 1..n + 1 /\ n + 1 \in k + 1..n + 1 /\ DOMAIN z = 1..n + 1
  BY <1>1, <1>7
<1>9. Copy(k, h, led, r, una \cup {w + 1}, tp + 1)
  <2>1. k \in 1..Len(r) /\ h \in k..Len(r) /\ k <= Len(led)
    BY <1>1, <1>5
  <2>2. \A i \in 1..k : r[i].seq = i /\ r[i].event = led[i]
    <3>1. \A i \in 1..k : i \in 1..n
      BY <1>1
    <3> QED BY <1>0, <1>5, <3>1 DEF Copy
  <2>3. \A i \in k + 1..Len(r) : (i \in k + 1..n /\ i \in 1..n /\ r[i] = sh[i]) \/ (i = n + 1 /\ r[i] = x)
    <3> TAKE i \in k + 1..Len(r)
    <3>1. i = n + 1 \/ (i \in k + 1..n /\ i \in 1..n)
      BY <1>1, <1>5
    <3> QED BY <1>5, <3>1
  <2>4. \A i \in k + 1..Len(r) : Own(r[i].event)
    BY <1>0, <1>3, <2>3 DEF Copy, n
  <2>5. ASSUME NEW i \in k..Len(r), NEW j \in k..Len(r), i < j PROVE r[i].seq < r[j].seq
    <3>1. i \in k..n /\ i \in 1..n /\ r[i] = sh[i] /\ j \in k + 1..Len(r)
      BY <1>1, <1>5, <2>5
    <3>2. CASE j \in k + 1..n /\ j \in 1..n /\ r[j] = sh[j]
      <4>1. j \in k..n
        BY <3>2
      <4> QED BY <1>0, <2>5, <3>1, <3>2, <4>1 DEF Copy, n
    <3>3. CASE j = n + 1 /\ r[j] = x
      <4>1. sh[i].seq <= tp
        <5>1. tp = sh[n].seq
          BY <1>0 DEF Copy, n
        <5>2. CASE i = n
          BY <1>1, <5>1, <5>2
        <5>3. CASE i # n
          <6>1. n \in k..n /\ i < n
            BY <1>1, <3>1, <5>3
          <6>2. sh[i].seq < sh[n].seq
            BY <1>0, <3>1, <6>1 DEF Copy, n
          <6> QED BY <1>1, <3>1, <5>1, <6>2
        <5> QED BY <5>2, <5>3
      <4>2. r[i].seq = sh[i].seq /\ r[j].seq = tp + 1 /\ sh[i].seq \in Nat
        BY <1>1, <1>3, <3>1, <3>3
      <4>3. tp \in Nat
        BY <1>1
      <4>4. \A y \in Nat : y <= tp => y < tp + 1
        BY <4>3
      <4>5. sh[i].seq < tp + 1
        BY <4>1, <4>2, <4>4
      <4> QED BY <4>2, <4>5
    <3> QED BY <2>3, <3>1, <3>2, <3>3
  <2>6. una \cup {w + 1} = {r[i].event.by : i \in k + 1..Len(r)}
    <3>0. una = {sh[i].event.by : i \in k + 1..n}
      BY <1>0 DEF Copy, n
    <3>1. ASSUME NEW y \in una \cup {w + 1} PROVE \E i \in k + 1..Len(r) : y = r[i].event.by
      <4>1. CASE y \in una
        <5>1. PICK i \in k + 1..n : y = sh[i].event.by
          BY <3>0, <4>1
        <5>2. i \in k + 1..Len(r) /\ i \in 1..n
          BY <1>1, <1>5
        <5> QED BY <1>5, <5>1, <5>2
      <4>2. CASE y = w + 1
        <5>1. r[n + 1].event.by = w + 1 /\ n + 1 \in k + 1..Len(r)
          BY <1>3, <1>5, <1>8
        <5> QED BY <4>2, <5>1
      <4> QED BY <4>1, <4>2
    <3>2. ASSUME NEW i \in k + 1..Len(r) PROVE r[i].event.by \in una \cup {w + 1}
      <4>1. CASE i \in k + 1..n /\ r[i] = sh[i]
        BY <3>0, <4>1
      <4>2. CASE r[i] = x
        BY <1>3, <4>2
      <4> QED BY <2>3, <4>1, <4>2
    <3> QED BY <3>1, <3>2
  <2>7. tp + 1 = r[Len(r)].seq
    BY <1>3, <1>5
  <2> QED BY <1>1, <1>5, <2>1, <2>2, <2>4, <2>5, <2>6, <2>7 DEF Copy
<1>10. Rising(z)
  <2> SUFFICES ASSUME NEW i \in DOMAIN z, NEW j \in DOMAIN z, i < j, Own(z[i]), Own(z[j]) PROVE z[i].by < z[j].by
    BY DEF Rising
  <2>1. i \in 1..n
    BY <1>1, <1>8
  <2>2. CASE j \in 1..n
    BY <1>1, <1>6, <1>7, <2>1, <2>2 DEF Rising
  <2>3. CASE j = n + 1
    <3>1. z[i].by = sh[i].event.by /\ sh[i].event.by <= w /\ z[j].by = w + 1 /\ sh[i].event.by \in Nat
      BY <1>1, <1>2, <1>6, <1>7, <2>1, <2>3
    <3> QED BY <1>2, <3>1
  <2> QED BY <1>7, <1>8, <2>2, <2>3
<1>11. Order(k, h, led, r, w + 1)
  <2>1. \A i \in 1..Len(led) : led[i].by <= w /\ led[i].by <= w + 1 /\ led[i].by < w + 1
    <3>1. \A i \in 1..Len(led) : led[i].by <= w
      BY <1>0 DEF Order
    <3> QED BY <1>1, <1>2, <3>1
  <2>2. ASSUME NEW i \in 1..Len(led), NEW j \in h + 1..Len(r) PROVE led[i].by < r[j].event.by
    <3>1. CASE j = n + 1
      <4>1. r[j].event.by = w + 1
        BY <1>3, <1>5, <3>1
      <4> QED BY <2>1, <4>1
    <3>2. CASE j # n + 1
      <4>1. j \in h + 1..n /\ j \in 1..n
        BY <1>1, <1>5, <3>2
      <4>2. led[i].by < sh[j].event.by
        BY <1>0, <4>1 DEF Order, n
      <4> QED BY <1>5, <4>1, <4>2
    <3> QED BY <3>1, <3>2
  <2>3. ASSUME NEW i \in 1..Len(r) PROVE r[i].event.by <= w + 1
    <3>1. CASE i = n + 1
      <4>1. r[i].event.by = w + 1 /\ w + 1 \in Nat
        BY <1>2, <1>3, <1>5, <3>1
      <4> QED BY <4>1
    <3>2. CASE i # n + 1
      <4>1. i \in 1..n
        BY <1>5, <1>7, <3>2
      <4>2. r[i].event.by = sh[i].event.by /\ sh[i].event.by <= w /\ sh[i].event.by \in Nat
        BY <1>1, <1>2, <1>5, <4>1
      <4> QED BY <1>2, <4>2
    <3> QED BY <3>1, <3>2
  <2>4. ASSUME NEW p \in k + 1..Len(led), Own(led[p]) PROVE \E i \in k + 1..h : r[i].event = led[p]
    <3>1. PICK i \in k + 1..h : sh[i].event = led[p]
      BY <1>0, <2>4 DEF Order
    <3>2. i \in 1..n
      BY <1>1
    <3> QED BY <1>5, <3>1, <3>2
  <2>5. w + 1 \in Nat
    BY <1>2
  <2>6. Rising(EventsOf(r))
    BY <1>10 DEF z
  <2> QED BY <1>1, <2>1, <2>2, <2>3, <2>4, <2>5, <2>6 DEF Order
<1>12. NoDebt(z)
  <2> SUFFICES ASSUME NEW m \in 0..n + 1 PROVE After(z, m).bank >= 0
    BY <1>7 DEF NoDebt
  <2>1. CASE m \in 0..n
    <3>1. After(s, m).bank >= 0
      BY <1>0, <1>6, <2>1 DEF Covers, NoDebt, s
    <3> QED BY <1>7, <2>1, <3>1
  <2>2. CASE m = n + 1
    <3>1. Reduce(TableAfter(s), e).bank >= 0
      BY DEF s
    <3> QED BY <1>7, <2>2, <3>1
  <2>3. m \in 0..n \/ m = n + 1
    BY <1>1
  <2> QED BY <2>1, <2>2, <2>3
<1>13. Placeable(k, r)
  <2>0. Len(r) = n + 1 /\ n \in Nat /\ k <= n /\ After(z, k) = After(s, k)
    <3>1. k \in 0..n
      BY <1>1
    <3> QED BY <1>1, <1>5, <1>7, <3>1
  <2>1. \A i \in k + 1..Len(r) : i # n + 1 => i \in k + 1..n /\ i \in 1..n /\ r[i] = sh[i]
    <3> SUFFICES ASSUME NEW i \in k + 1..Len(r), i # n + 1
                 PROVE  i \in k + 1..n /\ i \in 1..n /\ r[i] = sh[i]
      OBVIOUS
    <3>1. 1 <= k /\ k <= n /\ n \in Nat /\ k \in Nat
      BY <1>1, <2>0
    <3> DEFINE m == Len(r)
    <3>2. m = n + 1 /\ i \in k + 1..m
      BY <2>0
    <3> HIDE DEF m
    <3>3. i \in k + 1..n /\ i \in 1..n
      BY ONLY <3>1, <3>2, i # n + 1
    <3> QED BY <1>5, <3>3
  <2>2. ASSUME NEW i \in k + 1..Len(r), r[i].event.type = "bet"
        PROVE  After(z, k).rounds[r[i].event.round] = "open"
    <3>1. CASE i = n + 1
      <4>1. r[i].event = e /\ e.type = "bet"
        BY <1>3, <1>5, <2>2, <3>1
      <4>2. TableAfter(s).rounds[e.round] = "open"
        BY <4>1 DEF s
      <4>3. After(s, n).rounds = After(s, k).rounds
        <5>1. n <= Len(s) /\ k <= n /\ \A p \in k + 1..n : Own(s[p])
          <6>1. \A p \in k + 1..n : p \in 1..n
            BY <1>1
          <6>2. \A p \in k + 1..n : Own(sh[p].event)
            BY <1>0 DEF Copy, n
          <6>3. \A p \in k + 1..n : s[p] = sh[p].event
            BY <1>6, <6>1
          <6>4. n <= Len(s) /\ k <= n
            BY <1>1, <1>6
          <6> QED BY <6>2, <6>3, <6>4
        <5>2. SameRounds(After(s, k), After(s, n))
          BY <1>1, <1>6, <5>1, OwnRun
        <5> QED BY <5>2 DEF SameRounds
      <4> QED BY <1>7, <2>0, <4>1, <4>2, <4>3
    <3>2. CASE i # n + 1
      <4>1. i \in k + 1..n /\ sh[i].event.type = "bet" /\ r[i] = sh[i]
        BY <2>1, <2>2, <3>2
      <4>2. After(s, k).rounds[sh[i].event.round] = "open"
        BY <1>0, <4>1 DEF Covers, Placeable, s, n
      <4> QED BY <2>0, <4>1, <4>2
    <3> QED BY <3>1, <3>2
  <2>3. ASSUME NEW i \in k + 1..Len(r), r[i].event.type = "updated"
        PROVE  Pressable(After(z, i - 1), r[i].event)
    <3>1. CASE i = n + 1
      <4>1. r[i].event = e /\ e.type = "updated" /\ i - 1 = n
        BY <1>1, <1>3, <1>5, <2>3, <3>1
      <4>2. Pressable(TableAfter(s), e)
        BY <4>1 DEF s
      <4>3. n \in 0..n
        BY <1>1
      <4>4. After(z, n) = TableAfter(s)
        BY <1>7, <4>3
      <4> QED BY <4>1, <4>2, <4>4
    <3>2. CASE i # n + 1
      <4>1. i \in k + 1..n /\ sh[i].event.type = "updated" /\ r[i] = sh[i]
        BY <2>1, <2>3, <3>2
      <4>2. Pressable(After(s, i - 1), sh[i].event)
        BY <1>0, <4>1 DEF Covers, Placeable, s, n
      <4>3. i - 1 \in 0..n
        BY <1>1, <4>1
      <4>4. After(z, i - 1) = After(s, i - 1)
        BY <1>7, <4>3
      <4> QED BY <4>1, <4>2, <4>4
    <3> QED BY <3>1, <3>2
  <2> QED BY <2>2, <2>3 DEF Placeable, z
<1>14. OnThePage(k, h, led, r, v, d)
  <2>1. ~GivenBack(k, h, sh, u, d)
    BY DEF GivenBack, Refusals
  <2>2. ~GivenBack(k, h, r, v, d)
    BY DEF GivenBack, Refusals
  <2>3. Under(TableAfter(led).bets, After(s, h).bets)
    BY <1>0, <2>1 DEF Covers, OnThePage, s
  <2>4. After(z, h) = After(s, h)
    <3>1. h \in 0..n
      BY <1>1
    <3> QED BY <1>7, <3>1
  <2> QED BY <2>2, <2>3, <2>4 DEF OnThePage, z
<1>15. Covers(k, h, led, r, v, d)
  BY <1>0, <1>12, <1>13, <1>14 DEF Covers, z
<1>16. Linked(k, h, led, r, v, d)
  <2> DEFINE C == Calls
             y == [op |-> "event", event |-> e]
  <2>1. /\ u \in Seq(C) /\ n = h + Len(u)
        /\ \A i \in 1..Len(u) : u[i].op = "event" /\ u[i].event = sh[h + i].event
        /\ News(k, h, led, sh, d)
    BY DEF Linked, n
  <2>2. y \in C /\ y.op = "event" /\ y.event = e /\ v = Append(u, y)
    BY DEF Calls
  <2> HIDE DEF C, y
  <2>3. v \in Seq(C) /\ Len(v) = Len(u) + 1 /\ v[Len(u) + 1] = y /\ Len(u) \in Nat /\ Longer(u, v)
    BY <2>1, <2>2, AppendParts
  <2>4. Len(r) = h + Len(v)
    BY <1>5, <2>1, <2>3
  <2>5. ASSUME NEW i \in 1..Len(v) PROVE v[i].op = "event" /\ v[i].event = r[h + i].event
    <3>1. CASE i \in 1..Len(u)
      <4>1. v[i] = u[i] /\ h + i \in 1..n
        BY <2>1, <2>3, <3>1 DEF Longer
      <4> QED BY <1>5, <2>1, <3>1, <4>1
    <3>2. CASE i = Len(u) + 1
      <4>1. h + i = n + 1
        BY <2>1, <2>3, <3>2
      <4> QED BY <1>3, <1>5, <2>2, <2>3, <3>2, <4>1
    <3>3. i \in 1..Len(u) \/ i = Len(u) + 1
      BY <2>3
    <3> QED BY <3>1, <3>2, <3>3
  <2>6. News(k, h, led, r, d)
    BY <2>1 DEF News, Refused
  <2> QED BY <2>3, <2>4, <2>5, <2>6 DEF Linked, C
<1>17. InStep(k, h, led, r, una \cup {w + 1}, tp + 1, v, d, w + 1)
  BY <1>9, <1>11, <1>15 DEF InStep
<1>18. TableAfter(EventsOf(r)) = Reduce(TableAfter(s), e)
  <2>1. EventsOf(r) = Append(s, e)
    BY <1>5 DEF z
  <2>2. s \in Seq(Happening)
    BY <1>1, EventsAre DEF s
  <2>3. TableAfter(Append(s, e)) = Reduce(TableAfter(s), e)
    BY <2>2, TableSteps
  <2> QED BY <2>1, <2>3
<1> QED BY <1>16, <1>17, <1>18 DEF s, Tells

Adder(g, s) ==
  g = [S \in SUBSET DOMAIN s |-> IF S = {} THEN 0 ELSE g[S \ {Max(S)}] + s[Max(S)]]

LEMMA StakedIsChosen ==
  ASSUME NEW s
  PROVE  Staked(s) = (CHOOSE g : Adder(g, s))[DOMAIN s]
BY DEF Staked, FoldLeft, MapThenFoldSet, Adder

Adding == [p \in Nat \X Nat |-> p[1] + p[2]]

LEMMA StakedFolds ==
  /\ Folding(Adding, Nat, Nat)
  /\ \A c \in Nat, x \in Nat : Adding[<<c, x>>] = c + x
  /\ \A s \in Seq(Nat) : Staked(s) = FoldOf(Adding, 0, s)
<1> DEFINE X == Nat
           F == [p \in X \X X |-> p[1] + p[2]]
           b == 0
<1>1. Folding(F, X, X)
  BY DEF Folding
<1>2. \A r \in X, i \in X : F[<<r, i>>] = r + i
  OBVIOUS
<1>3. b \in X
  OBVIOUS
<1>4. Adding = F
  BY DEF Adding
<1>a. X = Nat
  OBVIOUS
<1> HIDE DEF F, X
<1>5. ASSUME NEW s \in Seq(X) PROVE Staked(s) = FoldOf(F, b, s)
  <2> DEFINE c == CHOOSE g : Adder(g, s)
             k == Len(s)
  <2>1. k \in Nat /\ DOMAIN s = 1..k
    OBVIOUS
  <2>2. ASSUME NEW S \in SUBSET DOMAIN s, S # {}
        PROVE  s[Max(S)] \in X /\ S \ {Max(S)} \in SUBSET DOMAIN s
    <3>1. \A j \in DOMAIN s : s[j] \in X
      OBVIOUS
    <3> HIDE DEF k
    <3>2. S \in SUBSET (1..k)
      BY <2>1
    <3>3. Max(S) \in S
      BY <2>1, <2>2, <3>2, MaxOfPart
    <3> QED BY <3>1, <3>3
  <2>3. Adder(c, s)
    <3> HIDE DEF b
    <3>1. PICK g : Folder(g, F, b, s) /\ \A S \in SUBSET DOMAIN s : g[S] \in X
      BY <1>1, <1>3, TypedFolder
    <3>2. ASSUME NEW S \in SUBSET DOMAIN s
          PROVE  (IF S = {} THEN b ELSE F[<<g[S \ {Max(S)}], s[Max(S)]>>])
               = (IF S = {} THEN b ELSE g[S \ {Max(S)}] + s[Max(S)])
      BY <1>2, <2>2, <3>1
    <3>3. Adder(g, s)
      BY <3>1, <3>2 DEF Folder, Adder, b
    <3> QED BY <3>3
  <2>4. Staked(s) = c[DOMAIN s]
    BY StakedIsChosen
  <2> HIDE DEF c, b
  <2>5. FoldsBy(c, F, b, s, Len(s), X)
    <3>1. c[{}] = b
      BY <2>3 DEF Adder, b
    <3>2. ASSUME NEW S \in SUBSET (1..Len(s)), S # {}, c[S \ {Max(S)}] \in X
          PROVE  c[S] = F[<<c[S \ {Max(S)}], s[Max(S)]>>]
      <4>1. S \in SUBSET DOMAIN s
        BY <2>1
      <4>2. c[S] = c[S \ {Max(S)}] + s[Max(S)]
        BY <2>3, <3>2, <4>1 DEF Adder
      <4>3. s[Max(S)] \in X
        BY <2>2, <3>2, <4>1
      <4> QED BY <1>2, <3>2, <4>2, <4>3
    <3> QED BY <3>1, <3>2 DEF FoldsBy
  <2>6. c[DOMAIN s] = FoldOf(F, b, s)
    BY <1>1, <1>3, <2>5, FoldByFunction
  <2> QED BY <2>4, <2>6
<1> QED BY <1>1, <1>2, <1>4, <1>5, <1>a DEF b

LEMMA StakedSteps ==
  /\ Staked(<<>>) = 0
  /\ \A s \in Seq(Nat) : Staked(s) \in Nat /\ \A n \in Nat : Staked(Append(s, n)) = Staked(s) + n
<1> DEFINE X == Nat
           F == Adding
           b == 0
           none == <<>>
<1>1. /\ Folding(F, X, X) /\ \A t \in X, e \in X : F[<<t, e>>] = t + e
      /\ \A s \in Seq(X) : Staked(s) = FoldOf(F, b, s)
  BY StakedFolds
<1>2. b \in X /\ none \in Seq(X)
  OBVIOUS
<1> HIDE DEF X, F, b
<1>3. /\ FoldOf(F, b, <<>>) = b
      /\ \A s \in Seq(X) : /\ FoldOf(F, b, s) \in X
                           /\ \A e \in X : FoldOf(F, b, Append(s, e)) = F[<<FoldOf(F, b, s), e>>]
  BY <1>1, <1>2, FoldSteps
<1>4. FoldOf(F, b, none) = b
  BY <1>3
<1> HIDE DEF none
<1>5. Staked(none) = b
  BY <1>1, <1>2, <1>4
<1>6. ASSUME NEW s \in Seq(X) PROVE Staked(s) \in X /\ \A e \in X : Staked(Append(s, e)) = Staked(s) + e
  <2>1. Staked(s) \in X
    BY <1>1, <1>3
  <2>2. ASSUME NEW e \in X PROVE Staked(Append(s, e)) = Staked(s) + e
    <3>1. Append(s, e) \in Seq(X)
      OBVIOUS
    <3>2. Staked(Append(s, e)) = F[<<FoldOf(F, b, s), e>>]
      BY <1>1, <1>3, <3>1
    <3> QED BY <1>1, <2>1, <3>2
  <2> QED BY <2>1, <2>2
<1> QED BY <1>5, <1>6 DEF X, b, none

LEMMA ConcatMore ==
  ASSUME NEW Y, NEW s \in Seq(Y), NEW t \in Seq(Y)
  PROVE  /\ s \o SubSeq(t, 1, 0) = s /\ s \o SubSeq(t, 1, Len(t)) = s \o t
         /\ \A j \in 1..Len(t) : /\ s \o SubSeq(t, 1, j - 1) \in Seq(Y) /\ t[j] \in Y
                                 /\ s \o SubSeq(t, 1, j) = Append(s \o SubSeq(t, 1, j - 1), t[j])
<1>1. SubSeq(t, 1, 0) = <<>> /\ SubSeq(t, 1, Len(t)) = t
  OBVIOUS
<1>2. s \o <<>> = s
  OBVIOUS
<1>3. ASSUME NEW j \in 1..Len(t)
      PROVE  /\ s \o SubSeq(t, 1, j - 1) \in Seq(Y) /\ t[j] \in Y
             /\ s \o SubSeq(t, 1, j) = Append(s \o SubSeq(t, 1, j - 1), t[j])
  <2> DEFINE p == SubSeq(t, 1, j - 1)
  <2>1. p \in Seq(Y) /\ t[j] \in Y /\ SubSeq(t, 1, j) = Append(p, t[j])
    BY PrefixMore
  <2> HIDE DEF p
  <2>2. s \o Append(p, t[j]) = Append(s \o p, t[j]) /\ s \o p \in Seq(Y)
    BY <2>1
  <2> QED BY <2>1, <2>2 DEF p
<1> QED BY <1>1, <1>2, <1>3

LEMMA ConcatAt ==
  ASSUME NEW Y, NEW s \in Seq(Y), NEW t \in Seq(Y), NEW j \in 1..Len(t), NEW i, i = j - 1
  PROVE  s \o SubSeq(t, 1, i) \in Seq(Y) /\ s \o SubSeq(t, 1, j) = Append(s \o SubSeq(t, 1, i), t[j])
BY ConcatMore

\* Bets es of the chips am, which are in hand, and with them the copies g and the calls c.
SendsBets(k, h, led, sh, una, tp, u, d, w, round, am, es, g, c) ==
  /\ k \in Nat /\ h \in Nat
  /\ InStep(k, h, led, sh, una, tp, u, d, w) /\ Linked(k, h, led, sh, u, d) /\ \A j \in DOMAIN d : d[j].op # "reject"
  /\ round \in 1..MaxRound /\ TableAfter(EventsOf(sh)).rounds[round] = "open"
  /\ am \in Seq(Nat) /\ \A j \in 1..Len(am) : TableAfter(EventsOf(sh)).bank >= Staked(SubSeq(am, 1, j - 1)) + am[j]
  /\ es = [i \in DOMAIN am |-> What("bet", round, w + i, am[i], w + i)]
  /\ g = [i \in DOMAIN es |-> [seq |-> tp + i, event |-> es[i]]]
  /\ c = [i \in DOMAIN es |-> [op |-> "event", event |-> es[i]]]

LEMMA BetsRun ==
  ASSUME NEW k, NEW h, NEW led, NEW sh, NEW una, NEW tp, NEW u, NEW d, NEW w, NEW round, NEW am, NEW es, NEW g, NEW c,
         SendsBets(k, h, led, sh, una, tp, u, d, w, round, am, es, g, c)
  PROVE  /\ InStep(k, h, led, sh \o g, una \cup {es[i].by : i \in DOMAIN es}, tp + Len(es), u \o c, d, w + Len(es))
         /\ Linked(k, h, led, sh \o g, u \o c, d)
<1> SUFFICES
      ASSUME k \in Nat, h \in Nat,
             InStep(k, h, led, sh, una, tp, u, d, w), Linked(k, h, led, sh, u, d), \A j \in DOMAIN d : d[j].op # "reject",
             round \in 1..MaxRound, TableAfter(EventsOf(sh)).rounds[round] = "open",
             am \in Seq(Nat), \A j \in 1..Len(am) : TableAfter(EventsOf(sh)).bank >= Staked(SubSeq(am, 1, j - 1)) + am[j],
             es = [i \in DOMAIN am |-> What("bet", round, w + i, am[i], w + i)],
             g = [i \in DOMAIN es |-> [seq |-> tp + i, event |-> es[i]]],
             c = [i \in DOMAIN es |-> [op |-> "event", event |-> es[i]]]
      PROVE  /\ InStep(k, h, led, sh \o g, una \cup {es[i].by : i \in DOMAIN es}, tp + Len(es), u \o c, d, w + Len(es))
             /\ Linked(k, h, led, sh \o g, u \o c, d)
  BY DEF SendsBets
<1> DEFINE n == Len(am)
           t == TableAfter(EventsOf(sh))
           S(j) == sh \o SubSeq(g, 1, j)
           U(j) == u \o SubSeq(c, 1, j)
           A(j) == una \cup {w + i : i \in 1..j}
           R(j) == TableAfter(EventsOf(S(j)))
           P(j) == /\ InStep(k, h, led, S(j), A(j), tp + j, U(j), d, w + j) /\ Linked(k, h, led, S(j), U(j), d)
                   /\ R(j) \in Tables /\ R(j).rounds[round] = "open" /\ R(j).bank = t.bank - Staked(SubSeq(am, 1, j))
           T == {j \in Nat : j <= n => P(j)}
<1>0. /\ InStep(k, h, led, sh, una, tp, u, d, w) /\ Linked(k, h, led, sh, u, d)
      /\ Copy(k, h, led, sh, una, tp) /\ Order(k, h, led, sh, w)
  BY DEF InStep
<1>1. sh \in Seq(Sheet) /\ tp \in Nat /\ w \in Nat /\ u \in Seq(Calls)
  BY <1>0, CopyFacts DEF Order, Linked
<1>2. n \in Nat /\ DOMAIN am = 1..n /\ \A i \in 1..n : am[i] \in Nat
  OBVIOUS
<1>3. t \in Tables /\ t.bank \in Int
  <2>1. EventsOf(sh) \in Seq(Happening)
    BY <1>1, EventsAre
  <2>2. t \in Tables
    BY <2>1, TableSteps
  <2> HIDE DEF t
  <2> QED BY <2>2, WealthType
<1>4. ASSUME NEW i \in 1..n
      PROVE  /\ es[i] \in Happening /\ Own(es[i]) /\ es[i].by = w + i /\ es[i].type = "bet"
             /\ es[i].round = round /\ es[i].n = am[i]
  <2>1. w + i \in Nat /\ w + i # 0 /\ am[i] \in Nat /\ round \in 0..MaxRound /\ round # 0
    BY <1>1, <1>2
  <2>2. es[i] = [type |-> "bet", round |-> round, id |-> w + i, n |-> am[i], by |-> w + i]
    BY <1>2 DEF What
  <2>3. es[i].by = w + i /\ es[i].type = "bet" /\ es[i].round = round /\ es[i].n = am[i] /\ es[i].id = w + i
    BY <2>2
  <2>4. Own(es[i])
    BY <2>1, <2>3 DEF Own, ByDealer
  <2>5. es[i] \in [type : Kinds, round : 0..MaxRound, id : Nat, n : Nat, by : Nat]
    BY <2>1, <2>2 DEF Kinds
  <2>6. es[i] \in Happening
    BY <2>1, <2>3, <2>4, <2>5 DEF Happening
  <2> QED BY <2>3, <2>4, <2>6
<1>5. DOMAIN es = 1..n /\ DOMAIN g = 1..n /\ DOMAIN c = 1..n
  BY <1>2
<1>6. /\ \A i \in 1..n : g[i] = [seq |-> tp + i, event |-> es[i]] /\ tp + i \in Nat
      /\ \A i \in 1..n : c[i] = [op |-> "event", event |-> es[i]]
  BY <1>1, <1>5
<1>7. g \in Seq(Sheet) /\ Len(g) = n
  <2> DEFINE Y == Sheet
  <2>1. \A i \in 1..n : g[i] \in Y /\ [seq |-> tp + i, event |-> es[i]] \in Y
    <3> TAKE i \in 1..n
    <3>1. es[i] \in Happening /\ tp + i \in Nat /\ g[i] = [seq |-> tp + i, event |-> es[i]]
      BY <1>4, <1>6
    <3>2. [seq |-> tp + i, event |-> es[i]] \in Y
      BY <3>1 DEF Sheet
    <3> QED BY <3>1, <3>2
  <2>2. g = [i \in 1..n |-> [seq |-> tp + i, event |-> es[i]]]
    BY <1>5
  <2> HIDE DEF Y, n
  <2>3. g \in [1..n -> Y]
    BY <2>1, <2>2
  <2>4. n \in Nat /\ DOMAIN g = 1..n
    BY <1>2, <1>5
  <2>5. g \in Seq(Y) /\ Len(g) = n
    BY ONLY <2>3, <2>4
  <2> QED BY <2>5 DEF Y
<1>8. c \in Seq(Calls) /\ Len(c) = n
  <2> DEFINE Y == Calls
  <2>1. \A i \in 1..n : c[i] \in Y /\ [op |-> "event", event |-> es[i]] \in Y
    <3> TAKE i \in 1..n
    <3>1. es[i] \in Happening /\ c[i] = [op |-> "event", event |-> es[i]]
      BY <1>4, <1>6
    <3>2. [op |-> "event", event |-> es[i]] \in Y
      BY <3>1 DEF Calls
    <3> QED BY <3>1, <3>2
  <2>2. c = [i \in 1..n |-> [op |-> "event", event |-> es[i]]]
    BY <1>5
  <2> HIDE DEF Y, n
  <2>3. c \in [1..n -> Y]
    BY <2>1, <2>2
  <2>4. n \in Nat /\ DOMAIN c = 1..n
    BY <1>2, <1>5
  <2>5. c \in Seq(Y) /\ Len(c) = n
    BY ONLY <2>3, <2>4
  <2> QED BY <2>5 DEF Y
<1>9. /\ S(0) = sh /\ S(n) = sh \o g
      /\ \A j \in 1..n : S(j - 1) \in Seq(Sheet) /\ S(j) = Append(S(j - 1), g[j])
  <2> DEFINE Y == Sheet
  <2>1. sh \in Seq(Y) /\ g \in Seq(Y) /\ Len(g) = n
    BY <1>1, <1>7
  <2> HIDE DEF Y, n, S
  <2>2. /\ sh \o SubSeq(g, 1, 0) = sh /\ sh \o SubSeq(g, 1, Len(g)) = sh \o g
        /\ \A j \in 1..Len(g) : /\ sh \o SubSeq(g, 1, j - 1) \in Seq(Y) /\ g[j] \in Y
                                /\ sh \o SubSeq(g, 1, j) = Append(sh \o SubSeq(g, 1, j - 1), g[j])
    <3>1. sh \in Seq(Y) /\ g \in Seq(Y)
      BY <2>1
    <3>2. sh \o SubSeq(g, 1, 0) = sh
      BY <3>1, ConcatMore
    <3>3. sh \o SubSeq(g, 1, Len(g)) = sh \o g
      BY <3>1, ConcatMore
    <3>4. ASSUME NEW j \in 1..Len(g)
          PROVE  /\ sh \o SubSeq(g, 1, j - 1) \in Seq(Y) /\ g[j] \in Y
                 /\ sh \o SubSeq(g, 1, j) = Append(sh \o SubSeq(g, 1, j - 1), g[j])
      <4> DEFINE i == j - 1
      <4>0. i = j - 1
        OBVIOUS
      <4> HIDE DEF i
      <4>1. sh \o SubSeq(g, 1, j - 1) \in Seq(Y)
        BY ONLY <3>1, <4>0, j \in 1..Len(g), ConcatAt
      <4>2. g[j] \in Y
        BY <3>1
      <4>3. sh \o SubSeq(g, 1, j) = Append(sh \o SubSeq(g, 1, j - 1), g[j])
        BY ONLY <3>1, <4>0, j \in 1..Len(g), ConcatAt
      <4> QED BY <4>1, <4>2, <4>3
    <3> QED BY <3>2, <3>3, <3>4
  <2> QED BY <2>1, <2>2 DEF Y, S
<1>10. /\ U(0) = u /\ U(n) = u \o c
       /\ \A j \in 1..n : U(j) = Append(U(j - 1), c[j])
  <2> DEFINE Y == Calls
  <2>1. u \in Seq(Y) /\ c \in Seq(Y) /\ Len(c) = n
    BY <1>1, <1>8
  <2> HIDE DEF Y, n, U
  <2>2. /\ u \o SubSeq(c, 1, 0) = u /\ u \o SubSeq(c, 1, Len(c)) = u \o c
        /\ \A j \in 1..Len(c) : /\ u \o SubSeq(c, 1, j - 1) \in Seq(Y) /\ c[j] \in Y
                                /\ u \o SubSeq(c, 1, j) = Append(u \o SubSeq(c, 1, j - 1), c[j])
    <3>1. u \in Seq(Y) /\ c \in Seq(Y)
      BY <2>1
    <3>2. u \o SubSeq(c, 1, 0) = u
      BY <3>1, ConcatMore
    <3>3. u \o SubSeq(c, 1, Len(c)) = u \o c
      BY <3>1, ConcatMore
    <3>4. ASSUME NEW j \in 1..Len(c)
          PROVE  /\ u \o SubSeq(c, 1, j - 1) \in Seq(Y) /\ c[j] \in Y
                 /\ u \o SubSeq(c, 1, j) = Append(u \o SubSeq(c, 1, j - 1), c[j])
      <4> DEFINE i == j - 1
      <4>0. i = j - 1
        OBVIOUS
      <4> HIDE DEF i
      <4>1. u \o SubSeq(c, 1, j - 1) \in Seq(Y)
        BY ONLY <3>1, <4>0, j \in 1..Len(c), ConcatAt
      <4>2. c[j] \in Y
        BY <3>1
      <4>3. u \o SubSeq(c, 1, j) = Append(u \o SubSeq(c, 1, j - 1), c[j])
        BY ONLY <3>1, <4>0, j \in 1..Len(c), ConcatAt
      <4> QED BY <4>1, <4>2, <4>3
    <3> QED BY <3>2, <3>3, <3>4
  <2> QED BY <2>1, <2>2 DEF Y, U
<1>11. /\ SubSeq(am, 1, 0) = <<>>
       /\ \A j \in 1..n : SubSeq(am, 1, j - 1) \in Seq(Nat) /\ SubSeq(am, 1, j) = Append(SubSeq(am, 1, j - 1), am[j])
  <2> DEFINE Y == Nat
  <2>1. am \in Seq(Y) /\ n = Len(am)
    OBVIOUS
  <2> HIDE DEF Y, n
  <2> QED BY <2>1, PrefixMore DEF Y
<1>12. A(0) = una /\ \A j \in 1..n : A(j) = A(j - 1) \cup {w + j}
  <2>1. \A i \in 1..0 : FALSE
    OBVIOUS
  <2>2. ASSUME NEW j \in 1..n PROVE 1..j = 1..j - 1 \cup {j}
    BY <1>2
  <2> QED BY <2>1, <2>2
<1>13. \A j \in 1..n : t.bank >= Staked(SubSeq(am, 1, j - 1)) + am[j]
  OBVIOUS
<1> HIDE DEF S, U, A, t, n
<1>14. P(0)
  <2>1. Staked(SubSeq(am, 1, 0)) = 0
    BY <1>11, StakedSteps
  <2>2. tp + 0 = tp /\ w + 0 = w /\ t.bank - 0 = t.bank
    BY <1>1, <1>3
  <2>3. R(0) = t
    BY <1>9 DEF t
  <2>4. t.rounds[round] = "open"
    BY DEF t
  <2>5. InStep(k, h, led, S(0), A(0), tp + 0, U(0), d, w + 0) /\ Linked(k, h, led, S(0), U(0), d)
    BY <1>0, <1>9, <1>10, <1>12, <2>2
  <2> HIDE DEF R
  <2> QED BY <1>3, <2>1, <2>2, <2>3, <2>4, <2>5
<1>15. \A m \in Nat : m \in T => m + 1 \in T
  <2> SUFFICES ASSUME NEW m \in Nat, m \in T, m + 1 <= n PROVE P(m + 1)
    OBVIOUS
  <2> DEFINE j == m + 1
  <2>0. w \in Nat /\ tp \in Nat /\ n \in Nat /\ m + 1 <= n
    BY <1>1, <1>2
  <2>a. j \in 1..n /\ j - 1 = m /\ m <= n
    BY <2>0
  <2>b. (w + m) + 1 = w + j /\ (tp + m) + 1 = tp + j
    BY <2>0
  <2>1. j \in 1..n /\ j - 1 = m /\ m <= n /\ (w + m) + 1 = w + j /\ (tp + m) + 1 = tp + j
    BY <2>a, <2>b
  <2>2. P(m)
    BY <2>1
  <2> HIDE DEF j
  <2> DEFINE e == es[j]
             a == S(m)
             v == U(m)
             o == A(m)
             x == tp + m
             y == w + m
             b == S(j)
             f == U(j)
  <2>3. e \in Happening /\ Own(e) /\ e.by = y + 1 /\ e.type = "bet" /\ e.round = round /\ e.n = am[j] /\ am[j] \in Nat
    BY <1>2, <1>4, <2>1
  <2>4. b = Append(a, [seq |-> x + 1, event |-> e]) /\ f = Append(v, [op |-> "event", event |-> e])
    <3>1. S(j) = Append(S(j - 1), g[j]) /\ U(j) = Append(U(j - 1), c[j])
      BY <1>9, <1>10, <2>1
    <3>2. g[j] = [seq |-> tp + j, event |-> es[j]] /\ c[j] = [op |-> "event", event |-> es[j]]
      BY <1>6, <2>1
    <3>3. S(j - 1) = S(m) /\ U(j - 1) = U(m) /\ tp + j = (tp + m) + 1
      BY <2>1
    <3> QED BY <3>1, <3>2, <3>3
  <2>5. InStep(k, h, led, a, o, x, v, d, y) /\ Linked(k, h, led, a, v, d)
    BY <2>2
  <2>6. /\ TableAfter(EventsOf(a)) \in Tables /\ TableAfter(EventsOf(a)).rounds[round] = "open"
        /\ TableAfter(EventsOf(a)).bank = t.bank - Staked(SubSeq(am, 1, m))
    BY <2>2
  <2>7. a \in Seq(Sheet)
    BY <1>9, <2>1
  <2>8. /\ Staked(SubSeq(am, 1, m)) \in Nat /\ Staked(SubSeq(am, 1, j)) = Staked(SubSeq(am, 1, m)) + am[j]
        /\ t.bank >= Staked(SubSeq(am, 1, m)) + am[j]
    BY <1>11, <1>13, <2>1, <2>3, StakedSteps
  <2> HIDE DEF e, a, v, o, x, y, b, f, P, R
  <2> DEFINE q == TableAfter(EventsOf(a))
             z == Reduce(q, e)
  <2>9. q \in Tables /\ q.rounds[e.round] = "open" /\ q.bank = t.bank - Staked(SubSeq(am, 1, m))
    BY <2>3, <2>6
  <2> HIDE DEF q
  <2>10. z \in Tables /\ z.rounds = q.rounds /\ z.bank = q.bank - e.n
    BY <2>3, <2>9, ReduceBet DEF SameRounds
  <2>11. z.bank >= 0 /\ z.bank = t.bank - Staked(SubSeq(am, 1, j))
    <3> DEFINE i1 == Staked(SubSeq(am, 1, m))
               i2 == Staked(SubSeq(am, 1, j))
    <3>1. i1 \in Nat /\ i2 = i1 + e.n /\ t.bank >= i1 + e.n /\ e.n \in Nat /\ t.bank \in Int /\ q.bank = t.bank - i1
      BY <1>3, <2>3, <2>8, <2>9
    <3> HIDE DEF i1, i2, z
    <3> QED BY <2>10, <3>1 DEF i1, i2
  <2>12. /\ InStep(k, h, led, b, o \cup {y + 1}, x + 1, f, d, y + 1) /\ Linked(k, h, led, b, f, d)
         /\ TableAfter(EventsOf(b)) = Reduce(TableAfter(EventsOf(a)), e)
    <3>1. /\ InStep(k, h, led, a, o, x, v, d, y) /\ Linked(k, h, led, a, v, d) /\ \A i \in DOMAIN d : d[i].op # "reject"
          /\ e \in Happening /\ Own(e) /\ e.by = y + 1 /\ Reduce(TableAfter(EventsOf(a)), e).bank >= 0
          /\ e.type = "bet" => TableAfter(EventsOf(a)).rounds[e.round] = "open"
          /\ e.type = "updated" => Pressable(TableAfter(EventsOf(a)), e)
          /\ b = Append(a, [seq |-> x + 1, event |-> e]) /\ f = Append(v, [op |-> "event", event |-> e])
      BY <2>3, <2>4, <2>5, <2>9, <2>11 DEF q
    <3> HIDE DEF z
    <3>2. \A i \in DOMAIN d : d[i].op # "reject"
      OBVIOUS
    <3>3. /\ e.type = "bet" => TableAfter(EventsOf(a)).rounds[e.round] = "open"
          /\ e.type = "updated" => Pressable(TableAfter(EventsOf(a)), e)
      BY <3>1
    <3>4. Reduce(TableAfter(EventsOf(a)), e).bank >= 0
      BY <3>1
    <3>5. InStep(k, h, led, a, o, x, v, d, y)
      BY <3>1
    <3>6. Linked(k, h, led, a, v, d)
      BY <3>1
    <3>7. e \in Happening
      BY <3>1
    <3>8. Own(e) /\ e.by = y + 1
      BY <3>1
    <3>9. b = Append(a, [seq |-> x + 1, event |-> e]) /\ f = Append(v, [op |-> "event", event |-> e])
      BY <3>1
    <3>10. Sends(k, h, led, a, o, x, v, d, y, e, b, f)
      BY ONLY k \in Nat, h \in Nat, <3>2, <3>3, <3>4, <3>5, <3>6, <3>7, <3>8, <3>9 DEF Sends
    <3>11. Linked(k, h, led, b, f, d)
      BY ONLY <3>10, SendOne
    <3>12. Tells(b, a, e)
      BY ONLY <3>10, SendOne
    <3>13. InStep(k, h, led, b, o \cup {y + 1}, x + 1, f, d, y + 1)
      BY ONLY <3>10, SendOne
    <3> QED BY <3>11, <3>12, <3>13 DEF Tells
  <2>13. TableAfter(EventsOf(b)) = z
    BY <2>12 DEF q
  <2> HIDE DEF z
  <2>14. A(j) = o \cup {y + 1} /\ x + 1 = tp + j /\ y + 1 = w + j
    BY <1>12, <2>1 DEF o, x, y
  <2>15. P(j)
    <3>1. z.rounds[round] = "open"
      BY <2>3, <2>9, <2>10
    <3>2. InStep(k, h, led, S(j), A(j), tp + j, U(j), d, w + j) /\ Linked(k, h, led, S(j), U(j), d)
      BY <2>12, <2>14 DEF b, f
    <3>3. R(j) = z
      BY <2>13 DEF R, b
    <3> QED BY <2>10, <2>11, <3>1, <3>2, <3>3 DEF P
  <2> QED BY <2>15 DEF j
<1> HIDE DEF P
<1>16. 0 \in T
  BY <1>14
<1> HIDE DEF T
<1>17. Nat \subseteq T
  BY <1>15, <1>16, NaturalsBySteps
<1>18. n \in T
  BY <1>2, <1>17
<1>19. P(n)
  BY <1>2, <1>18 DEF T
<1>20. Len(es) = n
  <2>1. es = [i \in 1..n |-> es[i]]
    BY <1>5
  <2> QED BY <1>2, <2>1
<1>21. A(n) = una \cup {es[i].by : i \in DOMAIN es}
  <2>1. DOMAIN es = 1..n /\ (\A i \in 1..n : es[i].by = w + i) /\ A(n) = una \cup {w + i : i \in 1..n}
    BY <1>4, <1>5 DEF A
  <2> DEFINE q == A(n)
  <2>2. q = una \cup {w + i : i \in 1..n}
    BY <2>1
  <2> HIDE DEF q
  <2>3. \A i \in 1..n : w + i \in q
    BY ONLY <2>2
  <2>4. \A x \in q : x \in una \/ \E i \in 1..n : x = w + i
    BY ONLY <2>2
  <2>5. una \subseteq q
    BY ONLY <2>2
  <2>6. \A x \in q : x \in una \/ \E i \in DOMAIN es : x = es[i].by
    BY ONLY <2>1, <2>4
  <2>7. \A i \in DOMAIN es : es[i].by \in q
    BY ONLY <2>1, <2>3
  <2> QED BY ONLY <2>5, <2>6, <2>7 DEF q
<1> QED BY <1>9, <1>10, <1>19, <1>20, <1>21 DEF P

\* The rounds of a table: the open one, the last.
LEMMA OpenIsOpen ==
  ASSUME NEW t \in Tables, OpenRound(t) # 0
  PROVE  OpenRound(t) \in 1..MaxRound /\ t.rounds[OpenRound(t)] = "open"
<1> DEFINE S == ActiveRounds(t) \cup {0}
           r == Max(S)
<1>1. S \subseteq Nat /\ S # {} /\ MaxRound \in Nat /\ \A y \in S : y <= MaxRound
  BY PlayerAssumption DEF ActiveRounds
<1>2. S \subseteq 0..MaxRound
  BY <1>1 DEF ActiveRounds
<1>3. OpenRound(t) = IF r > 0 /\ t.rounds[r] = "open" THEN r ELSE 0
  BY DEF OpenRound
<1> HIDE DEF S
<1>4. r \in S
  BY <1>1, MaxOfBounded
<1> HIDE DEF r
<1>5. r \in 0..MaxRound
  BY <1>2, <1>4
<1> QED BY <1>1, <1>3, <1>5

LEMMA PlacedIs ==
  ASSUME NEW t \in Tables
  PROVE  Placed(t) \in Nat
<1> DEFINE S == t.bets
           A == BetsIn(t, OpenRound(t))
<1>1. S \in SUBSET Bet /\ IsFiniteSet(S) /\ A \in SUBSET S
  BY TableParts DEF BetsIn
<1>2. Placed(t) = Worth(A)
  BY DEF Placed
<1> HIDE DEF S, A
<1> QED BY <1>1, <1>2, WorthParts

LEMMA CopyTable ==
  ASSUME NEW k \in Nat, NEW h \in Nat, NEW led, NEW sh, NEW una, NEW tp, NEW u, NEW d, NEW w,
         InStep(k, h, led, sh, una, tp, u, d, w)
  PROVE  /\ TableAfter(EventsOf(sh)) \in Tables /\ EventsOf(sh) \in Seq(Happening) /\ sh \in Seq(Sheet)
         /\ TableAfter(EventsOf(sh)).bank >= 0 /\ w \in Nat /\ tp \in Nat /\ TopOf(sh) = tp
         /\ led \in Seq(Happening) /\ TableAfter(led) \in Tables /\ TableAfter(led).bank >= 0
<1>1. Copy(k, h, led, sh, una, tp) /\ Order(k, h, led, sh, w) /\ NoDebt(EventsOf(sh)) /\ NoDebt(led)
  BY DEF InStep, Covers
<1>2. sh \in Seq(Sheet) /\ led \in Seq(Happening) /\ tp \in Nat /\ w \in Nat
  BY <1>1, CopyFacts DEF Order
<1>3. EventsOf(sh) \in Seq(Happening)
  BY <1>2, EventsAre
<1>4. TopOf(sh) = tp
  <2>1. TopOf(sh) = sh[Len(sh)].seq
    BY <1>1, TopIs
  <2>2. tp = sh[Len(sh)].seq
    BY <1>1 DEF Copy
  <2> QED BY <2>1, <2>2
<1> DEFINE s == EventsOf(sh)
<1>5. s \in Seq(Happening) /\ NoDebt(s)
  BY <1>1, <1>3
<1> HIDE DEF s
<1>6. \A r \in Seq(Happening) : NoDebt(r) => TableAfter(r) \in Tables /\ TableAfter(r).bank >= 0
  <2> TAKE r \in Seq(Happening)
  <2>1. After(r, Len(r)) = TableAfter(r) /\ Len(r) \in 0..Len(r)
    BY AfterSteps
  <2>2. TableAfter(r) \in Tables
    BY TableSteps
  <2> QED BY <2>1, <2>2 DEF NoDebt
<1>7. TableAfter(s) \in Tables /\ TableAfter(s).bank >= 0
  BY <1>5, <1>6
<1> QED BY <1>1, <1>2, <1>3, <1>4, <1>6, <1>7 DEF s

-----------------------------------------------------------------------------
(* The actions                                                                *)

\* The copy is still right when the parts it is about are those of a right one.
LEMMA NextRight ==
  ASSUME NEW n \in Nat, NEW g \in Nat,
         InStep(n, g, ledger', sheets', unanswered', top', up', down', wrote'),
         linked' => Linked(n, g, ledger', sheets', up', down'),
         ~linked' => Joining(n, g, ledger', sheets', up', down')
  PROVE  PlayerInv'
BY DEF PlayerInv, CopyRight

\* The page sends bets.
LEMMA BetsSent ==
  ASSUME NEW k \in Nat, NEW h \in Nat, CopyRight(k, h), linked, OpenRound(Shown) # 0,
         NEW am \in Seq(Nat), \A j \in 1..Len(am) : Shown.bank >= Staked(SubSeq(am, 1, j - 1)) + am[j],
         Send(BetEvents(am)), ledger' = ledger, ~crossed'
  PROVE  PlayerInv'
<1> DEFINE round == OpenRound(Shown)
           es == BetEvents(am)
           g == [i \in DOMAIN es |-> [seq |-> top + i, event |-> es[i]]]
           c == [i \in DOMAIN es |-> [op |-> "event", event |-> es[i]]]
<1>1. InStep(k, h, ledger, sheets, unanswered, top, up, down, wrote) /\ Linked(k, h, ledger, sheets, up, down)
  BY DEF CopyRight
<1>2. Shown \in Tables /\ Shown = TableAfter(EventsOf(sheets))
  BY <1>1, CopyTable DEF Shown
<1>3. round \in 1..MaxRound /\ TableAfter(EventsOf(sheets)).rounds[round] = "open"
  <2> DEFINE t == Shown
  <2>1. t \in Tables /\ OpenRound(t) # 0
    BY <1>2
  <2> HIDE DEF t
  <2>2. OpenRound(t) \in 1..MaxRound /\ t.rounds[OpenRound(t)] = "open"
    BY <2>1, OpenIsOpen
  <2> QED BY <1>2, <2>2 DEF t
<1>4. /\ wrote' = wrote + Len(es) /\ sheets' = sheets \o g /\ top' = top + Len(es)
      /\ unanswered' = unanswered \cup {es[i].by : i \in DOMAIN es} /\ up' = up \o c
      /\ linked' = linked /\ down' = down /\ \A j \in DOMAIN down : down[j].op # "reject"
  BY DEF Send
<1>5. es = [i \in DOMAIN am |-> What("bet", round, wrote + i, am[i], wrote + i)]
  BY DEF BetEvents
<1>6. \A j \in 1..Len(am) : TableAfter(EventsOf(sheets)).bank >= Staked(SubSeq(am, 1, j - 1)) + am[j]
  BY <1>2
<1>7. SendsBets(k, h, ledger, sheets, unanswered, top, up, down, wrote, round, am, es, g, c)
  <2>1. g = [i \in DOMAIN es |-> [seq |-> top + i, event |-> es[i]]] /\ c = [i \in DOMAIN es |-> [op |-> "event", event |-> es[i]]]
    OBVIOUS
  <2> HIDE DEF es, g, c, round
  <2> QED BY <1>1, <1>3, <1>4, <1>5, <1>6, <2>1 DEF SendsBets
<1> HIDE DEF es, g, c, round
<1>8. /\ InStep(k, h, ledger, sheets \o g, unanswered \cup {es[i].by : i \in DOMAIN es}, top + Len(es), up \o c, down, wrote + Len(es))
      /\ Linked(k, h, ledger, sheets \o g, up \o c, down)
  BY ONLY <1>7, BetsRun
<1>9. /\ InStep(k, h, ledger', sheets', unanswered', top', up', down', wrote') /\ linked'
      /\ Linked(k, h, ledger', sheets', up', down')
  BY <1>4, <1>8
<1> QED BY <1>9, NextRight

LEMMA WroteMore ==
  ASSUME NEW k \in Nat, NEW h \in Nat, NEW led, NEW sh, NEW una, NEW tp, NEW u, NEW d, NEW w,
         InStep(k, h, led, sh, una, tp, u, d, w)
  PROVE  InStep(k, h, led, sh, una, tp, u, d, w + 1)
<1>1. Copy(k, h, led, sh, una, tp) /\ Order(k, h, led, sh, w) /\ Covers(k, h, led, sh, u, d)
  BY DEF InStep
<1>2. /\ \A i \in 1..Len(led) : led[i].by \in Nat
      /\ \A i \in 1..Len(sh) : sh[i].event.by \in Nat
  BY <1>1, CopyFacts
<1>3. w \in Nat /\ (\A i \in 1..Len(led) : led[i].by <= w) /\ \A i \in 1..Len(sh) : sh[i].event.by <= w
  BY <1>1 DEF Order
<1>4. \A m \in Nat : m <= w => m <= w + 1
  BY <1>3
<1>5. (\A i \in 1..Len(led) : led[i].by <= w + 1) /\ \A i \in 1..Len(sh) : sh[i].event.by <= w + 1
  BY <1>2, <1>3, <1>4
<1>6. w + 1 \in Nat
  BY <1>3
<1>7. Order(k, h, led, sh, w + 1)
  BY <1>1, <1>5, <1>6 DEF Order
<1> QED BY <1>1, <1>7 DEF InStep

\* One element after a sequence, built as a function.
LEMMA OnlyOne ==
  ASSUME NEW Y, NEW s \in Seq(Y), NEW x \in Y
  PROVE  s \o <<x>> = Append(s, x)
OBVIOUS

\* The page sends one event that is not a bet.
LEMMA OneSent ==
  ASSUME NEW k \in Nat, NEW h \in Nat, CopyRight(k, h), NEW e \in Happening, Own(e), e.by = wrote + 1, e.type # "bet",
         e.type = "updated" => Pressable(Shown, e), Reduce(Shown, e).bank >= 0,
         Send(<<e>>), ledger' = ledger, ~crossed'
  PROVE  PlayerInv'
<1> DEFINE x == [seq |-> top + 1, event |-> e]
           y == [op |-> "event", event |-> e]
           g == [i \in DOMAIN <<e>> |-> [seq |-> top + i, event |-> <<e>>[i]]]
           c == [i \in DOMAIN <<e>> |-> [op |-> "event", event |-> <<e>>[i]]]
<1>1. InStep(k, h, ledger, sheets, unanswered, top, up, down, wrote)
  BY DEF CopyRight
<1>2. /\ Shown \in Tables /\ Shown = TableAfter(EventsOf(sheets)) /\ Shown.bank >= 0
      /\ sheets \in Seq(Sheet) /\ wrote \in Nat /\ top \in Nat /\ TopOf(sheets) = top
  BY <1>1, CopyTable DEF Shown
<1>4. /\ ledger' = ledger /\ linked' = linked /\ down' = down /\ wrote' = wrote + 1
      /\ \A j \in DOMAIN down : down[j].op # "reject"
  <2>1. Len(<<e>>) = 1
    OBVIOUS
  <2> QED BY <2>1 DEF Send
<1>6. CASE ~linked
  <2>1. top' = TopOf(sheets) /\ sheets' = sheets /\ unanswered' = unanswered /\ up' = up
    BY <1>6 DEF Send
  <2>2. Joining(k, h, ledger, sheets, up, down)
    BY <1>6 DEF CopyRight
  <2>3. InStep(k, h, ledger, sheets, unanswered, top, up, down, wrote + 1)
    BY <1>1, WroteMore
  <2>4. InStep(k, h, ledger', sheets', unanswered', top', up', down', wrote')
    BY <1>2, <1>4, <2>1, <2>3
  <2>5. Joining(k, h, ledger', sheets', up', down') /\ ~linked'
    BY <1>4, <1>6, <2>1, <2>2
  <2> QED BY <2>4, <2>5, NextRight
<1>7. CASE linked
  <2>1. /\ sheets' = sheets \o g /\ top' = top + Len(<<e>>) /\ up' = up \o c
        /\ unanswered' = unanswered \cup {<<e>>[i].by : i \in DOMAIN <<e>>}
    BY <1>7 DEF Send
  <2>2. Linked(k, h, ledger, sheets, up, down)
    BY <1>7 DEF CopyRight
  <2>3. up \in Seq(Calls)
    BY <2>2 DEF Linked
  <2>4. x \in Sheet /\ y \in Calls
    <3>1. top + 1 \in Nat
      BY <1>2
    <3> QED BY <3>1 DEF Sheet, Calls
  <2>5. g = <<x>> /\ c = <<y>>
    <3>1. DOMAIN <<e>> = 1..1 /\ <<e>>[1] = e
      OBVIOUS
    <3>2. g = [i \in 1..1 |-> [seq |-> top + i, event |-> <<e>>[i]]] /\ c = [i \in 1..1 |-> [op |-> "event", event |-> <<e>>[i]]]
      BY <3>1
    <3>3. g = <<x>>
      BY <3>1, <3>2
    <3>4. c = <<y>>
      BY <3>1, <3>2
    <3> QED BY <3>3, <3>4
  <2>6. top' = top + 1 /\ unanswered' = unanswered \cup {wrote + 1}
    <3>1. DOMAIN <<e>> = {1} /\ <<e>>[1] = e /\ Len(<<e>>) = 1
      OBVIOUS
    <3>2. {<<e>>[i].by : i \in DOMAIN <<e>>} = {wrote + 1}
      BY <3>1
    <3> QED BY <2>1, <3>1, <3>2
  <2> DEFINE sh2 == Append(sheets, x)
             up2 == Append(up, y)
  <2>7. sheets' = sh2 /\ up' = up2
    <3> HIDE DEF x, y, g, c
    <3>1. sheets \o <<x>> = Append(sheets, x)
      BY <1>2, <2>4, OnlyOne
    <3>2. up \o <<y>> = Append(up, y)
      BY <2>3, <2>4, OnlyOne
    <3> QED BY <2>1, <2>5, <3>1, <3>2
  <2>9. sh2 = Append(sheets, [seq |-> top + 1, event |-> e]) /\ up2 = Append(up, [op |-> "event", event |-> e])
    OBVIOUS
  <2> HIDE DEF x, y, g, c, sh2, up2
  <2>10. /\ Reduce(TableAfter(EventsOf(sheets)), e).bank >= 0
         /\ e.type = "updated" => Pressable(TableAfter(EventsOf(sheets)), e)
    BY <1>2
  <2>11. Sends(k, h, ledger, sheets, unanswered, top, up, down, wrote, e, sh2, up2)
    BY <1>1, <1>4, <2>2, <2>9, <2>10 DEF Sends
  <2>12. /\ InStep(k, h, ledger, sh2, unanswered \cup {wrote + 1}, top + 1, up2, down, wrote + 1)
         /\ Linked(k, h, ledger, sh2, up2, down)
    BY ONLY <2>11, SendOne
  <2>13. /\ InStep(k, h, ledger', sheets', unanswered', top', up', down', wrote') /\ linked'
         /\ Linked(k, h, ledger', sheets', up', down')
    BY <1>4, <1>7, <2>6, <2>7, <2>12
  <2> QED BY <2>13, NextRight
<1> QED BY <1>6, <1>7

\* What the copy shows: its bets have an id each.
LEMMA ShownIs ==
  ASSUME NEW k \in Nat, NEW h \in Nat, CopyRight(k, h)
  PROVE  Shown \in Tables /\ Shown.bank >= 0 /\ Single(Shown.bets) /\ wrote \in Nat
<1>1. InStep(k, h, ledger, sheets, unanswered, top, up, down, wrote)
  BY DEF CopyRight
<1>2. /\ Shown \in Tables /\ Shown = TableAfter(EventsOf(sheets)) /\ Shown.bank >= 0 /\ wrote \in Nat
      /\ EventsOf(sheets) \in Seq(Happening)
  BY <1>1, CopyTable DEF Shown
<1> DEFINE s == EventsOf(sheets)
           n == Len(s)
<1>3. s \in Seq(Happening) /\ Rising(s)
  BY <1>1, <1>2 DEF InStep, Order
<1> HIDE DEF s
<1>4. n \in 0..Len(s) /\ After(s, n) = TableAfter(s)
  BY <1>3, AfterSteps
<1> HIDE DEF n
<1>5. Single(After(s, n).bets)
  BY <1>3, <1>4, AfterSingle
<1> QED BY <1>2, <1>4, <1>5 DEF s

\* The most that a bet has won is a number of chips.
LEMMA ProfitIs ==
  ASSUME NEW t \in Tables, NEW b
  PROVE  LastWinningProfit(t, b) \in Nat
<1> DEFINE P == t.paid
           F == {s \in SUBSET P : \E m \in Nat : \A p \in s : p.n <= m}
           S == {p.n - p.stake : p \in {x \in P : x.id = b.id}} \cup {0}
           N == S \cap Nat
<1>1. IsFiniteSet(P) /\ \A p \in P : p.n \in Nat /\ p.stake \in Nat
  BY TableParts DEF Pay
<1> HIDE DEF P
<1>2. {} \in F
  OBVIOUS
<1>3. ASSUME NEW s \in SUBSET P, NEW p \in P \ s, s \in F PROVE s \cup {p} \in F
  <2>1. PICK m \in Nat : \A q \in s : q.n <= m
    BY <1>3
  <2>2. m + p.n \in Nat /\ p.n <= m + p.n /\ \A y \in Nat : y <= m => y <= m + p.n
    BY <1>1, <2>1
  <2>3. \A q \in s : q.n \in Nat
    BY <1>1
  <2>4. \A q \in s \cup {p} : q.n <= m + p.n
    BY <2>1, <2>2, <2>3
  <2> QED BY <2>2, <2>4
<1>4. P \in F
  <2> HIDE DEF F
  <2> QED BY <1>1, <1>2, <1>3, FiniteBySteps
<1>5. PICK m \in Nat : \A p \in P : p.n <= m
  BY <1>4
<1>6. \A p \in P : p.n - p.stake \in Int /\ p.n - p.stake <= m
  BY <1>1, <1>5
<1>7. 0 \in S /\ \A y \in S : y \in Int /\ y <= m
  BY <1>6
<1> HIDE DEF S
<1>8. N \subseteq Nat /\ 0 \in N /\ N # {} /\ \A y \in N : y <= m
  BY <1>7
<1> HIDE DEF N
<1>9. Max(N) \in N /\ \A y \in N : y <= Max(N)
  BY <1>8, MaxOfBounded
<1> DEFINE z == Max(N)
<1>10. z \in Nat /\ z \in S /\ \A y \in S : z >= y
  <2>1. z \in N /\ \A y \in N : y <= z
    BY <1>9
  <2> HIDE DEF z
  <2>2. z \in Nat /\ z \in S
    BY <2>1 DEF N
  <2>3. ASSUME NEW y \in S PROVE z >= y
    <3>1. CASE y \in Nat
      BY <2>1, <2>2, <3>1 DEF N
    <3>2. CASE y \notin Nat
      BY <1>7, <2>2, <3>2
    <3> QED BY <3>1, <3>2
  <2> QED BY <2>2, <2>3
<1> HIDE DEF z
<1>11. Max(S) \in S /\ \A y \in S : Max(S) >= y
  BY <1>10 DEF Max
<1>12. Max(S) \in Nat
  <2> DEFINE v == Max(S)
  <2>1. v \in S /\ v >= 0 /\ v \in Int
    BY <1>7, <1>11
  <2> HIDE DEF v
  <2>2. v \in Nat
    BY <2>1
  <2> QED BY <2>2 DEF v
<1> QED BY <1>12 DEF LastWinningProfit, S, P

\* The page takes a bet back.
LEMMA RemoveSent ==
  ASSUME NEW k \in Nat, NEW h \in Nat, CopyRight(k, h), NEW b \in Shown.bets, RemoveBet(b), ~crossed'
  PROVE  PlayerInv'
<1> DEFINE e == What("removed", b.round, b.id, 0, wrote + 1)
           t == Shown
<1>1. t \in Tables /\ t.bank >= 0 /\ b \in t.bets /\ wrote \in Nat
  BY ShownIs
<1>2. Send(<<e>>) /\ ledger' = ledger
  BY DEF RemoveBet
<1> HIDE DEF t
<1>3. b \in Bet
  BY <1>1, TableParts
<1>4. e \in Happening /\ e.by = wrote + 1 /\ e.type = "removed" /\ Own(e)
  <2>1. b.round \in 0..MaxRound /\ b.id \in Nat /\ wrote + 1 \in Nat /\ wrote + 1 # 0
    BY <1>1, <1>3 DEF Bet
  <2>2. e = [type |-> "removed", round |-> b.round, id |-> b.id, n |-> 0, by |-> wrote + 1]
    BY DEF What
  <2>3. e \in [type : Kinds, round : 0..MaxRound, id : Nat, n : Nat, by : Nat]
    BY <2>1, <2>2 DEF Kinds
  <2>4. e.by = wrote + 1 /\ e.type = "removed"
    BY <2>2
  <2>5. Own(e)
    BY <2>1, <2>4 DEF Own, ByDealer
  <2> QED BY <2>3, <2>4, <2>5 DEF Happening
<1> HIDE DEF e
<1>5. Reduce(t, e).bank >= 0
  <2> DEFINE z == Reduce(t, e)
  <2>1. z \in Tables /\ z.bank >= t.bank
    BY <1>1, <1>4, ReduceBack
  <2> HIDE DEF z
  <2>2. z.bank \in Int /\ t.bank \in Int
    BY <1>1, <2>1, TableParts
  <2>3. z.bank >= 0
    BY <1>1, <2>1, <2>2
  <2> QED BY <2>3 DEF z
<1> QED BY <1>2, <1>4, <1>5, OneSent DEF t

\* A press takes from the hand what it adds to the stake, unless the page shows less than that.
LEMMA PressTakes ==
  ASSUME NEW t \in Tables, Single(t.bets), NEW b \in t.bets, t.rounds[InRound(t, b)] = "open", NEW n \in Nat, b.n + n \in Nat,
         t.bank >= n, NEW e \in Happening, e.type = "updated", e.id = b.id, e.n = b.n + n
  PROVE  Pressable(t, e) /\ Reduce(t, e).bank >= 0
<1>1. t.bets \in SUBSET Bet /\ b \in Bet /\ b.n \in Nat /\ t.bank \in Int
  BY TableParts DEF Bet
<1>2. \A c \in t.bets : c.id = e.id => c = b
  BY DEF Single
<1>3. Pressable(t, e)
  <2>1. b.n <= e.n
    BY <1>1
  <2> QED BY <1>2, <2>1 DEF Pressable
<1>4. Held(t, e) = {b}
  BY <1>2 DEF Held
<1> DEFINE r == Raised(b, e.n)
           A == {r}
           O == {b}
           Z == {}
<1>5. A = {Raised(c, e.n) : c \in Held(t, e)}
  BY <1>4
<1>6. r \in Bet /\ r.n = b.n + n
  BY <1>1 DEF Raised, Bet
<1> HIDE DEF r
<1>7. Z \in SUBSET Bet /\ IsFiniteSet(Z) /\ r \notin Z /\ b \notin Z /\ Z \cup {r} = A /\ Z \cup {b} = O
  BY FS_EmptySet
<1>8. Worth(Z) = 0
  <2>1. Worth(Z) = SumOf(ChipsOf, Z)
    BY <1>7, WorthIsSum
  <2> DEFINE f == ChipsOf
  <2>2. IsFiniteSet(Z) /\ \A x \in Z : f[x] \in Int
    BY <1>7
  <2> HIDE DEF f
  <2>3. SumOf(f, {}) = 0
    BY <2>2, SumSteps DEF Z
  <2> QED BY <2>1, <2>3 DEF f
<1> HIDE DEF Z, A, O
<1>9. Worth(Z \cup {r}) = Worth(Z) + r.n
  BY <1>6, <1>7, WorthOne
<1>10. Worth(Z \cup {b}) = Worth(Z) + b.n
  BY <1>1, <1>7, WorthOne
<1>11. Worth(A) = b.n + n /\ Worth(O) = b.n
  <2>1. Worth(Z \cup {r}) = Worth(A) /\ Worth(Z \cup {b}) = Worth(O)
    BY <1>7
  <2>2. \A x \in Nat : 0 + x = x
    OBVIOUS
  <2>3. Worth(A) = 0 + r.n /\ Worth(O) = 0 + b.n
    BY <1>8, <1>9, <1>10, <2>1
  <2> QED BY <1>1, <1>6, <2>2, <2>3
<1>12. Reduce(t, e).bank = (t.bank + Worth(Held(t, e))) - Worth({Raised(c, e.n) : c \in Held(t, e)})
  BY ReduceUpdate
<1>13. Reduce(t, e).bank = (t.bank + Worth(O)) - Worth(A)
  BY <1>4, <1>5, <1>12 DEF O
<1>14. Reduce(t, e).bank = t.bank - n
  BY <1>1, <1>11, <1>13
<1> QED BY <1>1, <1>3, <1>14

\* The page presses a bet.
LEMMA PressSent ==
  ASSUME NEW k \in Nat, NEW h \in Nat, CopyRight(k, h), NEW b \in Shown.bets, PressBet(b), ~crossed', ~beyond'
  PROVE  PlayerInv'
<1> DEFINE t == Shown
           n == LastWinningProfit(t, b)
           e == What("updated", b.round, b.id, b.n + n, wrote + 1)
<1>1. t \in Tables /\ t.bank >= 0 /\ b \in t.bets /\ wrote \in Nat /\ Single(t.bets)
  BY ShownIs
<1>2. Send(<<e>>) /\ ledger' = ledger /\ ~(t.bank < n) /\ b \in BetsIn(t, OpenRound(t))
  BY DEF PressBet
<1> HIDE DEF t
<1>3. n \in Nat
  BY <1>1, ProfitIs
<1> HIDE DEF n
<1>4. b \in Bet /\ b.n \in Nat /\ b.n + n \in Nat /\ t.bank \in Int /\ t.bank >= n
  <2>1. b \in Bet /\ t.bank \in Int
    BY <1>1, TableParts
  <2>2. b.n \in Nat
    BY <2>1 DEF Bet
  <2> QED BY <1>2, <1>3, <2>1, <2>2
<1>5. /\ e \in Happening /\ e.by = wrote + 1 /\ e.type = "updated" /\ Own(e) /\ e.id = b.id /\ e.n = b.n + n
  <2>1. b.round \in 0..MaxRound /\ b.id \in Nat /\ wrote + 1 \in Nat /\ wrote + 1 # 0
    BY <1>1, <1>4 DEF Bet
  <2>2. e = [type |-> "updated", round |-> b.round, id |-> b.id, n |-> b.n + n, by |-> wrote + 1]
    BY DEF What
  <2>3. e \in [type : Kinds, round : 0..MaxRound, id : Nat, n : Nat, by : Nat]
    BY <1>4, <2>1, <2>2 DEF Kinds
  <2>4. e.by = wrote + 1 /\ e.type = "updated" /\ e.id = b.id /\ e.n = b.n + n
    BY <2>2
  <2>5. Own(e)
    BY <2>1, <2>4 DEF Own, ByDealer
  <2> QED BY <2>3, <2>4, <2>5 DEF Happening
<1> HIDE DEF e
<1>6. t.rounds[InRound(t, b)] = "open"
  <2>1. InRound(t, b) = OpenRound(t)
    BY <1>2 DEF BetsIn
  <2>2. OpenRound(t) # 0
    <3>1. t \in Table7
      BY <1>1, TableParts
    <3>2. InRound(t, b) \in 1..MaxRound
      BY <1>4, <3>1, InRoundIs
    <3> QED BY <2>1, <3>2
  <2>3. t.rounds[OpenRound(t)] = "open"
    BY <1>1, <2>2, OpenIsOpen
  <2> QED BY <2>1, <2>3
<1>7. Pressable(t, e) /\ Reduce(t, e).bank >= 0
  BY <1>1, <1>3, <1>4, <1>5, <1>6, PressTakes
<1> QED BY <1>2, <1>5, <1>7, OneSent DEF t

\* The page turns a bet on or off.
LEMMA ToggleSent ==
  ASSUME NEW k \in Nat, NEW h \in Nat, CopyRight(k, h), NEW b \in Shown.bets, ToggleWorking(b), ~crossed'
  PROVE  PlayerInv'
<1> DEFINE t == Shown
           n == IF b.id \in t.works THEN 0 ELSE 1
           e == What("toggled", b.round, b.id, n, wrote + 1)
<1>1. t \in Tables /\ t.bank >= 0 /\ b \in t.bets /\ wrote \in Nat
  BY ShownIs
<1>2. Send(<<e>>) /\ ledger' = ledger
  BY DEF ToggleWorking
<1> HIDE DEF t
<1>3. b \in Bet /\ n \in Nat
  BY <1>1, TableParts
<1> HIDE DEF n
<1>4. e \in Happening /\ e.by = wrote + 1 /\ e.type = "toggled" /\ Own(e)
  <2>1. b.round \in 0..MaxRound /\ b.id \in Nat /\ wrote + 1 \in Nat /\ wrote + 1 # 0
    BY <1>1, <1>3 DEF Bet
  <2>2. e = [type |-> "toggled", round |-> b.round, id |-> b.id, n |-> n, by |-> wrote + 1]
    BY DEF What
  <2>3. e \in [type : Kinds, round : 0..MaxRound, id : Nat, n : Nat, by : Nat]
    BY <1>3, <2>1, <2>2 DEF Kinds
  <2>4. e.by = wrote + 1 /\ e.type = "toggled"
    BY <2>2
  <2>5. Own(e)
    BY <2>1, <2>4 DEF Own, ByDealer
  <2> QED BY <2>3, <2>4, <2>5 DEF Happening
<1> HIDE DEF e
<1>5. Reduce(t, e).bank = t.bank
  BY <1>1, <1>4, ReduceToggle
<1>6. Reduce(t, e).bank >= 0
  BY <1>1, <1>5
<1> QED BY <1>2, <1>4, <1>6, OneSent DEF t

\* The page places a bet, or the slip.
LEMMA PlaceStep ==
  ASSUME NEW k \in Nat, NEW h \in Nat, CopyRight(k, h), slip \in Seq(Chips), Place, ~crossed'
  PROVE  PlayerInv'
<1>1. InStep(k, h, ledger, sheets, unanswered, top, up, down, wrote)
  BY DEF CopyRight
<1>2. Shown \in Tables /\ Shown.bank \in Int /\ Placed(Shown) \in Nat
  <2> DEFINE t == Shown
  <2>1. t \in Tables
    BY <1>1, CopyTable DEF Shown
  <2> HIDE DEF t
  <2>2. t.bank \in Int
    BY <2>1, WealthType
  <2>3. Placed(t) \in Nat
    BY <2>1, PlacedIs
  <2> QED BY <2>1, <2>2, <2>3 DEF t
<1>3. slip \in Seq(Nat)
  <2> DEFINE n == Len(slip)
             Y == Nat
  <2>1. n \in Nat /\ slip = [i \in 1..n |-> slip[i]] /\ \A i \in 1..n : slip[i] \in Chips
    OBVIOUS
  <2>2. \A i \in 1..n : slip[i] \in Y
    BY <2>1, PlayerAssumption
  <2> HIDE DEF n, Y
  <2>3. slip \in [1..n -> Y]
    BY <2>1, <2>2
  <2>4. slip \in Seq(Y)
    BY ONLY <2>1, <2>3
  <2> QED BY <2>4 DEF Y
<1>4. OpenRound(Shown) # 0 /\ linked /\ Send(BetEvents(slip)) /\ ledger' = ledger
  BY DEF Place
<1>5. ASSUME NEW j \in 1..Len(slip) PROVE Shown.bank >= Staked(SubSeq(slip, 1, j - 1)) + slip[j]
  <2> DEFINE p == SubSeq(slip, 1, j - 1)
             n == Staked(p)
  <2>1. p \in Seq(Nat) /\ slip[j] \in Nat
    BY <1>3
  <2> HIDE DEF p
  <2>2. n \in Nat
    BY <2>1, StakedSteps
  <2>3. Shown.bank >= Placed(Shown) + n + slip[j]
    BY DEF Place, PlaceAllOK, Affords, p
  <2> HIDE DEF n
  <2>4. Shown.bank >= n + slip[j]
    BY <1>2, <2>1, <2>2, <2>3
  <2> QED BY <2>4 DEF n, p
<1> QED BY <1>3, <1>4, <1>5, BetsSent

LEMMA PlaceBetStep ==
  ASSUME NEW k \in Nat, NEW h \in Nat, CopyRight(k, h), NEW n \in Chips, PlaceBet(n), ~crossed'
  PROVE  PlayerInv'
<1> DEFINE am == <<n>>
<1>1. InStep(k, h, ledger, sheets, unanswered, top, up, down, wrote)
  BY DEF CopyRight
<1>2. Shown \in Tables /\ Shown.bank \in Int /\ Placed(Shown) \in Nat
  <2> DEFINE t == Shown
  <2>1. t \in Tables
    BY <1>1, CopyTable DEF Shown
  <2> HIDE DEF t
  <2>2. t.bank \in Int
    BY <2>1, WealthType
  <2>3. Placed(t) \in Nat
    BY <2>1, PlacedIs
  <2> QED BY <2>1, <2>2, <2>3 DEF t
<1>3. n \in Nat /\ am \in Seq(Nat) /\ Len(am) = 1 /\ am[1] = n
  BY PlayerAssumption
<1>4. OpenRound(Shown) # 0 /\ linked /\ Send(BetEvents(am)) /\ ledger' = ledger
  BY DEF PlaceBet
<1>5. Shown.bank >= Placed(Shown) + n
  BY DEF PlaceBet, Affords
<1>6. SubSeq(am, 1, 0) = <<>>
  OBVIOUS
<1> HIDE DEF am
<1>7. Staked(SubSeq(am, 1, 0)) = 0
  BY <1>6, StakedSteps
<1>8. ASSUME NEW j \in 1..Len(am) PROVE Shown.bank >= Staked(SubSeq(am, 1, j - 1)) + am[j]
  <2>1. j = 1 /\ j - 1 = 0
    BY <1>3
  <2>2. Shown.bank >= 0 + n
    BY <1>2, <1>3, <1>5
  <2> QED BY <1>3, <1>7, <2>1, <2>2
<1> QED BY <1>3, <1>4, <1>8, BetsSent

\* The service answers a call.
LEMMA ServerStep ==
  ASSUME NEW k \in Nat, NEW h \in Nat, CopyRight(k, h), ServerTakes, ~crossed'
  PROVE  PlayerInv'
<1>1. InStep(k, h, ledger, sheets, unanswered, top, up, down, wrote)
  BY DEF CopyRight
<1>2. up # <<>> /\ up' = Tail(up) /\ UNCHANGED <<sheets, unanswered, top, linked, wrote>>
  BY DEF ServerTakes
<1>3. Head(up) = up[1]
  BY <1>2
<1>4. CASE linked
  <2> DEFINE e == up[1].event
             a == down \o <<AckOf(e.by, Len(ledger) + 1), SheetOf(Len(ledger) + 1, e)>>
             r == Append(down, [op |-> "reject", id |-> e.by])
             l2 == Append(ledger, e)
             u2 == Tail(up)
  <2>1. Linked(k, h, ledger, sheets, up, down)
    BY <1>4 DEF CopyRight
  <2>2. up[1].op = "event"
    BY <1>1, <1>2, <2>1, NextCall
  <2>3. \/ ledger' = l2 /\ down' = a
        \/ ledger' = ledger /\ down' = r /\ ~(e.type \in {"removed", "updated"} /\ e.by < wrote)
    BY <1>3, <2>2 DEF ServerTakes
  <2>4. e = up[1].event /\ a = down \o <<AckOf(e.by, Len(ledger) + 1), SheetOf(Len(ledger) + 1, e)>>
        /\ r = Append(down, [op |-> "reject", id |-> e.by]) /\ l2 = Append(ledger, e) /\ u2 = Tail(up)
    OBVIOUS
  <2>5. h + 1 \in Nat
    OBVIOUS
  <2> HIDE DEF e, a, r, l2, u2
  <2>6. CASE ledger' = l2 /\ down' = a
    <3>1. /\ InStep(k, h + 1, Append(ledger, e), sheets, unanswered, top, Tail(up), a, wrote)
          /\ Linked(k, h + 1, Append(ledger, e), sheets, Tail(up), a)
      BY <1>1, <1>2, <2>1, <2>4, AcceptStep
    <3>2. /\ InStep(k, h + 1, ledger', sheets', unanswered', top', up', down', wrote') /\ linked'
          /\ Linked(k, h + 1, ledger', sheets', up', down')
      BY <1>2, <1>4, <2>4, <2>6, <3>1
    <3> QED BY <2>5, <3>2, NextRight
  <2>7. CASE ledger' = ledger /\ down' = r /\ ~(e.type \in {"removed", "updated"} /\ e.by < wrote)
    <3>1. /\ InStep(k, h + 1, ledger, sheets, unanswered, top, Tail(up), r, wrote)
          /\ Linked(k, h + 1, ledger, sheets, Tail(up), r)
      BY <1>1, <1>2, <2>1, <2>4, <2>7, RefuseStep
    <3>2. /\ InStep(k, h + 1, ledger', sheets', unanswered', top', up', down', wrote') /\ linked'
          /\ Linked(k, h + 1, ledger', sheets', up', down')
      BY <1>2, <1>4, <2>7, <3>1
    <3> QED BY <2>5, <3>2, NextRight
  <2> QED BY <2>3, <2>6, <2>7
<1>5. CASE ~linked
  <2> DEFINE f == Append(down, JoinedTo(ledger, k))
  <2>1. Joining(k, h, ledger, sheets, up, down)
    BY <1>5 DEF CopyRight
  <2>2. f = Append(down, JoinedTo(ledger, k))
    OBVIOUS
  <2> HIDE DEF f
  <2>3. /\ up[1].op = "join" /\ up[1].since = k /\ k >= 1
        /\ InStep(k, h, ledger, sheets, unanswered, top, Tail(up), f, wrote) /\ Joining(k, h, ledger, sheets, Tail(up), f)
    <3>0. InStep(k, h, ledger, sheets, unanswered, top, up, down, wrote) /\ up # <<>>
      BY <1>1, <1>2
    <3>1. up[1].op = "join" /\ up[1].since = k
      BY ONLY k \in Nat, h \in Nat, <3>0, <2>1, <2>2, JoinCallStep
    <3>2. k >= 1
      BY ONLY k \in Nat, h \in Nat, <3>0, <2>1, <2>2, JoinCallStep
    <3>3. InStep(k, h, ledger, sheets, unanswered, top, Tail(up), f, wrote)
      BY ONLY k \in Nat, h \in Nat, <3>0, <2>1, <2>2, JoinCallStep
    <3>4. Joining(k, h, ledger, sheets, Tail(up), f)
      BY ONLY k \in Nat, h \in Nat, <3>0, <2>1, <2>2, JoinCallStep
    <3> QED BY <3>1, <3>2, <3>3, <3>4
  <2>4. JoinedFor(k) = JoinedTo(ledger, k)
    BY <2>3 DEF JoinedFor, JoinedTo, Numbers, NumbersOf
  <2>5. ledger' = ledger /\ down' = f
    BY <1>3, <2>2, <2>3, <2>4 DEF ServerTakes
  <2>6. /\ InStep(k, h, ledger', sheets', unanswered', top', up', down', wrote') /\ ~linked'
        /\ Joining(k, h, ledger', sheets', up', down')
    BY <1>2, <1>5, <2>3, <2>5
  <2> QED BY <2>6, NextRight
<1> QED BY <1>4, <1>5

\* The store takes a confirmation.
LEMMA AckRead ==
  ASSUME NEW k \in Nat, NEW h \in Nat, CopyRight(k, h), linked, StoreTakes, ~crossed', down[1].op = "ack"
  PROVE  PlayerInv'
<1> DEFINE id == down[1].id
           sq == down[1].seq
           sh2 == [i \in DOMAIN sheets |-> IF i \in Places(sheets, id) /\ id \in unanswered /\ i = Max(Places(sheets, id))
                                             THEN [sheets[i] EXCEPT !.seq = sq] ELSE sheets[i]]
           tp2 == IF id \in unanswered THEN Max({top, sq}) ELSE top
<1>1. InStep(k, h, ledger, sheets, unanswered, top, up, down, wrote) /\ Linked(k, h, ledger, sheets, up, down)
  BY DEF CopyRight
<1>2. down # <<>> /\ down' = Tail(down) /\ Head(down) = down[1] /\ ledger' = ledger /\ wrote' = wrote
  BY DEF StoreTakes
<1>3. Entry(id) = Places(sheets, id)
  BY DEF Entry, Places
<1>4. /\ sheets' = sh2 /\ top' = tp2 /\ unanswered' = unanswered \ {id} /\ up' = up /\ linked' = linked
      /\ sheets' = sheets
  BY <1>2, <1>3 DEF StoreTakes
<1>5. /\ id = down[1].id /\ sq = down[1].seq /\ tp2 = IF id \in unanswered THEN Max({top, sq}) ELSE top
      /\ sh2 = [i \in DOMAIN sheets |-> IF i \in Places(sheets, id) /\ id \in unanswered /\ i = Max(Places(sheets, id))
                                         THEN [sheets[i] EXCEPT !.seq = sq] ELSE sheets[i]]
  OBVIOUS
<1> HIDE DEF id, sq, sh2, tp2
<1>6. sh2 = sheets
  BY <1>4
<1>7. AckReads(k, h, ledger, sheets, unanswered, top, up, down, wrote, id, sq, sh2, tp2)
  BY <1>1, <1>2, <1>5, <1>6 DEF AckReads
<1>8. /\ InStep(k + 1, h, ledger, sh2, unanswered \ {id}, tp2, up, Tail(down), wrote)
      /\ Linked(k + 1, h, ledger, sh2, up, Tail(down))
  BY ONLY <1>7, AckTaken
<1>9. /\ InStep(k + 1, h, ledger', sheets', unanswered', top', up', down', wrote') /\ linked'
      /\ Linked(k + 1, h, ledger', sheets', up', down')
  BY <1>2, <1>4, <1>8
<1>10. k + 1 \in Nat
  OBVIOUS
<1> QED BY <1>9, <1>10, NextRight

\* The store takes a refusal.
LEMMA RejectRead ==
  ASSUME NEW k \in Nat, NEW h \in Nat, CopyRight(k, h), linked, StoreTakes, ~crossed', down[1].op = "reject"
  PROVE  PlayerInv'
<1> DEFINE id == down[1].id
           sh2 == IF id \in unanswered /\ Places(sheets, id) # {} THEN RemoveAt(sheets, Max(Places(sheets, id))) ELSE sheets
           tp2 == IF id \in unanswered THEN TopOf(sh2) ELSE top
<1>1. InStep(k, h, ledger, sheets, unanswered, top, up, down, wrote) /\ Linked(k, h, ledger, sheets, up, down)
  BY DEF CopyRight
<1>2. down # <<>> /\ down' = Tail(down) /\ Head(down) = down[1] /\ ledger' = ledger /\ wrote' = wrote
  BY DEF StoreTakes
<1>3. Entry(id) = Places(sheets, id)
  BY DEF Entry, Places
<1>4. /\ sheets' = sh2 /\ top' = IF id \in unanswered THEN TopOf(sheets') ELSE top
      /\ unanswered' = unanswered \ {id} /\ up' = up /\ linked' = linked
  BY <1>2, <1>3 DEF StoreTakes
<1>5. /\ id = down[1].id /\ tp2 = IF id \in unanswered THEN TopOf(sh2) ELSE top
      /\ sh2 = IF id \in unanswered /\ Places(sheets, id) # {} THEN RemoveAt(sheets, Max(Places(sheets, id))) ELSE sheets
  OBVIOUS
<1> HIDE DEF id, sh2, tp2
<1>6. top' = tp2
  BY <1>4, <1>5
<1>7. RejectReads(k, h, ledger, sheets, unanswered, top, up, down, wrote, id, sh2, tp2)
  BY <1>1, <1>2, <1>5 DEF RejectReads
<1>8. h - 1 \in Nat
  BY ONLY <1>7, RejectTaken
<1>9. /\ InStep(k, h - 1, ledger, sh2, unanswered \ {id}, tp2, up, Tail(down), wrote)
      /\ Linked(k, h - 1, ledger, sh2, up, Tail(down))
  BY ONLY <1>7, RejectTaken
<1>10. /\ InStep(k, h - 1, ledger', sheets', unanswered', top', up', down', wrote') /\ linked'
       /\ Linked(k, h - 1, ledger', sheets', up', down')
  BY <1>2, <1>4, <1>6, <1>9
<1> QED BY <1>8, <1>10, NextRight

\* The store takes an event.
LEMMA SheetRead ==
  ASSUME NEW k \in Nat, NEW h \in Nat, CopyRight(k, h), linked, StoreTakes, ~crossed', down[1].op = "sheet"
  PROVE  PlayerInv'
<1> DEFINE x == [seq |-> down[1].seq, event |-> down[1].event]
           a == [sheets |-> sheets, top |-> top, gap |-> FALSE]
           c == TakeSheet(a, x)
<1>1. InStep(k, h, ledger, sheets, unanswered, top, up, down, wrote) /\ Linked(k, h, ledger, sheets, up, down)
  BY DEF CopyRight
<1>2. down # <<>> /\ down' = Tail(down) /\ Head(down) = down[1] /\ ledger' = ledger /\ wrote' = wrote
  BY DEF StoreTakes
<1>3. x \in Sheet
  <2>1. down[1] \in Msgs
    BY <1>1, <1>2 DEF Linked, News, Truthful
  <2>2. down[1].seq \in Nat /\ down[1].event \in Happening
    BY <2>1, MsgKinds
  <2> QED BY <2>2 DEF Sheet
<1>4. a \in StoreStates
  <2>1. sheets \in Seq(Sheet) /\ top \in Nat
    BY <1>1, CopyTable
  <2> QED BY <2>1 DEF StoreStates
<1>5. StoreAsIs = a
  BY DEF StoreAsIs
<1>6. ApplySheets(StoreAsIs, <<x>>) = c
  <2> HIDE DEF a, x
  <2>1. ApplySheets(a, <<x>>) = TakeSheet(a, x)
    BY <1>3, <1>4, ApplySteps
  <2> QED BY <1>5, <2>1
<1>7. LET z == ApplySheets(StoreAsIs, <<x>>)
      IN /\ sheets' = z.sheets /\ up' = up \o AskAgain(z) /\ top' = z.top
         /\ crossed' = (crossed \/ (z.sheets = sheets /\ ~z.gap /\ down[1].event.by = ByDealer))
         /\ unanswered' = unanswered /\ linked' = linked
  BY <1>2 DEF StoreTakes
<1>8. /\ sheets' = c.sheets /\ up' = up \o AskAgain(c) /\ top' = c.top
      /\ ~(c.sheets = sheets /\ ~c.gap /\ down[1].event.by = ByDealer)
      /\ unanswered' = unanswered /\ linked' = linked
  <2> HIDE DEF c, x, a
  <2> QED BY <1>6, <1>7
<1>9. x = [seq |-> down[1].seq, event |-> down[1].event] /\ c = TakeSheet([sheets |-> sheets, top |-> top, gap |-> FALSE], x)
  OBVIOUS
<1> HIDE DEF x, a, c
<1>10. SheetReads(k, h, ledger, sheets, unanswered, top, up, down, wrote, x, c)
  BY <1>1, <1>2, <1>8, <1>9 DEF SheetReads
<1>11. ~c.gap
  BY ONLY <1>10, SheetTaken
<1>12. \E n, g \in Nat : /\ InStep(n, g, ledger, c.sheets, unanswered, c.top, up, Tail(down), wrote)
                         /\ Linked(n, g, ledger, c.sheets, up, Tail(down))
  BY ONLY <1>10, SheetTaken
<1>13. up' = up
  <2>1. up \in Seq(Calls)
    BY <1>1 DEF Linked
  <2>2. AskAgain(c) = <<>>
    BY <1>11 DEF AskAgain
  <2>3. up \o <<>> = up
    BY <2>1
  <2> QED BY <1>8, <2>2, <2>3
<1>14. PICK n \in Nat, g \in Nat : /\ InStep(n, g, ledger, c.sheets, unanswered, c.top, up, Tail(down), wrote)
                                   /\ Linked(n, g, ledger, c.sheets, up, Tail(down))
  BY <1>12
<1>15. /\ InStep(n, g, ledger', sheets', unanswered', top', up', down', wrote') /\ linked'
       /\ Linked(n, g, ledger', sheets', up', down')
  BY <1>2, <1>8, <1>13, <1>14
<1> QED BY <1>15, NextRight

\* The store takes what the service sends to a page that joins.
LEMMA JoinedRead ==
  ASSUME NEW k \in Nat, NEW h \in Nat, CopyRight(k, h), ~linked, StoreTakes, ~crossed'
  PROVE  PlayerInv'
<1> DEFINE a == IF down[1].replace THEN [sheets |-> <<>>, top |-> 0, gap |-> FALSE]
                                   ELSE [sheets |-> sheets, top |-> top, gap |-> FALSE]
           c == ApplySheets(a, down[1].sheets)
           tp2 == Max({c.top, down[1].top})
<1>1. InStep(k, h, ledger, sheets, unanswered, top, up, down, wrote) /\ Joining(k, h, ledger, sheets, up, down)
  BY DEF CopyRight
<1>2. down # <<>> /\ down' = Tail(down) /\ Head(down) = down[1] /\ ledger' = ledger /\ wrote' = wrote
  BY DEF StoreTakes
<1>3. down[1].op = "joined" /\ up = <<>>
  BY <1>1, <1>2 DEF Joining
<1>4. (IF down[1].replace THEN EmptyStore ELSE StoreAsIs) = a
  BY DEF EmptyStore, StoreAsIs
<1>5. /\ sheets' = c.sheets /\ up' = up \o AskAgain(c) /\ top' = tp2 /\ linked' /\ unanswered' = unanswered
  <2>1. LET z == ApplySheets(IF down[1].replace THEN EmptyStore ELSE StoreAsIs, down[1].sheets)
        IN /\ sheets' = z.sheets /\ up' = up \o AskAgain(z) /\ top' = Max({z.top, down[1].top})
           /\ linked' = TRUE /\ unanswered' = unanswered
    BY <1>2, <1>3 DEF StoreTakes
  <2> HIDE DEF a
  <2>2. ApplySheets(IF down[1].replace THEN EmptyStore ELSE StoreAsIs, down[1].sheets) = c
    BY <1>4
  <2> HIDE DEF c
  <2> QED BY <2>1, <2>2
<1>6. JoinedReads(k, h, ledger, sheets, unanswered, top, up, down, wrote, c, tp2)
  <2>1. c = ApplySheets(IF down[1].replace THEN [sheets |-> <<>>, top |-> 0, gap |-> FALSE]
                                           ELSE [sheets |-> sheets, top |-> top, gap |-> FALSE], down[1].sheets)
        /\ tp2 = Max({c.top, down[1].top})
    OBVIOUS
  <2> HIDE DEF a, c, tp2
  <2> QED BY <1>1, <1>2, <2>1 DEF JoinedReads
<1> DEFINE n == down[1].top
<1> HIDE DEF a, c, tp2
<1>7. ~c.gap
  BY ONLY <1>6, JoinedTaken
<1>8. /\ down[1].top \in Nat /\ InStep(down[1].top, down[1].top, ledger, c.sheets, unanswered, tp2, up, Tail(down), wrote)
      /\ Linked(down[1].top, down[1].top, ledger, c.sheets, up, Tail(down))
  BY ONLY <1>6, JoinedTaken
<1>9. /\ n \in Nat /\ InStep(n, n, ledger, c.sheets, unanswered, tp2, up, Tail(down), wrote)
      /\ Linked(n, n, ledger, c.sheets, up, Tail(down))
  BY <1>8
<1>10. up' = up
  <2>1. AskAgain(c) = <<>>
    BY <1>7 DEF AskAgain
  <2>2. <<>> \o <<>> = <<>>
    OBVIOUS
  <2> QED BY <1>3, <1>5, <2>1, <2>2
<1> HIDE DEF n
<1>11. /\ InStep(n, n, ledger', sheets', unanswered', top', up', down', wrote')
       /\ Linked(n, n, ledger', sheets', up', down')
  BY <1>2, <1>5, <1>9, <1>10
<1> QED BY <1>5, <1>9, <1>11, NextRight

LEMMA StoreStep ==
  ASSUME NEW k \in Nat, NEW h \in Nat, CopyRight(k, h), StoreTakes, ~crossed'
  PROVE  PlayerInv'
<1>1. CASE linked
  <2>1. Linked(k, h, ledger, sheets, up, down)
    BY <1>1 DEF CopyRight
  <2>2. down # <<>>
    BY DEF StoreTakes
  <2>3. down[1] \in Msgs /\ down[1].op # "joined"
    BY <2>1, <2>2 DEF Linked, News, Truthful
  <2>4. down[1].op \in {"ack", "sheet", "reject", "joined"}
    BY <2>3, MsgKinds
  <2>5. CASE down[1].op = "ack"
    BY <1>1, <2>5, AckRead
  <2>6. CASE down[1].op = "sheet"
    BY <1>1, <2>6, SheetRead
  <2>7. CASE down[1].op = "reject"
    BY <1>1, <2>7, RejectRead
  <2> QED BY <2>3, <2>4, <2>5, <2>6, <2>7
<1>2. CASE ~linked
  BY <1>2, JoinedRead
<1> QED BY <1>1, <1>2

\* What is on the way says nothing of the chips when the service has answered all.
LEMMA AllAnswered ==
  ASSUME NEW k \in Nat, NEW led, NEW sh, NEW una, NEW tp, NEW u, NEW d, NEW w, InStep(k, k, led, sh, una, tp, u, d, w),
         NEW u2, NEW d2
  PROVE  InStep(k, k, led, sh, una, tp, u2, d2, w)
<1>1. ~(k > k)
  OBVIOUS
<1>2. OnThePage(k, k, led, sh, u2, d2)
  BY <1>1 DEF InStep, Covers, OnThePage, GivenBack
<1> QED BY <1>2 DEF InStep, Covers

\* The connection is lost, and the page joins again.
LEMMA UnlinkStep ==
  ASSUME NEW k \in Nat, NEW h \in Nat, CopyRight(k, h), Unlink, ~crossed'
  PROVE  PlayerInv'
<1> DEFINE none == <<>>
<1>1. /\ InStep(k, h, ledger, sheets, unanswered, top, up, down, wrote)
      /\ Copy(k, h, ledger, sheets, unanswered, top)
  BY DEF CopyRight, InStep
<1>2. /\ unanswered = {} /\ up' = none /\ down' = none /\ ~linked'
      /\ UNCHANGED <<ledger, sheets, top, unanswered, wrote>>
  BY DEF Unlink
<1>3. k = Len(sheets) /\ h = k
  <2>1. k \in 1..Len(sheets) /\ h \in k..Len(sheets) /\ unanswered = {sheets[i].event.by : i \in k + 1..Len(sheets)}
    BY <1>1 DEF Copy
  <2>2. Len(sheets) \notin k + 1..Len(sheets)
    BY <1>2, <2>1
  <2> QED BY <2>1, <2>2
<1>4. none \in Seq(Calls) /\ none \in Seq(Msgs) /\ none = <<>>
  OBVIOUS
<1> HIDE DEF none
<1>5. InStep(k, k, ledger, sheets, unanswered, top, none, none, wrote)
  <2>1. InStep(k, k, ledger, sheets, unanswered, top, up, down, wrote)
    BY <1>1, <1>3
  <2> QED BY <2>1, AllAnswered
<1>6. Joining(k, k, ledger, sheets, none, none)
  BY <1>3, <1>4 DEF Joining
<1>7. /\ InStep(k, k, ledger', sheets', unanswered', top', up', down', wrote')
      /\ Joining(k, k, ledger', sheets', up', down')
  BY <1>2, <1>5, <1>6
<1> QED BY <1>2, <1>7, NextRight

LEMMA RelinkStep ==
  ASSUME NEW k \in Nat, NEW h \in Nat, CopyRight(k, h), Relink, ~crossed'
  PROVE  PlayerInv'
<1> DEFINE x == [op |-> "join", since |-> k]
           u2 == <<x>>
           none == <<>>
<1>1. /\ InStep(k, h, ledger, sheets, unanswered, top, up, down, wrote)
      /\ Copy(k, h, ledger, sheets, unanswered, top) /\ Order(k, h, ledger, sheets, wrote)
  BY DEF CopyRight, InStep
<1>2. /\ ~linked /\ ~linked' /\ down' = none /\ up' = <<[op |-> "join", since |-> TopOf(sheets)]>>
      /\ UNCHANGED <<ledger, sheets, top, unanswered, wrote>>
  BY DEF Relink
<1>3. h = k /\ k = Len(sheets)
  BY <1>2 DEF CopyRight, Joining
<1>4. TopOf(sheets) = k
  <2>1. TopOf(sheets) = sheets[Len(sheets)].seq
    BY <1>1, TopIs
  <2>2. sheets[k].seq = k
    BY <1>1 DEF Copy
  <2> QED BY <1>3, <2>1, <2>2
<1>5. u2 \in Seq(Calls) /\ none \in Seq(Msgs) /\ none = <<>> /\ u2 = <<[op |-> "join", since |-> k]>>
  <2>1. x \in Calls
    BY DEF Calls
  <2> QED BY <2>1
<1> HIDE DEF u2, x, none
<1>6. InStep(k, k, ledger, sheets, unanswered, top, u2, none, wrote)
  <2>1. InStep(k, k, ledger, sheets, unanswered, top, up, down, wrote)
    BY <1>1, <1>3
  <2> QED BY <2>1, AllAnswered
<1>7. Joining(k, k, ledger, sheets, u2, none)
  BY <1>3, <1>5 DEF Joining
<1>8. up' = u2
  BY <1>2, <1>4, <1>5
<1>9. /\ InStep(k, k, ledger', sheets', unanswered', top', up', down', wrote')
      /\ Joining(k, k, ledger', sheets', up', down')
  BY <1>2, <1>6, <1>7, <1>8
<1> QED BY <1>2, <1>9, NextRight

\* The dealer plays on.
LEMMA WritesStep ==
  ASSUME NEW k \in Nat, NEW h \in Nat, CopyRight(k, h), NEW e \in Happening, ~Own(e), DealerWrites(e), ~crossed'
  PROVE  PlayerInv'
<1> DEFINE f == Append(down, SheetOf(Len(ledger) + 1, e))
           f2 == IF down # <<>> THEN Append(down, SheetOf(Len(ledger) + 1, e)) ELSE down
           l2 == Append(ledger, e)
<1>1. InStep(k, h, ledger, sheets, unanswered, top, up, down, wrote)
  BY DEF CopyRight
<1>2. /\ ledger' = l2 /\ UNCHANGED <<sheets, top, unanswered, linked, up, wrote>>
      /\ linked => down' = f
      /\ ~linked => down' = f2
  BY DEF DealerWrites
<1>3. f = Append(down, SheetOf(Len(ledger) + 1, e)) /\ l2 = Append(ledger, e)
      /\ f2 = IF down # <<>> THEN Append(down, SheetOf(Len(ledger) + 1, e)) ELSE down
  OBVIOUS
<1> HIDE DEF f, f2, l2
<1>4. CASE linked
  <2>1. Linked(k, h, ledger, sheets, up, down)
    BY <1>4 DEF CopyRight
  <2>2. /\ InStep(k, h, Append(ledger, e), sheets, unanswered, top, up, f, wrote)
        /\ Linked(k, h, Append(ledger, e), sheets, up, f)
    BY <1>1, <1>3, <2>1, DealerLinkedStep
  <2>3. /\ InStep(k, h, ledger', sheets', unanswered', top', up', down', wrote') /\ linked'
        /\ Linked(k, h, ledger', sheets', up', down')
    BY <1>2, <1>3, <1>4, <2>2
  <2> QED BY <2>3, NextRight
<1>5. CASE ~linked
  <2>1. Joining(k, h, ledger, sheets, up, down)
    BY <1>5 DEF CopyRight
  <2>2. /\ InStep(k, h, Append(ledger, e), sheets, unanswered, top, up, f2, wrote)
        /\ Joining(k, h, Append(ledger, e), sheets, up, f2)
    <3>1. f2 = IF down # <<>> THEN Append(down, SheetOf(Len(ledger) + 1, e)) ELSE down
      BY <1>3
    <3>2. DealerAdds(k, h, ledger, sheets, unanswered, top, up, down, wrote, e, f2)
      BY <1>1, <2>1, <3>1 DEF DealerAdds
    <3> QED BY ONLY <3>2, DealerUnlinkedStep
  <2>3. /\ InStep(k, h, ledger', sheets', unanswered', top', up', down', wrote') /\ ~linked'
        /\ Joining(k, h, ledger', sheets', up', down')
    BY <1>2, <1>3, <1>5, <2>2
  <2> QED BY <2>3, NextRight
<1> QED BY <1>4, <1>5

LEMMA DealerEvent ==
  ASSUME NEW type \in {"opened", "closed", "voided", "result"}, NEW round \in 1..MaxRound, NEW id \in Nat, NEW n \in Nat,
         NEW e, e = What(type, round, id, n, ByDealer)
  PROVE  e \in Happening /\ ~Own(e)
<1>1. e = [type |-> type, round |-> round, id |-> id, n |-> n, by |-> 0]
  BY DEF What, ByDealer
<1>2. e.type = type /\ e.round = round /\ e.by = 0
  BY <1>1
<1>3. e \in [type : Kinds, round : 0..MaxRound, id : Nat, n : Nat, by : Nat]
  BY <1>1 DEF Kinds
<1>4. ~Own(e)
  BY <1>2 DEF Own, ByDealer
<1> QED BY <1>2, <1>3, <1>4 DEF Happening

LEMMA DealerStep ==
  ASSUME NEW k \in Nat, NEW h \in Nat, CopyRight(k, h), DealerPlays, ~crossed'
  PROVE  PlayerInv'
<1> DEFINE t == Table
           opened == {r \in 1..MaxRound : t.rounds[r] # "none"}
           S == opened \cup {0}
           last == Max(S)
<1>1. t \in Tables
  <2>1. InStep(k, h, ledger, sheets, unanswered, top, up, down, wrote)
    BY DEF CopyRight
  <2> QED BY <2>1, CopyTable DEF Table
<1>2. S \subseteq Nat /\ S # {} /\ MaxRound \in Nat /\ (\A y \in S : y <= MaxRound) /\ S \subseteq 0..MaxRound
  BY PlayerAssumption
<1>3. last \in S /\ \A y \in S : y <= last
  <2> HIDE DEF S
  <2> QED BY <1>2, MaxOfBounded
<1>4. last \in 0..MaxRound /\ (last # 0 => last \in 1..MaxRound)
  <2> HIDE DEF last
  <2> QED BY <1>2, <1>3
<1>5. ASSUME NEW type \in {"opened", "closed", "voided", "result"}, NEW round \in 1..MaxRound, NEW id \in Nat, NEW n \in Nat,
             DealerWrites(What(type, round, id, n, ByDealer))
      PROVE  PlayerInv'
  <2> DEFINE e == What(type, round, id, n, ByDealer)
  <2>1. e = What(type, round, id, n, ByDealer) /\ DealerWrites(e)
    BY <1>5
  <2> HIDE DEF e
  <2>2. e \in Happening /\ ~Own(e)
    BY <2>1, DealerEvent
  <2> QED BY <2>1, <2>2, WritesStep
<1>6. \/ OpenRound(t) = 0 /\ last < MaxRound /\ DealerWrites(What("opened", last + 1, 0, 0, ByDealer))
      \/ OpenRound(t) # 0 /\ DealerWrites(What("closed", OpenRound(t), 0, 0, ByDealer))
      \/ /\ ActiveRounds(t) # {} /\ t.rounds[last] = "closed"
         /\ \E n \in Pays, stays \in {b.id : b \in BetsIn(t, last)} \cup {0} :
              DealerWrites(What("result", last, stays, n, ByDealer))
      \/ \E b \in t.bets : t.rounds[InRound(t, b)] # "settled" /\ DealerWrites(What("voided", b.round, b.id, 0, ByDealer))
  BY DEF DealerPlays
<1>7. CASE OpenRound(t) = 0 /\ last < MaxRound /\ DealerWrites(What("opened", last + 1, 0, 0, ByDealer))
  <2>1. last + 1 \in 1..MaxRound
    BY <1>2, <1>4, <1>7
  <2> QED BY <1>5, <1>7, <2>1
<1>8. CASE OpenRound(t) # 0 /\ DealerWrites(What("closed", OpenRound(t), 0, 0, ByDealer))
  <2> HIDE DEF t
  <2>1. OpenRound(t) \in 1..MaxRound
    BY <1>1, <1>8, OpenIsOpen
  <2> QED BY <1>5, <1>8, <2>1
<1>9. ASSUME ActiveRounds(t) # {}, NEW n \in Pays, NEW stays \in {b.id : b \in BetsIn(t, last)} \cup {0},
             DealerWrites(What("result", last, stays, n, ByDealer))
      PROVE  PlayerInv'
  <2>1. PICK r \in 1..MaxRound : t.rounds[r] \in {"open", "closed"}
    BY <1>9 DEF ActiveRounds
  <2>2. r \in S
    BY <2>1
  <2>3. r <= last
    BY <1>3, <2>2
  <2>4. n \in Nat
    BY PlayerAssumption
  <2> HIDE DEF last, t
  <2>6. stays \in Nat
    <3>1. t.bets \in SUBSET Bet
      BY <1>1, TableParts
    <3>2. \A b \in BetsIn(t, last) : b.id \in Nat
      BY <3>1 DEF BetsIn, Bet
    <3> QED BY <3>2
  <2>5. last \in 1..MaxRound
    BY <1>2, <1>4, <2>3
  <2> QED BY <1>5, <1>9, <2>4, <2>5, <2>6
<1>10. ASSUME NEW b \in t.bets, DealerWrites(What("voided", b.round, b.id, 0, ByDealer)) PROVE PlayerInv'
  <2> HIDE DEF t
  <2>1. b \in Bet
    BY <1>1, WealthType
  <2>2. b.round \in 1..MaxRound /\ b.id \in Nat
    BY <2>1 DEF Bet
  <2> QED BY <1>5, <1>10, <2>2
<1> QED BY <1>6, <1>7, <1>8, <1>9, <1>10

\* The first events of the log and of the copy.
LEMMA FirstRight ==
  ASSUME PlayerInit
  PROVE  PlayerInv
<1> DEFINE e == What("issued", 0, 0, BuyIn, ByDealer)
           x == [seq |-> 1, event |-> e]
           none == <<>>
           nobody == {}
           zero == 0
           one == 1
<1>1. /\ ledger = <<e>> /\ sheets = Numbers(0) /\ top = one /\ unanswered = nobody /\ linked /\ up = none /\ down = none
      /\ wrote = zero
  BY DEF PlayerInit
<1>2. e \in Happening /\ e.by = 0 /\ ~Own(e) /\ e.type = "issued"
  <2>1. e = [type |-> "issued", round |-> 0, id |-> 0, n |-> BuyIn, by |-> 0]
    BY DEF What, ByDealer
  <2>2. BuyIn \in Nat /\ MaxRound \in Nat /\ 0 \in 0..MaxRound
    BY PlayerAssumption
  <2>3. e \in [type : Kinds, round : 0..MaxRound, id : Nat, n : Nat, by : Nat]
    BY <2>1, <2>2 DEF Kinds
  <2>4. e.by = 0 /\ e.type = "issued"
    BY <2>1
  <2>5. ~Own(e)
    BY <2>4 DEF Own, ByDealer
  <2> QED BY <2>3, <2>4, <2>5 DEF Happening
<1>3. Len(ledger) = 1 /\ ledger[1] = e /\ DOMAIN ledger = 1..1 /\ ledger \in Seq(Happening)
  <2> DEFINE Y == Happening
  <2>1. e \in Y
    BY <1>2
  <2> HIDE DEF e, Y
  <2>2. <<e>> \in Seq(Y) /\ Len(<<e>>) = 1 /\ <<e>>[1] = e /\ DOMAIN <<e>> = 1..1
    BY <2>1
  <2> QED BY <1>1, <2>2 DEF Y
<1>4. sheets = <<x>>
  <2> HIDE DEF e
  <2>1. sheets = [i \in 1..1 |-> [seq |-> i, event |-> ledger[i]]]
    BY <1>1, <1>3 DEF Numbers
  <2> QED BY <1>3, <2>1
<1>5. sheets \in Seq(Sheet) /\ Len(sheets) = 1 /\ sheets[1] = x
  <2> DEFINE Y == Sheet
  <2>1. x \in Y
    BY <1>2 DEF Sheet
  <2> HIDE DEF x, Y
  <2>2. <<x>> \in Seq(Y) /\ Len(<<x>>) = 1 /\ <<x>>[1] = x
    BY <2>1
  <2> QED BY <1>4, <2>2 DEF Y
<1> HIDE DEF e
<1>6. Rising(ledger)
  <2>1. \A i \in DOMAIN ledger : ~Own(ledger[i])
    BY <1>2, <1>3
  <2> QED BY <2>1 DEF Rising
<1>7. NoDebt(ledger)
  <2> DEFINE l == ledger
             t == NewTable
             z == Reduce(t, e)
  <2>1. l \in Seq(Happening) /\ Len(l) = 1 /\ l[1] = e
    BY <1>3
  <2> HIDE DEF l
  <2>2. After(l, 0) = t
    BY <2>1, AfterSteps
  <2>3. After(l, 1) = Reduce(After(l, 0), l[1])
    <3>1. 1 \in 1..Len(l) /\ 1 - 1 = 0
      BY <2>1
    <3>2. \A n \in 1..Len(l) : After(l, n) = Reduce(After(l, n - 1), l[n])
      BY <2>1, AfterSteps
    <3> QED BY <3>1, <3>2
  <2>4. t \in Tables /\ t.bank = 0
    BY NewTableIs
  <2> HIDE DEF t, z
  <2>5. z \in Tables /\ z.bank >= t.bank
    BY <1>2, <2>4, ReduceRest DEF z
  <2>6. z.bank \in Int /\ z.bank >= 0
    BY <2>4, <2>5, WealthType
  <2>7. \A n \in 0..Len(l) : n = 0 \/ n = 1
    BY <2>1
  <2>8. After(l, 0).bank >= 0 /\ After(l, 1).bank >= 0
    BY <2>1, <2>2, <2>3, <2>4, <2>6 DEF z
  <2>9. NoDebt(l)
    BY <2>7, <2>8 DEF NoDebt
  <2> QED BY <2>9 DEF l
<1>8. Begins(sheets, ledger, one)
  <2>1. \A i \in 1..1 : i = 1
    OBVIOUS
  <2> QED BY <1>3, <1>5, <2>1 DEF Begins
<1>9. /\ zero \in Nat /\ one \in Nat /\ 1 <= one /\ one <= Len(ledger)
      /\ \A i \in 1..Len(ledger) : ledger[i].by <= zero
      /\ \A p \in one + 1..Len(ledger) : ~Own(ledger[p])
  BY <1>2, <1>3
<1>10. none \in Seq(Calls) /\ Len(none) = 0 /\ none \in Seq(Msgs) /\ DOMAIN none = {}
  OBVIOUS
<1>11. one + 1 = 2 /\ 1 = one + 0
  OBVIOUS
<1>12. Linked(one, one, ledger, sheets, none, none)
  <2>1. \A p \in one + 1..Len(ledger) : FALSE
    BY <1>3
  <2> HIDE DEF none
  <2>2. InTurn(one, ledger, none) /\ Truthful(one, ledger, none) /\ Refused(one, one, ledger, sheets, none)
    BY <1>10, <2>1 DEF InTurn, Truthful, Refused
  <2> QED BY <1>5, <1>10, <2>2 DEF Linked, News
<1> HIDE DEF none, nobody, zero, one
<1>13. InStep(one, one, ledger, sheets, nobody, one, none, none, zero)
  <2>1. nobody = {}
    BY DEF nobody
  <2>2. InStep(one, one, ledger, sheets, {}, one, none, none, zero)
    BY <1>3, <1>6, <1>7, <1>8, <1>9, PrefixStep
  <2> QED BY <2>1, <2>2
<1>14. CopyRight(one, one)
  BY <1>1, <1>12, <1>13 DEF CopyRight
<1> QED BY <1>9, <1>14 DEF PlayerInv

\* The invariant, with the slip.
OnTheRightPage == slip \in Seq(Chips) /\ PlayerInv

LEMMA SlipStep ==
  ASSUME slip \in Seq(Chips), PlayerNext
  PROVE  slip' \in Seq(Chips)
<1> DEFINE Y == Chips
<1>1. slip \in Seq(Y)
  OBVIOUS
<1>2. \A n \in Chips : AddChip(n) => slip' = Append(slip, n)
  BY DEF AddChip
<1>3. \A i \in DOMAIN slip : TakeChip(i) => slip' = RemoveAt(slip, i)
  BY DEF TakeChip
<1>4. Place => slip' = <<>>
  BY DEF Place
<1>5. (\E n \in Chips : PlaceBet(n)) \/ (\E b \in Shown.bets : RemoveBet(b) \/ PressBet(b) \/ ToggleWorking(b)) \/ RenderSettled \/ BannerOver
        \/ ServerTakes \/ StoreTakes \/ Unlink \/ Relink \/ DealerPlays \/ DealerCorrects => slip' = slip
  BY DEF PlaceBet, RemoveBet, PressBet, ToggleWorking, RenderSettled, BannerOver, ServerTakes, StoreTakes, Unlink, Relink, DealerPlays,
         DealerCorrects, DealerWrites, pageSide
<1>6. \/ \E n \in Y : slip' = Append(slip, n)
      \/ \E i \in DOMAIN slip : slip' = RemoveAt(slip, i)
      \/ slip' = <<>> \/ slip' = slip
  BY <1>2, <1>3, <1>4, <1>5 DEF PlayerNext
<1> HIDE DEF Y
<1>7. \A n \in Y : Append(slip, n) \in Seq(Y)
  BY <1>1
<1>8. ASSUME NEW i \in DOMAIN slip PROVE RemoveAt(slip, i) \in Seq(Y)
  <2>1. SubSeq(slip, 1, i - 1) \in Seq(Y) /\ SubSeq(slip, i + 1, Len(slip)) \in Seq(Y)
    BY <1>1
  <2>2. SubSeq(slip, 1, i - 1) \o SubSeq(slip, i + 1, Len(slip)) \in Seq(Y)
    BY <2>1
  <2> QED BY <2>2 DEF RemoveAt
<1>9. <<>> \in Seq(Y)
  OBVIOUS
<1> QED BY <1>1, <1>6, <1>7, <1>8, <1>9 DEF Y

\* What the history says stays said.
FlagsKept == (corrected => corrected') /\ (crossed => crossed') /\ (beyond => beyond')

LEMMA FlagsStay ==
  ASSUME PlayerNext
  PROVE  FlagsKept
<1> USE DEF FlagsKept
<1>1. ASSUME NEW events, Send(events) PROVE crossed => crossed'
  BY <1>1, Zenon DEF Send
<1>2. ASSUME NEW e, DealerWrites(e) PROVE crossed' = crossed /\ beyond' = beyond
  BY <1>2, Zenon DEF DealerWrites
<1>3. ASSUME NEW n \in Chips, AddChip(n) PROVE FlagsKept
  <2>1. corrected' = corrected /\ crossed' = crossed /\ beyond' = beyond
    BY <1>3, Zenon DEF AddChip
  <2> QED BY <2>1, Zenon
<1>4. ASSUME NEW n \in Chips, PlaceBet(n) PROVE FlagsKept
  <2>1. corrected' = corrected /\ beyond' = beyond
    BY <1>4, Zenon DEF PlaceBet
  <2>2. Send(BetEvents(<<n>>))
    BY <1>4, Zenon DEF PlaceBet
  <2> QED BY <1>1, <2>1, <2>2, Zenon
<1>5. ASSUME NEW i \in DOMAIN slip, TakeChip(i) PROVE FlagsKept
  <2>1. corrected' = corrected /\ crossed' = crossed /\ beyond' = beyond
    BY <1>5, Zenon DEF TakeChip
  <2> QED BY <2>1, Zenon
<1>6. ASSUME NEW b \in Shown.bets, RemoveBet(b) PROVE FlagsKept
  <2>1. corrected' = corrected /\ beyond' = beyond
    BY <1>6, Zenon DEF RemoveBet
  <2>2. Send(<<What("removed", b.round, b.id, 0, wrote + 1)>>)
    BY <1>6, Zenon DEF RemoveBet
  <2> QED BY <1>1, <2>1, <2>2, Zenon
<1>14. ASSUME NEW b \in Shown.bets, PressBet(b) PROVE FlagsKept
  <2> DEFINE e == What("updated", b.round, b.id, b.n + LastWinningProfit(Shown, b), wrote + 1)
  <2>1. corrected' = corrected /\ beyond' = (beyond \/ Shown.bank < LastWinningProfit(Shown, b))
    BY <1>14, Zenon DEF PressBet
  <2>2. Send(<<e>>)
    BY <1>14, Zenon DEF PressBet
  <2> QED BY <1>1, <2>1, <2>2, Zenon
<1>15. ASSUME NEW b \in Shown.bets, ToggleWorking(b) PROVE FlagsKept
  <2> DEFINE e == What("toggled", b.round, b.id, IF b.id \in Shown.works THEN 0 ELSE 1, wrote + 1)
  <2>1. corrected' = corrected /\ beyond' = beyond
    BY <1>15, Zenon DEF ToggleWorking
  <2>2. Send(<<e>>)
    BY <1>15, Zenon DEF ToggleWorking
  <2> QED BY <1>1, <2>1, <2>2, Zenon
<1>7. ASSUME Place PROVE FlagsKept
  <2>1. corrected' = corrected /\ beyond' = beyond /\ Send(BetEvents(slip))
    BY <1>7, Zenon DEF Place
  <2> QED BY <1>1, <2>1, Zenon
<1>8. ASSUME RenderSettled \/ BannerOver \/ Relink PROVE FlagsKept
  <2>1. corrected' = corrected /\ crossed' = crossed /\ beyond' = beyond
    BY <1>8, Zenon DEF RenderSettled, BannerOver, Relink
  <2> QED BY <2>1, Zenon
<1>9. ASSUME Unlink PROVE FlagsKept
  <2>1. corrected' = corrected /\ beyond' = beyond /\ crossed' = (crossed \/ unanswered # {})
    BY <1>9, Zenon DEF Unlink
  <2> QED BY <2>1, Zenon
<1>10. ASSUME ServerTakes PROVE FlagsKept
  <2>1. corrected' = corrected /\ beyond' = beyond
    BY <1>10, Zenon DEF ServerTakes
  <2>2. crossed => crossed'
    BY <1>10, Zenon DEF ServerTakes
  <2> QED BY <2>1, <2>2, Zenon
<1>11. ASSUME StoreTakes PROVE FlagsKept
  <2>1. corrected' = corrected /\ beyond' = beyond
    BY <1>11, Zenon DEF StoreTakes
  <2>2. crossed => crossed'
    BY <1>11, Zenon DEF StoreTakes
  <2> QED BY <2>1, <2>2, Zenon
<1>12. ASSUME DealerPlays PROVE FlagsKept
  <2>1. corrected' = corrected /\ \E e : DealerWrites(e)
    BY <1>12, Zenon DEF DealerPlays
  <2> QED BY <1>2, <2>1, Zenon
<1>13. ASSUME DealerCorrects PROVE FlagsKept
  <2>1. corrected' = TRUE /\ \E e : DealerWrites(e)
    BY <1>13, Zenon DEF DealerCorrects
  <2> QED BY <1>2, <2>1, Zenon
<1> QED BY <1>3, <1>4, <1>5, <1>6, <1>7, <1>8, <1>9, <1>10, <1>11, <1>12, <1>13, <1>14, <1>15, Zenon DEF PlayerNext

LEMMA CopyStays ==
  ASSUME NEW k \in Nat, NEW h \in Nat, CopyRight(k, h), UNCHANGED <<ledger, storeSide, wrote>>
  PROVE  PlayerInv'
<1>1. UNCHANGED <<ledger, sheets, unanswered, top, up, down, wrote, linked>>
  BY DEF storeSide
<1>2. /\ InStep(k, h, ledger, sheets, unanswered, top, up, down, wrote)
      /\ linked => Linked(k, h, ledger, sheets, up, down)
      /\ ~linked => Joining(k, h, ledger, sheets, up, down)
  BY DEF CopyRight
<1>3. /\ InStep(k, h, ledger', sheets', unanswered', top', up', down', wrote')
      /\ linked' => Linked(k, h, ledger', sheets', up', down')
      /\ ~linked' => Joining(k, h, ledger', sheets', up', down')
  BY <1>1, <1>2
<1> QED BY <1>3, NextRight

LEMMA PlayerStep ==
  ASSUME OnTheRightPage, [PlayerNext]_playerVars
  PROVE  OnTheRightPage'
<1>1. slip \in Seq(Chips) /\ PlayerInv
  BY DEF OnTheRightPage
<1>2. CASE UNCHANGED playerVars
  <2>1. UNCHANGED <<ledger, storeSide, slip, wrote, corrected, crossed, beyond>>
    BY <1>2 DEF playerVars, pageSide
  <2>2. slip' \in Seq(Chips)
    BY <1>1, <2>1
  <2>3. CASE corrected \/ crossed \/ beyond
    <3>1. corrected' \/ crossed' \/ beyond'
      BY <2>1, <2>3, Zenon
    <3> QED BY <2>2, <3>1, Zenon DEF OnTheRightPage, PlayerInv
  <2>4. ASSUME NEW k \in Nat, NEW h \in Nat, CopyRight(k, h) PROVE PlayerInv'
    BY <2>1, <2>4, CopyStays
  <2> QED BY <1>1, <2>2, <2>3, <2>4, Zenon DEF OnTheRightPage, PlayerInv
<1>3. CASE PlayerNext
  <2>1. slip' \in Seq(Chips)
    BY <1>1, <1>3, SlipStep
  <2>2. FlagsKept
    BY <1>3, FlagsStay
  <2>3. CASE corrected' \/ crossed' \/ beyond'
    BY <2>1, <2>3, Zenon DEF OnTheRightPage, PlayerInv
  <2>4. CASE ~corrected' /\ ~crossed' /\ ~beyond'
    <3> SUFFICES PlayerInv'
      BY <2>1, Zenon DEF OnTheRightPage
    <3>1. ~corrected /\ ~crossed /\ ~beyond
      BY <2>2, <2>4, Zenon DEF FlagsKept
    <3>2. PICK k \in Nat, h \in Nat : CopyRight(k, h)
      BY <1>1, <3>1, Zenon DEF PlayerInv
    <3>3. ASSUME NEW n \in Chips, AddChip(n) PROVE PlayerInv'
      <4>1. UNCHANGED <<ledger, storeSide, wrote>>
        BY <3>3 DEF AddChip
      <4> QED BY <3>2, <4>1, CopyStays
    <3>4. ASSUME NEW n \in Chips, PlaceBet(n) PROVE PlayerInv'
      BY <2>4, <3>2, <3>4, PlaceBetStep
    <3>5. ASSUME NEW i \in DOMAIN slip, TakeChip(i) PROVE PlayerInv'
      <4>1. UNCHANGED <<ledger, storeSide, wrote>>
        BY <3>5 DEF TakeChip
      <4> QED BY <3>2, <4>1, CopyStays
    <3>6. CASE Place
      BY <1>1, <2>4, <3>2, <3>6, PlaceStep
    <3>7. ASSUME NEW b \in Shown.bets, RemoveBet(b) PROVE PlayerInv'
      BY <2>4, <3>2, <3>7, RemoveSent
    <3>15. ASSUME NEW b \in Shown.bets, PressBet(b) PROVE PlayerInv'
      BY <2>4, <3>2, <3>15, PressSent
    <3>16. ASSUME NEW b \in Shown.bets, ToggleWorking(b) PROVE PlayerInv'
      BY <2>4, <3>2, <3>16, ToggleSent
    <3>8. CASE RenderSettled \/ BannerOver
      <4>1. UNCHANGED <<ledger, storeSide, wrote>>
        BY <3>8 DEF RenderSettled, BannerOver
      <4> QED BY <3>2, <4>1, CopyStays
    <3>9. CASE ServerTakes
      BY <2>4, <3>2, <3>9, ServerStep
    <3>10. CASE StoreTakes
      BY <2>4, <3>2, <3>10, StoreStep
    <3>11. CASE Unlink
      BY <2>4, <3>2, <3>11, UnlinkStep
    <3>12. CASE Relink
      BY <2>4, <3>2, <3>12, RelinkStep
    <3>13. CASE DealerPlays
      BY <2>4, <3>2, <3>13, DealerStep
    <3>14. ~DealerCorrects
      BY <2>4, Zenon DEF DealerCorrects
    <3> QED BY <1>3, <3>3, <3>4, <3>5, <3>6, <3>7, <3>8, <3>9, <3>10, <3>11, <3>12, <3>13, <3>14, <3>15, <3>16, Zenon DEF PlayerNext
  <2> QED BY <2>3, <2>4, Zenon
<1> QED BY <1>2, <1>3

LEMMA RightPagePays ==
  ASSUME OnTheRightPage
  PROVE  NoOverdraft
<1>1. ASSUME NEW k \in Nat, NEW h \in Nat, CopyRight(k, h) PROVE Table.bank >= 0
  <2>1. InStep(k, h, ledger, sheets, unanswered, top, up, down, wrote)
    BY <1>1 DEF CopyRight
  <2> QED BY <2>1, CopyTable DEF Table
<1> QED BY <1>1, Zenon DEF OnTheRightPage, PlayerInv, NoOverdraft

\* The player never owes chips, whatever the slip and the bets under way add up to and whatever is
\* refused, removed, changed, lost or settled meanwhile, unless the dealer took chips back, the copy
\* of the page has gone wrong, or a bet was pressed by more than the page showed, which it lets the
\* player do (validate-bet.ts:85-90, player-act.ts:80-92).
THEOREM StakesAreCovered == PlayerSpec => []NoOverdraft
<1>1. PlayerInit => OnTheRightPage
  <2>1. SUFFICES ASSUME PlayerInit PROVE OnTheRightPage
    OBVIOUS
  <2>2. slip = <<>>
    BY <2>1 DEF PlayerInit
  <2>3. <<>> \in Seq(Chips)
    OBVIOUS
  <2>4. PlayerInv
    BY <2>1, FirstRight
  <2> QED BY <2>2, <2>3, <2>4 DEF OnTheRightPage
<1>2. OnTheRightPage /\ [PlayerNext]_playerVars => OnTheRightPage'
  BY PlayerStep
<1>3. OnTheRightPage => NoOverdraft
  BY RightPagePays
<1> QED BY <1>1, <1>2, <1>3, PTL DEF PlayerSpec
================================================================================
