------------------------------ MODULE CardProofs ------------------------------
(***************************************************************************)
(* Proofs about the card games.                                             *)
(*                                                                          *)
(* Baccarat, for any cards that are entered, dealt, corrected and imported, *)
(* and any shoe: every recorded hand is one that the drawing rules deal, or *)
(* a quick entry, so its totals, winner, natural and pairs are those of its *)
(* cards, and its text is read as the same hand.                            *)
(*                                                                          *)
(* Blackjack, for any table, rules, cards and actions, also those that come *)
(* late: turns go in order.  What both games pay, for every recorded hand.  *)
(***************************************************************************)
EXTENDS MCCards, DataLemmas, SequenceTheorems, FiniteSetTheorems, TLAPS

-----------------------------------------------------------------------------
(* Baccarat: a hand *)

Ranks == 1 .. 13

\* Cards by their slots.
SlotCards == UNION {[D -> Ranks] : D \in SUBSET SlotId}

Side == {"P", "B"}

IsNatural(c) == TotalValue(c, {"P1", "P2"}) >= 8 \/ TotalValue(c, {"B1", "B2"}) >= 8
PlayerDraws(c) == ~IsNatural(c) /\ TotalValue(c, {"P1", "P2"}) <= 5
BankerTakes(c) ==
  /\ ~IsNatural(c)
  /\ PlayerDraws(c) => "P3" \in DOMAIN c
  /\ BankerDraws(TotalValue(c, {"B1", "B2"}), IF PlayerDraws(c) THEN CardValue(c["P3"]) ELSE None)

\* The cards c are those that the rules deal.
Allowed(c) ==
  /\ FirstFour \subseteq DOMAIN c
  /\ ("P3" \in DOMAIN c) <=> PlayerDraws(c)
  /\ ("B3" \in DOMAIN c) <=> BankerTakes(c)

PlayerSlots == {"P1", "P2", "P3"}
BankerSlots == {"B1", "B2", "B3"}

\* The hand of the cards c.
WholeHand(c) ==
  [cards |-> c, outcome |-> Winner(TotalValue(c, PlayerSlots), TotalValue(c, BankerSlots)),
   playerTotal |-> TotalValue(c, PlayerSlots), bankerTotal |-> TotalValue(c, BankerSlots),
   natural |-> IsNatural(c),
   pairs |-> {s \in Side : IF s = "P" THEN c["P1"] = c["P2"] ELSE c["B1"] = c["B2"]}]

LEMMA SlotNames ==
  /\ SlotId = {"P1", "B1", "P2", "B2", "P3", "B3"}
  /\ DOMAIN Slots = 1 .. 6
  /\ \A i \in 1 .. 6 : Slots[i] \in SlotId
BY DEF SlotId, Slots, ToSet

LEMMA CardsAre ==
  ASSUME NEW c \in SlotCards
  PROVE  /\ DOMAIN c \subseteq SlotId
         /\ \A s \in DOMAIN c : c[s] \in Ranks /\ CardValue(c[s]) \in 0 .. 9
         /\ c = [s \in DOMAIN c |-> c[s]]
<1>1. PICK D \in SUBSET SlotId : c \in [D -> Ranks]
  BY DEF SlotCards
<1> QED BY <1>1 DEF Ranks, CardValue

LEMMA TotalsAre ==
  ASSUME NEW c \in SlotCards, NEW slots
  PROVE  TotalValue(c, slots) \in 0 .. 9
<1> DEFINE value(s) == IF s \in slots \cap DOMAIN c THEN CardValue(c[s]) ELSE 0
<1>1. \A s : value(s) \in 0 .. 9
  BY CardsAre
<1>2. TotalValue(c, slots) =
        (value("P1") + value("P2") + value("P3") + value("B1") + value("B2") + value("B3")) % 10
  BY DEF TotalValue
<1> HIDE DEF value
<1> QED BY <1>1, <1>2

\* A slot without a card adds nothing.
LEMMA EmptySlots ==
  ASSUME NEW c, NEW S, NEW T, S \cap DOMAIN c = T \cap DOMAIN c
  PROVE  TotalValue(c, S) = TotalValue(c, T)
BY DEF TotalValue

\* What evaluateHand says of a hand that it accepts, and of cards that are those of the rules.
LEMMA CompleteHand ==
  ASSUME NEW c \in SlotCards, NEW f, EvaluateHand(c, f).status = "complete"
  PROVE  Allowed(c) /\ EvaluateHand(c, f).hand = WholeHand(c)
<1> DEFINE has(s) == s \in DOMAIN c
           third == {s \in {"P3", "B3"} : IF s = "P3" THEN PlayerDraws(c) ELSE BankerTakes(c)}
           notAllowed == {s \in {"P3", "B3"} : has(s)} \ third
           pt == TotalValue(c, {"P1", "P2"} \cup (third \cap {"P3"}))
           bt == TotalValue(c, {"B1", "B2"} \cup (third \cap {"B3"}))
           made_ == [cards |-> c, outcome |-> Winner(pt, bt), playerTotal |-> pt, bankerTotal |-> bt,
                    natural |-> IsNatural(c),
                    pairs |-> {s \in Side : IF s = "P" THEN c["P1"] = c["P2"] ELSE c["B1"] = c["B2"]}]
<1>1. /\ FirstFour \ DOMAIN c = {}
      /\ ~("P3" \in third /\ ~has("P3")) /\ ~("B3" \in third /\ ~has("B3"))
      /\ notAllowed = {} /\ EvaluateHand(c, f).hand = made_
  BY DEF EvaluateHand, IsNatural, PlayerDraws, BankerTakes, Side
<1>2. Allowed(c)
  BY <1>1 DEF Allowed
<1>3. pt = TotalValue(c, PlayerSlots) /\ bt = TotalValue(c, BankerSlots)
  BY <1>2, EmptySlots DEF Allowed, PlayerSlots, BankerSlots
<1> QED BY <1>1, <1>2, <1>3 DEF WholeHand

LEMMA AllowedHand ==
  ASSUME NEW c \in SlotCards, Allowed(c)
  PROVE  /\ EvaluateHand(c, FALSE).status = "complete" /\ EvaluateHand(c, FALSE).next = NoSlot
         /\ EvaluateHand(c, FALSE).hand = WholeHand(c)
<1> DEFINE has(s) == s \in DOMAIN c
           third == {s \in {"P3", "B3"} : IF s = "P3" THEN PlayerDraws(c) ELSE BankerTakes(c)}
           notAllowed == {s \in {"P3", "B3"} : has(s)} \ third
<1>1. /\ FirstFour \ DOMAIN c = {} /\ notAllowed = {}
      /\ ~("P3" \in third /\ ~has("P3")) /\ ~("B3" \in third /\ ~has("B3"))
  BY DEF Allowed
<1>2. EvaluateHand(c, FALSE).status = "complete" /\ EvaluateHand(c, FALSE).next = NoSlot
  BY <1>1 DEF EvaluateHand, IsNatural, PlayerDraws, BankerTakes
<1> QED BY <1>2, CompleteHand

\* The hands that are recorded: those of the rules, and outcomes without cards.
FairHand == {WholeHand(c) : c \in {d \in SlotCards : Allowed(d)}}
              \cup {QuickHand(o, ps) : o \in Outcome, ps \in SUBSET Side}

HandFields == {"cards", "outcome", "playerTotal", "bankerTotal", "natural", "pairs"}

LEMMA FairFields ==
  ASSUME NEW h \in FairHand
  PROVE  /\ DOMAIN h = HandFields /\ h.outcome \in Outcome /\ h.pairs \in SUBSET Side
         /\ h = [cards |-> h.cards, outcome |-> h.outcome, playerTotal |-> h.playerTotal,
                 bankerTotal |-> h.bankerTotal, natural |-> h.natural, pairs |-> h.pairs]
<1>1. CASE \E c \in SlotCards : Allowed(c) /\ h = WholeHand(c)
  BY <1>1 DEF WholeHand, HandFields, Winner, Outcome
<1>2. CASE \E o \in Outcome, ps \in SUBSET Side : h = QuickHand(o, ps)
  BY <1>2 DEF QuickHand, HandFields
<1> QED BY <1>1, <1>2 DEF FairHand

\* An id changes nothing of a hand.
LEMMA NumberedHand ==
  ASSUME NEW h \in FairHand, NEW id
  PROVE  LET g == Numbered(id, h) IN
         /\ g.id = id /\ DOMAIN g = HandFields \cup {"id"}
         /\ g.cards = h.cards /\ g.outcome = h.outcome /\ g.pairs = h.pairs
         /\ g.playerTotal = h.playerTotal /\ g.bankerTotal = h.bankerTotal /\ g.natural = h.natural
         /\ Restrict(g, DOMAIN g \ {"id"}) = h
<1> DEFINE g == Numbered(id, h)
<1>1. DOMAIN h = HandFields
  BY FairFields
<1>2. g = [k \in HandFields \cup {"id"} |-> IF k = "id" THEN id ELSE h[k]]
  BY <1>1 DEF Numbered, Spread
<1> HIDE DEF g
<1>3. DOMAIN g = HandFields \cup {"id"} /\ g.id = id /\ \A k \in HandFields : g[k] = h[k]
  BY <1>2 DEF HandFields
<1>4. Restrict(g, DOMAIN g \ {"id"}) = [k \in HandFields |-> h[k]]
  BY <1>3 DEF Restrict, HandFields
<1>5. h = [k \in HandFields |-> h[k]]
  BY <1>1, FairFields DEF HandFields
<1> QED BY <1>3, <1>4, <1>5 DEF g, HandFields

-----------------------------------------------------------------------------
(* Its text *)

LEMMA Appended ==
  ASSUME NEW Y, NEW a \in Y, NEW b \in Y, NEW c \in Y
  PROVE  /\ <<>> \in Seq(Y) /\ <<a>> \in Seq(Y) /\ <<a, b>> \in Seq(Y)
         /\ Append(<<>>, a) = <<a>> /\ Append(<<a>>, b) = <<a, b>> /\ Append(<<a, b>>, c) = <<a, b, c>>
<1>1. <<>> \in Seq(Y) /\ <<a>> \in Seq(Y) /\ <<a, b>> \in Seq(Y) /\ <<a, b, c>> \in Seq(Y)
  OBVIOUS
<1>2. Append(<<>>, a) = <<a>>
  OBVIOUS
<1>3. Append(<<a>>, b) = <<a, b>>
  <2>1. PICK s, t : s = <<a>> /\ t = Append(s, b)
    OBVIOUS
  <2>2. s \in Seq(Y) /\ Len(s) = 1 /\ s[1] = a
    BY <1>1, <2>1
  <2>3. t \in Seq(Y) /\ Len(t) = 2 /\ t[1] = a /\ t[2] = b
    BY <2>1, <2>2
  <2>4. t = <<a, b>>
    BY <1>1, <2>3
  <2> QED BY <2>1, <2>4
<1>4. Append(<<a, b>>, c) = <<a, b, c>>
  <2>1. PICK s, t : s = <<a, b>> /\ t = Append(s, c)
    OBVIOUS
  <2>2. s \in Seq(Y) /\ Len(s) = 2 /\ s[1] = a /\ s[2] = b
    BY <1>1, <2>1
  <2>3. t \in Seq(Y) /\ Len(t) = 3 /\ t[1] = a /\ t[2] = b /\ t[3] = c
    BY <2>1, <2>2
  <2>4. t = <<a, b, c>>
    BY <1>1, <2>3
  <2> QED BY <2>1, <2>4
<1> QED BY <1>1, <1>2, <1>3, <1>4

LEMMA ThreeOf ==
  ASSUME NEW a, NEW b, NEW c, NEW D, a \in D, b \in D
  PROVE  Selection(<<a, b, c>>, D) = IF c \in D THEN <<a, b, c>> ELSE <<a, b>>
<1>1. PICK Y : Y = {a, b, c}
  OBVIOUS
<1>2. a \in Y /\ b \in Y /\ c \in Y
  BY <1>1
<1>3. PICK q, r, s : q = <<a>> /\ r = <<a, b>> /\ s = <<a, b, c>>
  OBVIOUS
<1>4. /\ <<>> \in Seq(Y) /\ q \in Seq(Y) /\ r \in Seq(Y)
      /\ Append(<<>>, a) = q /\ Append(q, b) = r /\ Append(r, c) = s
  BY <1>2, <1>3, Appended
<1>s. /\ Selection(<<>>, D) = <<>>
      /\ \A x \in Seq(Y) : \A e \in Y :
           Selection(Append(x, e), D) = IF e \in D THEN Append(Selection(x, D), e) ELSE Selection(x, D)
  BY SelectionSteps
<1>5. Selection(q, D) = q
  BY <1>2, <1>4, <1>s
<1>6. Selection(r, D) = r
  BY <1>2, <1>4, <1>5, <1>s
<1>7. Selection(s, D) = IF c \in D THEN s ELSE r
  BY <1>2, <1>4, <1>6, <1>s
<1> QED BY <1>3, <1>7

\* The text of a hand of the rules imports to the hand.
LEMMA ImportsItself ==
  ASSUME NEW h \in FairHand
  PROVE  ImportHand(ExportHand(h)) = h
<1>1. ASSUME NEW o \in Outcome, NEW ps \in SUBSET Side, h = QuickHand(o, ps)
      PROVE  ImportHand(ExportHand(h)) = h
  <2>1. PICK t : t = ExportHand(h)
    OBVIOUS
  <2>2. ~t.carded /\ t.outcome = o /\ t.pairs = ps
    BY <1>1, <2>1 DEF ExportHand, QuickHand
  <2>3. ImportHand(t) = QuickHand(o, ps)
    BY <2>2 DEF ImportHand
  <2> QED BY <1>1, <2>1, <2>3
<1>2. ASSUME NEW c \in SlotCards, Allowed(c), h = WholeHand(c)
      PROVE  ImportHand(ExportHand(h)) = h
  <2> DEFINE t == ExportHand(h)
             ps == t.player
             bs == t.banker
  <2>1. /\ FirstFour \subseteq DOMAIN c /\ DOMAIN c \subseteq SlotId /\ h.cards = c
        /\ t.ranks = c /\ t.outcome = h.outcome /\ t.pairs = h.pairs /\ t.carded = (c # NoCards)
        /\ ps = Selection(<<"P1", "P2", "P3">>, DOMAIN c) /\ bs = Selection(<<"B1", "B2", "B3">>, DOMAIN c)
    BY <1>2, CardsAre DEF Allowed, WholeHand, ExportHand
  <2>2. /\ ps = IF "P3" \in DOMAIN c THEN <<"P1", "P2", "P3">> ELSE <<"P1", "P2">>
        /\ bs = IF "B3" \in DOMAIN c THEN <<"B1", "B2", "B3">> ELSE <<"B1", "B2">>
    BY <2>1, ThreeOf DEF FirstFour
  <2>3. t.carded
    <3>1. "P1" \in DOMAIN c /\ DOMAIN NoCards = {}
      BY <2>1 DEF FirstFour, NoCards
    <3>2. c # NoCards
      BY <3>1
    <3> QED BY <2>1, <3>2
  <2> HIDE DEF t
  <2>5. /\ DOMAIN ps = IF "P3" \in DOMAIN c THEN 1 .. 3 ELSE 1 .. 2
        /\ DOMAIN bs = IF "B3" \in DOMAIN c THEN 1 .. 3 ELSE 1 .. 2
        /\ ps[1] = "P1" /\ ps[2] = "P2" /\ bs[1] = "B1" /\ bs[2] = "B2"
        /\ "P3" \in DOMAIN c => ps[3] = "P3"
        /\ "B3" \in DOMAIN c => bs[3] = "B3"
    BY <2>2
  <2> HIDE DEF ps, bs
  <2>6. SlotsFromHands(t) = c
    <3> DEFINE side(s) == IF s \in {"P1", "P2", "P3"} THEN ps ELSE bs
               D == {r \in SlotId : Place(r) \in DOMAIN side(r)}
    <3>1. SlotsFromHands(t) = [s \in D |-> c[side(s)[Place(s)]]]
      BY <2>1 DEF SlotsFromHands, ps, bs
    <3>2. D = DOMAIN c
      BY <2>1, <2>5, SlotNames DEF Place, FirstFour
    <3>3. \A s \in DOMAIN c : side(s)[Place(s)] = s
      BY <2>1, <2>5, SlotNames DEF Place
    <3>4. c = [s \in DOMAIN c |-> c[s]]
      BY CardsAre
    <3> HIDE DEF D, side
    <3> QED BY <3>1, <3>2, <3>3, <3>4
  <2>7. EvaluateHand(c, FALSE).status = "complete" /\ EvaluateHand(c, FALSE).hand = h
    BY <1>2, AllowedHand
  <2>8. ImportHand(t) = h
    BY <2>1, <2>3, <2>6, <2>7 DEF ImportHand
  <2> QED BY <2>8 DEF t
<1> QED BY <1>1, <1>2 DEF FairHand

-----------------------------------------------------------------------------
(* The rules *)

\* What HandsByTheRules says of a hand.
ByTheRules(h) ==
  LET sum(slots) == TotalValue(h.cards, slots)
      p2 == sum({"P1", "P2"})
      b2 == sum({"B1", "B2"})
      noNatural == p2 < 8 /\ b2 < 8
      has(s) == s \in DOMAIN h.cards
      p == sum({"P1", "P2", "P3"})
      b == sum({"B1", "B2", "B3"})
  IN h.cards # NoCards =>
       /\ FirstFour \subseteq DOMAIN h.cards
       /\ has("P3") <=> noNatural /\ p2 <= 5
       /\ has("B3") <=> noNatural /\ IF has("P3") THEN CardValue(h.cards["P3"]) \in Tableau[b2 + 1]
                                                  ELSE b2 <= 5
       /\ h.playerTotal = p /\ h.bankerTotal = b
       /\ h.outcome = "T" <=> p = b
       /\ h.outcome = "P" <=> p > b

\* The tableau of SPEC-BACCARAT is bankerDraws.
LEMMA BankerByTableau ==
  ASSUME NEW b \in 0 .. 7, NEW third \in 0 .. 9
  PROVE  BankerDraws(b, third) <=> third \in Tableau[b + 1]
<1>1. third # None
  BY DEF None
<1>2. Tableau[1] = 0 .. 9 /\ Tableau[2] = 0 .. 9 /\ Tableau[3] = 0 .. 9 /\ Tableau[4] = 0 .. 9 \ {8}
      /\ Tableau[5] = 2 .. 7 /\ Tableau[6] = 4 .. 7 /\ Tableau[7] = {6, 7} /\ Tableau[8] = {}
  BY DEF Tableau
<1>3. CASE b \in 0 .. 2
  BY <1>1, <1>2, <1>3 DEF BankerDraws
<1>4. CASE b = 3
  BY <1>1, <1>2, <1>4 DEF BankerDraws
<1>5. CASE b = 4
  BY <1>1, <1>2, <1>5 DEF BankerDraws
<1>6. CASE b = 5
  BY <1>1, <1>2, <1>6 DEF BankerDraws
<1>7. CASE b = 6
  BY <1>1, <1>2, <1>7 DEF BankerDraws
<1>8. CASE b = 7
  BY <1>1, <1>2, <1>8 DEF BankerDraws
<1> QED BY <1>3, <1>4, <1>5, <1>6, <1>7, <1>8

LEMMA FairByTheRules ==
  ASSUME NEW h \in FairHand
  PROVE  ByTheRules(h)
<1>1. ASSUME NEW o \in Outcome, NEW ps \in SUBSET Side, h = QuickHand(o, ps)
      PROVE  ByTheRules(h)
  BY <1>1 DEF ByTheRules, QuickHand
<1>2. ASSUME NEW c \in SlotCards, Allowed(c), h = WholeHand(c)
      PROVE  ByTheRules(h)
  <2>1. PICK p2, b2, p, b : /\ p2 = TotalValue(c, {"P1", "P2"}) /\ b2 = TotalValue(c, {"B1", "B2"})
                            /\ p = TotalValue(c, PlayerSlots) /\ b = TotalValue(c, BankerSlots)
    OBVIOUS
  <2>2. p2 \in 0 .. 9 /\ b2 \in 0 .. 9 /\ p \in 0 .. 9 /\ b \in 0 .. 9
    BY <2>1, TotalsAre
  <2>3. /\ FirstFour \subseteq DOMAIN c
        /\ ("P3" \in DOMAIN c) <=> PlayerDraws(c)
        /\ ("B3" \in DOMAIN c) <=> BankerTakes(c)
    BY <1>2 DEF Allowed
  <2>4. PlayerDraws(c) <=> (p2 < 8 /\ b2 < 8 /\ p2 <= 5)
    BY <2>1, <2>2 DEF PlayerDraws, IsNatural
  <2>5. BankerTakes(c) <=> (/\ p2 < 8 /\ b2 < 8
                            /\ IF "P3" \in DOMAIN c THEN CardValue(c["P3"]) \in Tableau[b2 + 1] ELSE b2 <= 5)
    <3>1. CASE "P3" \in DOMAIN c
      <4>1. PICK t : t = CardValue(c["P3"])
        OBVIOUS
      <4>2. t \in 0 .. 9
        BY <3>1, <4>1, CardsAre
      <4>3. PlayerDraws(c) /\ b2 \in 0 .. 7 /\ ~IsNatural(c) /\ p2 < 8
        BY <2>1, <2>2, <2>3, <3>1 DEF PlayerDraws, IsNatural
      <4>4. BankerTakes(c) <=> BankerDraws(b2, t)
        BY <2>1, <3>1, <4>1, <4>3 DEF BankerTakes
      <4> QED BY <2>2, <3>1, <4>1, <4>2, <4>3, <4>4, BankerByTableau
    <3>2. CASE "P3" \notin DOMAIN c
      <4>1. BankerTakes(c) <=> ~IsNatural(c) /\ BankerDraws(b2, None)
        BY <2>1, <2>3, <3>2 DEF BankerTakes
      <4> QED BY <2>1, <2>2, <3>2, <4>1 DEF IsNatural, BankerDraws
    <3> QED BY <3>1, <3>2
  <2>6. /\ h.cards = c /\ h.playerTotal = p /\ h.bankerTotal = b /\ h.outcome = Winner(p, b)
    BY <1>2, <2>1 DEF WholeHand
  <2>7. (h.outcome = "T" <=> p = b) /\ (h.outcome = "P" <=> p > b)
    BY <2>2, <2>6 DEF Winner
  <2> QED BY <2>1, <2>3, <2>4, <2>5, <2>6, <2>7 DEF ByTheRules, PlayerSlots, BankerSlots
<1> QED BY <1>1, <1>2 DEF FairHand

-----------------------------------------------------------------------------
(* Cards as they come *)

LEMMA MadeOf ==
  ASSUME NEW D \in SUBSET SlotId, NEW c \in [D -> Ranks]
  PROVE  c \in SlotCards
BY DEF SlotCards

LEMMA SpreadCards ==
  ASSUME NEW c \in SlotCards, NEW d \in SlotCards
  PROVE  Spread(c, d) \in SlotCards
<1> DEFINE D == DOMAIN c \cup DOMAIN d
<1>1. D \in SUBSET SlotId /\ Spread(c, d) \in [D -> Ranks]
  BY CardsAre DEF Spread
<1> HIDE DEF D
<1> QED BY <1>1, MadeOf

LEMMA FewerCards ==
  ASSUME NEW c \in SlotCards, NEW S, S \subseteq DOMAIN c
  PROVE  Restrict(c, S) \in SlotCards
<1>1. S \in SUBSET SlotId /\ Restrict(c, S) \in [S -> Ranks]
  BY CardsAre DEF Restrict
<1> QED BY <1>1, MadeOf

LEMMA NoCardsAre == NoCards \in SlotCards /\ \A c \in SlotCards : DOMAIN c = {} => c = NoCards
<1>1. NoCards \in [{} -> Ranks]
  BY DEF NoCards
<1>2. ASSUME NEW c \in SlotCards, DOMAIN c = {}
      PROVE  c = NoCards
  BY <1>2, CardsAre DEF NoCards
<1> QED BY <1>1, <1>2, MadeOf

\* The slot that comes next, once both sides have two cards.
LEMMA NextOfFour ==
  ASSUME NEW c \in SlotCards, FirstFour \subseteq DOMAIN c
  PROVE  EvaluateHand(c, FALSE).next = IF PlayerDraws(c) /\ "P3" \notin DOMAIN c THEN "P3"
                                       ELSE IF BankerTakes(c) /\ "B3" \notin DOMAIN c THEN "B3" ELSE NoSlot
<1> DEFINE has(s) == s \in DOMAIN c
           third == {s \in {"P3", "B3"} : IF s = "P3" THEN PlayerDraws(c) ELSE BankerTakes(c)}
<1>1. /\ FirstFour \ DOMAIN c = {}
      /\ ("P3" \in third <=> PlayerDraws(c)) /\ ("B3" \in third <=> BankerTakes(c))
      /\ PlayerDraws(c) /\ ~has("P3") => ~BankerTakes(c)
  BY DEF BankerTakes
<1>2. CASE PlayerDraws(c) /\ ~has("P3")
  BY <1>1, <1>2 DEF EvaluateHand, IsNatural, PlayerDraws, BankerTakes
<1>3. CASE ~(PlayerDraws(c) /\ ~has("P3")) /\ BankerTakes(c) /\ ~has("B3")
  BY <1>1, <1>3 DEF EvaluateHand, IsNatural, PlayerDraws, BankerTakes
<1>4. CASE ~(PlayerDraws(c) /\ ~has("P3")) /\ ~(BankerTakes(c) /\ ~has("B3"))
  BY <1>1, <1>4 DEF EvaluateHand, IsNatural, PlayerDraws, BankerTakes
<1> QED BY <1>2, <1>3, <1>4

\* A third card changes nothing of what the first four decide.
LEMMA ThirdCard ==
  ASSUME NEW c \in SlotCards, FirstFour \subseteq DOMAIN c, NEW s \in {"P3", "B3"}, s \notin DOMAIN c,
         NEW one \in [{s} -> Ranks], NEW d, d = Spread(c, one)
  PROVE  /\ d \in SlotCards /\ DOMAIN d = DOMAIN c \cup {s}
         /\ PlayerDraws(d) <=> PlayerDraws(c)
         /\ s = "B3" \/ ~PlayerDraws(c) => (BankerTakes(d) <=> BankerTakes(c))
<1>1. one \in SlotCards
  BY SlotNames, MadeOf
<1>2. d \in SlotCards
  BY <1>1, SpreadCards
<1>3. DOMAIN d = DOMAIN c \cup {s} /\ \A x \in DOMAIN c : d[x] = c[x]
  BY DEF Spread
<1>4. \A x \in FirstFour : x \in DOMAIN d /\ x \in DOMAIN c /\ d[x] = c[x]
  BY <1>3
<1>5. /\ TotalValue(d, {"P1", "P2"}) = TotalValue(c, {"P1", "P2"})
      /\ TotalValue(d, {"B1", "B2"}) = TotalValue(c, {"B1", "B2"})
  BY <1>4 DEF TotalValue, FirstFour
<1>6. (PlayerDraws(d) <=> PlayerDraws(c)) /\ (IsNatural(d) <=> IsNatural(c))
  BY <1>5 DEF PlayerDraws, IsNatural
<1>7. ASSUME s = "B3" \/ ~PlayerDraws(c)
      PROVE  BankerTakes(d) <=> BankerTakes(c)
  <2>1. CASE PlayerDraws(c) /\ s = "B3"
    <3>1. ("P3" \in DOMAIN d <=> "P3" \in DOMAIN c) /\ ("P3" \in DOMAIN c => d["P3"] = c["P3"])
      BY <1>3, <2>1
    <3> QED BY <1>5, <1>6, <2>1, <3>1 DEF BankerTakes
  <2>2. CASE ~PlayerDraws(c)
    BY <1>5, <1>6, <2>2 DEF BankerTakes
  <2> QED BY <1>7, <2>1, <2>2
<1> QED BY <1>2, <1>3, <1>6, <1>7

\* One more card of the virtual shoe, if the rules call for one.
DrawOne(c, k) == LET e == EvaluateHand(c, FALSE) IN IF e.next = NoSlot THEN c ELSE Spread(c, [s \in {e.next} |-> k])

LEMMA DrawsToThird ==
  ASSUME NEW c \in SlotCards, FirstFour \subseteq DOMAIN c, NEW k \in Ranks
  PROVE  /\ PlayerDraws(c) /\ "P3" \notin DOMAIN c =>
              DrawOne(c, k) \in SlotCards /\ DOMAIN DrawOne(c, k) = DOMAIN c \cup {"P3"} /\ PlayerDraws(DrawOne(c, k))
         /\ ~(PlayerDraws(c) /\ "P3" \notin DOMAIN c) /\ BankerTakes(c) /\ "B3" \notin DOMAIN c =>
              /\ DrawOne(c, k) \in SlotCards /\ DOMAIN DrawOne(c, k) = DOMAIN c \cup {"B3"}
              /\ (PlayerDraws(DrawOne(c, k)) <=> PlayerDraws(c)) /\ BankerTakes(DrawOne(c, k))
         /\ ~(PlayerDraws(c) /\ "P3" \notin DOMAIN c) /\ ~(BankerTakes(c) /\ "B3" \notin DOMAIN c) =>
              DrawOne(c, k) = c
<1>1. NoSlot # "P3" /\ NoSlot # "B3"
  BY DEF NoSlot
<1>2. ASSUME PlayerDraws(c), "P3" \notin DOMAIN c
      PROVE  DrawOne(c, k) \in SlotCards /\ DOMAIN DrawOne(c, k) = DOMAIN c \cup {"P3"} /\ PlayerDraws(DrawOne(c, k))
  <2>1. PICK s : s = "P3"
    OBVIOUS
  <2>2. EvaluateHand(c, FALSE).next = s
    BY <1>2, <2>1, NextOfFour
  <2>3. DrawOne(c, k) = Spread(c, [x \in {s} |-> k])
    BY <1>1, <2>1, <2>2 DEF DrawOne
  <2>o. PICK one \in [{s} -> Ranks] : one = [x \in {s} |-> k]
    OBVIOUS
  <2>4. PICK d : d = Spread(c, one)
    OBVIOUS
  <2>5. d \in SlotCards /\ DOMAIN d = DOMAIN c \cup {s} /\ (PlayerDraws(d) <=> PlayerDraws(c))
    BY <1>2, <2>1, <2>4, ThirdCard
  <2> QED BY <1>2, <2>1, <2>o, <2>3, <2>4, <2>5
<1>3. ASSUME ~(PlayerDraws(c) /\ "P3" \notin DOMAIN c), BankerTakes(c), "B3" \notin DOMAIN c
      PROVE  /\ DrawOne(c, k) \in SlotCards /\ DOMAIN DrawOne(c, k) = DOMAIN c \cup {"B3"}
             /\ (PlayerDraws(DrawOne(c, k)) <=> PlayerDraws(c)) /\ BankerTakes(DrawOne(c, k))
  <2>1. PICK s : s = "B3"
    OBVIOUS
  <2>2. EvaluateHand(c, FALSE).next = s
    BY <1>3, <2>1, NextOfFour
  <2>3. DrawOne(c, k) = Spread(c, [x \in {s} |-> k])
    BY <1>1, <2>1, <2>2 DEF DrawOne
  <2>o. PICK one \in [{s} -> Ranks] : one = [x \in {s} |-> k]
    OBVIOUS
  <2>4. PICK d : d = Spread(c, one)
    OBVIOUS
  <2>5. /\ d \in SlotCards /\ DOMAIN d = DOMAIN c \cup {s} /\ (PlayerDraws(d) <=> PlayerDraws(c))
        /\ BankerTakes(d) <=> BankerTakes(c)
    BY <1>3, <2>1, <2>4, ThirdCard
  <2> QED BY <1>3, <2>1, <2>o, <2>3, <2>4, <2>5
<1>4. ASSUME ~(PlayerDraws(c) /\ "P3" \notin DOMAIN c), ~(BankerTakes(c) /\ "B3" \notin DOMAIN c)
      PROVE  DrawOne(c, k) = c
  <2>1. EvaluateHand(c, FALSE).next = NoSlot
    BY <1>4, NextOfFour
  <2> QED BY <2>1 DEF DrawOne
<1> QED BY <1>2, <1>3, <1>4

\* The virtual shoe deals hands of the rules.
LEMMA DealtByRules ==
  ASSUME NEW r \in [1 .. 6 -> Ranks]
  PROVE  DealHand(r) \in SlotCards /\ Allowed(DealHand(r))
<1> DEFINE four == [s \in FirstFour |-> r[CHOOSE i \in 1 .. 4 : Slots[i] = s]]
           five == DrawOne(four, r[5])
           n == Cardinality(DOMAIN five) + 1
<1>1. DealHand(r) = DrawOne(five, r[n])
  BY DEF DealHand, DrawOne
<1>2. four \in SlotCards /\ DOMAIN four = FirstFour
  <2>1. \A s \in FirstFour : \E i \in 1 .. 4 : Slots[i] = s
    BY DEF FirstFour, Slots
  <2>2. \A s \in FirstFour : (CHOOSE i \in 1 .. 4 : Slots[i] = s) \in 1 .. 4
    BY <2>1
  <2>0. \A i \in 1 .. 4 : r[i] \in Ranks
    OBVIOUS
  <2>3. \A s \in FirstFour : r[CHOOSE i \in 1 .. 4 : Slots[i] = s] \in Ranks
    <3> TAKE s \in FirstFour
    <3>1. PICK j : j = CHOOSE i \in 1 .. 4 : Slots[i] = s
      OBVIOUS
    <3>2. j \in 1 .. 4
      BY <2>2, <3>1
    <3> QED BY <2>0, <3>1, <3>2
  <2>4. FirstFour \in SUBSET SlotId
    BY SlotNames DEF FirstFour
  <2>5. four \in [FirstFour -> Ranks]
    BY <2>3
  <2> HIDE DEF four
  <2> QED BY <2>4, <2>5, MadeOf
<1>3. "P3" \notin FirstFour /\ "B3" \notin FirstFour
  BY DEF FirstFour
<1>4. r[5] \in Ranks
  OBVIOUS
<1>n. n \in Nat => n = Cardinality(DOMAIN five) + 1
  OBVIOUS
<1> HIDE DEF four
<1>5. CASE PlayerDraws(four)
  <2>1. five \in SlotCards /\ DOMAIN five = FirstFour \cup {"P3"} /\ PlayerDraws(five)
    BY <1>2, <1>3, <1>4, <1>5, DrawsToThird
  <2>2. Cardinality(DOMAIN five) = 5
    <3>1. IsFiniteSet(FirstFour) /\ Cardinality(FirstFour) = 4
      <4>1. IsFiniteSet({}) /\ Cardinality({}) = 0
        BY FS_EmptySet
      <4>2. IsFiniteSet({"P1"}) /\ Cardinality({"P1"}) = 1
        BY FS_Singleton
      <4>3. IsFiniteSet({"P1", "B1"}) /\ Cardinality({"P1", "B1"}) = 2
        BY <4>2, FS_AddElement
      <4>4. IsFiniteSet({"P1", "B1", "P2"}) /\ Cardinality({"P1", "B1", "P2"}) = 3
        <5>1. {"P1", "B1", "P2"} = {"P1", "B1"} \cup {"P2"} /\ "P2" \notin {"P1", "B1"}
          OBVIOUS
        <5>2. PICK S, x : S = {"P1", "B1"} /\ x = "P2"
          OBVIOUS
        <5>3. IsFiniteSet(S \cup {x}) /\ Cardinality(S \cup {x}) = Cardinality(S) + 1
          BY <4>3, <5>1, <5>2, FS_AddElement
        <5> QED BY <4>3, <5>1, <5>2, <5>3
      <4>5. FirstFour = {"P1", "B1", "P2"} \cup {"B2"} /\ "B2" \notin {"P1", "B1", "P2"}
        BY DEF FirstFour
      <4> QED BY <4>4, <4>5, FS_AddElement
    <3> QED BY <1>3, <2>1, <3>1, FS_AddElement
  <2>3. r[n] \in Ranks
    BY <2>2
  <2>4. PICK k : k = r[n]
    OBVIOUS
  <2> HIDE DEF five, n
  <2>5. CASE BankerTakes(five)
    <3>1. /\ DrawOne(five, k) \in SlotCards /\ DOMAIN DrawOne(five, k) = DOMAIN five \cup {"B3"}
          /\ PlayerDraws(DrawOne(five, k)) /\ BankerTakes(DrawOne(five, k))
      BY <1>3, <2>1, <2>3, <2>4, <2>5, DrawsToThird
    <3> QED BY <1>1, <2>1, <2>4, <3>1 DEF Allowed
  <2>6. CASE ~BankerTakes(five)
    <3>1. DrawOne(five, k) = five
      BY <1>3, <2>1, <2>3, <2>4, <2>6, DrawsToThird
    <3> QED BY <1>1, <1>3, <2>1, <2>4, <2>6, <3>1 DEF Allowed
  <2> QED BY <2>5, <2>6
<1>6. CASE ~PlayerDraws(four)
  <2>1. /\ five \in SlotCards /\ FirstFour \subseteq DOMAIN five /\ "P3" \notin DOMAIN five /\ ~PlayerDraws(five)
        /\ "B3" \in DOMAIN five <=> BankerTakes(five)
    <3>1. PICK k : k = r[5]
      OBVIOUS
    <3>2. k \in Ranks
      BY <1>4, <3>1
    <3>3. CASE BankerTakes(four)
      <4>1. /\ DrawOne(four, k) \in SlotCards /\ DOMAIN DrawOne(four, k) = DOMAIN four \cup {"B3"}
            /\ (PlayerDraws(DrawOne(four, k)) <=> PlayerDraws(four)) /\ BankerTakes(DrawOne(four, k))
        BY <1>2, <1>3, <1>6, <3>2, <3>3, DrawsToThird
      <4> QED BY <1>2, <1>3, <1>6, <3>1, <4>1
    <3>4. CASE ~BankerTakes(four)
      <4>1. DrawOne(four, k) = four
        BY <1>2, <1>3, <1>6, <3>2, <3>4, DrawsToThird
      <4> QED BY <1>2, <1>3, <1>6, <3>1, <3>4, <4>1
    <3> QED BY <3>3, <3>4
  <2> HIDE DEF five, n
  <2>2. DrawOne(five, r[n]) = five
    <3>1. EvaluateHand(five, FALSE).next = NoSlot
      BY <2>1, NextOfFour
    <3> QED BY <3>1 DEF DrawOne
  <2> QED BY <1>1, <2>1, <2>2 DEF Allowed
<1> QED BY <1>5, <1>6

-----------------------------------------------------------------------------
(* The shoe: its invariant *)

\* Hands of the history, of the rules, with the ids that were given out.
Recorded(n) == {Numbered(id, h) : id \in 1 .. n, h \in FairHand}

ScriptStep == [type : {"LIVE_INPUT"}, slots : SlotCards] \cup [type : {"RESULT_RECORDED"}, hand : FairHand]
                \cup [type : {"SERIES_STARTED"}]

BacInv ==
  /\ play \in Plays
  /\ hands \in Seq(Recorded(made))
  /\ live \in SlotCards
  /\ picker \in SlotId \cup {NoSlot}
  /\ made \in 0 .. play.hands /\ editing \in 0 .. made /\ fixes \in 0 .. play.fixes
  /\ shoe \in {NoShoe} \cup 0 .. ShoeCards + MIN_HAND_CARDS
  /\ script \in Seq(ScriptStep)

LEMMA PlayParts ==
  ASSUME NEW p \in Plays
  PROVE  /\ p.hands \in Nat /\ p.fixes \in Nat /\ p.ranks \subseteq Ranks /\ p.quick \subseteq Outcome
         /\ p.texts \subseteq Seq(Outcome)
<1>1. p \in [source : {"dealer", "virtual"}, ranks : SUBSET (1 .. 13), quick : SUBSET Outcome, pairs : BOOLEAN,
             texts : SUBSET Seq(Outcome), hands : Nat, fixes : Nat]
  BY PlaysAssumption
<1> QED BY <1>1 DEF Ranks

LEMMA RecordedParts ==
  ASSUME NEW n \in Nat
  PROVE  /\ \A g \in Recorded(n) : \E id \in 1 .. n, h \in FairHand : g = Numbered(id, h) /\ g.id = id /\ g.cards = h.cards
         /\ \A id \in 1 .. n, h \in FairHand : Numbered(id, h) \in Recorded(n)
         /\ Recorded(n) \subseteq Recorded(n + 1)
<1>1. \A id \in 1 .. n : id \in 1 .. n + 1
  OBVIOUS
<1>2. \A id, h : h \in FairHand => Numbered(id, h).id = id /\ Numbered(id, h).cards = h.cards
  BY NumberedHand
<1>3. ASSUME NEW g \in Recorded(n)
      PROVE  \E id \in 1 .. n, h \in FairHand : g = Numbered(id, h) /\ g.id = id /\ g.cards = h.cards
  <2>1. PICK id \in 1 .. n, h \in FairHand : g = Numbered(id, h)
    BY DEF Recorded
  <2> QED BY <1>2, <2>1
<1> QED BY <1>1, <1>3 DEF Recorded

LEMMA FairCards ==
  /\ \A h \in FairHand : h.cards \in SlotCards
  /\ \A c \in SlotCards : Allowed(c) => WholeHand(c) \in FairHand
  /\ \A o \in Outcome, ps \in SUBSET Side : QuickHand(o, ps) \in FairHand
<1>1. ASSUME NEW h \in FairHand
      PROVE  h.cards \in SlotCards
  <2>1. CASE \E c \in SlotCards : Allowed(c) /\ h = WholeHand(c)
    BY <2>1 DEF WholeHand
  <2>2. CASE \E o \in Outcome, ps \in SUBSET Side : h = QuickHand(o, ps)
    BY <2>2, NoCardsAre DEF QuickHand
  <2> QED BY <2>1, <2>2 DEF FairHand
<1> QED BY <1>1 DEF FairHand

LEMMA MinOfSome ==
  ASSUME NEW S, S \subseteq Nat, S # {}
  PROVE  Min(S) \in S
<1>1. \E x \in S : \A y \in S : x <= y
  BY LeastNatural
<1> QED BY <1>1 DEF Min

\* The slot that comes next is a slot, or none.
LEMMA NextIsSlot ==
  ASSUME NEW c \in SlotCards, NEW f
  PROVE  EvaluateHand(c, f).next \in SlotId \cup {NoSlot}
<1> DEFINE missing == FirstFour \ DOMAIN c
           D == {i \in DOMAIN Slots : Slots[i] \in missing}
           first == Slots[Min(D)]
           next == EvaluateHand(c, f).next
<1>1. CASE missing # {}
  <2>1. D \subseteq 1 .. 6 /\ D # {}
    <3>1. \A x \in FirstFour : \E i \in 1 .. 6 : Slots[i] = x
      BY DEF FirstFour, Slots
    <3> QED BY <1>1, <3>1, SlotNames
  <2>2. Min(D) \in D
    BY <2>1, MinOfSome
  <2>3. first \in SlotId
    BY <2>1, <2>2, SlotNames
  <2>4. next = first
    BY <1>1 DEF EvaluateHand
  <2> QED BY <2>3, <2>4
<1>2. CASE missing = {}
  <2>1. next \in {"P3", "B3", NoSlot}
    BY <1>2 DEF EvaluateHand
  <2> QED BY <2>1, SlotNames
<1> QED BY <1>1, <1>2

\* The hand that is confirmed.
LEMMA ConfirmedHand ==
  ASSUME BacInv, Confirm
  PROVE  HandState.hand \in FairHand
<1>1. live \in SlotCards
  BY DEF BacInv
<1>2. Allowed(live) /\ EvaluateHand(live, ShoeFull).hand = WholeHand(live)
  BY <1>1, CompleteHand DEF Confirm, HandState
<1> QED BY <1>1, <1>2, FairCards DEF HandState

LEMMA RecordKeeps ==
  ASSUME BacInv, NEW h \in FairHand, Record(h)
  PROVE  /\ hands' \in Seq(Recorded(made')) /\ live' \in SlotCards /\ made' \in 0 .. play.hands
         /\ editing \in 0 .. made'
<1>1. play.hands \in Nat /\ made \in Nat /\ made < play.hands /\ made' = made + 1
  BY PlayParts DEF BacInv, Record
<1>2. Recorded(made) \subseteq Recorded(made') /\ Numbered(made + 1, h) \in Recorded(made')
  BY <1>1, RecordedParts
<1>3. hands \in Seq(Recorded(made'))
  BY <1>2 DEF BacInv
<1>4. hands' \in Seq(Recorded(made'))
  <2>1. PICK g : g = Numbered(made + 1, h)
    OBVIOUS
  <2> QED BY <1>2, <1>3, <2>1 DEF Record
<1> QED BY <1>1, <1>4, NoCardsAre DEF BacInv, Record

LEMMA EditKeeps ==
  ASSUME BacInv, NEW h \in FairHand, Edit(h), editing # 0
  PROVE  hands' \in Seq(Recorded(made')) /\ live' \in SlotCards /\ made' = made /\ editing' \in 0 .. made'
<1>1. made \in Nat /\ editing \in 1 .. made /\ hands \in Seq(Recorded(made))
  BY PlayParts DEF BacInv
<1>2. PICK g : g = Numbered(editing, h)
  OBVIOUS
<1>3. g \in Recorded(made)
  BY <1>1, <1>2, RecordedParts
<1>4. hands' = [i \in DOMAIN hands |-> IF hands[i].id = editing THEN g ELSE hands[i]]
  BY <1>2 DEF Edit
<1>5. hands' \in Seq(Recorded(made))
  BY <1>1, <1>3, <1>4
<1> QED BY <1>1, <1>5 DEF BacInv, Edit

-----------------------------------------------------------------------------
(* Its steps *)

LEMMA BaccaratStarts == BaccaratInit => BacInv
<1> SUFFICES ASSUME BaccaratInit PROVE BacInv
  OBVIOUS
<1>1. play \in Plays /\ play.hands \in Nat /\ play.fixes \in Nat
  BY PlayParts DEF BaccaratInit
<1> QED BY <1>1, NoCardsAre DEF BaccaratInit, BacInv

LEMMA PickerKeeps ==
  ASSUME BacInv, (\E s \in SlotId : OpenPicker(s)) \/ ClosePicker
  PROVE  BacInv'
BY DEF BacInv, OpenPicker, ClosePicker

LEMMA CommitCardKeeps ==
  ASSUME BacInv, NEW r \in 1 .. 13, CommitCard(r)
  PROVE  BacInv'
<1> DEFINE one == [s \in {picker} |-> r]
           next == Spread(live, one)
<1>1. live \in SlotCards /\ picker \in SlotId
  BY DEF BacInv, CommitCard
<1>2. one \in SlotCards
  <2>1. one \in [{picker} -> Ranks]
    BY DEF Ranks
  <2> QED BY <1>1, <2>1, MadeOf
<1>3. next \in SlotCards
  BY <1>1, <1>2, SpreadCards
<1>4. live' = LiveInput(live, next) /\ picker' = IF AutoAdvance THEN EvaluateHand(next, FALSE).next ELSE NoSlot
  BY DEF CommitCard
<1> HIDE DEF next
<1>5. live' \in SlotCards
  BY <1>1, <1>3, <1>4, SpreadCards DEF LiveInput
<1>6. picker' \in SlotId \cup {NoSlot}
  BY <1>3, <1>4, NextIsSlot
<1> QED BY <1>5, <1>6 DEF BacInv, CommitCard

LEMMA RemoveCardKeeps ==
  ASSUME BacInv, RemoveCard \/ UndoCard
  PROVE  BacInv'
<1>1. live \in SlotCards
  BY DEF BacInv
<1>2. CASE RemoveCard
  <2>1. PICK S : S = DOMAIN live \ {picker}
    OBVIOUS
  <2>2. Restrict(live, S) \in SlotCards /\ live' = Spread(live, Restrict(live, S))
    BY <1>1, <1>2, <2>1, FewerCards DEF RemoveCard, LiveInput
  <2>3. live' \in SlotCards
    BY <1>1, <2>2, SpreadCards
  <2> QED BY <1>2, <2>3 DEF BacInv, RemoveCard
<1>3. CASE UndoCard
  <2> DEFINE D == {i \in DOMAIN Slots : Slots[i] \in DOMAIN live}
             last == Slots[Max(D)]
  <2>1. D \subseteq 1 .. 6 /\ D # {}
    <3>1. DOMAIN live # {} /\ DOMAIN live \subseteq SlotId
      BY <1>1, <1>3, NoCardsAre, CardsAre DEF UndoCard
    <3>2. \A x \in SlotId : \E i \in 1 .. 6 : Slots[i] = x
      BY SlotNames DEF Slots
    <3> QED BY <3>1, <3>2, SlotNames
  <2>2. Max(D) \in 1 .. 6
    BY <2>1, MaxOfPart
  <2>3. last \in SlotId
    BY <2>2, SlotNames
  <2>4. picker' = last /\ live' = LiveInput(live, Restrict(live, DOMAIN live \ {last}))
    BY <1>3 DEF UndoCard
  <2> HIDE DEF last
  <2>5. PICK S : S = DOMAIN live \ {last}
    OBVIOUS
  <2>6. Restrict(live, S) \in SlotCards /\ live' = Spread(live, Restrict(live, S))
    BY <1>1, <2>4, <2>5, FewerCards DEF LiveInput
  <2>7. live' \in SlotCards
    BY <1>1, <2>6, SpreadCards
  <2> QED BY <1>3, <2>3, <2>4, <2>7 DEF BacInv, UndoCard
<1> QED BY <1>2, <1>3

LEMMA ConfirmKeeps ==
  ASSUME BacInv, ConfirmHand
  PROVE  BacInv'
<1>1. PICK h : h = HandState.hand
  OBVIOUS
<1>2. h \in FairHand
  BY <1>1, ConfirmedHand DEF ConfirmHand
<1>3. CASE editing = 0 /\ Record(h)
  <2>1. picker' \in SlotId \cup {NoSlot} /\ editing' = editing /\ UNCHANGED <<play, fixes, shoe, script>>
    BY <1>1, <1>3, SlotNames DEF ConfirmHand, BacInv, Edit
  <2> QED BY <1>2, <1>3, <2>1, RecordKeeps DEF BacInv
<1>4. CASE editing # 0 /\ Edit(h) /\ UNCHANGED picker
  <2>1. UNCHANGED <<play, fixes, shoe, script>>
    BY DEF ConfirmHand
  <2> QED BY <1>2, <1>4, <2>1, EditKeeps DEF BacInv
<1> QED BY <1>1, <1>3, <1>4 DEF ConfirmHand

LEMMA QuickEntryKeeps ==
  ASSUME BacInv, NEW o \in Outcome, NEW pairs \in SUBSET {"P", "B"}, QuickEntry(o, pairs)
  PROVE  BacInv'
<1>1. PICK h : h = QuickHand(o, pairs)
  OBVIOUS
<1>2. h \in FairHand
  BY <1>1, FairCards DEF Side
<1>3. picker' \in SlotId \cup {NoSlot} /\ UNCHANGED <<play, fixes, shoe, script>>
  BY DEF QuickEntry, BacInv
<1>4. CASE editing = 0 /\ Record(h) /\ UNCHANGED editing
  BY <1>2, <1>3, <1>4, RecordKeeps DEF BacInv
<1>5. CASE editing # 0 /\ Edit(h)
  BY <1>2, <1>3, <1>5, EditKeeps DEF BacInv
<1> QED BY <1>1, <1>4, <1>5 DEF QuickEntry

LEMMA ImportSeriesKeeps ==
  ASSUME BacInv, NEW os \in play.texts, ImportSeries(os)
  PROVE  BacInv'
<1> DEFINE new == [i \in DOMAIN os |-> Numbered(made + i, ImportHand(ExportHand(QuickHand(os[i], {}))))]
<1>1. /\ play \in Plays /\ play.hands \in Nat /\ made \in Nat /\ os \in Seq(Outcome) /\ Len(os) \in Nat
      /\ made' = made + Len(os) /\ made' \in 0 .. play.hands /\ hands' = hands \o new
  BY PlayParts DEF BacInv, ImportSeries
<1>2. \A i \in DOMAIN os : new[i] \in Recorded(made')
  <2> TAKE i \in DOMAIN os
  <2>1. made + i \in 1 .. made' /\ os[i] \in Outcome
    BY <1>1
  <2>2. PICK h : h = QuickHand(os[i], {})
    OBVIOUS
  <2>3. h \in FairHand
    BY <2>1, <2>2, FairCards
  <2>4. ImportHand(ExportHand(h)) = h
    BY <2>3, ImportsItself
  <2>5. new[i] = Numbered(made + i, h)
    BY <2>2, <2>4
  <2>6. made' \in Nat
    BY <1>1
  <2> QED BY <2>1, <2>3, <2>5, <2>6, RecordedParts
<1>3. new \in Seq(Recorded(made'))
  <2>1. DOMAIN new = 1 .. Len(os)
    BY <1>1
  <2> HIDE DEF new
  <2>2. new = [i \in 1 .. Len(os) |-> new[i]]
    BY <1>1, <2>1 DEF new
  <2>3. PICK R, n : R = Recorded(made') /\ n = Len(os) /\ n \in Nat
    BY <1>1
  <2>4. \A i \in 1 .. n : new[i] \in R
    BY <1>2, <2>1, <2>3
  <2>5. PICK f : f = [i \in 1 .. n |-> new[i]]
    OBVIOUS
  <2>6. f \in [1 .. n -> R] /\ n \in Nat
    BY <2>3, <2>4, <2>5
  <2>7. f \in Seq(R)
    BY <2>6
  <2> QED BY <2>2, <2>3, <2>5, <2>7
<1>4. hands \in Seq(Recorded(made'))
  <2>1. Recorded(made) \subseteq Recorded(made')
    BY <1>1 DEF Recorded
  <2> QED BY <2>1 DEF BacInv
<1> HIDE DEF new
<1>5. hands' \in Seq(Recorded(made'))
  BY <1>1, <1>3, <1>4
<1>6. live' \in SlotCards /\ editing' \in 0 .. made'
  BY <1>1, NoCardsAre DEF ImportSeries, BacInv
<1> QED BY <1>1, <1>5, <1>6 DEF ImportSeries, BacInv

LEMMA TakeBackKeeps ==
  ASSUME BacInv, NEW ids, TakeBack(ids)
  PROVE  BacInv'
<1>1. PICK T : T = {h \in ToSet(hands) : h.id \notin ids}
  OBVIOUS
<1>2. PICK R : R = Recorded(made)
  OBVIOUS
<1>3. \A s \in Seq(R) : Selection(s, T) \in Seq(R)
  BY SelectionSteps
<1>4. hands' \in Seq(R)
  BY <1>1, <1>2, <1>3 DEF BacInv, TakeBack
<1>5. play.fixes \in Nat
  BY PlayParts DEF BacInv
<1> QED BY <1>2, <1>4, <1>5 DEF BacInv, TakeBack

LEMMA StartEditKeeps ==
  ASSUME BacInv, NEW i \in DOMAIN hands, StartEdit(i)
  PROVE  BacInv'
<1>1. made \in Nat /\ play.fixes \in Nat /\ hands[i] \in Recorded(made)
  BY PlayParts DEF BacInv
<1>2. PICK id \in 1 .. made, h \in FairHand : hands[i] = Numbered(id, h) /\ hands[i].id = id /\ hands[i].cards = h.cards
  BY <1>1, RecordedParts
<1>3. live' \in SlotCards
  BY <1>2, FairCards, SpreadCards DEF StartEdit, LiveInput, BacInv
<1>4. editing' \in 0 .. made
  BY <1>1, <1>2 DEF StartEdit
<1> QED BY <1>1, <1>3, <1>4 DEF BacInv, StartEdit

LEMMA ClearKeeps ==
  ASSUME BacInv, CancelEdit \/ NewShoe
  PROVE  BacInv'
<1>1. made \in Nat
  BY PlayParts DEF BacInv
<1>2. CASE CancelEdit
  <2>1. live' \in SlotCards
    BY <1>2, NoCardsAre, SpreadCards DEF CancelEdit, LiveInput, BacInv
  <2> QED BY <1>1, <1>2, <2>1 DEF BacInv, CancelEdit
<1>3. CASE NewShoe
  BY <1>1, <1>3, NoCardsAre DEF BacInv, NewShoe
<1> QED BY <1>2, <1>3

LEMMA SelectionShort ==
  ASSUME NEW Y, NEW T
  PROVE  \A s \in Seq(Y) : Len(Selection(s, T)) <= Len(s)
<1> DEFINE Q == {s \in Seq(Y) : Len(Selection(s, T)) <= Len(s)}
<1>1. /\ Selection(<<>>, T) = <<>>
      /\ \A s \in Seq(Y) : /\ Selection(s, T) \in Seq(Y)
                           /\ \A e \in Y : Selection(Append(s, e), T) =
                                IF e \in T THEN Append(Selection(s, T), e) ELSE Selection(s, T)
  BY SelectionSteps
<1>2. <<>> \in Q
  BY <1>1
<1>3. ASSUME NEW s \in Seq(Y), NEW e \in Y, s \in Q PROVE Append(s, e) \in Q
  <2>1. PICK q : q = Selection(s, T)
    OBVIOUS
  <2>2. q \in Seq(Y) /\ Len(q) <= Len(s)
    BY <1>1, <1>3, <2>1
  <2>3. Append(s, e) \in Seq(Y) /\ Len(Append(s, e)) = Len(s) + 1 /\ Len(Append(q, e)) = Len(q) + 1
    BY <2>2
  <2>4. Selection(Append(s, e), T) = IF e \in T THEN Append(q, e) ELSE q
    BY <1>1, <2>1
  <2>5. Len(s) \in Nat /\ Len(q) \in Nat
    BY <2>2
  <2> QED BY <2>2, <2>3, <2>4, <2>5
<1> HIDE DEF Q
<1>4. Seq(Y) \subseteq Q
  BY <1>2, <1>3, SequencesBySteps
<1> QED BY <1>4 DEF Q

\* The slots that are filled, in the order of the deal.
LEMMA OrderOf ==
  ASSUME NEW c \in SlotCards
  PROVE  LET order == Selection(Slots, DOMAIN c) IN
         order \in Seq(DOMAIN c) /\ Len(order) <= 6
<1> DEFINE order == Selection(Slots, DOMAIN c)
<1>1. PICK T : T = DOMAIN c
  OBVIOUS
<1>2. Slots \in Seq(SlotId) /\ Len(Slots) = 6
  BY SlotNames DEF Slots
<1>3. \A s \in Seq(SlotId) : Selection(s, T) \in Seq(T)
  BY SelectionOf
<1>4. Len(order) <= 6
  <2>1. \A s \in Seq(SlotId) : Len(Selection(s, T)) <= Len(s)
    BY SelectionShort
  <2> QED BY <1>1, <1>2, <2>1
<1> QED BY <1>1, <1>2, <1>3, <1>4

LEMMA VirtualStepKeeps ==
  ASSUME BacInv, VirtualStep
  PROVE  BacInv'
<1>1. PICK first \in play.ranks, dealt \in {DealHand(r) : r \in [1 .. 6 -> play.ranks]} :
        LET from == IF shoe = NoShoe THEN Burn(first) ELSE shoe
            order == Selection(Slots, DOMAIN dealt)
            upTo == from + Len(order)
            shown(i) == [type |-> "LIVE_INPUT", slots |-> Restrict(dealt, {order[j] : j \in 1 .. i})]
            result == [type |-> "RESULT_RECORDED", hand |-> EvaluateHand(dealt, FALSE).hand]
        IN IF NeedsRollover(from)
           THEN shoe' = NoShoe /\ script' = Rollover
           ELSE /\ script' = [i \in DOMAIN order |-> shown(i)] \o <<result>>
                               \o (IF NeedsRollover(upTo) THEN Rollover ELSE <<>>)
                /\ shoe' = IF NeedsRollover(upTo) THEN NoShoe ELSE upTo
  BY DEF VirtualStep
<1> DEFINE from == IF shoe = NoShoe THEN Burn(first) ELSE shoe
           order == Selection(Slots, DOMAIN dealt)
           upTo == from + Len(order)
           shown(i) == [type |-> "LIVE_INPUT", slots |-> Restrict(dealt, {order[j] : j \in 1 .. i})]
           result == [type |-> "RESULT_RECORDED", hand |-> EvaluateHand(dealt, FALSE).hand]
           cards == [i \in DOMAIN order |-> shown(i)]
           rest == IF NeedsRollover(upTo) THEN Rollover ELSE <<>>
<1>2. dealt \in SlotCards /\ Allowed(dealt)
  <2>1. PICK r \in [1 .. 6 -> play.ranks] : dealt = DealHand(r)
    OBVIOUS
  <2>2. r \in [1 .. 6 -> Ranks]
    BY PlayParts DEF BacInv
  <2> QED BY <2>1, <2>2, DealtByRules
<1>3. from \in Nat
  <2>1. first \in Ranks
    BY PlayParts DEF BacInv
  <2>2. Burn(first) \in Nat
    BY <2>1 DEF Burn, CardValue, Ranks
  <2> QED BY <2>2, ShoeAssumption DEF BacInv, MIN_HAND_CARDS, CUT_RESERVE, NoShoe
<1>4. order \in Seq(DOMAIN dealt) /\ Len(order) \in 0 .. 6
  <2>1. order \in Seq(DOMAIN dealt) /\ Len(order) <= 6
    BY <1>2, OrderOf
  <2>2. PICK q, D : q = order /\ D = DOMAIN dealt
    OBVIOUS
  <2>3. q \in Seq(D) /\ Len(q) <= 6
    BY <2>1, <2>2
  <2>4. Len(q) \in 0 .. 6
    <3>1. PICK n : n = Len(q)
      OBVIOUS
    <3>2. n \in Nat /\ n <= 6
      BY <2>3, <3>1
    <3>3. n \in 0 .. 6
      BY <3>2
    <3> QED BY <3>1, <3>3
  <2> QED BY <2>1, <2>2, <2>4
<1>5. Rollover \in Seq(ScriptStep)
  BY DEF Rollover, ScriptStep
<1>6. /\ NeedsRollover(from) => shoe' = NoShoe /\ script' = Rollover
      /\ ~NeedsRollover(from) => /\ script' = cards \o <<result>> \o rest
                                 /\ shoe' = IF NeedsRollover(upTo) THEN NoShoe ELSE upTo
  BY <1>1
<1>7. result \in ScriptStep
  <2>1. EvaluateHand(dealt, FALSE).hand \in FairHand
    BY <1>2, AllowedHand, FairCards
  <2> QED BY <2>1 DEF ScriptStep
<1>8. cards \in Seq(ScriptStep)
  <2>1. ASSUME NEW i \in DOMAIN order
        PROVE  shown(i) \in ScriptStep
    <3>1. PICK S : S = {order[j] : j \in 1 .. i}
      OBVIOUS
    <3>2. S \subseteq DOMAIN dealt
      BY <1>4, <3>1
    <3>3. Restrict(dealt, S) \in SlotCards
      BY <1>2, <3>2, FewerCards
    <3> QED BY <3>1, <3>3 DEF ScriptStep
  <2>2. DOMAIN order = 1 .. Len(order) /\ Len(order) \in Nat
    BY <1>4
  <2> HIDE DEF order, shown
  <2> QED BY <2>1, <2>2
<1> HIDE DEF from, order, shown, result, cards
<1>9. rest \in Seq(ScriptStep)
  BY <1>5
<1> HIDE DEF rest
<1>10. script' \in Seq(ScriptStep)
  <2>1. PICK x, y, z : x = cards /\ y = result /\ z = rest
    OBVIOUS
  <2>2. x \o <<y>> \in Seq(ScriptStep)
    BY <1>7, <1>8, <2>1
  <2>3. x \o <<y>> \o z \in Seq(ScriptStep)
    BY <1>9, <2>1, <2>2
  <2> QED BY <1>5, <1>6, <2>1, <2>3
<1>11. shoe' \in {NoShoe} \cup 0 .. ShoeCards + MIN_HAND_CARDS
  BY <1>3, <1>4, <1>6, ShoeAssumption DEF NeedsRollover, CUT_RESERVE, MIN_HAND_CARDS
<1> QED BY <1>10, <1>11 DEF VirtualStep, BacInv

LEMMA RevealKeeps ==
  ASSUME BacInv, Reveal
  PROVE  BacInv'
<1>1. PICK e : e = Head(script)
  OBVIOUS
<1>2. e \in ScriptStep /\ script' \in Seq(ScriptStep) /\ UNCHANGED <<play, picker, editing, fixes, shoe>>
  BY <1>1 DEF BacInv, Reveal
<1>3. made \in Nat
  BY PlayParts DEF BacInv
<1>4. CASE e.type = "LIVE_INPUT" /\ live' = LiveInput(live, e.slots) /\ UNCHANGED <<hands, made>>
  <2>1. e.slots \in SlotCards
    BY <1>2, <1>4 DEF ScriptStep
  <2>2. live' \in SlotCards
    BY <1>4, <2>1, SpreadCards DEF LiveInput, BacInv
  <2> QED BY <1>2, <1>4, <2>2 DEF BacInv
<1>5. CASE e.type = "RESULT_RECORDED" /\ Record(e.hand)
  <2>1. PICK h : h = e.hand
    OBVIOUS
  <2>2. h \in FairHand
    BY <1>2, <1>5, <2>1 DEF ScriptStep
  <2> QED BY <1>2, <1>5, <2>1, <2>2, RecordKeeps DEF BacInv
<1>6. CASE e.type = "SERIES_STARTED" /\ hands' = <<>> /\ live' = NoCards /\ UNCHANGED made
  BY <1>2, <1>3, <1>6, NoCardsAre DEF BacInv
<1> QED BY <1>1, <1>4, <1>5, <1>6 DEF Reveal

LEMMA BaccaratKeeps ==
  ASSUME BacInv, BaccaratNext
  PROVE  BacInv'
<1>1. CASE (\E s \in SlotId : OpenPicker(s)) \/ ClosePicker
  BY <1>1, PickerKeeps
<1>2. CASE RemoveCard \/ UndoCard
  BY <1>2, RemoveCardKeeps
<1>3. CASE \E r \in 1 .. 13 : CommitCard(r)
  BY <1>3, CommitCardKeeps
<1>4. CASE ConfirmHand
  BY <1>4, ConfirmKeeps
<1>5. CASE \E o \in Outcome, pairs \in SUBSET {"P", "B"} : QuickEntry(o, pairs)
  BY <1>5, QuickEntryKeeps
<1>6. CASE \E os \in play.texts : ImportSeries(os)
  BY <1>6, ImportSeriesKeeps
<1>7. CASE UndoHand \/ \E i \in DOMAIN hands : DeleteHand(i)
  <2>1. PICK ids : TakeBack(ids)
    BY <1>7 DEF UndoHand, DeleteHand
  <2> QED BY <2>1, TakeBackKeeps
<1>8. CASE \E i \in DOMAIN hands : StartEdit(i)
  BY <1>8, StartEditKeeps
<1>9. CASE CancelEdit \/ NewShoe
  BY <1>9, ClearKeeps
<1>10. CASE VirtualStep
  BY <1>10, VirtualStepKeeps
<1>11. CASE Reveal
  BY <1>11, RevealKeeps
<1> QED BY <1>1, <1>2, <1>3, <1>4, <1>5, <1>6, <1>7, <1>8, <1>9, <1>10, <1>11 DEF BaccaratNext

LEMMA BaccaratStays ==
  ASSUME BacInv, [BaccaratNext]_bacVars
  PROVE  BacInv'
<1>1. CASE UNCHANGED bacVars
  BY <1>1 DEF BacInv, bacVars
<1> QED BY <1>1, BaccaratKeeps

LEMMA BaccaratHolds == BaccaratSpec => []BacInv
<1>1. BaccaratInit => BacInv
  BY BaccaratStarts
<1>2. BacInv /\ [BaccaratNext]_bacVars => BacInv'
  BY BaccaratStays
<1> QED BY <1>1, <1>2, PTL DEF BaccaratSpec

-----------------------------------------------------------------------------
(* What follows from it *)

LEMMA HandOf ==
  ASSUME BacInv, NEW i \in DOMAIN hands
  PROVE  \E id \in 1 .. made, h \in FairHand : hands[i] = Numbered(id, h)
<1>1. hands[i] \in Recorded(made)
  BY DEF BacInv
<1> QED BY <1>1 DEF Recorded

LEMMA TypedByInv == BacInv => BaccaratTypeOK
<1> SUFFICES ASSUME BacInv PROVE BaccaratTypeOK
  OBVIOUS
<1>1. ASSUME NEW i \in DOMAIN hands
      PROVE  hands[i].id \in 1 .. made /\ hands[i].outcome \in Outcome
  <2>1. PICK id \in 1 .. made, h \in FairHand : hands[i] = Numbered(id, h)
    BY HandOf
  <2>3. \A x, y : y \in FairHand => Numbered(x, y).id = x /\ Numbered(x, y).outcome = y.outcome
    BY NumberedHand
  <2>2. hands[i].id = id /\ hands[i].outcome = h.outcome
    BY <2>1, <2>3
  <2> QED BY <2>2, FairFields
<1>2. DOMAIN live \subseteq SlotId
  BY CardsAre DEF BacInv
<1> QED BY <1>1, <1>2 DEF BacInv, BaccaratTypeOK

LEMMA RulesByInv == BacInv => HandsByTheRules
<1> SUFFICES ASSUME BacInv, NEW i \in DOMAIN hands
             PROVE  ByTheRules(hands[i]) /\ ImportHand(ExportHand(hands[i])) = Restrict(hands[i], DOMAIN hands[i] \ {"id"})
  BY DEF HandsByTheRules, ByTheRules
<1>1. PICK id \in 1 .. made, h \in FairHand : hands[i] = Numbered(id, h)
  BY HandOf
<1>2. PICK g : g = hands[i]
  OBVIOUS
<1>3. /\ g.cards = h.cards /\ g.outcome = h.outcome /\ g.pairs = h.pairs
      /\ g.playerTotal = h.playerTotal /\ g.bankerTotal = h.bankerTotal
      /\ Restrict(g, DOMAIN g \ {"id"}) = h
  BY <1>1, <1>2, NumberedHand
<1>4. ByTheRules(g)
  BY <1>3, FairByTheRules DEF ByTheRules
<1>5. ExportHand(g) = ExportHand(h)
  BY <1>3 DEF ExportHand
<1>6. ImportHand(ExportHand(g)) = h
  BY <1>5, ImportsItself
<1> QED BY <1>2, <1>3, <1>4, <1>6

\* The state of a baccarat table, for every shoe, entry and rule.
THEOREM BaccaratTyped == BaccaratSpec => []BaccaratTypeOK
<1> QED BY BaccaratHolds, TypedByInv, PTL

\* Every hand of the history holds the cards of the rules, has their outcome and totals, and its
\* text imports to it.
THEOREM HandsFollowTheRules == BaccaratSpec => []HandsByTheRules
<1> QED BY BaccaratHolds, RulesByInv, PTL

-----------------------------------------------------------------------------
(* Payouts *)

LEMMA BaccaratPaysFor ==
  ASSUME NEW h, h.outcome \in Outcome, NEW rules \in BaccaratRules, NEW amount \in {1, 10, 25}
  PROVE  /\ SettleBet("player", amount, h, rules) + SettleBet("banker", amount, h, rules) <= 0
         /\ SettleBet("player", amount, h, rules) = 0 <=> h.outcome = "T"
         /\ h.outcome = "T" => SettleBet("banker", amount, h, rules) = 0
         /\ \A bet \in BaccaratBetId :
              SettleBet(bet, amount, h, rules) > 0 =>
                \/ SettleBet(bet, amount, h, rules) = CataloguePays(bet, amount, rules)
                \/ bet = "banker" /\ rules.commission = 0 /\ h.bankerTotal = 6
                     /\ SettleBet(bet, amount, h, rules) = amount \div 2
<1>1. /\ rules.commission \in {0, 5} /\ rules.tiePayout \in {8, 9} /\ rules.pairPayout = 11
      /\ amount \in Nat /\ amount > 0 /\ h.outcome \in {"P", "B", "T"}
  BY DEF BaccaratRules, Outcome
<1>2. PICK b : b = BankerProfit(amount, h, rules)
  OBVIOUS
<1>3. /\ b \in 0 .. amount
      /\ \/ b = (amount * (100 - rules.commission)) \div 100
         \/ rules.commission = 0 /\ h.bankerTotal = 6 /\ b = amount \div 2
  <2>1. PICK k, q, e : /\ k = rules.commission /\ q = (amount * (100 - k)) \div 100
                       /\ e = amount \div 2
    OBVIOUS
  <2>2. q \in 0 .. amount /\ e \in 0 .. amount
    <3>1. CASE amount = 1
      <4>1. e = 0
        BY <2>1, <3>1
      <4>2. q \in {0, 1}
        BY <1>1, <2>1, <3>1
      <4> QED BY <3>1, <4>1, <4>2
    <3>2. CASE amount = 10
      <4>1. e = 5
        BY <2>1, <3>2
      <4>2. q \in {9, 10}
        BY <1>1, <2>1, <3>2
      <4> QED BY <3>2, <4>1, <4>2
    <3>3. CASE amount = 25
      <4>1. e = 12
        BY <2>1, <3>3
      <4>2. q \in {23, 25}
        BY <1>1, <2>1, <3>3
      <4> QED BY <3>3, <4>1, <4>2
    <3> QED BY <3>1, <3>2, <3>3
  <2>3. b = IF k = 0 /\ h.bankerTotal = 6 THEN e ELSE q
    BY <1>2, <2>1 DEF BankerProfit
  <2>4. b \in 0 .. amount /\ (b = q \/ (k = 0 /\ h.bankerTotal = 6 /\ b = e))
    <3>1. CASE k = 0 /\ h.bankerTotal = 6
      BY <2>2, <2>3, <3>1
    <3>2. CASE ~(k = 0 /\ h.bankerTotal = 6)
      <4>1. b = q
        BY <2>3, <3>2, Zenon
      <4> QED BY <2>2, <4>1, Zenon
    <3> QED BY <3>1, <3>2
  <2> QED BY <2>1, <2>4, Zenon
<1>4. SettleBet("player", amount, h, rules) =
        IF h.outcome = "T" THEN 0 ELSE IF h.outcome = "P" THEN amount ELSE -amount
  BY <1>1 DEF SettleBet
<1>5. SettleBet("banker", amount, h, rules) =
        IF h.outcome = "T" THEN 0 ELSE IF h.outcome = "B" THEN b ELSE -amount
  BY <1>1, <1>2 DEF SettleBet
<1>6. /\ SettleBet("tie", amount, h, rules) = IF h.outcome = "T" THEN amount * rules.tiePayout ELSE -amount
      /\ SettleBet("player_pair", amount, h, rules) = IF "P" \in h.pairs THEN amount * rules.pairPayout ELSE -amount
      /\ SettleBet("banker_pair", amount, h, rules) = IF "B" \in h.pairs THEN amount * rules.pairPayout ELSE -amount
  BY <1>1 DEF SettleBet
<1>7. /\ CataloguePays("player", amount, rules) = amount
      /\ CataloguePays("banker", amount, rules) = (amount * (100 - rules.commission)) \div 100
      /\ CataloguePays("tie", amount, rules) = amount * rules.tiePayout
      /\ CataloguePays("player_pair", amount, rules) = amount * rules.pairPayout
      /\ CataloguePays("banker_pair", amount, rules) = amount * rules.pairPayout
  BY DEF CataloguePays
<1>8. SettleBet("player", amount, h, rules) + SettleBet("banker", amount, h, rules) <= 0
  BY <1>1, <1>3, <1>4, <1>5
<1>9. ASSUME NEW bet \in BaccaratBetId, SettleBet(bet, amount, h, rules) > 0
      PROVE  \/ SettleBet(bet, amount, h, rules) = CataloguePays(bet, amount, rules)
             \/ bet = "banker" /\ rules.commission = 0 /\ h.bankerTotal = 6
                  /\ SettleBet(bet, amount, h, rules) = amount \div 2
  <2>1. bet \in {"player", "banker", "tie", "player_pair", "banker_pair"} /\ ~(-amount > 0) /\ ~(0 > 0)
    BY <1>1 DEF BaccaratBetId
  <2> QED BY <1>3, <1>4, <1>5, <1>6, <1>7, <1>9, <2>1
<1>10. SettleBet("player", amount, h, rules) = 0 <=> h.outcome = "T"
  BY <1>1, <1>4
<1> QED BY <1>5, <1>8, <1>9, <1>10

LEMMA PaysByInv == BacInv => BaccaratPays
<1> SUFFICES ASSUME BacInv PROVE BaccaratPays
  OBVIOUS
<1>1. ASSUME NEW i \in DOMAIN hands
      PROVE  hands[i].outcome \in Outcome
  BY <1>1, TypedByInv DEF BaccaratTypeOK
<1> QED BY <1>1, BaccaratPaysFor DEF BaccaratPays

LEMMA BlackjackPaysFor ==
  ASSUME NEW r, NEW s \in DOMAIN r.seats, NEW i \in DOMAIN r.seats[s],
         NEW stake \in {2, 5, 10}, NEW rules, NEW payout \in {"3:2", "6:5"}, rules.payout = payout,
         NEW main, main = SettleSeat("main", stake, r, s, i, rules), NEW h, h = r.seats[s][i],
         NEW ratio, ratio = IF payout = "3:2" THEN <<3, 2>> ELSE <<6, 5>>
  PROVE  /\ h.outcome = "blackjack" => /\ main * ratio[2] <= stake * ratio[1]
                                       /\ (main + 1) * ratio[2] > stake * ratio[1]
                                       /\ main >= stake
         /\ h.outcome = "surrender" /\ ~r.dealer.blackjack => 2 * main \in {-stake, -stake - 1}
         /\ h.outcome \in Lost =>
              \A bet \in {"main", "double", "split", "even_money"} : SettleSeat(bet, stake, r, s, i, rules) <= 0
         /\ r.depth = "full" /\ r.dealer.blackjack /\ h.outcome = "lose" /\ stake % 2 = 0
              => main + SettleSeat("insurance", stake \div 2, r, s, i, rules) \in {0, stake}
         /\ SettleSeat("even_money", stake, r, s, i, rules) > 0 => main > 0
<1> DEFINE o == h.outcome
           free == /\ r.dealer.blackjack /\ o \notin {"blackjack", "push"}
                   /\ rules.peek /\ (h.doubled \/ h.fromSplit)
<1>1. stake \in Nat /\ stake > 0
  OBVIOUS
<1>2. PICK n : n = NaturalPays(stake, payout)
  OBVIOUS
<1>3. n \in Nat /\ n >= stake /\ n * ratio[2] <= stake * ratio[1] /\ (n + 1) * ratio[2] > stake * ratio[1]
  <2>1. CASE payout = "3:2"
    <3>1. n = (stake * 3) \div 2 /\ ratio[1] = 3 /\ ratio[2] = 2
      BY <1>2, <2>1 DEF NaturalPays
    <3> QED BY <3>1
  <2>2. CASE payout = "6:5"
    <3>1. n = (stake * 6) \div 5 /\ ratio[1] = 6 /\ ratio[2] = 5
      BY <1>2, <2>2 DEF NaturalPays
    <3> QED BY <3>1
  <2> QED BY <2>1, <2>2
<1>4. PICK m : m = MainProfit(stake, o, payout)
  OBVIOUS
<1>5. /\ o = "surrender" => m = (stake \div 2) - stake
      /\ o = "blackjack" => m = n
      /\ o \in {"lose", "bust"} => m = -stake
  BY <1>2, <1>4 DEF MainProfit
<1>6. main = IF free THEN 0 ELSE m
  BY <1>4 DEF SettleSeat
<1>7. SettleSeat("split", stake, r, s, i, rules) = m
  BY <1>4 DEF SettleSeat
<1>8. SettleSeat("double", stake, r, s, i, rules) =
        IF o \in Won THEN 2 * stake ELSE IF o = "push" THEN 0 ELSE -stake
  BY DEF SettleSeat
<1>9. PICK e : e = SettleSeat("even_money", stake, r, s, i, rules)
  OBVIOUS
<1>10. e \in {stake, -stake} /\ (e = stake => o = "blackjack")
  BY <1>1, <1>9 DEF SettleSeat
<1>11. \A x : r.dealer.blackjack => SettleSeat("insurance", x, r, s, i, rules) = 2 * x
  BY DEF SettleSeat
<1>12. o = "blackjack" => ~free /\ main = n
  BY <1>5, <1>6
<1>13. o \in Lost => m \in Int /\ m <= 0
  BY <1>1, <1>5 DEF Lost
<1>14. main = 0 \/ main = m
  BY <1>6
<1> HIDE DEF o, free
<1>15. o = "surrender" /\ ~r.dealer.blackjack => 2 * main \in {-stake, -stake - 1}
  <2> SUFFICES ASSUME o = "surrender", ~r.dealer.blackjack
               PROVE  2 * main \in {-stake, -stake - 1}
    OBVIOUS
  <2>1. main = (stake \div 2) - stake
    BY <1>5, <1>6 DEF free
  <2>2. CASE stake = 2
    BY <2>1, <2>2
  <2>3. CASE stake = 5
    BY <2>1, <2>3
  <2>4. CASE stake = 10
    BY <2>1, <2>4
  <2> QED BY <2>2, <2>3, <2>4
<1>16. o \in Lost =>
         \A bet \in {"main", "double", "split", "even_money"} : SettleSeat(bet, stake, r, s, i, rules) <= 0
  <2> SUFFICES ASSUME o \in Lost, NEW bet \in {"main", "double", "split", "even_money"}
               PROVE  SettleSeat(bet, stake, r, s, i, rules) <= 0
    OBVIOUS
  <2>1. o \notin Won /\ o # "push" /\ o # "blackjack" /\ -stake <= 0
    BY <1>1 DEF Lost, Won
  <2>2. SettleSeat("double", stake, r, s, i, rules) = -stake /\ e = -stake
    BY <1>8, <1>10, <2>1
  <2>3. main <= 0 /\ m <= 0
    BY <1>13, <1>14
  <2> QED BY <1>7, <1>9, <2>1, <2>2, <2>3
<1>17. ASSUME r.dealer.blackjack, o = "lose", stake % 2 = 0
       PROVE  main + SettleSeat("insurance", stake \div 2, r, s, i, rules) \in {0, stake}
  <2>1. SettleSeat("insurance", stake \div 2, r, s, i, rules) = 2 * (stake \div 2)
    BY <1>11, <1>17
  <2>2. 2 * (stake \div 2) = stake
    BY <1>17
  <2>3. main \in {0, -stake}
    BY <1>5, <1>14, <1>17
  <2> QED BY <1>1, <2>1, <2>2, <2>3
<1>18. e > 0 => main > 0
  BY <1>1, <1>3, <1>10, <1>12 DEF o
<1> QED BY <1>3, <1>9, <1>12, <1>15, <1>16, <1>17, <1>18 DEF o

\* What is played does not change while it is played.
LEMMA SittingStays ==
  ASSUME BlackjackNext
  PROVE  sitting' = sitting
<1>1. ASSUME NEW s, SelectTab(s) PROVE sitting' = sitting
  BY <1>1 DEF SelectTab
<1>2. ASSUME NEW t, TapSlot(t) PROVE sitting' = sitting
  BY <1>2 DEF TapSlot
<1>3. CASE CloseSlot \/ RemoveFrom \/ UndoLast
  BY <1>3 DEF CloseSlot, RemoveFrom, UndoLast
<1>4. ASSUME NEW c, CommitTo(c) PROVE sitting' = sitting
  BY <1>4 DEF CommitTo
<1>5. ASSUME NEW hs, Press(hs) PROVE sitting' = sitting
  BY <1>5 DEF Press
<1>6. ASSUME NEW o, SetOutcome(o) PROVE sitting' = sitting
  BY <1>5, <1>6 DEF SetOutcome
<1>7. CASE AddHand \/ SplitHand \/ DoubleHand \/ SurrenderHand
  BY <1>5, <1>7 DEF AddHand, SplitHand, DoubleHand, SurrenderHand
<1>8. CASE SitOut \/ RecordAnyway
  BY <1>8 DEF SitOut, RecordAnyway
<1>9. ASSUME NEW t, NEW n, QuickDealer(t, n) PROVE sitting' = sitting
  BY <1>9 DEF QuickDealer
<1>10. CASE ConfirmRound \/ ShuffleUp
  BY <1>10 DEF ConfirmRound, ShuffleUp
<1>11. ASSUME NEW i, TakeBackRound(i) \/ FixRound(i) PROVE sitting' = sitting
  BY <1>11 DEF TakeBackRound, FixRound
<1>12. CASE TriggerStep \/ HandleAction
  BY <1>12 DEF TriggerStep, HandleAction
<1>13. ASSUME NEW a, PressAction(a) PROVE sitting' = sitting
  BY <1>13 DEF PressAction
<1> QED BY <1>1, <1>2, <1>3, <1>4, <1>6, <1>7, <1>8, <1>9, <1>10, <1>11, <1>12, <1>13 DEF BlackjackNext

LEMMA BlackjackPaysAlways ==
  ASSUME sitting \in Sittings
  PROVE  BlackjackPays
<1> SUFFICES ASSUME NEW n \in DOMAIN rounds, NEW stake \in {2, 5, 10}, NEW payout \in {"3:2", "6:5"},
                    NEW x \in HandsOfRound(rounds[n])
             PROVE  LET r == rounds[n]
                        rules == [Rules EXCEPT !.payout = payout]
                        ratio == IF payout = "3:2" THEN <<3, 2>> ELSE <<6, 5>>
                        h == r.seats[x[1]][x[2]]
                        gain(bet, amount) == SettleSeat(bet, amount, r, x[1], x[2], rules)
                        main == gain("main", stake)
                    IN /\ h.outcome = "blackjack" => /\ main * ratio[2] <= stake * ratio[1]
                                                     /\ (main + 1) * ratio[2] > stake * ratio[1]
                                                     /\ main >= stake
                       /\ h.outcome = "surrender" /\ ~r.dealer.blackjack => 2 * main \in {-stake, -stake - 1}
                       /\ h.outcome \in Lost => \A bet \in {"main", "double", "split", "even_money"} : gain(bet, stake) <= 0
                       /\ r.depth = "full" /\ r.dealer.blackjack /\ h.outcome = "lose" /\ stake % 2 = 0
                            => main + gain("insurance", stake \div 2) \in {0, stake}
                       /\ gain("even_money", stake) > 0 => main > 0
  BY DEF BlackjackPays
<1>1. PICK r, s, i, rules : r = rounds[n] /\ s = x[1] /\ i = x[2] /\ rules = [Rules EXCEPT !.payout = payout]
  OBVIOUS
<1>2. s \in DOMAIN r.seats /\ i \in DOMAIN r.seats[s]
  BY <1>1 DEF HandsOfRound, AllHands
<1>3. PICK main, h, ratio : /\ main = SettleSeat("main", stake, r, s, i, rules) /\ h = r.seats[s][i]
                            /\ ratio = IF payout = "3:2" THEN <<3, 2>> ELSE <<6, 5>>
  OBVIOUS
<1>4. rules.payout = payout
  <2>1. sitting.rules \in BlackjackRule
    BY SittingsAssumption
  <2>2. "payout" \in DOMAIN Rules
    BY <2>1 DEF Rules, BlackjackRule
  <2> QED BY <1>1, <2>2
<1>5. /\ h.outcome = "blackjack" => /\ main * ratio[2] <= stake * ratio[1]
                                     /\ (main + 1) * ratio[2] > stake * ratio[1]
                                     /\ main >= stake
      /\ h.outcome = "surrender" /\ ~r.dealer.blackjack => 2 * main \in {-stake, -stake - 1}
      /\ h.outcome \in Lost =>
           \A bet \in {"main", "double", "split", "even_money"} : SettleSeat(bet, stake, r, s, i, rules) <= 0
      /\ r.depth = "full" /\ r.dealer.blackjack /\ h.outcome = "lose" /\ stake % 2 = 0
           => main + SettleSeat("insurance", stake \div 2, r, s, i, rules) \in {0, stake}
      /\ SettleSeat("even_money", stake, r, s, i, rules) > 0 => main > 0
  BY <1>2, <1>3, <1>4, BlackjackPaysFor
<1> QED BY <1>1, <1>3, <1>5, Zenon

CardsInv == BacInv /\ sitting \in Sittings

LEMMA CardsHold == CardsSpec => []CardsInv
<1>1. CardsInit => CardsInv
  BY BaccaratStarts DEF CardsInit, BlackjackInit, CardsInv
<1>2. CardsInv /\ [CardsNext]_cardVars => CardsInv'
  <2>1. [CardsNext]_cardVars => [BaccaratNext]_bacVars
    BY DEF CardsNext, cardVars
  <2>2. [CardsNext]_cardVars => sitting' = sitting
    BY SittingStays DEF CardsNext, cardVars, bjVars
  <2> QED BY <2>1, <2>2, BaccaratStays DEF CardsInv
<1> QED BY <1>1, <1>2, PTL DEF CardsSpec

\* What any hand and any round of the two games pay, with every rule and whatever was played,
\* entered and corrected (settleBet, settleBlackjack).
THEOREM CardsAlwaysPay == CardsSpec => []CardsPay
<1>1. CardsInv => CardsPay
  BY PaysByInv, BlackjackPaysAlways DEF CardsPay, CardsInv
<1> QED BY <1>1, CardsHold, PTL

-----------------------------------------------------------------------------
(* Blackjack: turns *)

VirtualPhase == {"deal", "insurance", "player", "dealer"}
InPlay == [phase : VirtualPhase, hand : Nat, dealRound : Nat, holeDealt : BOOLEAN, stood : SUBSET Nat]
LiveFields == {"dealer", "seats", "override"}

\* The rounds have ids that were given out; the pickers point at seats.
EntryInv ==
  /\ sitting \in Sittings
  /\ recorded \in 0 .. sitting.rounds /\ repairs \in 0 .. sitting.repairs
  /\ \E S : rounds \in Seq(S)
  /\ \A i \in DOMAIN rounds : rounds[i].id \in 1 .. recorded /\ rounds[i].depth \in {"outcomes", "full", "quick"}
  /\ DOMAIN liveInput = LiveFields /\ DOMAIN liveInput.seats \subseteq Tables /\ liveInput.override \in BOOLEAN
  /\ slot.seat \in {0} \cup Tables /\ focus \in sitting.seats /\ fixing \in 0 .. recorded
  /\ pressed \in Seq(BlackjackAction) /\ Len(pressed) <= MaxPressed

\* A session is only at a virtual table, whose picker stays closed; while it lasts the seat has its
\* hands, and in the player phase the turn is that of the first hand that is not complete.
SessionInv ==
  /\ session # NoSession => sitting.by = "virtual" /\ session \in InPlay /\ \E S : VirtualHands \in Seq(S)
  /\ sitting.by = "virtual" => slot = NoTarget
  /\ session.phase = "player" => /\ session.hand = PendingHand(VirtualHands, Rules, session.stood)
                                 /\ session.hand # 0

TurnInv == EntryInv /\ SessionInv

LEMMA SittingParts ==
  ASSUME NEW s \in Sittings
  PROVE  /\ s.rounds \in Nat /\ s.repairs \in Nat /\ s.seats \subseteq Tables /\ s.seats # {}
         /\ s.by \in {"dealer", "virtual"} /\ s.depth \in {"outcomes", "full"}
<1>1. s \in [by : {"dealer", "virtual"}, depth : {"outcomes", "full"}, cards : SUBSET Card,
             seats : (SUBSET Tables) \ {{}}, chips : SUBSET HandOutcome, totals : SUBSET (17 .. 22),
             rules : BlackjackRule, most : Nat, rounds : Nat, repairs : Nat]
  BY SittingsAssumption
<1> QED BY <1>1

LEMMA OnePhase ==
  /\ NoSession.phase = "none"
  /\ \A s \in InPlay : s # NoSession /\ s.phase \in VirtualPhase
<1>1. NoSession.phase = "none"
  BY DEF NoSession
<1> QED BY <1>1 DEF InPlay, VirtualPhase

LEMMA MinInSet ==
  ASSUME NEW S, S \subseteq Nat, S # {}
  PROVE  Min(S) \in S /\ \A y \in S : Min(S) <= y
<1>1. \E x \in S : \A y \in S : x <= y
  BY LeastNatural
<1> QED BY <1>1 DEF Min

\* The turn is that of the first hand that is not complete.
LEMMA PendingIs ==
  ASSUME NEW Y, NEW hs \in Seq(Y), NEW rules, NEW stood
  PROVE  /\ PendingHand(hs, rules, stood) \in {0} \cup DOMAIN hs
         /\ PendingHand(hs, rules, stood) \in Nat
         /\ PendingHand(hs, rules, stood) # 0 =>
              /\ ~HandComplete(hs[PendingHand(hs, rules, stood)], PendingHand(hs, rules, stood), rules, stood)
              /\ \A j \in DOMAIN hs : j < PendingHand(hs, rules, stood) => HandComplete(hs[j], j, rules, stood)
<1> DEFINE open == {i \in DOMAIN hs : ~HandComplete(hs[i], i, rules, stood)}
<1>1. DOMAIN hs \subseteq Nat /\ 0 \notin DOMAIN hs
  OBVIOUS
<1>2. PendingHand(hs, rules, stood) = IF open = {} THEN 0 ELSE Min(open)
  BY DEF PendingHand
<1>3. open \subseteq Nat
  BY <1>1
<1>4. PICK p : p = PendingHand(hs, rules, stood)
  OBVIOUS
<1>5. CASE open = {}
  BY <1>2, <1>5
<1>6. CASE open # {}
  <2>1. p \in open /\ \A y \in open : p <= y
    BY <1>2, <1>3, <1>4, <1>6, MinInSet
  <2>2. p \in DOMAIN hs /\ ~HandComplete(hs[p], p, rules, stood)
    BY <2>1
  <2>3. \A j \in DOMAIN hs : j < p => HandComplete(hs[j], j, rules, stood)
    BY <1>1, <2>1, <2>2
  <2> QED BY <1>1, <1>4, <2>2, <2>3
<1> QED BY <1>5, <1>6

\* Who has had a turn more, or who is done, stays so.
LEMMA CompleteStays ==
  ASSUME NEW h, NEW i, NEW rules, NEW stood, NEW more, stood \subseteq more, HandComplete(h, i, rules, stood)
  PROVE  HandComplete(h, i, rules, more)
BY DEF HandComplete

-----------------------------------------------------------------------------
(* The live round and the record *)

LiveOK == DOMAIN liveInput = LiveFields /\ DOMAIN liveInput.seats \subseteq Tables /\ liveInput.override \in BOOLEAN
RoundsOK ==
  /\ \E S : rounds \in Seq(S)
  /\ \A i \in DOMAIN rounds : rounds[i].id \in 1 .. recorded /\ rounds[i].depth \in {"outcomes", "full", "quick"}

LEMMA EmitKeeps ==
  ASSUME LiveOK, NEW e, DOMAIN e.seats \subseteq Tables, e.override \in BOOLEAN, EmitLive(e)
  PROVE  LiveOK'
<1>1. liveInput' = Merge(liveInput, e)
  BY DEF EmitLive
<1>2. /\ DOMAIN liveInput' = LiveFields /\ liveInput'.override = e.override
      /\ liveInput'.seats = IF DOMAIN e.seats # {} THEN e.seats ELSE liveInput.seats
  BY <1>1 DEF Merge, LiveFields
<1> QED BY <1>2 DEF LiveOK

LEMMA NothingIsLive == DOMAIN NothingLive = LiveFields /\ DOMAIN NothingLive.seats = {} /\ NothingLive.override = FALSE
BY DEF NothingLive, LiveFields, NoSeats

LEMMA PatchKeeps ==
  ASSUME LiveOK
  PROVE  /\ \A cards : PatchDealer(cards) => LiveOK'
         /\ \A seats : DOMAIN seats \subseteq Tables /\ PatchSeats(seats) => LiveOK'
         /\ \A s \in Tables : \A hs : PatchHands(s, hs) => LiveOK'
<1>1. ASSUME NEW cards, PatchDealer(cards) PROVE LiveOK'
  <2>1. PICK e : e = [liveInput EXCEPT !.dealer = cards]
    OBVIOUS
  <2>2. e.seats = liveInput.seats /\ e.override = liveInput.override
    BY <2>1 DEF LiveOK, LiveFields
  <2>3. EmitLive(e)
    BY <1>1, <2>1 DEF PatchDealer
  <2> QED BY <2>2, <2>3, EmitKeeps DEF LiveOK
<1>2. ASSUME NEW seats, DOMAIN seats \subseteq Tables, PatchSeats(seats) PROVE LiveOK'
  <2>1. PICK e : e = [liveInput EXCEPT !.seats = seats]
    OBVIOUS
  <2>2. e.seats = seats /\ e.override = liveInput.override
    BY <2>1 DEF LiveOK, LiveFields
  <2>3. EmitLive(e)
    BY <1>2, <2>1 DEF PatchSeats
  <2>4. DOMAIN e.seats \subseteq Tables
    BY <1>2, <2>2
  <2> QED BY <2>2, <2>3, <2>4, EmitKeeps DEF LiveOK
<1>3. ASSUME NEW s \in Tables, NEW hs, PatchHands(s, hs) PROVE LiveOK'
  <2>1. PICK seats : seats = Spread(liveInput.seats, [x \in {s} |-> hs])
    OBVIOUS
  <2>2. DOMAIN seats = DOMAIN liveInput.seats \cup {s}
    BY <2>1 DEF Spread
  <2>3. PatchSeats(seats)
    BY <1>3, <2>1 DEF PatchHands
  <2> QED BY <1>2, <2>2, <2>3 DEF LiveOK
<1> QED BY <1>1, <1>2, <1>3

\* A round that is recorded or corrected has its id, and the depth of its result.
LEMMA RoundFields ==
  ASSUME NEW r, r.depth \in {"outcomes", "full", "quick"}, {"dealer", "seats", "depth"} \subseteq DOMAIN r, "id" \notin DOMAIN r, NEW id
  PROVE  RoundOf(id, r).id = id /\ RoundOf(id, r).depth \in {"outcomes", "full", "quick"}
<1>1. PICK g : g = Normalized(r)
  OBVIOUS
<1>2. g.depth = r.depth /\ "depth" \in DOMAIN g /\ "id" \notin DOMAIN g
  BY <1>1 DEF Normalized
<1>3. RoundOf(id, r) = Spread(g, [id |-> id])
  BY <1>1 DEF RoundOf
<1> QED BY <1>2, <1>3 DEF Spread

LEMMA ResultFields ==
  /\ \A l, d : LET r == ResultOfLive(l, d) IN r.depth = d /\ {"dealer", "seats", "depth"} \subseteq DOMAIN r /\ "id" \notin DOMAIN r
  /\ \A t, b : LET r == QuickRound(t, b) IN r.depth = "quick" /\ {"dealer", "seats", "depth"} \subseteq DOMAIN r /\ "id" \notin DOMAIN r
BY DEF ResultOfLive, QuickRound

IsResult(r) == r.depth \in {"outcomes", "full", "quick"} /\ {"dealer", "seats", "depth"} \subseteq DOMAIN r /\ "id" \notin DOMAIN r

LEMMA RecordRoundKeeps ==
  ASSUME EntryInv, NEW r, IsResult(r), RecordRound(r), UNCHANGED sitting
  PROVE  RoundsOK' /\ LiveOK' /\ recorded' \in 0 .. sitting'.rounds /\ recorded' >= recorded /\ session' = NoSession
<1>1. sitting.rounds \in Nat /\ recorded \in Nat /\ recorded' = recorded + 1 /\ recorded < sitting.rounds
  BY SittingParts DEF EntryInv, RecordRound
<1>2. LiveOK' /\ session' = NoSession
  BY NothingIsLive DEF RecordRound, LiveOK
<1>3. PICK S : rounds \in Seq(S)
  BY DEF EntryInv
<1>4. PICK g : g = RoundOf(recorded + 1, r)
  OBVIOUS
<1>5. g.id = recorded + 1 /\ g.depth \in {"outcomes", "full", "quick"}
  BY <1>4, RoundFields DEF IsResult
<1>6. PICK T : T = S \cup {g}
  OBVIOUS
<1>7. rounds \in Seq(T) /\ g \in T
  BY <1>3, <1>6
<1>8. rounds' = Append(rounds, g)
  BY <1>4 DEF RecordRound
<1>9. PICK n : n = Len(rounds)
  OBVIOUS
<1>10. rounds' \in Seq(T) /\ n \in Nat /\ DOMAIN rounds = 1 .. n /\ DOMAIN rounds' = 1 .. n + 1
       /\ rounds'[n + 1] = g /\ \A i \in 1 .. n : rounds'[i] = rounds[i]
  BY <1>7, <1>8, <1>9, OneMore
<1>11. \A i \in DOMAIN rounds' : rounds'[i].id \in 1 .. recorded' /\ rounds'[i].depth \in {"outcomes", "full", "quick"}
  <2> SUFFICES ASSUME NEW i \in 1 .. n + 1
               PROVE  rounds'[i].id \in 1 .. recorded' /\ rounds'[i].depth \in {"outcomes", "full", "quick"}
    BY <1>10
  <2>1. CASE i = n + 1
    BY <1>1, <1>5, <1>10, <2>1
  <2>2. CASE i \in 1 .. n
    <3>1. rounds[i].id \in 1 .. recorded /\ rounds[i].depth \in {"outcomes", "full", "quick"}
      BY <1>10, <2>2 DEF EntryInv
    <3> QED BY <1>1, <1>10, <2>2, <3>1
  <2> QED BY <1>10, <2>1, <2>2
<1> QED BY <1>1, <1>2, <1>10, <1>11 DEF RoundsOK

LEMMA EditRoundKeeps ==
  ASSUME EntryInv, NEW r, IsResult(r), EditRound(r), fixing # 0
  PROVE  RoundsOK'
<1>1. recorded' = recorded /\ fixing \in 1 .. recorded
  BY SittingParts DEF EntryInv, EditRound
<1>2. PICK S : rounds \in Seq(S)
  BY DEF EntryInv
<1>3. PICK g : g = RoundOf(fixing, r)
  OBVIOUS
<1>4. g.id = fixing /\ g.depth \in {"outcomes", "full", "quick"}
  BY <1>3, RoundFields DEF IsResult
<1>5. rounds' = [i \in DOMAIN rounds |-> IF rounds[i].id = fixing THEN g ELSE rounds[i]]
  BY <1>3 DEF EditRound
<1>6. PICK T : T = S \cup {g}
  OBVIOUS
<1>7. rounds' \in Seq(T)
  <2>1. PICK n : n = Len(rounds)
    OBVIOUS
  <2>2. n \in Nat /\ DOMAIN rounds = 1 .. n /\ \A i \in 1 .. n : rounds[i] \in S
    BY <1>2, <2>1
  <2>3. rounds' \in [1 .. n -> T]
    BY <1>5, <1>6, <2>2
  <2> QED BY <2>2, <2>3
<1>8. \A i \in DOMAIN rounds' : rounds'[i].id \in 1 .. recorded' /\ rounds'[i].depth \in {"outcomes", "full", "quick"}
  <2>1. DOMAIN rounds' = DOMAIN rounds /\ \A i \in DOMAIN rounds : rounds'[i] \in {g, rounds[i]}
    BY <1>5
  <2> QED BY <1>1, <1>4, <2>1 DEF EntryInv
<1> QED BY <1>7, <1>8 DEF RoundsOK

LEMMA RemovedKeeps ==
  ASSUME EntryInv, NEW k \in DOMAIN rounds, rounds' = RemoveAt(rounds, k), recorded' = recorded
  PROVE  RoundsOK'
<1>1. PICK S : rounds \in Seq(S)
  BY DEF EntryInv
<1>2. PICK T : T = {rounds[i] : i \in DOMAIN rounds}
  OBVIOUS
<1>3. PICK n : n = Len(rounds)
  OBVIOUS
<1>4. n \in Nat /\ DOMAIN rounds = 1 .. n /\ k \in 1 .. n
  BY <1>1, <1>3
<1>5. rounds \in Seq(T)
  <2>1. rounds \in [1 .. n -> T]
    BY <1>1, <1>2, <1>3, <1>4
  <2> QED BY <1>4, <2>1
<1>6. PICK l, r : l = SubSeq(rounds, 1, k - 1) /\ r = SubSeq(rounds, k + 1, n)
  OBVIOUS
<1>7. l \in Seq(T) /\ r \in Seq(T)
  BY <1>3, <1>4, <1>5, <1>6
<1>8. rounds' = l \o r
  BY <1>3, <1>6 DEF RemoveAt
<1>9. rounds' \in Seq(T)
  BY <1>7, <1>8
<1>10. \A i \in DOMAIN rounds' : rounds'[i] \in T
  BY <1>9
<1> QED BY <1>2, <1>9, <1>10 DEF RoundsOK, EntryInv

-----------------------------------------------------------------------------
(* Entry by the dealer *)

LEMMA AtTableIdle ==
  ASSUME TurnInv, sitting.by # "virtual" \/ AtTable \/ slot # NoTarget
  PROVE  sitting.by # "virtual" /\ session = NoSession
BY DEF TurnInv, SessionInv, AtTable

LEMMA IdleKeeps ==
  ASSUME TurnInv, sitting.by # "virtual" \/ AtTable \/ slot # NoTarget, UNCHANGED sitting,
         session' \in {session, NoSession}
  PROVE  SessionInv'
<1>1. sitting.by # "virtual" /\ session' = NoSession
  BY AtTableIdle
<1> QED BY <1>1, OnePhase DEF SessionInv

LEMMA EntryParts ==
  ASSUME RoundsOK', LiveOK', sitting' \in Sittings, recorded' \in 0 .. sitting'.rounds, repairs' \in 0 .. sitting'.repairs,
         slot'.seat \in {0} \cup Tables, focus' \in sitting'.seats, fixing' \in 0 .. recorded',
         pressed' \in Seq(BlackjackAction), Len(pressed') <= MaxPressed
  PROVE  EntryInv'
BY DEF EntryInv, RoundsOK, LiveOK

LEMMA RepairKeeps ==
  ASSUME EntryInv, Repair
  PROVE  repairs' \in 0 .. sitting.repairs
<1>1. sitting.repairs \in Nat
  BY SittingParts DEF EntryInv
<1> QED BY <1>1 DEF EntryInv, Repair

LEMMA RoundsStay ==
  ASSUME EntryInv
  PROVE  /\ RoundsOK /\ LiveOK
         /\ UNCHANGED <<rounds, recorded>> => RoundsOK'
         /\ UNCHANGED liveInput => LiveOK'
BY DEF EntryInv, RoundsOK, LiveOK

LEMMA FocusIsSeat == ASSUME EntryInv PROVE focus \in Tables /\ sitting.seats \subseteq Tables
BY SittingParts DEF EntryInv

LEMMA SlotSeats ==
  /\ NoTarget.seat = 0 /\ \A i : DealerSlot(i).seat = 0
  /\ \A s, h, i : SeatSlot(s, h, i).seat = s
BY DEF NoTarget, DealerSlot, SeatSlot

LEMMA TapSlotKeeps ==
  ASSUME TurnInv, NEW t \in DrawnSlots, TapSlot(t)
  PROVE  TurnInv'
<1>1. EntryInv
  BY DEF TurnInv
<1>2. t.seat \in {0} \cup Tables
  <2>1. \/ \E i \in 1 .. Len(liveInput.dealer) + 1 : t = DealerSlot(i)
        \/ \E n \in DOMAIN HandsOf(focus) : \E i : t = SeatSlot(focus, n, i)
    BY Zenon DEF DrawnSlots
  <2> QED BY <1>1, <2>1, FocusIsSeat, SlotSeats
<1>3. repairs' \in 0 .. sitting.repairs
  BY <1>1, RepairKeeps DEF TapSlot, EntryInv
<1>4. EntryInv'
  BY <1>1, <1>2, <1>3 DEF TapSlot, EntryInv
<1>5. AtTable /\ UNCHANGED <<sitting, session>>
  BY DEF TapSlot, Entering
<1> QED BY <1>4, <1>5, IdleKeeps DEF TurnInv

LEMMA TabsKeep ==
  ASSUME TurnInv, (\E s \in sitting.seats : SelectTab(s)) \/ CloseSlot
  PROVE  TurnInv'
<1>1. CASE \E s \in sitting.seats : SelectTab(s)
  <2>1. EntryInv'
    BY <1>1 DEF TurnInv, EntryInv, SelectTab
  <2>2. AtTable /\ UNCHANGED <<sitting, session>>
    BY <1>1 DEF SelectTab, Entering
  <2> QED BY <2>1, <2>2, IdleKeeps DEF TurnInv
<1>2. CASE CloseSlot
  <2>1. EntryInv'
    BY <1>2, SlotSeats DEF TurnInv, EntryInv, CloseSlot
  <2>2. slot # NoTarget /\ UNCHANGED <<sitting, session>>
    BY <1>2 DEF CloseSlot
  <2> QED BY <2>1, <2>2, IdleKeeps DEF TurnInv
<1> QED BY <1>1, <1>2

\* What leaves the record alone: the live round is patched.
LEMMA LiveEntryKeeps ==
  ASSUME TurnInv, LiveOK', sitting.by # "virtual" \/ AtTable \/ slot # NoTarget,
         UNCHANGED <<sitting, rounds, session, focus, fixing, pressed, recorded>>,
         slot'.seat \in {0} \cup Tables, repairs' \in 0 .. sitting.repairs
  PROVE  TurnInv'
<1>1. EntryInv'
  <2>1. EntryInv
    BY DEF TurnInv
  <2>2. RoundsOK'
    BY <2>1, RoundsStay
  <2> QED BY <2>1, <2>2, EntryParts DEF EntryInv
<1>2. SessionInv'
  BY IdleKeeps
<1> QED BY <1>1, <1>2 DEF TurnInv

LEMMA CommitToKeeps ==
  ASSUME TurnInv, NEW c \in sitting.cards, CommitTo(c)
  PROVE  TurnInv'
<1>1. EntryInv /\ LiveOK
  BY RoundsStay DEF TurnInv
<1>2. CASE slot.seat = 0
  <2>1. LiveOK'
    BY <1>1, <1>2, PatchKeeps DEF CommitTo
  <2> QED BY <1>1, <2>1, LiveEntryKeeps, SlotSeats DEF CommitTo, EntryInv
<1>3. CASE slot.seat # 0
  <2>1. slot.seat \in Tables
    BY <1>1, <1>3 DEF EntryInv
  <2>2. LiveOK'
    BY <1>1, <1>3, <2>1, PatchKeeps DEF CommitTo
  <2> QED BY <1>1, <2>2, LiveEntryKeeps, SlotSeats DEF CommitTo, EntryInv
<1> QED BY <1>2, <1>3

LEMMA RemoveFromKeeps ==
  ASSUME TurnInv, RemoveFrom
  PROVE  TurnInv'
<1>1. EntryInv /\ LiveOK /\ repairs' \in 0 .. sitting.repairs
  BY RoundsStay, RepairKeeps DEF TurnInv, RemoveFrom
<1>2. CASE slot.seat = 0
  <2>1. LiveOK'
    BY <1>1, <1>2, PatchKeeps DEF RemoveFrom
  <2> QED BY <1>1, <2>1, LiveEntryKeeps, SlotSeats DEF RemoveFrom
<1>3. CASE slot.seat # 0
  <2>1. slot.seat \in Tables
    BY <1>1, <1>3 DEF EntryInv
  <2>2. LiveOK'
    BY <1>1, <1>3, <2>1, PatchKeeps DEF RemoveFrom
  <2> QED BY <1>1, <2>2, LiveEntryKeeps, SlotSeats DEF RemoveFrom
<1> QED BY <1>2, <1>3

LEMMA UndoLastKeeps ==
  ASSUME TurnInv, UndoLast
  PROVE  TurnInv'
<1>1. EntryInv /\ LiveOK /\ repairs' \in 0 .. sitting.repairs
  BY RoundsStay, RepairKeeps DEF TurnInv, UndoLast
<1>2. LiveOK' /\ slot'.seat \in {0} \cup Tables
  <2>1. \/ \E i : PatchDealer(Front(liveInput.dealer)) /\ slot' = DealerSlot(i)
        \/ \E x \in AllHands(liveInput.seats) : \E hs, i : PatchHands(x[1], hs) /\ slot' = SeatSlot(x[1], x[2], i)
    BY Zenon DEF UndoLast
  <2>2. CASE \E i : PatchDealer(Front(liveInput.dealer)) /\ slot' = DealerSlot(i)
    BY <1>1, <2>2, PatchKeeps, SlotSeats
  <2>3. CASE \E x \in AllHands(liveInput.seats) : \E hs, i : PatchHands(x[1], hs) /\ slot' = SeatSlot(x[1], x[2], i)
    <3>0. PICK x \in AllHands(liveInput.seats) : \E hs, i : PatchHands(x[1], hs) /\ slot' = SeatSlot(x[1], x[2], i)
      BY <2>3
    <3>1. PICK hs, i : PatchHands(x[1], hs) /\ slot' = SeatSlot(x[1], x[2], i)
      BY <3>0
    <3>2. x[1] \in DOMAIN liveInput.seats
      BY DEF AllHands
    <3>3. x[1] \in Tables
      BY <1>1, <3>2 DEF LiveOK
    <3> QED BY <1>1, <3>1, <3>3, PatchKeeps, SlotSeats
  <2> QED BY <2>1, <2>2, <2>3
<1> QED BY <1>1, <1>2, LiveEntryKeeps DEF UndoLast

LEMMA PressKeeps ==
  ASSUME TurnInv, sitting.by # "virtual" \/ AtTable \/ slot # NoTarget, NEW hs, Press(hs)
  PROVE  TurnInv'
<1>1. EntryInv /\ LiveOK /\ focus \in Tables
  BY RoundsStay, FocusIsSeat DEF TurnInv
<1>2. LiveOK'
  BY <1>1, PatchKeeps DEF Press
<1>3. UNCHANGED <<sitting, rounds, session, focus, fixing, pressed, recorded, slot, repairs>>
  BY DEF Press, entryVars
<1> QED BY <1>1, <1>2, <1>3, LiveEntryKeeps DEF EntryInv

LEMMA ButtonsKeep ==
  ASSUME TurnInv, (\E o \in sitting.chips : SetOutcome(o)) \/ AddHand \/ SplitHand \/ DoubleHand \/ SurrenderHand
  PROVE  TurnInv'
<1>1. AtTable /\ \E hs : Press(hs)
  BY Zenon DEF SetOutcome, AddHand, SplitHand, DoubleHand, SurrenderHand, InOutcomes, InFull, Entering
<1> QED BY <1>1, PressKeeps

LEMMA SitOutKeeps ==
  ASSUME TurnInv, SitOut \/ RecordAnyway
  PROVE  TurnInv'
<1>1. EntryInv /\ LiveOK
  BY RoundsStay DEF TurnInv
<1>2. CASE SitOut
  <2>1. PICK seats : seats = Restrict(liveInput.seats, DOMAIN liveInput.seats \ {focus})
    OBVIOUS
  <2>2. DOMAIN seats \subseteq Tables
    BY <1>1, <2>1 DEF Restrict, LiveOK
  <2>3. LiveOK'
    BY <1>1, <1>2, <2>1, <2>2, PatchKeeps DEF SitOut
  <2>4. repairs' \in 0 .. sitting.repairs
    BY <1>1, <1>2, RepairKeeps DEF SitOut
  <2> QED BY <1>1, <1>2, <2>3, <2>4, LiveEntryKeeps DEF SitOut, Entering, entryVars, EntryInv
<1>3. CASE RecordAnyway
  <2>1. PICK e : e = [liveInput EXCEPT !.override = TRUE]
    OBVIOUS
  <2>2. e.seats = liveInput.seats /\ e.override = TRUE /\ EmitLive(e)
    BY <1>1, <1>3, <2>1 DEF LiveOK, LiveFields, RecordAnyway
  <2>3. LiveOK'
    BY <1>1, <2>2, EmitKeeps DEF LiveOK
  <2> QED BY <1>1, <1>3, <2>3, LiveEntryKeeps DEF RecordAnyway, entryVars, EntryInv
<1> QED BY <1>2, <1>3

LEMMA Results ==
  /\ \A l, d : d \in {"outcomes", "full"} => IsResult(ResultOfLive(l, d))
  /\ \A t, b : IsResult(QuickRound(t, b))
BY ResultFields DEF IsResult

LEMMA RecordedKeeps ==
  ASSUME TurnInv, NEW r, IsResult(r), RecordRound(r), UNCHANGED <<sitting, focus, fixing, pressed, repairs>>,
         slot'.seat \in {0} \cup Tables
  PROVE  EntryInv' /\ session' = NoSession
<1>1. EntryInv
  BY DEF TurnInv
<1>2. RoundsOK' /\ LiveOK' /\ recorded' \in 0 .. sitting'.rounds /\ recorded' >= recorded /\ session' = NoSession
  BY <1>1, RecordRoundKeeps
<1>3. fixing' \in 0 .. recorded'
  BY <1>1, <1>2, SittingParts DEF EntryInv
<1> QED BY <1>1, <1>2, <1>3, EntryParts DEF EntryInv

LEMMA QuickDealerKeeps ==
  ASSUME TurnInv, NEW t, NEW natural, QuickDealer(t, natural)
  PROVE  TurnInv'
<1>1. PICK r : r = QuickRound(t, natural)
  OBVIOUS
<1>2. IsResult(r) /\ RecordRound(r)
  BY <1>1, Results DEF QuickDealer
<1>3. slot'.seat \in {0} \cup Tables
  BY SlotSeats DEF QuickDealer, NextRound
<1>4. UNCHANGED <<sitting, focus, fixing, pressed, repairs>> /\ AtTable
  BY DEF QuickDealer
<1>5. EntryInv' /\ session' = NoSession
  BY <1>2, <1>3, <1>4, RecordedKeeps
<1> QED BY <1>4, <1>5, IdleKeeps DEF TurnInv

LEMMA ConfirmRoundKeeps ==
  ASSUME TurnInv, ConfirmRound
  PROVE  TurnInv'
<1>1. EntryInv /\ AtTable /\ UNCHANGED <<sitting, focus, pressed, repairs>>
  BY DEF TurnInv, ConfirmRound
<1>2. PICK r : r = ResultOfLive(liveInput, sitting.depth)
  OBVIOUS
<1>3. IsResult(r)
  BY <1>1, <1>2, Results, SittingParts DEF EntryInv
<1>4. CASE RecordRound(r) /\ NextRound /\ UNCHANGED fixing
  <2>1. slot'.seat \in {0} \cup Tables
    BY <1>4, SlotSeats DEF NextRound
  <2>2. EntryInv' /\ session' = NoSession
    BY <1>1, <1>3, <1>4, <2>1, RecordedKeeps
  <2> QED BY <1>1, <2>2, IdleKeeps DEF TurnInv
<1>5. CASE fixing # 0 /\ EditRound(r) /\ fixing' = 0 /\ UNCHANGED slot
  <2>1. RoundsOK'
    BY <1>1, <1>3, <1>5, EditRoundKeeps
  <2>2. LiveOK' /\ UNCHANGED <<recorded, session>>
    BY <1>1, <1>5, RoundsStay DEF EditRound
  <2>3. fixing' \in 0 .. recorded'
    BY <1>1, <1>5, <2>2, SittingParts DEF EntryInv
  <2>4. EntryInv'
    BY <1>1, <1>5, <2>1, <2>2, <2>3, EntryParts DEF EntryInv
  <2> QED BY <1>1, <2>2, <2>4, IdleKeeps DEF TurnInv
<1>6. \/ RecordRound(r) /\ NextRound /\ UNCHANGED fixing
      \/ fixing # 0 /\ EditRound(r) /\ fixing' = 0 /\ UNCHANGED slot
  BY <1>2 DEF ConfirmRound
<1> QED BY <1>4, <1>5, <1>6

LEMMA HistoryKeeps ==
  ASSUME TurnInv, NEW i \in DOMAIN rounds, TakeBackRound(i) \/ FixRound(i)
  PROVE  TurnInv'
<1>1. EntryInv /\ AtTable /\ UNCHANGED <<sitting, liveInput, session, slot, focus, pressed, recorded>>
  BY DEF TurnInv, TakeBackRound, FixRound, entryVars
<1>2. repairs' \in 0 .. sitting.repairs /\ LiveOK'
  BY <1>1, RepairKeeps, RoundsStay DEF TakeBackRound, FixRound
<1>3. RoundsOK' /\ fixing' \in 0 .. recorded'
  <2>1. CASE TakeBackRound(i)
    BY <1>1, <2>1, RemovedKeeps DEF TakeBackRound, entryVars, EntryInv
  <2>2. CASE FixRound(i)
    <3>1. RoundsOK'
      BY <1>1, <2>2, RoundsStay DEF FixRound
    <3>2. fixing' = rounds[i].id /\ rounds[i].id \in 1 .. recorded
      BY <1>1, <2>2 DEF FixRound, EntryInv
    <3>3. recorded \in Nat
      BY <1>1, SittingParts DEF EntryInv
    <3> QED BY <1>1, <3>1, <3>2, <3>3
  <2> QED BY <2>1, <2>2
<1>4. EntryInv'
  BY <1>1, <1>2, <1>3, EntryParts DEF EntryInv
<1> QED BY <1>1, <1>4, IdleKeeps DEF TurnInv

LEMMA ShuffleUpKeeps ==
  ASSUME TurnInv, ShuffleUp
  PROVE  TurnInv'
<1>1. EntryInv /\ SessionInv /\ UNCHANGED <<sitting, slot, focus, fixing, pressed, recorded, repairs>>
      /\ rounds' = <<>> /\ liveInput' = NothingLive /\ session' = NoSession
  BY DEF TurnInv, ShuffleUp, entryVars
<1>2. RoundsOK'
  <2>1. <<>> \in Seq({}) /\ DOMAIN <<>> = {}
    OBVIOUS
  <2> QED BY <1>1, <2>1 DEF RoundsOK
<1>3. LiveOK'
  BY <1>1, NothingIsLive DEF LiveOK
<1>4. EntryInv'
  BY <1>1, <1>2, <1>3, EntryParts DEF EntryInv
<1>5. SessionInv'
  BY <1>1, OnePhase DEF SessionInv
<1> QED BY <1>4, <1>5 DEF TurnInv

-----------------------------------------------------------------------------
(* The virtual round *)

LEMMA ShownRound ==
  ASSUME LiveOK, NEW d, NEW hs, NEW ses, ShowRound(d, hs, ses)
  PROVE  LiveOK' /\ VirtualHands' = hs /\ session' = ses /\ UNCHANGED <<rounds, recorded>>
<1>1. PICK f : f = [s \in {VirtualSeat} |-> hs]
  OBVIOUS
<1>2. DOMAIN f = {1} /\ f[1] = hs
  BY <1>1 DEF VirtualSeat
<1>3. liveInput' = Merge(liveInput, [dealer |-> d, seats |-> f, override |-> FALSE])
  BY <1>1 DEF ShowRound
<1>4. DOMAIN liveInput' = LiveFields /\ liveInput'.seats = f /\ liveInput'.override = FALSE
  BY <1>2, <1>3 DEF Merge, LiveFields
<1>5. LiveOK'
  <2>1. 1 \in Tables
    BY DEF Tables
  <2>2. DOMAIN liveInput'.seats \subseteq Tables
    BY <1>2, <1>4, <2>1
  <2> QED BY <1>4, <2>2 DEF LiveOK
<1>6. VirtualHands' = hs
  BY <1>2, <1>4 DEF VirtualHands, HandsOf, VirtualSeat
<1> QED BY <1>5, <1>6 DEF ShowRound

\* A step of the round that shows hands: the entry is not disturbed.
LEMMA ShownKeeps ==
  ASSUME TurnInv, NEW Y, NEW d, NEW hs \in Seq(Y), NEW ses, ShowRound(d, hs, ses), ses \in InPlay,
         sitting.by = "virtual", UNCHANGED <<sitting, entryVars, repairs>>,
         pressed' \in Seq(BlackjackAction), Len(pressed') <= MaxPressed,
         ses.phase = "player" => ses.hand = PendingHand(hs, Rules, ses.stood) /\ ses.hand # 0
  PROVE  TurnInv'
<1>1. EntryInv /\ SessionInv /\ LiveOK /\ UNCHANGED <<slot, focus, fixing>> /\ Rules' = Rules
  BY RoundsStay DEF TurnInv, entryVars, Rules
<1>2. LiveOK' /\ VirtualHands' = hs /\ session' = ses /\ UNCHANGED <<rounds, recorded>>
  BY <1>1, ShownRound
<1>3. EntryInv'
  <2>1. RoundsOK'
    BY <1>1, <1>2, RoundsStay
  <2> QED BY <1>1, <1>2, <2>1, EntryParts DEF EntryInv
<1>4. SessionInv'
  BY <1>1, <1>2 DEF SessionInv
<1> QED BY <1>3, <1>4 DEF TurnInv

\* The round ends with its result.
LEMMA EndedKeeps ==
  ASSUME TurnInv, NEW r, IsResult(r), RecordRound(r), UNCHANGED <<sitting, entryVars, repairs>>,
         pressed' \in Seq(BlackjackAction), Len(pressed') <= MaxPressed
  PROVE  TurnInv'
<1>1. EntryInv /\ SessionInv /\ UNCHANGED <<slot, focus, fixing>>
  BY DEF TurnInv, entryVars
<1>2. RoundsOK' /\ LiveOK' /\ recorded' \in 0 .. sitting'.rounds /\ recorded' >= recorded /\ session' = NoSession
  BY <1>1, RecordRoundKeeps
<1>3. fixing' \in 0 .. recorded'
  BY <1>1, <1>2, SittingParts DEF EntryInv
<1>4. EntryInv'
  BY <1>1, <1>2, <1>3, EntryParts DEF EntryInv
<1>5. SessionInv'
  BY <1>1, <1>2, OnePhase DEF SessionInv
<1> QED BY <1>4, <1>5 DEF TurnInv

\* How the turn goes on.
LEMMA AdvanceIs ==
  ASSUME NEW ses \in InPlay, NEW Y, NEW hs \in Seq(Y)
  PROVE  /\ Advance(ses, hs) \in InPlay /\ Advance(ses, hs).stood = ses.stood
         /\ Advance(ses, hs).hand = PendingHand(hs, Rules, ses.stood)
         /\ Advance(ses, hs).phase = "player" => Advance(ses, hs).hand # 0
<1>1. PICK next : next = PendingHand(hs, Rules, ses.stood)
  OBVIOUS
<1>2. next \in Nat
  <2>1. PICK rules, stood : rules = Rules /\ stood = ses.stood
    OBVIOUS
  <2>2. PendingHand(hs, rules, stood) \in Nat
    BY PendingIs
  <2> QED BY <1>1, <2>1, <2>2
<1>3. Advance(ses, hs) = [ses EXCEPT !.phase = IF next = 0 THEN "dealer" ELSE "player", !.hand = next]
  BY <1>1 DEF Advance
<1> QED BY <1>1, <1>2, <1>3 DEF InPlay, VirtualPhase

LEMMA DealTwiceKeeps ==
  ASSUME TurnInv, DealTwice, sitting.by = "virtual", UNCHANGED <<sitting, entryVars, repairs>>,
         pressed' \in Seq(BlackjackAction), Len(pressed') <= MaxPressed
  PROVE  TurnInv'
<1>1. PICK ses : ses = IF session = NoSession THEN Opening ELSE session
  OBVIOUS
<1>2. ses \in InPlay
  <2>1. Opening \in InPlay
    BY DEF Opening, InPlay, VirtualPhase
  <2> QED BY <1>1, <2>1 DEF TurnInv, SessionInv
<1>3. PICK peek : peek = Rules.peek
  OBVIOUS
<1>4. peek \in BOOLEAN
  <2>1. sitting.rules \in BlackjackRule
    BY SittingsAssumption DEF TurnInv, EntryInv
  <2> QED BY <1>3, <2>1 DEF Rules, BlackjackRule
<1>5. PICK next : next = [ses EXCEPT !.dealRound = @ + 1, !.holeDealt = ses.dealRound = 1 /\ peek,
                                     !.phase = IF ses.dealRound = 1 THEN "insurance" ELSE "deal"]
  OBVIOUS
<1>6. PICK d, h : ShowRound(d, <<h>>, next)
  <2>1. \E d, h : ShowRound(d, <<h>>, [ses EXCEPT !.dealRound = @ + 1, !.holeDealt = ses.dealRound = 1 /\ Rules.peek,
                                     !.phase = IF ses.dealRound = 1 THEN "insurance" ELSE "deal"])
    BY <1>1, Zenon DEF DealTwice
  <2> QED BY <1>3, <1>5, <2>1
<1>7. next \in InPlay /\ next.phase \in {"deal", "insurance"}
  <2>1. PICK hole, n, phase : /\ hole = (ses.dealRound = 1 /\ peek) /\ n = ses.dealRound + 1
                              /\ phase = IF ses.dealRound = 1 THEN "insurance" ELSE "deal"
    OBVIOUS
  <2>2. hole \in BOOLEAN
    BY <2>1, Zenon
  <2>3. n \in Nat /\ phase \in {"deal", "insurance"}
    BY <1>2, <2>1 DEF InPlay
  <2>4. next = [ses EXCEPT !.dealRound = n, !.holeDealt = hole, !.phase = phase]
    BY <1>5, <2>1, Zenon
  <2> QED BY <1>2, <2>2, <2>3, <2>4 DEF InPlay, VirtualPhase
<1>8. PICK hs : hs = <<h>>
  OBVIOUS
<1>9. hs \in Seq({h}) /\ ShowRound(d, hs, next)
  BY <1>6, <1>8
<1> QED BY <1>7, <1>9, ShownKeeps

LEMMA PeekAtHoleKeeps ==
  ASSUME TurnInv, PeekAtHole, sitting.by = "virtual", UNCHANGED <<sitting, entryVars, repairs>>,
         pressed' \in Seq(BlackjackAction), Len(pressed') <= MaxPressed
  PROVE  TurnInv'
<1>1. session \in InPlay /\ \E S : VirtualHands \in Seq(S)
  BY OnePhase DEF PeekAtHole, TurnInv, SessionInv
<1>2. CASE \E r : IsResult(r) /\ RecordRound(r)
  BY <1>2, EndedKeeps
<1>3. CASE ShowRound(liveInput.dealer, VirtualHands, Advance(session, VirtualHands))
  <2>1. PICK Y : VirtualHands \in Seq(Y)
    BY <1>1
  <2>2. PICK hs, ses, next, d : hs = VirtualHands /\ ses = session /\ next = Advance(ses, hs) /\ d = liveInput.dealer
    OBVIOUS
  <2>3. hs \in Seq(Y) /\ ses \in InPlay /\ ShowRound(d, hs, next)
    BY <1>1, <1>3, <2>1, <2>2
  <2>4. /\ next \in InPlay /\ next.stood = ses.stood /\ next.hand = PendingHand(hs, Rules, ses.stood)
        /\ next.phase = "player" => next.hand # 0
    BY <2>2, <2>3, AdvanceIs
  <2> QED BY <2>3, <2>4, ShownKeeps
<1>4. \/ \E r : IsResult(r) /\ RecordRound(r)
      \/ ShowRound(liveInput.dealer, VirtualHands, Advance(session, VirtualHands))
  <2>1. PICK r : r = ResultOfLive(liveInput, "full")
    OBVIOUS
  <2>2. IsResult(r)
    BY <2>1, Results
  <2>3. \/ RecordRound(r)
        \/ ShowRound(liveInput.dealer, VirtualHands, Advance(session, VirtualHands))
    BY <2>1 DEF PeekAtHole
  <2> QED BY <2>2, <2>3
<1> QED BY <1>2, <1>3, <1>4

LEMMA PlayDealerKeeps ==
  ASSUME TurnInv, PlayDealer, UNCHANGED <<sitting, entryVars, repairs>>,
         pressed' \in Seq(BlackjackAction), Len(pressed') <= MaxPressed
  PROVE  TurnInv'
<1>1. PICK r : IsResult(r) /\ RecordRound(r)
  <2>1. PICK l : \E result \in {ResultOfLive(l, "full")} : RecordRound(result)
    BY Zenon DEF PlayDealer
  <2> QED BY <2>1, Results
<1> QED BY <1>1, EndedKeeps

\* What changes one hand only, and may add one.
Changes(g, hs, i) ==
  /\ \E Z : g \in Seq(Z)
  /\ DOMAIN hs \subseteq DOMAIN g /\ Len(g) <= Len(hs) + 1
  /\ \A j \in DOMAIN hs \ {i} : g[j] = hs[j]

LEMMA OneChanged ==
  ASSUME NEW Y, NEW hs \in Seq(Y), NEW i \in DOMAIN hs, NEW x, NEW g, g = [hs EXCEPT ![i] = x]
  PROVE  Changes(g, hs, i) /\ g \in Seq(Y \cup {x}) /\ Len(g) = Len(hs) /\ DOMAIN g = DOMAIN hs /\ g[i] = x
<1>1. PICK n : n = Len(hs)
  OBVIOUS
<1>2. n \in Nat /\ DOMAIN hs = 1 .. n /\ \A j \in 1 .. n : hs[j] \in Y
  BY <1>1
<1>3. g \in [1 .. n -> Y \cup {x}] /\ DOMAIN g = 1 .. n /\ g[i] = x /\ \A j \in 1 .. n : j # i => g[j] = hs[j]
  BY <1>2
<1>4. g \in Seq(Y \cup {x}) /\ Len(g) = n
  BY <1>2, <1>3
<1>5. n <= n + 1
  BY <1>2
<1> QED BY <1>1, <1>2, <1>3, <1>4, <1>5 DEF Changes

LEMMA OneAdded ==
  ASSUME NEW Y, NEW hs \in Seq(Y), NEW i \in DOMAIN hs, NEW x, NEW g, g = [hs EXCEPT ![i] = x], NEW y
  PROVE  Changes(Append(g, y), hs, i)
<1>1. PICK Z : Z = Y \cup {x, y}
  OBVIOUS
<1>2. g \in Seq(Z) /\ y \in Z /\ Len(g) = Len(hs) /\ DOMAIN g = DOMAIN hs /\ \A j \in DOMAIN hs \ {i} : g[j] = hs[j]
  BY <1>1, OneChanged DEF Changes
<1>3. PICK n : n = Len(g)
  OBVIOUS
<1>4. PICK a : a = Append(g, y)
  OBVIOUS
<1>5. a \in Seq(Z) /\ Len(a) = n + 1 /\ DOMAIN g = 1 .. n /\ DOMAIN a = 1 .. n + 1 /\ n \in Nat /\ \A j \in 1 .. n : a[j] = g[j]
  BY <1>2, <1>3, <1>4, OneMore
<1>6. DOMAIN g \subseteq DOMAIN a
  BY <1>5
<1>7. Len(a) <= Len(hs) + 1 /\ \A j \in DOMAIN hs \ {i} : a[j] = hs[j]
  BY <1>2, <1>3, <1>5
<1> QED BY <1>2, <1>4, <1>5, <1>6, <1>7 DEF Changes

LEMMA ActedChanges ==
  ASSUME NEW Y, NEW hs \in Seq(Y), NEW i \in DOMAIN hs, NEW a, NEW c, NEW d
  PROVE  Changes(Acted(hs, i, a, c, d), hs, i)
<1> DEFINE g == Acted(hs, i, a, c, d)
<1>0. Changes(hs, hs, i)
  <2>1. Len(hs) \in Nat
    OBVIOUS
  <2> QED BY <2>1 DEF Changes
<1>1. CASE a = "hit"
  <2>1. PICK x : x = [hs[i] EXCEPT !.cards = Append(@, c)]
    OBVIOUS
  <2>2. g = [hs EXCEPT ![i] = x]
    BY <1>1, <2>1 DEF Acted
  <2> QED BY <2>2, OneChanged
<1>2. CASE a = "double"
  <2>1. PICK x : x = [hs[i] EXCEPT !.cards = Append(@, c), !.doubled = TRUE]
    OBVIOUS
  <2>2. g = [hs EXCEPT ![i] = x]
    BY <1>2, <2>1 DEF Acted
  <2> QED BY <2>2, OneChanged
<1>3. CASE a = "surrender"
  <2>1. PICK x : x = [hs[i] EXCEPT !.surrendered = TRUE, !.outcome = "surrender"]
    OBVIOUS
  <2>2. g = [hs EXCEPT ![i] = x]
    BY <1>3, <2>1 DEF Acted
  <2> QED BY <2>2, OneChanged
<1>4. CASE a = "split"
  <2>1. PICK x, y : /\ x = [hs[i] EXCEPT !.cards = <<hs[i].cards[1], c>>, !.fromSplit = TRUE]
                    /\ y = [EmptyHand EXCEPT !.cards = <<hs[i].cards[2], d>>, !.fromSplit = TRUE]
    OBVIOUS
  <2>2. PICK f : f = [hs EXCEPT ![i] = x]
    OBVIOUS
  <2>3. g = hs \/ g = Append(f, y)
    BY <1>4, <2>1, <2>2 DEF Acted
  <2>4. Changes(Append(f, y), hs, i)
    BY <2>2, OneAdded
  <2> QED BY <1>0, <2>3, <2>4
<1>5. CASE a \notin {"hit", "double", "surrender", "split"}
  BY <1>0, <1>5 DEF Acted
<1> QED BY <1>1, <1>2, <1>3, <1>4, <1>5

LEMMA MarkedChanges ==
  ASSUME NEW hs, NEW i \in DOMAIN hs, NEW acted, Changes(acted, hs, i),
         NEW after, NEW o, after = [acted EXCEPT ![i].outcome = o]
  PROVE  Changes(after, hs, i)
<1>1. PICK Z : acted \in Seq(Z)
  BY DEF Changes
<1>2. PICK x : x = [acted[i] EXCEPT !.outcome = o]
  OBVIOUS
<1>3. i \in DOMAIN acted /\ after = [acted EXCEPT ![i] = x]
  BY <1>2 DEF Changes
<1>4. Changes(after, acted, i) /\ Len(after) = Len(acted) /\ DOMAIN after = DOMAIN acted
  <2>1. Changes(after, acted, i)
    BY <1>1, <1>3, OneChanged
  <2>2. Len(after) = Len(acted)
    BY <1>1, <1>3, OneChanged
  <2>3. DOMAIN after = DOMAIN acted
    BY <1>1, <1>3
  <2> QED BY <2>1, <2>2, <2>3
<1> QED BY <1>4 DEF Changes

\* The turn in the player phase is that of a hand which is not complete, after complete ones.
LEMMA TurnOf ==
  ASSUME TurnInv, session.phase = "player"
  PROVE  /\ session \in InPlay /\ sitting.by = "virtual" /\ \E Y : VirtualHands \in Seq(Y)
         /\ session.hand \in DOMAIN VirtualHands /\ session.hand \in Nat
         /\ ~HandComplete(VirtualHands[session.hand], session.hand, Rules, session.stood)
         /\ \A j \in DOMAIN VirtualHands : j < session.hand => HandComplete(VirtualHands[j], j, Rules, session.stood)
<1>1. session # NoSession
  BY OnePhase
<1>2. session \in InPlay /\ sitting.by = "virtual" /\ session.hand # 0
      /\ session.hand = PendingHand(VirtualHands, Rules, session.stood)
  BY <1>1 DEF TurnInv, SessionInv
<1>3. PICK Y : VirtualHands \in Seq(Y)
  BY <1>1 DEF TurnInv, SessionInv
<1>4. PICK hs, rules, stood, i : hs = VirtualHands /\ rules = Rules /\ stood = session.stood /\ i = session.hand
  OBVIOUS
<1>5. hs \in Seq(Y) /\ i = PendingHand(hs, rules, stood)
  BY <1>2, <1>3, <1>4
<1>6. /\ i \in {0} \cup DOMAIN hs /\ i \in Nat
      /\ i # 0 => ~HandComplete(hs[i], i, rules, stood) /\ \A j \in DOMAIN hs : j < i => HandComplete(hs[j], j, rules, stood)
  BY <1>5, PendingIs
<1> QED BY <1>2, <1>3, <1>4, <1>6

LEMMA PlayHandKeeps ==
  ASSUME TurnInv, NEW asked, PlayHand(asked), UNCHANGED <<sitting, entryVars, repairs>>,
         pressed' \in Seq(BlackjackAction), Len(pressed') <= MaxPressed
  PROVE  TurnInv' /\ OneTurn
<1>1. session.phase = "player"
  BY DEF PlayHand
<1>2. PICK hs, i, stood, dealer : hs = VirtualHands /\ i = session.hand /\ stood = session.stood /\ dealer = liveInput.dealer
  OBVIOUS
<1>3. PICK Y : hs \in Seq(Y)
  BY <1>1, <1>2, TurnOf
<1>4. /\ session \in InPlay /\ sitting.by = "virtual" /\ i \in DOMAIN hs /\ i \in Nat /\ stood \in SUBSET Nat
      /\ ~HandComplete(hs[i], i, Rules, stood) /\ \A j \in DOMAIN hs : j < i => HandComplete(hs[j], j, Rules, stood)
  BY <1>1, <1>2, TurnOf DEF InPlay
<1>5. PICK c, d, a, acted, bust, after, done, ses :
        /\ acted = Acted(hs, i, a, c, d)
        /\ after = IF bust THEN [acted EXCEPT ![i].outcome = "bust"] ELSE acted
        /\ ses = [session EXCEPT !.stood = IF done THEN StoodHand(@, i, acted) ELSE @]
        /\ ShowRound(dealer, after, Advance(ses, after))
  <2>1. PICK c \in sitting.cards, d \in sitting.cards :
          LET k == session.hand
              low == ValueOf(VirtualHands[k], Rules).total <= 11
              a == CASE asked # Timeout -> asked
                     [] asked = Timeout -> IF Rules.autoHitLow /\ low THEN "hit" ELSE "stand"
              acted == Acted(VirtualHands, k, a, c, d)
              bust == ValueOf(acted[k], Rules).bust
              after == IF bust THEN [acted EXCEPT ![k].outcome = "bust"] ELSE acted
              done == bust \/ a \in {"stand", "double", "surrender"}
              ses == [session EXCEPT !.stood = IF done THEN StoodHand(@, k, acted) ELSE @]
          IN ShowRound(liveInput.dealer, after, Advance(ses, after))
    BY DEF PlayHand
  <2>2. PICK a : a = CASE asked # Timeout -> asked
                       [] asked = Timeout -> IF Rules.autoHitLow /\ ValueOf(hs[i], Rules).total <= 11 THEN "hit" ELSE "stand"
    OBVIOUS
  <2>3. PICK acted : acted = Acted(hs, i, a, c, d)
    OBVIOUS
  <2>4. PICK bust : bust = ValueOf(acted[i], Rules).bust
    OBVIOUS
  <2>5. PICK after, done : /\ after = IF bust THEN [acted EXCEPT ![i].outcome = "bust"] ELSE acted
                           /\ done = (bust \/ a \in {"stand", "double", "surrender"})
    OBVIOUS
  <2>6. PICK ses : ses = [session EXCEPT !.stood = IF done THEN StoodHand(@, i, acted) ELSE @]
    OBVIOUS
  <2> QED BY <1>2, <2>1, <2>2, <2>3, <2>4, <2>5, <2>6
<1>6. Changes(acted, hs, i)
  BY <1>3, <1>4, <1>5, ActedChanges
<1>7. Changes(after, hs, i)
  <2>1. CASE ~bust
    BY <1>5, <1>6, <2>1
  <2>2. CASE bust
    <3>1. after = [acted EXCEPT ![i].outcome = "bust"]
      BY <1>5, <2>2
    <3> QED BY <1>4, <1>6, <3>1, MarkedChanges
  <2> QED BY <2>1, <2>2
<1>8. ses \in InPlay /\ ses.stood \in {stood, stood \cup {i}}
  <2>1. CASE done
    <3>1. PICK t : t = stood \cup {i}
      OBVIOUS
    <3>2. t \in SUBSET Nat /\ ses = [session EXCEPT !.stood = t]
      BY <1>2, <1>4, <1>5, <2>1, <3>1 DEF StoodHand
    <3> QED BY <1>4, <3>1, <3>2 DEF InPlay
  <2>2. CASE ~done
    <3>1. ses = session
      BY <1>4, <1>5, <2>2 DEF InPlay
    <3> QED BY <1>2, <1>4, <3>1
  <2> QED BY <2>1, <2>2
<1>9. PICK Z : after \in Seq(Z)
  BY <1>7 DEF Changes
<1>10. PICK next : next = Advance(ses, after)
  OBVIOUS
<1>11. /\ next \in InPlay /\ next.stood = ses.stood /\ next.hand = PendingHand(after, Rules, ses.stood)
       /\ next.phase = "player" => next.hand # 0
  BY <1>8, <1>9, <1>10, AdvanceIs
<1>12. ShowRound(dealer, after, next)
  BY <1>5, <1>10
<1>13. TurnInv'
  BY <1>4, <1>9, <1>11, <1>12, ShownKeeps
<1>14. VirtualHands' = after /\ session' = next
  BY <1>12, ShownRound, RoundsStay DEF TurnInv
<1>15. next.phase = "player" => next.hand >= i
  <2> SUFFICES ASSUME next.phase = "player" PROVE next.hand >= i
    OBVIOUS
  <2>1. PICK p, rules, more : p = next.hand /\ rules = Rules /\ more = ses.stood
    OBVIOUS
  <2>2. p = PendingHand(after, rules, more) /\ p # 0
    BY <1>11, <2>1
  <2>3. p \in DOMAIN after /\ p \in Nat /\ ~HandComplete(after[p], p, rules, more)
    BY <1>9, <2>2, PendingIs
  <2>4. SUFFICES ASSUME p < i PROVE FALSE
    BY <1>4, <2>1, <2>3
  <2>5. p \in DOMAIN hs
    <3>1. PICK n, m : n = Len(hs) /\ m = Len(after)
      OBVIOUS
    <3>2. DOMAIN hs = 1 .. n /\ DOMAIN after = 1 .. m /\ n \in Nat /\ m \in Nat
      BY <1>3, <1>9, <3>1
    <3> QED BY <1>4, <2>3, <2>4, <3>2
  <2>6. after[p] = hs[p] /\ HandComplete(hs[p], p, rules, stood)
    BY <1>4, <1>7, <2>1, <2>3, <2>4, <2>5 DEF Changes
  <2>7. stood \subseteq more
    BY <1>8, <2>1
  <2>8. HandComplete(hs[p], p, rules, more)
    BY <2>6, <2>7, CompleteStays
  <2> QED BY <2>3, <2>6, <2>8
<1>16. next.stood \ stood \subseteq {i}
  BY <1>8, <1>11
<1>17. OneTurn
  BY <1>2, <1>4, <1>7, <1>14, <1>15, <1>16 DEF OneTurn, Changes
<1> QED BY <1>13, <1>17

-----------------------------------------------------------------------------
(* Every step *)

\* No step but that of a hand's player, and the tap for an action, is made in the player phase.
LEMMA StepKeeps ==
  ASSUME TurnInv, NEW asked, BlackjackStep(asked), sitting.by = "virtual", UNCHANGED <<sitting, entryVars, repairs>>,
         pressed' \in Seq(BlackjackAction), Len(pressed') <= MaxPressed
  PROVE  TurnInv' /\ OneTurn
<1>1. CASE DealTwice
  <2>1. session.phase # "player"
    BY <1>1, OnePhase DEF DealTwice
  <2> QED BY <1>1, <2>1, DealTwiceKeeps DEF OneTurn
<1>2. CASE PeekAtHole
  BY <1>2, PeekAtHoleKeeps DEF OneTurn, PeekAtHole
<1>3. CASE PlayHand(asked)
  BY <1>3, PlayHandKeeps
<1>4. CASE PlayDealer
  BY <1>4, PlayDealerKeeps DEF OneTurn, PlayDealer
<1> QED BY <1>1, <1>2, <1>3, <1>4 DEF BlackjackStep

\* While the session and the hands stay, the turn does.
LEMMA TurnStays ==
  ASSUME TurnInv, UNCHANGED <<sitting, session>>, liveInput' = liveInput
  PROVE  OneTurn
<1> SUFFICES ASSUME session.phase = "player"
             PROVE  OneTurn
  BY DEF OneTurn
<1>1. UNCHANGED <<VirtualHands, session>>
  BY DEF VirtualHands, HandsOf
<1>2. PICK Y : VirtualHands \in Seq(Y)
  BY TurnOf
<1>3. Len(VirtualHands) \in Nat
  BY <1>2
<1> QED BY <1>1, <1>3, TurnOf DEF OneTurn

LEMMA TriggerKeeps ==
  ASSUME TurnInv, TriggerStep
  PROVE  TurnInv' /\ OneTurn
<1>1. BlackjackStep(Timeout) /\ sitting.by = "virtual" /\ UNCHANGED <<sitting, entryVars, repairs>> /\ pressed' = pressed
  BY DEF TriggerStep
<1>2. pressed' \in Seq(BlackjackAction) /\ Len(pressed') <= MaxPressed
  BY <1>1 DEF TurnInv, EntryInv
<1> QED BY <1>1, <1>2, StepKeeps

LEMMA PressActionKeeps ==
  ASSUME TurnInv, NEW a \in BlackjackAction, PressAction(a)
  PROVE  TurnInv' /\ OneTurn
<1>1. EntryInv /\ SessionInv /\ Len(pressed) < MaxPressed /\ pressed' = Append(pressed, a)
      /\ UNCHANGED <<sitting, rounds, liveInput, session, entryVars, recorded, repairs>>
  BY DEF TurnInv, PressAction
<1>2. pressed' \in Seq(BlackjackAction) /\ Len(pressed') <= MaxPressed
  <2>1. PICK q : q = pressed
    OBVIOUS
  <2>2. q \in Seq(BlackjackAction) /\ Len(q) < MaxPressed
    BY <1>1, <2>1 DEF EntryInv
  <2>3. Append(q, a) \in Seq(BlackjackAction) /\ Len(Append(q, a)) = Len(q) + 1 /\ Len(q) \in Nat
    BY <2>2, OneMore
  <2>4. PICK n, m : n = Len(q) /\ m = Len(Append(q, a))
    OBVIOUS
  <2>5. m <= MaxPressed
    BY <2>2, <2>3, <2>4, PressedAssumption
  <2> QED BY <1>1, <2>1, <2>3, <2>4, <2>5
<1>3. EntryInv'
  BY <1>1, <1>2 DEF EntryInv, entryVars
<1>4. SessionInv'
  BY <1>1 DEF SessionInv, VirtualHands, HandsOf, Rules, entryVars
<1> QED BY <1>1, <1>3, <1>4, TurnStays DEF TurnInv

LEMMA HandleActionKeeps ==
  ASSUME TurnInv, HandleAction
  PROVE  TurnInv' /\ OneTurn
<1>1. EntryInv /\ SessionInv /\ pressed # <<>> /\ pressed' = Tail(pressed) /\ UNCHANGED <<sitting, entryVars, repairs>>
  BY DEF TurnInv, HandleAction
<1>2. pressed' \in Seq(BlackjackAction) /\ Len(pressed') <= MaxPressed
  <2>1. PICK q : q = pressed
    OBVIOUS
  <2>2. q \in Seq(BlackjackAction) /\ Len(q) <= MaxPressed /\ q # <<>>
    BY <1>1, <2>1 DEF EntryInv
  <2>3. Tail(q) \in Seq(BlackjackAction) /\ Len(Tail(q)) = Len(q) - 1 /\ Len(q) \in Nat
    BY <2>2
  <2>4. PICK n, m : n = Len(q) /\ m = Len(Tail(q))
    OBVIOUS
  <2>5. m <= MaxPressed
    BY <2>2, <2>3, <2>4, PressedAssumption
  <2> QED BY <1>1, <2>1, <2>3, <2>4, <2>5
<1>3. CASE session # NoSession /\ BlackjackStep(Head(pressed))
  <2>1. sitting.by = "virtual"
    BY <1>1, <1>3 DEF SessionInv
  <2>2. PICK asked : BlackjackStep(asked)
    BY <1>3
  <2> QED BY <1>1, <1>2, <2>1, <2>2, StepKeeps
<1>4. CASE UNCHANGED <<rounds, liveInput, session, recorded>>
  <2>1. EntryInv'
    BY <1>1, <1>2, <1>4 DEF EntryInv, entryVars
  <2>2. SessionInv'
    BY <1>1, <1>4 DEF SessionInv, VirtualHands, HandsOf, Rules, entryVars
  <2> QED BY <1>1, <1>4, <2>1, <2>2, TurnStays DEF TurnInv
<1> QED BY <1>3, <1>4 DEF HandleAction

\* The steps of the dealer are made without a session, and one that ends it begins no turn.
LEMMA DealerTurn ==
  ASSUME TurnInv, sitting.by # "virtual" \/ AtTable \/ slot # NoTarget \/ session' = NoSession
  PROVE  OneTurn
<1>1. session = NoSession \/ session' = NoSession
  BY AtTableIdle
<1>2. NoSession.phase = "none"
  BY OnePhase
<1> QED BY <1>1, <1>2 DEF OneTurn

LEMMA TurnKeeps ==
  ASSUME TurnInv, BlackjackNext
  PROVE  TurnInv' /\ OneTurn
<1>1. CASE (\E s \in sitting.seats : SelectTab(s)) \/ CloseSlot
  BY <1>1, TabsKeep, DealerTurn DEF SelectTab, CloseSlot, Entering
<1>2. CASE \E t \in DrawnSlots : TapSlot(t)
  BY <1>2, TapSlotKeeps, DealerTurn DEF TapSlot, Entering
<1>3. CASE RemoveFrom
  BY <1>3, RemoveFromKeeps, DealerTurn DEF RemoveFrom
<1>4. CASE UndoLast
  <2>1. slot # NoTarget
    BY <1>4 DEF UndoLast
  <2> QED BY <1>4, <2>1, UndoLastKeeps, DealerTurn
<1>5. CASE \E c \in sitting.cards : CommitTo(c)
  BY <1>5, CommitToKeeps, DealerTurn DEF CommitTo
<1>6. CASE (\E o \in sitting.chips : SetOutcome(o)) \/ AddHand \/ SplitHand \/ DoubleHand \/ SurrenderHand
  BY <1>6, ButtonsKeep, DealerTurn DEF SetOutcome, AddHand, SplitHand, DoubleHand, SurrenderHand, InOutcomes, InFull, Entering
<1>7. CASE SitOut \/ RecordAnyway
  BY <1>7, SitOutKeeps, DealerTurn DEF SitOut, RecordAnyway, Entering
<1>8. CASE \E t \in sitting.totals, natural \in BOOLEAN : QuickDealer(t, natural)
  BY <1>8, QuickDealerKeeps, DealerTurn DEF QuickDealer
<1>9. CASE ConfirmRound
  BY <1>9, ConfirmRoundKeeps, DealerTurn DEF ConfirmRound
<1>10. CASE \E i \in DOMAIN rounds : TakeBackRound(i) \/ FixRound(i)
  BY <1>10, HistoryKeeps, DealerTurn DEF TakeBackRound, FixRound
<1>11. CASE ShuffleUp
  BY <1>11, ShuffleUpKeeps, DealerTurn DEF ShuffleUp
<1>12. CASE TriggerStep
  BY <1>12, TriggerKeeps
<1>13. CASE HandleAction
  BY <1>13, HandleActionKeeps
<1>14. CASE \E a \in BlackjackAction : PressAction(a)
  BY <1>14, PressActionKeeps
<1> QED BY <1>1, <1>2, <1>3, <1>4, <1>5, <1>6, <1>7, <1>8, <1>9, <1>10, <1>11, <1>12, <1>13, <1>14 DEF BlackjackNext

LEMMA TurnStarts == BlackjackInit => TurnInv
<1> SUFFICES ASSUME BlackjackInit PROVE TurnInv
  OBVIOUS
<1>1. sitting \in Sittings /\ sitting.rounds \in Nat /\ sitting.repairs \in Nat
      /\ sitting.seats \subseteq Nat /\ sitting.seats # {}
  BY SittingParts DEF BlackjackInit, Tables
<1>2. focus \in sitting.seats
  <2>1. PICK S : S = sitting.seats
    OBVIOUS
  <2>2. Min(S) \in S
    BY <1>1, <2>1, MinInSet
  <2> QED BY <2>1, <2>2 DEF BlackjackInit
<1>3. /\ rounds = <<>> /\ liveInput = NothingLive /\ session = NoSession /\ slot = NoTarget
      /\ fixing = 0 /\ pressed = <<>> /\ recorded = 0 /\ repairs = 0
  BY DEF BlackjackInit
<1>4. pressed \in Seq(BlackjackAction) /\ Len(pressed) <= MaxPressed
  BY <1>3, PressedAssumption
<1>5. rounds \in Seq({}) /\ DOMAIN rounds = {}
  BY <1>3
<1>6. EntryInv
  <2>1. DOMAIN liveInput = LiveFields /\ DOMAIN liveInput.seats \subseteq Tables /\ liveInput.override \in BOOLEAN
    BY <1>3, NothingIsLive
  <2>2. slot.seat \in {0} \cup Tables /\ fixing \in 0 .. recorded
    BY <1>3, SlotSeats
  <2>3. recorded \in 0 .. sitting.rounds /\ repairs \in 0 .. sitting.repairs
    BY <1>1, <1>3
  <2> QED BY <1>1, <1>2, <1>4, <1>5, <2>1, <2>2, <2>3 DEF EntryInv
<1>7. SessionInv
  BY <1>3, OnePhase DEF SessionInv
<1> QED BY <1>6, <1>7 DEF TurnInv

LEMMA TurnGoesOn ==
  ASSUME TurnInv, [BlackjackNext]_bjVars
  PROVE  TurnInv' /\ [OneTurn]_bjVars
<1>1. CASE UNCHANGED bjVars
  <2>1. EntryInv' /\ SessionInv'
    BY <1>1 DEF TurnInv, EntryInv, SessionInv, bjVars, entryVars, VirtualHands, HandsOf, Rules
  <2> QED BY <1>1, <2>1 DEF TurnInv
<1> QED BY <1>1, TurnKeeps

LEMMA TurnTyped == TurnInv => BlackjackTypeOK
<1> SUFFICES ASSUME TurnInv PROVE BlackjackTypeOK
  OBVIOUS
<1>1. EntryInv /\ SessionInv
  BY DEF TurnInv
<1>2. session.phase \in {"none", "deal", "insurance", "player", "dealer"}
  BY <1>1, OnePhase DEF SessionInv, VirtualPhase
<1>3. session.phase = "player" => session.hand \in DOMAIN VirtualHands
  BY TurnOf
<1>4. ToSet(pressed) \subseteq BlackjackAction
  BY <1>1 DEF EntryInv, ToSet
<1> QED BY <1>1, <1>2, <1>3, <1>4 DEF BlackjackTypeOK, EntryInv

\* Every blackjack round, history, picker and session stays what it should be (reducer, DealerView).
THEOREM BlackjackTyped == BlackjackSpec => []BlackjackTypeOK
<1>1. BlackjackInit => TurnInv
  BY TurnStarts
<1>2. TurnInv /\ [BlackjackNext]_bjVars => TurnInv'
  BY TurnGoesOn
<1>3. TurnInv => BlackjackTypeOK
  BY TurnTyped
<1> QED BY <1>1, <1>2, <1>3, PTL DEF BlackjackSpec

\* The turns of the player phase, at every table and however late an action arrives: only a hand
\* that is not complete is played, the others stay, and the turn never goes back (advancePlayerTurn,
\* findPendingTurn, handleAction).
THEOREM TurnsAlwaysInOrder == CardsSpec => TurnsInOrder
<1>1. CardsInit => TurnInv
  BY TurnStarts DEF CardsInit
<1>2. TurnInv /\ [CardsNext]_cardVars => TurnInv' /\ [OneTurn]_bjVars
  <2>1. [CardsNext]_cardVars => [BlackjackNext]_bjVars
    BY DEF CardsNext, cardVars
  <2> QED BY <2>1, TurnGoesOn
<1> QED BY <1>1, <1>2, PTL DEF CardsSpec, TurnsInOrder

=============================================================================
