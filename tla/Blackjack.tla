------------------------------- MODULE Blackjack -------------------------------
(***************************************************************************)
(* The blackjack module: hand values, the dealer's play and its check, the *)
(* round that a dealer enters card by card or by outcomes, the corrections *)
(* of the history, the virtual round with the phones' actions, settlement, *)
(* statistics and text exchange.                                           *)
(*                                                                         *)
(* A card is a rank (1 is the ace, 11 to 13 the faces) and a suit, "" when *)
(* it was not entered.  The hands of a seat and the cards of a hand are    *)
(* sequences; liveInput is the reducer's, which keeps the dealer's cards   *)
(* and the seats when an entry comes without any.                          *)
(***************************************************************************)
EXTENDS Integers, Sequences, FiniteSets, SequencesExt, FiniteSetsExt, Functions, Lists

CONSTANTS
  Sittings,     \* what is played, by which rules, and how often
  DecksOfCards, \* cards in the shoe: decks * 52
  MaxPressed    \* bound: actions of the phone that are on their way

Tables == 1 .. 7                                \* seats of the table
Card == [rank : 1 .. 13, suit : {"S", "H", "D", "C", ""}]
HandOutcome == {"win", "lose", "push", "blackjack", "bust", "surrender"}
NotYet == "null"                                \* the outcome of a hand in play
BlackjackAction == {"hit", "stand", "double", "split", "surrender"}
Timeout == "timeout"
BlackjackRule ==
  [soft17 : {"stand", "hit"}, payout : {"3:2", "6:5", "2:1"}, peek : BOOLEAN, doubleAfterSplit : BOOLEAN,
   maxSplits : 1 .. 3, splitAcesOneCard : BOOLEAN, resplitAces : BOOLEAN, blackjackAfterSplit : BOOLEAN,
   surrender : BOOLEAN, autoHitLow : BOOLEAN, sideBets : BOOLEAN]

ASSUME SittingsAssumption ==
  Sittings \subseteq [by : {"dealer", "virtual"}, depth : {"outcomes", "full"}, cards : SUBSET Card,
                      seats : (SUBSET Tables) \ {{}}, chips : SUBSET HandOutcome, totals : SUBSET (17 .. 22),
                      rules : BlackjackRule, most : Nat, rounds : Nat, repairs : Nat]
ASSUME ShoeSizeAssumption == DecksOfCards \in Nat
ASSUME PressedAssumption == MaxPressed \in Nat

VARIABLES
  sitting,     \* bound: the member of Sittings that is explored; no hand gets more than `most` cards
  rounds,      \* rounds of the shoe, each a result with its id
  liveInput,   \* dealer, seats, override
  session,     \* VirtualSession, or NoSession
  slot,        \* pickerTarget, or NoTarget
  focus,       \* activeSeat
  fixing,      \* id of the round under edit, or 0
  pressed,     \* actions of the phone that the service has not handled
  recorded,    \* rounds recorded so far; the last id
  repairs      \* corrections so far

entryVars == <<slot, focus, fixing>>
bjVars == <<sitting, rounds, liveInput, session, entryVars, pressed, recorded, repairs>>

Rules == sitting.rules

-----------------------------------------------------------------------------
(* Hands *)

EmptyHand == [cards |-> <<>>, doubled |-> FALSE, fromSplit |-> FALSE, surrendered |-> FALSE, outcome |-> NotYet]
RankPoints(r) == IF r = 1 THEN 11 ELSE IF r > 10 THEN 10 ELSE r

\* Faulty variant: at most one ace counts as one.
LoweredOnce(high, aces) == IF high > 21 /\ aces > 0 THEN 1 ELSE 0

\* How many of the aces count as one.
Lowered(high, aces) == Min({aces} \cup {k \in 0 .. aces : high - 10 * k <= 21})

\* handValue
HandValue(cards, fromSplit, afterSplit) ==
  LET high == Added([i \in DOMAIN cards |-> RankPoints(cards[i].rank)])
      aces == Added([i \in DOMAIN cards |-> IF cards[i].rank = 1 THEN 1 ELSE 0])
      total == high - 10 * Lowered(high, aces)
  IN [total |-> total, soft |-> aces > Lowered(high, aces), bust |-> total > 21,
      blackjack |-> Len(cards) = 2 /\ total = 21 /\ (~fromSplit \/ afterSplit)]

DealerHandValue(cards) == HandValue(cards, FALSE, FALSE)
ValueOf(hand, rules) == HandValue(hand.cards, hand.fromSplit, rules.blackjackAfterSplit)

DealerMustDraw(v, rules) == v.total < 17 \/ (v.total = 17 /\ v.soft /\ rules.soft17 = "hit")

\* validateDealerPlay: the value at which the dealer stands or goes on, of the first two cards when
\* they are a natural; illegal is whether a card was drawn that should not have been.
DealerPlay(cards, rules) ==
  LET natural == Len(cards) >= 2 /\ DealerHandValue(SubSeq(cards, 1, 2)).blackjack
      drewOn(v) == ~v.bust /\ ~DealerMustDraw(v, rules)
  IN Spread(DealerHandValue(IF natural THEN SubSeq(cards, 1, 2) ELSE cards),
            [cards |-> cards,
             illegal |-> ~natural /\ \E i \in 2 .. Len(cards) - 1 : drewOn(DealerHandValue(SubSeq(cards, 1, i)))])

\* computeDealerFromCards, without cards a total of 0 stands for null.
DealerFromCards(cards, rules) == Restrict(DealerPlay(cards, rules), {"cards", "total", "bust", "blackjack"})

\* resolveSeatOutcome
SeatOutcome(hand, dealer, rules) ==
  LET v == ValueOf(hand, rules)
  IN CASE hand.surrendered -> "surrender"
       [] ~hand.surrendered /\ hand.outcome # NotYet /\ hand.cards = <<>> -> hand.outcome
       [] OTHER ->
            CASE v.bust -> "bust"
              [] v.blackjack -> IF dealer.blackjack THEN "push" ELSE "blackjack"
              [] ~v.bust /\ ~v.blackjack /\ dealer.blackjack -> "lose"
              [] ~v.bust /\ ~dealer.blackjack /\ dealer.bust -> "win"
              [] OTHER -> IF v.total > dealer.total THEN "win"
                          ELSE IF v.total < dealer.total THEN "lose" ELSE "push"

\* resolveRoundSeats, resolveHandOutcomes
ResolveSeats(seats, dealer, rules) ==
  [s \in DOMAIN seats |->
     [i \in DOMAIN seats[s] |-> [seats[s][i] EXCEPT !.outcome = SeatOutcome(seats[s][i], dealer, rules)]]]

\* isPair: ten-valued cards are alike.
Alike(cards) == Len(cards) = 2 /\ RankPoints(cards[1].rank) = RankPoints(cards[2].rank)

\* canSplit looks at the last hand of the seat.
CanSplit(hands, rules) ==
  /\ hands # <<>> /\ Len(hands) <= rules.maxSplits
  /\ Alike(Last(hands).cards)
  /\ Last(hands).cards[1].rank = 1 /\ Len(hands) > 1 => rules.resplitAces

\* isHandComplete, for hand i of a seat whose hands `stood` have had their turn.
HandComplete(hand, i, rules, stood) ==
  LET v == ValueOf(hand, rules)
  IN \/ i \in stood \/ hand.surrendered \/ hand.outcome # NotYet
     \/ v.bust \/ v.blackjack
     \/ hand.doubled /\ Len(hand.cards) >= 3
     \/ /\ hand.fromSplit /\ rules.splitAcesOneCard
        /\ Len(hand.cards) >= 2 /\ hand.cards[1].rank = 1

\* findPendingTurn for one seat: 0 when every hand is complete.
PendingHand(hands, rules, stood) ==
  LET open == {i \in DOMAIN hands : ~HandComplete(hands[i], i, rules, stood)}
  IN IF open = {} THEN 0 ELSE Min(open)

-----------------------------------------------------------------------------
(* The live round *)

NoSeats == <<>>
NothingLive == [dealer |-> <<>>, seats |-> NoSeats, override |-> FALSE]
NoSession == [phase |-> "none"]
NoTarget == [seat |-> 0, hand |-> 0, card |-> 0]
DealerSlot(i) == [seat |-> 0, hand |-> 1, card |-> i]
SeatSlot(s, h, i) == [seat |-> s, hand |-> h, card |-> i]
HandsOf(s) == IF s \in DOMAIN liveInput.seats THEN liveInput.seats[s] ELSE <<>>
AllHands(seats) == UNION {{<<s, i>> : i \in DOMAIN seats[s]} : s \in DOMAIN seats}

\* countResolvedSeats
ResolvedSeats(seats) ==
  {s \in DOMAIN seats : \E i \in DOMAIN seats[s] : seats[s][i].outcome # NotYet \/ seats[s][i].cards # <<>>}

\* evaluateLiveInput and blackjackConfirm: when the round may be recorded.
Ready ==
  LET p == DealerPlay(liveInput.dealer, Rules)
  IN /\ Len(liveInput.dealer) >= (IF sitting.depth = "full" THEN 2 ELSE 1)
     /\ ~DealerMustDraw(p, Rules)
     /\ ResolvedSeats(liveInput.seats) # {}
     /\ p.illegal => liveInput.override

\* liveInputToResult
ResultOfLive(live, depth) ==
  LET d == DealerFromCards(live.dealer, Rules)
  IN [dealer |-> d, depth |-> depth,
      seats |-> IF depth = "full" THEN ResolveSeats(live.seats, d, Rules) ELSE live.seats,
      dealerError |-> live.override /\ DealerPlay(live.dealer, Rules).illegal]

\* normalizeResult
Normalized(r) ==
  IF r.depth # "full" \/ r.dealer.cards = <<>> THEN r
  ELSE LET d == DealerFromCards(r.dealer.cards, Rules)
       IN [r EXCEPT !.dealer = d, !.seats = ResolveSeats(@, d, Rules)]

\* parseQuickDealerToken: 22 is a bust, and a natural is told by its chip.
QuickRound(total, natural) ==
  [dealer |-> [cards |-> <<>>, total |-> total, bust |-> total > 21, blackjack |-> natural],
   depth |-> "quick", seats |-> NoSeats, dealerError |-> FALSE]

\* The reducer's LIVE_INPUT: an entry without dealer cards or without seats keeps them.
Merge(live, entry) ==
  [dealer |-> IF entry.dealer # <<>> THEN entry.dealer ELSE live.dealer,
   seats |-> IF DOMAIN entry.seats # {} THEN entry.seats ELSE live.seats,
   override |-> entry.override]

CountedCards(seats, s) ==
  IF s \in DOMAIN seats THEN FoldLeft(LAMBDA n, h : n + Len(h.cards), 0, seats[s]) ELSE 0

\* emitLive: what the dealer's device sends and everyone merges.
EmitLive(entry) == liveInput' = Merge(liveInput, entry)

PatchDealer(cards) == EmitLive([liveInput EXCEPT !.dealer = cards])
PatchSeats(seats) == EmitLive([liveInput EXCEPT !.seats = seats])
PatchHands(s, hands) == PatchSeats(Spread(liveInput.seats, [x \in {s} |-> hands]))

-----------------------------------------------------------------------------
(* The history *)

RoundOf(id, r) == Spread(Normalized(r), [id |-> id])

\* The reducer's RESULT_RECORDED, also for the step's result.
RecordRound(r) ==
  /\ recorded < sitting.rounds
  /\ recorded' = recorded + 1
  /\ rounds' = Append(rounds, RoundOf(recorded + 1, r))
  /\ liveInput' = NothingLive
  /\ session' = NoSession

\* The reducer's RESULT_EDITED: the live round stays.
EditRound(r) ==
  /\ rounds' = [i \in DOMAIN rounds |-> IF rounds[i].id = fixing THEN RoundOf(fixing, r) ELSE rounds[i]]
  /\ UNCHANGED <<liveInput, session, recorded>>

\* Outcomes counted by updateSeatStats and computeStreak.
Won == {"win", "blackjack"}
Lost == {"lose", "bust", "surrender"}
HandsOfRound(r) == AllHands(r.seats)
OutcomesIn(r, os) == Cardinality({x \in HandsOfRound(r) : r.seats[x[1]][x[2]].outcome \in os})

SeatStats(rs, s) ==
  LET count(os) == MapThenSumSet(LAMBDA i : Cardinality({x \in HandsOfRound(rs[i]) :
                                   x[1] = s /\ rs[i].seats[s][x[2]].outcome \in os}), DOMAIN rs)
  IN [hands |-> count(HandOutcome), wins |-> count(Won), losses |-> count({"lose", "surrender"}),
      pushes |-> count({"push"}), blackjacks |-> count({"blackjack"}), busts |-> count({"bust"})]

\* buildDealerStats: the histogram has totals 17 to 21, then busts.
HistogramIndex(d) == IF d.bust THEN 22 ELSE IF d.total \in 17 .. 21 THEN d.total ELSE 0
DealerStats(rs) ==
  LET count(P(_)) == Cardinality({i \in DOMAIN rs : P(rs[i].dealer)})
  IN [rounds |-> Len(rs), busts |-> count(LAMBDA d : d.bust), blackjacks |-> count(LAMBDA d : d.blackjack),
      histogram |-> [t \in 17 .. 22 |-> count(LAMBDA d : HistogramIndex(d) = t)]]

SideOf(r) == IF OutcomesIn(r, Won) > OutcomesIn(r, Lost) THEN "players" ELSE "dealer"

\* Faulty variant: a round by dealer total only breaks the streak.
StreakOverQuick(rs) ==
  IF rs = <<>> \/ Last(rs).depth = "quick" THEN [side |-> "none", length |-> 0]
  ELSE [side |-> SideOf(Last(rs)), length |-> Max({n \in DOMAIN rs : \A i \in Len(rs) - n + 1 .. Len(rs) :
                                                rs[i].depth # "quick" /\ SideOf(rs[i]) = SideOf(Last(rs))})]

\* computeStreak, from the last round back; rounds by dealer total only are passed over.
Streak(rs) ==
  FoldRight(LAMBDA r, s : CASE s.over \/ r.depth = "quick" -> s
                            [] ~s.over /\ r.depth # "quick" /\ s.length > 0 /\ SideOf(r) # s.side -> [s EXCEPT !.over = TRUE]
                            [] OTHER -> [s EXCEPT !.side = SideOf(r), !.length = @ + 1],
            rs, [side |-> "none", length |-> 0, over |-> FALSE])

\* collectCardsFromResult
CardsOnTable(dealer, seats) == Len(dealer) + MapThenSumSet(LAMBDA s : CountedCards(seats, s), DOMAIN seats)

\* buildShoeStats: cards of full rounds and of the live round, 2.7 for a hand by outcome; the
\* estimate is added only while no round is full.
CardsSeen(rs, live, depth) ==
  LET full == {i \in DOMAIN rs : rs[i].depth = "full"}
      byOutcome == {i \in DOMAIN rs : rs[i].depth = "outcomes"}
      estimateOnly == (depth = "outcomes" \/ byOutcome # {}) /\ full = {}
      estimate(seats) == (27 * Cardinality(AllHands(seats)) + 9) \div 10
      exact == MapThenSumSet(LAMBDA i : IF i \in full THEN CardsOnTable(rs[i].dealer.cards, rs[i].seats)
                                                      ELSE Len(rs[i].dealer.cards), DOMAIN rs)
      guessed == MapThenSumSet(LAMBDA i : estimate(rs[i].seats), byOutcome)
      liveExact == CASE live.dealer = <<>> -> 0
                     [] estimateOnly -> Len(live.dealer)
                     [] OTHER -> CardsOnTable(live.dealer, live.seats)
      liveGuessed == IF estimateOnly /\ live.dealer # <<>> THEN estimate(live.seats) ELSE 0
  IN Min({DecksOfCards, exact + liveExact})
       + (IF byOutcome # {} \/ estimateOnly THEN guessed + liveGuessed ELSE 0)

-----------------------------------------------------------------------------
(* Entry by the dealer *)

BlackjackInit ==
  /\ sitting \in Sittings
  /\ rounds = <<>> /\ liveInput = NothingLive /\ session = NoSession
  /\ slot = NoTarget /\ focus = Min(sitting.seats) /\ fixing = 0
  /\ pressed = <<>> /\ recorded = 0 /\ repairs = 0

AtTable == sitting.by = "dealer"
Entering == AtTable /\ (recorded < sitting.rounds \/ fixing # 0)
InFull == Entering /\ sitting.depth = "full" /\ slot = NoTarget   \* the picker covers the buttons
InOutcomes == Entering /\ sitting.depth = "outcomes" /\ slot = NoTarget
Repair == repairs < sitting.repairs /\ repairs' = repairs + 1

SelectTab(s) ==
  /\ Entering /\ slot = NoTarget /\ s # focus
  /\ focus' = s
  /\ UNCHANGED <<sitting, rounds, liveInput, session, slot, fixing, pressed, recorded, repairs>>

\* The slots that the view draws, a filled one or the next one: the dealer's, and the hands of the
\* seat in focus.
DrawnSlots ==
  {DealerSlot(i) : i \in 1 .. Len(liveInput.dealer) + 1}
    \cup (IF sitting.depth # "full" THEN {}
          ELSE UNION {LET h == HandsOf(focus)[n]
                          more == ~ValueOf(h, Rules).bust /\ ~h.surrendered
                      IN {SeatSlot(focus, n, i) : i \in 1 .. Len(h.cards) + (IF more \/ Len(h.cards) < 2 THEN 1 ELSE 0)}
                      : n \in DOMAIN HandsOf(focus)})

CardsAt(t) == IF t.seat = 0 THEN liveInput.dealer ELSE HandsOf(t.seat)[t.hand].cards

\* A tap on a filled slot is a correction.
TapSlot(t) ==
  /\ Entering /\ sitting.cards # {} /\ slot = NoTarget
  /\ t \in DrawnSlots /\ t.card <= sitting.most
  /\ slot' = t
  /\ IF t.card \in DOMAIN CardsAt(t) THEN Repair ELSE UNCHANGED repairs
  /\ UNCHANGED <<sitting, rounds, liveInput, session, focus, fixing, pressed, recorded>>

CloseSlot ==
  /\ slot # NoTarget
  /\ slot' = NoTarget
  /\ UNCHANGED <<sitting, rounds, liveInput, session, focus, fixing, pressed, recorded, repairs>>

Placed(cards, i, c) == IF i <= Len(cards) THEN [cards EXCEPT ![i] = c] ELSE Append(cards, c)

\* handleCommit
CommitTo(c) ==
  /\ slot # NoTarget /\ c \in sitting.cards
  /\ IF slot.seat = 0 THEN PatchDealer(Placed(liveInput.dealer, slot.card, c))
     ELSE PatchHands(slot.seat, [HandsOf(slot.seat) EXCEPT ![slot.hand].cards = Placed(@, slot.card, c)])
  /\ slot' = NoTarget
  /\ UNCHANGED <<sitting, rounds, session, focus, fixing, pressed, recorded, repairs>>

WithoutCard(cards, i) == IF i \in DOMAIN cards THEN RemoveAt(cards, i) ELSE cards

\* handleRemove of the picker: the only card of the dealer stays, for the merge keeps it.
RemoveFrom ==
  /\ slot # NoTarget /\ Repair
  /\ IF slot.seat = 0 THEN PatchDealer(WithoutCard(liveInput.dealer, slot.card))
     ELSE PatchHands(slot.seat, [HandsOf(slot.seat) EXCEPT ![slot.hand].cards = WithoutCard(@, slot.card)])
  /\ slot' = NoTarget
  /\ UNCHANGED <<sitting, rounds, session, focus, fixing, pressed, recorded>>

\* handleUndoLast of the picker: the dealer's last card, or else the last card of the highest
\* seat; the picker then shows the slot before the one that was emptied.
UndoLast ==
  /\ slot # NoTarget /\ Repair
  /\ LET filled == {x \in AllHands(liveInput.seats) : liveInput.seats[x[1]][x[2]].cards # <<>>}
         n == Len(liveInput.dealer)
         back(i) == IF i > 1 THEN i - 1 ELSE 1
     IN \/ /\ n > 0
           /\ PatchDealer(Front(liveInput.dealer))
           /\ slot' = DealerSlot(back(n))
        \/ \E x \in filled :
              /\ n = 0 /\ \A y \in filled : y[1] < x[1] \/ (y[1] = x[1] /\ y[2] <= x[2])
              /\ LET cards == HandsOf(x[1])[x[2]].cards
                 IN /\ PatchHands(x[1], [HandsOf(x[1]) EXCEPT ![x[2]].cards = Front(cards)])
                    /\ slot' = SeatSlot(x[1], x[2], back(Len(cards)))
  /\ UNCHANGED <<sitting, rounds, session, focus, fixing, pressed, recorded>>

\* ensureSeat
Ensured(s) == IF HandsOf(s) = <<>> THEN <<EmptyHand>> ELSE HandsOf(s)

\* What the buttons of the seat in focus do to its hands.
Press(hands) ==
  /\ PatchHands(focus, hands)
  /\ UNCHANGED <<sitting, rounds, session, entryVars, pressed, recorded, repairs>>

SetOutcome(o) == InOutcomes /\ o \in sitting.chips /\ Press([Ensured(focus) EXCEPT ![1].outcome = o])
AddHand == InFull /\ HandsOf(focus) = <<>> /\ Press(<<EmptyHand>>)

\* handleSplit of the dealer's view: the first of the two hands is not marked as split.
SplitHand ==
  /\ InFull /\ CanSplit(HandsOf(focus), Rules)
  /\ LET hands == HandsOf(focus)
         cards == Last(hands).cards
     IN Press(Append([hands EXCEPT ![Len(hands)].cards = <<cards[1]>>],
                     [EmptyHand EXCEPT !.cards = <<cards[2]>>, !.fromSplit = TRUE]))

DoubleHand ==
  /\ InFull /\ HandsOf(focus) # <<>>
  /\ Press([HandsOf(focus) EXCEPT ![Len(HandsOf(focus))].doubled = TRUE])

SurrenderHand ==
  /\ InFull /\ HandsOf(focus) # <<>>
  /\ Press([HandsOf(focus) EXCEPT ![Len(HandsOf(focus))].surrendered = TRUE,
                                  ![Len(HandsOf(focus))].outcome = "surrender"])

\* handleSitOut: the only seat in play stays in play, for the merge keeps it.
SitOut ==
  /\ Entering /\ slot = NoTarget /\ HandsOf(focus) # <<>> /\ Repair
  /\ PatchSeats(Restrict(liveInput.seats, DOMAIN liveInput.seats \ {focus}))
  /\ UNCHANGED <<sitting, rounds, session, entryVars, pressed, recorded>>

\* handleOverride
RecordAnyway ==
  /\ AtTable /\ DealerPlay(liveInput.dealer, Rules).illegal /\ ~liveInput.override
  /\ EmitLive([liveInput EXCEPT !.override = TRUE])
  /\ UNCHANGED <<sitting, rounds, session, entryVars, pressed, recorded, repairs>>

\* The view's effect on a new round: the picker opens for the up card.
NextRound == slot' = DealerSlot(1)

\* handleQuickDealer records a new round, also while another one is under edit.
QuickDealer(total, natural) ==
  /\ AtTable /\ slot = NoTarget /\ total \in sitting.totals /\ (natural => total = 21)
  /\ ResolvedSeats(liveInput.seats) = {}
  /\ RecordRound(QuickRound(total, natural))
  /\ NextRound
  /\ UNCHANGED <<sitting, focus, fixing, pressed, repairs>>

\* executeConfirm; the LIVE_INPUT that should clear the live round after an edit has the form of
\* another game and is refused.
ConfirmRound ==
  /\ AtTable /\ Ready
  /\ \E result \in {ResultOfLive(liveInput, sitting.depth)} :
       \/ fixing = 0 /\ RecordRound(result) /\ NextRound /\ UNCHANGED fixing
       \/ fixing # 0 /\ EditRound(result) /\ fixing' = 0 /\ UNCHANGED slot
  /\ UNCHANGED <<sitting, focus, pressed, repairs>>

\* The reducer's RESULT_UNDONE and RESULT_DELETED, and the start of an edit, which loads nothing.
TakeBackRound(i) ==
  /\ AtTable /\ Repair
  /\ rounds' = RemoveAt(rounds, i)
  /\ UNCHANGED <<sitting, liveInput, session, entryVars, pressed, recorded>>

FixRound(i) ==
  /\ AtTable /\ Repair
  /\ fixing' = rounds[i].id
  /\ UNCHANGED <<sitting, rounds, liveInput, session, slot, focus, pressed, recorded>>

\* SERIES_ENDED, SERIES_STARTED
ShuffleUp ==
  /\ slot = NoTarget
  /\ rounds # <<>> \/ liveInput # NothingLive
  /\ rounds' = <<>> /\ liveInput' = NothingLive /\ session' = NoSession
  /\ UNCHANGED <<sitting, entryVars, pressed, recorded, repairs>>

-----------------------------------------------------------------------------
(* The virtual round.  Its pace and who interrupts it are VirtualDealer's. *)

VirtualSeat == 1   \* the only seat that is dealt to
VirtualHands == HandsOf(VirtualSeat)
Opening == [phase |-> "deal", hand |-> 0, dealRound |-> 0, holeDealt |-> FALSE, stood |-> {}]

\* advancePlayerTurn
Advance(ses, hands) ==
  LET next == PendingHand(hands, Rules, ses.stood)
  IN [ses EXCEPT !.phase = IF next = 0 THEN "dealer" ELSE "player", !.hand = next]

\* pushLive and the reducer.
ShowRound(dealer, hands, ses) ==
  /\ liveInput' = Merge(liveInput, [dealer |-> dealer, seats |-> [s \in {VirtualSeat} |-> hands], override |-> FALSE])
  /\ session' = ses
  /\ UNCHANGED <<rounds, recorded>>

\* The two rounds of the deal: the seat, then the dealer, the second time only with peek.
DealTwice ==
  LET ses == IF session = NoSession THEN Opening ELSE session
      hand == IF session = NoSession THEN EmptyHand ELSE VirtualHands[1]
      both == ses.dealRound = 0 \/ Rules.peek
  IN /\ ses.phase = "deal" /\ recorded < sitting.rounds
     /\ \E c, d \in sitting.cards :
          ShowRound(IF both THEN Append(liveInput.dealer, d) ELSE liveInput.dealer,
                    <<[hand EXCEPT !.cards = Append(@, c)]>>,
                    [ses EXCEPT !.dealRound = @ + 1,
                                !.holeDealt = ses.dealRound = 1 /\ Rules.peek,
                                !.phase = IF ses.dealRound = 1 THEN "insurance" ELSE "deal"])

\* The insurance window closes: with peek, a dealer blackjack ends the round.
PeekAtHole ==
  /\ session.phase = "insurance"
  /\ IF Rules.peek /\ DealerHandValue(liveInput.dealer).blackjack
       THEN \E result \in {ResultOfLive(liveInput, "full")} : RecordRound(result)
       ELSE ShowRound(liveInput.dealer, VirtualHands, Advance(session, VirtualHands))

\* What an action makes of the hands, given the cards it draws.
Acted(hands, i, a, c, d) ==
  LET h == hands[i]
  IN CASE a = "hit"       -> [hands EXCEPT ![i].cards = Append(@, c)]
       [] a = "double"    -> [hands EXCEPT ![i].cards = Append(@, c), ![i].doubled = TRUE]
       [] a = "surrender" -> [hands EXCEPT ![i].surrendered = TRUE, ![i].outcome = "surrender"]
       [] a = "split"     ->
            IF ~(Alike(h.cards) /\ Len(hands) <= Rules.maxSplits) THEN hands
            ELSE Append([hands EXCEPT ![i].cards = <<h.cards[1], c>>, ![i].fromSplit = TRUE],
                        [EmptyHand EXCEPT !.cards = <<h.cards[2], d>>, !.fromSplit = TRUE])
       [] OTHER           -> hands

\* Faulty variant: a hand that was stood on is told by its seat only.
StoodBySeat(stood, i, hands) == stood \cup DOMAIN hands

StoodHand(stood, i, hands) == stood \cup {i}

\* The player phase: an action of the phone, or the default when the time is up or the dealer
\* taps.  Nothing here asks whose turn it is, or whether the action is still allowed.
PlayHand(asked) ==
  /\ session.phase = "player"
  /\ \E c, d \in sitting.cards :
       LET i == session.hand
           low == ValueOf(VirtualHands[i], Rules).total <= 11
           a == CASE asked # Timeout -> asked
                  [] asked = Timeout -> IF Rules.autoHitLow /\ low THEN "hit" ELSE "stand"
           hands == Acted(VirtualHands, i, a, c, d)
           bust == ValueOf(hands[i], Rules).bust
           after == IF bust THEN [hands EXCEPT ![i].outcome = "bust"] ELSE hands
           done == bust \/ a \in {"stand", "double", "surrender"}
           ses == [session EXCEPT !.stood = IF done THEN StoodHand(@, i, hands) ELSE @]
       IN ShowRound(liveInput.dealer, after, Advance(ses, after))

\* The hands that the dealer may end with: a card is worth one at least, so that no more than
\* seventeen are drawn.
DealerHands(cards) ==
  LET draws[n \in 0 .. 17] ==
        IF n = 0 THEN {cards}
        ELSE UNION {IF DealerMustDraw(DealerHandValue(h), Rules) THEN {Append(h, c) : c \in sitting.cards} ELSE {h}
                    : h \in draws[n - 1]}
  IN draws[17]

\* The dealer phase: the hole card without peek, then the draws, then the result.
PlayDealer ==
  /\ session.phase = "dealer"
  /\ \E hole \in sitting.cards :
       \E cards \in DealerHands(IF session.holeDealt THEN liveInput.dealer ELSE Append(liveInput.dealer, hole)) :
         \E result \in {ResultOfLive([liveInput EXCEPT !.dealer = cards], "full")} : RecordRound(result)

BlackjackStep(asked) == DealTwice \/ PeekAtHole \/ PlayHand(asked) \/ PlayDealer

\* A tap on DEAL, the automatic trigger, or the time of the player is up.
TriggerStep ==
  /\ sitting.by = "virtual"
  /\ BlackjackStep(Timeout)
  /\ UNCHANGED <<sitting, entryVars, pressed, repairs>>

\* isActionEnabled, what the phone of the player shows.
ActionEnabled(a) ==
  /\ session.phase = "player"
  /\ LET h == VirtualHands[session.hand]
     IN CASE a \in {"hit", "stand"} -> TRUE
          [] a = "double"    -> ~h.doubled /\ (h.fromSplit => Rules.doubleAfterSplit) /\ Len(h.cards) = 2
          [] a = "split"     -> CanSplit(VirtualHands, Rules)
          [] a = "surrender" -> Rules.surrender /\ ~h.surrendered /\ ~h.doubled /\ Len(h.cards) = 2 /\ ~h.fromSplit

\* handleAction on a virtual table: the action is on its way.
PressAction(a) ==
  /\ sitting.by = "virtual" /\ Len(pressed) < MaxPressed
  /\ ActionEnabled(a) /\ Len(VirtualHands[session.hand].cards) < sitting.most
  /\ pressed' = Append(pressed, a)
  /\ UNCHANGED <<sitting, rounds, liveInput, session, entryVars, recorded, repairs>>

\* The service handles it as a step, whatever the phase is by now; before a deal it does nothing.
HandleAction ==
  /\ pressed # <<>>
  /\ \/ session # NoSession /\ BlackjackStep(Head(pressed))
     \/ session = NoSession /\ UNCHANGED <<rounds, liveInput, session, recorded>>
  /\ pressed' = Tail(pressed)
  /\ UNCHANGED <<sitting, entryVars, repairs>>

BlackjackNext ==
  \/ \E s \in sitting.seats : SelectTab(s)
  \/ \E t \in DrawnSlots : TapSlot(t)
  \/ CloseSlot \/ RemoveFrom \/ UndoLast
  \/ \E c \in sitting.cards : CommitTo(c)
  \/ \E o \in sitting.chips : SetOutcome(o)
  \/ AddHand \/ SplitHand \/ DoubleHand \/ SurrenderHand \/ SitOut \/ RecordAnyway
  \/ \E t \in sitting.totals, natural \in BOOLEAN : QuickDealer(t, natural)
  \/ ConfirmRound
  \/ \E i \in DOMAIN rounds : TakeBackRound(i) \/ FixRound(i)
  \/ ShuffleUp
  \/ TriggerStep \/ HandleAction
  \/ \E a \in BlackjackAction : PressAction(a)

BlackjackSpec == BlackjackInit /\ [][BlackjackNext]_bjVars

-----------------------------------------------------------------------------
(* Bets *)

Suited(cards) == \A i \in DOMAIN cards : cards[i].suit # "" /\ cards[i].suit = cards[1].suit

\* evaluatePerfectPairs: what the pair pays to one, 0 when it is none.
PairPays(cards) ==
  LET red(c) == c.suit \in {"H", "D"}
      a == cards[1]
      b == cards[2]
  IN IF Len(cards) < 2 \/ a.rank # b.rank THEN 0
     ELSE CASE Suited(<<a, b>>) -> 25
            [] ~Suited(<<a, b>>) /\ a.suit # "" /\ b.suit # "" /\ red(a) = red(b) -> 12
            [] OTHER -> 6

\* evaluate21Plus3 of the first two cards and the dealer's.
ThreePays(cards, up) ==
  LET three == <<cards[1], cards[2], up>>
      ranks == {three[i].rank : i \in 1 .. 3}
      straight == Cardinality(ranks) = 3 /\ (Max(ranks) - Min(ranks) = 2 \/ ranks = {1, 12, 13})
      trips == Cardinality(ranks) = 1
  IN IF Len(cards) < 2 THEN 0
     ELSE CASE trips /\ Suited(three)     -> 100
            [] straight /\ Suited(three)  -> 40
            [] trips /\ ~Suited(three)    -> 30
            [] straight /\ ~Suited(three) -> 10
            [] Suited(three) /\ ~trips /\ ~straight -> 5
            [] OTHER -> 0

\* Faulty variant: the stake is divided before it is multiplied.
NaturalPaysEarly(stake, payout) ==
  CASE payout = "3:2" -> (stake \div 2) * 3 [] payout = "6:5" -> (stake \div 5) * 6 [] payout = "2:1" -> stake * 2

\* blackjackPayoutFraction, in whole chips.
NaturalPays(stake, payout) ==
  CASE payout = "3:2" -> (stake * 3) \div 2 [] payout = "6:5" -> (stake * 6) \div 5 [] payout = "2:1" -> stake * 2

\* settleMainLike: the profit of a stake on a hand.
MainProfit(stake, outcome, payout) ==
  CASE outcome = "surrender" -> (stake \div 2) - stake
    [] outcome = "blackjack" -> NaturalPays(stake, payout)
    [] outcome = "win"       -> stake
    [] outcome = "push"      -> 0
    [] OTHER                 -> -stake

\* settleBlackjack: the profit of a bet on hand i of seat s.
SettleSeat(bet, stake, r, s, i, rules) ==
  LET there == s \in DOMAIN r.seats /\ i \in DOMAIN r.seats[s]
      hand == IF there THEN r.seats[s][i] ELSE EmptyHand
      o == hand.outcome
      up == r.dealer.cards[1]
      pays(n) == IF n = 0 THEN -stake ELSE stake * n
  IN CASE bet = "even_money"  -> IF o = "blackjack" /\ r.dealer.cards # <<>> /\ up.rank = 1 THEN stake ELSE -stake
       [] bet = "insurance"   -> IF r.dealer.blackjack THEN 2 * stake ELSE -stake
       [] bet = "main"        -> IF /\ r.dealer.blackjack /\ o \notin {"blackjack", "push"}
                                    /\ rules.peek /\ (hand.doubled \/ hand.fromSplit)
                                 THEN 0 ELSE MainProfit(stake, o, rules.payout)
       [] bet = "double"      -> IF o \in Won THEN 2 * stake ELSE IF o = "push" THEN 0 ELSE -stake
       [] bet = "split"       -> MainProfit(stake, o, rules.payout)
       [] bet = "perfect_pairs" -> pays(IF rules.sideBets THEN PairPays(hand.cards) ELSE 0)
       [] bet = "twenty_one_plus_three" ->
            pays(IF rules.sideBets /\ r.dealer.cards # <<>> THEN ThreePays(hand.cards, up) ELSE 0)

-----------------------------------------------------------------------------
(* What is shown, and text *)

\* DisplayView and PlayerView: which of the dealer's cards lie face up.
FaceUpOnDisplay == IF Len(liveInput.dealer) = 1 THEN {1} ELSE DOMAIN liveInput.dealer
FaceUpOnPhone ==
  IF Len(liveInput.dealer) = 1 \/ (session # NoSession /\ ~session.holeDealt /\ Rules.peek)
  THEN DOMAIN liveInput.dealer \cap {1} ELSE DOMAIN liveInput.dealer

\* deriveBlackjackAnimations, without the dealer's own.
RoundAnimations(rs) ==
  LET r == Last(rs)
      inPlay == {s \in DOMAIN r.seats : r.seats[s] # <<>>}
  IN (IF OutcomesIn(r, {"blackjack"}) > 0 THEN {"player_blackjack"} ELSE {})
       \cup (IF Cardinality(inPlay) >= 2 /\ OutcomesIn(r, Lost) = Cardinality(inPlay) THEN {"table_sweep"} ELSE {})
       \cup (IF Cardinality(inPlay) >= 2 /\ OutcomesIn(r, Won) = Cardinality(inPlay) THEN {"table_win"} ELSE {})
       \cup (IF Streak(rs).side = "dealer" /\ Streak(rs).length >= 5 THEN {"dealer_streak"} ELSE {})

\* exportRound: a hand is a letter, or its cards and flags; by outcome only the first hand is kept.
ExportRound(r) ==
  LET text(h) == IF h.cards = <<>> /\ h.outcome # NotYet THEN [letter |-> h.outcome]
                 ELSE [cards |-> h.cards, d |-> h.doubled, s |-> h.surrendered]
      letters(hs) == \A i \in DOMAIN hs : hs[i].outcome # NotYet /\ hs[i].cards = <<>>
      part(hs) == IF r.depth = "outcomes" /\ letters(hs) THEN <<text(hs[1])>> ELSE [i \in DOMAIN hs |-> text(hs[i])]
      kept == {s \in DOMAIN r.seats : r.seats[s] # <<>>}
  IN IF r.depth = "quick" THEN [quick |-> r.dealer]
     ELSE [cards |-> r.dealer.cards, parts |-> [s \in kept |-> part(r.seats[s])]]

\* inferDepthFromLine: the first seat that is a letter, or that has a comma or a semicolon.
DepthOfLine(parts) ==
  LET lettered(s) == Len(parts[s]) = 1 /\ "letter" \in DOMAIN parts[s][1]
      carded(s) == Len(parts[s]) > 1 \/ (~lettered(s) /\ Len(parts[s][1].cards) > 1)
      telling == {s \in DOMAIN parts : carded(s) \/ (lettered(s) /\ parts[s][1].letter # "blackjack")}
  IN IF telling # {} /\ carded(Min(telling)) THEN "full" ELSE "outcomes"

\* parseSeatPart, parseLine
ImportRound(t) ==
  LET hand(x, split) ==
        IF "letter" \in DOMAIN x THEN [EmptyHand EXCEPT !.outcome = x.letter, !.fromSplit = split]
        ELSE [EmptyHand EXCEPT !.cards = x.cards, !.doubled = x.d, !.surrendered = x.s, !.fromSplit = split]
      seats == [s \in DOMAIN t.parts |-> [i \in DOMAIN t.parts[s] |-> hand(t.parts[s][i], Len(t.parts[s]) > 1)]]
      d == DealerFromCards(t.cards, Rules)
      depth == DepthOfLine(t.parts)
  IN IF "quick" \in DOMAIN t THEN QuickRound(t.quick.total, t.quick.blackjack)
     ELSE [dealer |-> d, depth |-> depth, dealerError |-> FALSE,
           seats |-> IF depth = "full" THEN ResolveSeats(seats, d, Rules) ELSE seats]

-----------------------------------------------------------------------------
(* Properties *)

BlackjackTypeOK ==
  /\ sitting \in Sittings
  /\ \A i \in DOMAIN rounds : rounds[i].id \in 1 .. recorded /\ rounds[i].depth \in {"outcomes", "full", "quick"}
  /\ DOMAIN liveInput.seats \subseteq Tables /\ liveInput.override \in BOOLEAN
  /\ session.phase \in {"none", "deal", "insurance", "player", "dealer"}
  /\ session.phase = "player" => session.hand \in DOMAIN VirtualHands
  /\ slot.seat \in {0} \cup Tables /\ focus \in sitting.seats /\ fixing \in 0 .. recorded
  /\ recorded \in 0 .. sitting.rounds /\ repairs \in 0 .. sitting.repairs
  /\ ToSet(pressed) \subseteq BlackjackAction /\ Len(pressed) <= MaxPressed

\* The best total of a hand, each ace counted as one or as eleven, and whether one is eleven.
Best(cards) ==
  LET hard == Added([i \in DOMAIN cards |-> Min({cards[i].rank, 10})])
      ace == \E i \in DOMAIN cards : cards[i].rank = 1
  IN IF ace /\ hard + 10 <= 21 THEN [total |-> hard + 10, soft |-> TRUE] ELSE [total |-> hard, soft |-> FALSE]
Draws17(v) == v.total < 17 \/ (v.total = 17 /\ v.soft /\ Rules.soft17 = "hit")
TwoCard21(cards) == Len(cards) = 2 /\ Best(cards).total = 21

\* In whatever order cards, splits, doubles and corrections come, and however late an action of
\* a phone arrives, a round recorded card by card has the outcomes of SPEC-BLACKJACK 5.4 and a
\* dealer who drew as appendix A says, unless it is marked as the dealer's error; with peek a
\* dealer's natural ends a virtual round before anyone doubles or splits.  The text of a round
\* imports to the same round when all its hands of a split are marked as such.
RoundsByTheRules ==
  \A n \in DOMAIN rounds :
    LET r == rounds[n]
        dealer == r.dealer.cards
        natural == Len(dealer) >= 2 /\ TwoCard21(SubSeq(dealer, 1, 2))
        upTo(i) == Best(SubSeq(dealer, 1, i))
        d == Best(dealer).total
        byRule(h) ==
          LET p == Best(h.cards).total
              bj == TwoCard21(h.cards) /\ (h.fromSplit => Rules.blackjackAfterSplit)
          IN CASE h.surrendered -> "surrender"
               [] ~h.surrendered /\ bj -> IF natural THEN "push" ELSE "blackjack"
               [] ~h.surrendered /\ p > 21 -> "bust"
               [] ~h.surrendered /\ ~bj /\ p <= 21 /\ natural -> "lose"
               [] OTHER -> IF d > 21 \/ p > d THEN "win" ELSE IF p < d THEN "lose" ELSE "push"
        marked == \A s \in DOMAIN r.seats : \A i \in DOMAIN r.seats[s] :
                    /\ Len(r.seats[s]) > 1 => r.seats[s][i].fromSplit
                    /\ r.depth = "full" => Len(r.seats[s][i].cards) >= 2
    IN /\ r.depth = "full" =>
            /\ \A x \in HandsOfRound(r) :
                 LET h == r.seats[x[1]][x[2]]
                 IN h.cards # <<>> \/ h.surrendered => h.outcome = byRule(h)
            /\ natural \/ ~Draws17(Best(dealer))
            /\ natural \/ r.dealerError \/
                 \A i \in 2 .. Len(dealer) - 1 : Draws17(upTo(i)) \/ \E j \in 2 .. i : upTo(j).total > 21
            /\ sitting.by = "virtual" /\ Rules.peek /\ natural =>
                 \A x \in HandsOfRound(r) : ~r.seats[x[1]][x[2]].doubled /\ ~r.seats[x[1]][x[2]].fromSplit
       /\ ~r.dealerError /\ marked /\ (r.depth = "full" => HandsOfRound(r) # {}) =>
            ImportRound(ExportRound(r)) = Restrict(r, DOMAIN r \ {"id"})

\* What a round pays, for any stakes on its hands: a natural its fraction rounded down to whole
\* chips, never less than a win; a surrender half, in the house's favour; nothing on a hand
\* gains when the hand has lost; insurance of half the stake makes good for the main bet when the
\* dealer's natural beats a hand; even money pays just when the natural is paid.
BlackjackPays ==
  \A n \in DOMAIN rounds, stake \in {2, 5, 10}, payout \in {"3:2", "6:5"} :
    LET r == rounds[n]
        rules == [Rules EXCEPT !.payout = payout]
        ratio == IF payout = "3:2" THEN <<3, 2>> ELSE <<6, 5>>
    IN \A x \in HandsOfRound(r) :
         LET h == r.seats[x[1]][x[2]]
             gain(bet, amount) == SettleSeat(bet, amount, r, x[1], x[2], rules)
             main == gain("main", stake)
         IN /\ h.outcome = "blackjack" => /\ main * ratio[2] <= stake * ratio[1]
                                          /\ (main + 1) * ratio[2] > stake * ratio[1]
                                          /\ main >= stake
            /\ h.outcome = "surrender" /\ ~r.dealer.blackjack => 2 * main \in {-stake, -stake - 1}
            /\ h.outcome \in Lost => \A bet \in {"main", "double", "split", "even_money"} : gain(bet, stake) <= 0
            /\ r.depth = "full" /\ r.dealer.blackjack /\ h.outcome = "lose" /\ stake % 2 = 0
                 => main + gain("insurance", stake \div 2) \in {0, stake}
            /\ gain("even_money", stake) > 0 => main > 0

\* After any correction the statistics are those of the rounds as they stand: every hand is
\* counted once, busts beside losses; the streak is the run of one side over the rounds with
\* hands; of full rounds every card is counted once, with the live ones once the dealer has a card.
StatsFollowRounds ==
  LET played == SelectSeq(rounds, LAMBDA r : r.depth # "quick")
      run == {n \in DOMAIN played : \A i \in Len(played) - n + 1 .. Len(played) : SideOf(played[i]) = SideOf(Last(played))}
      cards == MapThenSumSet(LAMBDA i : CardsOnTable(rounds[i].dealer.cards, rounds[i].seats), DOMAIN rounds)
      d == DealerStats(rounds)
  IN /\ Streak(rounds).length = Max({0} \cup run)
     /\ played # <<>> => Streak(rounds).side = SideOf(Last(played))
     /\ \A s \in sitting.seats :
          LET st == SeatStats(rounds, s) IN st.hands = st.wins + st.losses + st.pushes + st.busts
     /\ d.busts = d.histogram[22]
     /\ (\A i \in DOMAIN rounds : rounds[i].depth = "full") /\ sitting.depth = "full" =>
          CardsSeen(rounds, liveInput, "full") =
            cards + (IF liveInput.dealer = <<>> THEN 0 ELSE CardsOnTable(liveInput.dealer, liveInput.seats))
     /\ rounds # <<>> => ~({"table_sweep", "table_win"} \subseteq RoundAnimations(rounds))

\* While the players have their turns, whoever taps and whatever comes late: only the hand whose
\* turn it is changes, or it is split; that hand is not complete; no other hand's turn ends with
\* it; and no turn goes back to an earlier hand.
OneTurn ==
  session.phase = "player" /\ session'.phase \in {"player", "dealer"} =>
    LET i == session.hand
    IN /\ ~HandComplete(VirtualHands[i], i, Rules, session.stood)
       /\ \A j \in DOMAIN VirtualHands \ {i} : VirtualHands'[j] = VirtualHands[j]
       /\ Len(VirtualHands') <= Len(VirtualHands) + 1
       /\ session'.stood \ session.stood \subseteq {i}
       /\ session'.phase = "player" => session'.hand >= i
TurnsInOrder == [][OneTurn]_bjVars

\* A hand of a split has no natural (SPEC-BLACKJACK.md:45).
SplitIsNoNatural ==
  \A n \in DOMAIN rounds : \A x \in HandsOfRound(rounds[n]) :
    Len(rounds[n].seats[x[1]]) > 1 /\ ~Rules.blackjackAfterSplit =>
      rounds[n].seats[x[1]][x[2]].outcome # "blackjack"

\* With peek the hole card lies face down until the players have had their turns
\* (SPEC-BLACKJACK.md:371).
HoleFaceDown ==
  session.phase \in {"insurance", "player"} => 2 \notin FaceUpOnDisplay \cup FaceUpOnPhone

=============================================================================
