-------------------------------- MODULE Baccarat --------------------------------
(***************************************************************************)
(* The baccarat module: the drawing rules over the six card slots, the     *)
(* dealer's entry by cards or by outcome, corrections of the history, the  *)
(* roads drawn from the outcomes, settlement, text exchange and the        *)
(* virtual shoe.                                                           *)
(*                                                                         *)
(* A card is its rank (1 is the ace, 11 to 13 the faces): suits only serve *)
(* warnings.  The live hand is the reducer's: a LIVE_INPUT is merged into  *)
(* it slot by slot, so an entry that leaves a slot out does not empty it.  *)
(***************************************************************************)
EXTENDS Integers, Sequences, FiniteSets, SequencesExt, FiniteSetsExt, Functions, Lists

CONSTANTS
  Plays,           \* what is entered, and how often: see PlaysAssumption
  ShoeCards,       \* cards in the shoe: decks * 52
  FirstCardBurn,   \* burnRule is first_card_value
  AutoAdvance,     \* the dealer's device setting
  DragonThreshold  \* dragonThreshold

Slots == <<"P1", "B1", "P2", "B2", "P3", "B3">>   \* DEAL_ORDER
SlotId == ToSet(Slots)
FirstFour == {"P1", "B1", "P2", "B2"}
Outcome == {"P", "B", "T"}
CUT_RESERVE == 14
MIN_HAND_CARDS == 6
ROWS == 6
NoSlot == "none"
NoCards == <<>>
NoShoe == -1
None == -1

ASSUME PlaysAssumption ==
  /\ Plays \subseteq [source : {"dealer", "virtual"}, ranks : SUBSET (1 .. 13), quick : SUBSET Outcome, pairs : BOOLEAN,
                      texts : SUBSET Seq(Outcome), hands : Nat, fixes : Nat]
  /\ \A p \in Plays : p.source = "virtual" => p.ranks # {}
ASSUME ShoeAssumption == ShoeCards \in Nat /\ ShoeCards >= CUT_RESERVE
ASSUME DeviceAssumption == AutoAdvance \in BOOLEAN /\ FirstCardBurn \in BOOLEAN
ASSUME DragonAssumption == DragonThreshold \in Nat \ {0, 1}

VARIABLES
  play,      \* bound: the member of Plays that is explored
  hands,     \* results of the shoe
  live,      \* liveSlots
  picker,    \* the slot whose card picker is open, or NoSlot
  editing,   \* id of the hand under edit, or 0
  made,      \* hands recorded so far; the last id
  fixes,     \* undone, deleted and edited hands so far
  shoe,      \* shoeIndex of the virtual session, or NoShoe
  script     \* events of a virtual step that are still to be applied

bacVars == <<play, hands, live, picker, editing, made, fixes, shoe, script>>

-----------------------------------------------------------------------------
(* The hand *)

CardValue(r) == IF r >= 10 THEN 0 ELSE r
TotalValue(c, slots) ==
  LET value(s) == IF s \in slots \cap DOMAIN c THEN CardValue(c[s]) ELSE 0
  IN (value("P1") + value("P2") + value("P3") + value("B1") + value("B2") + value("B3")) % 10

\* Faulty variant: a banker six draws to any third card but an eight.
BankerDrawsSix(b, third) ==
  IF third = None THEN b <= 5 ELSE b <= 2 \/ (b \in 3 .. 6 /\ third # 8)

\* bankerDraws: third is the value of the player's third card, or None.
BankerDraws(b, third) ==
  IF third = None THEN b <= 5
  ELSE CASE b \in 0 .. 2 -> TRUE
         [] b = 3 -> third # 8
         [] b = 4 -> third \in 2 .. 7
         [] b = 5 -> third \in 4 .. 7
         [] b = 6 -> third \in {6, 7}
         [] OTHER -> FALSE

Winner(p, b) == IF p > b THEN "P" ELSE IF b > p THEN "B" ELSE "T"

\* evaluateHand for the cards c; shoeFull when the tracker has run over.
EvaluateHand(c, shoeFull) ==
  LET has(s) == s \in DOMAIN c
      missing == FirstFour \ DOMAIN c
      first == Slots[Min({i \in DOMAIN Slots : Slots[i] \in missing})]
      p2 == TotalValue(c, {"P1", "P2"})
      b2 == TotalValue(c, {"B1", "B2"})
      natural == p2 >= 8 \/ b2 >= 8
      playerDraws == ~natural /\ p2 <= 5
      bankerDraws == /\ ~natural
                     /\ playerDraws => has("P3")
                     /\ BankerDraws(b2, IF playerDraws THEN CardValue(c["P3"]) ELSE None)
      third == {s \in {"P3", "B3"} : IF s = "P3" THEN playerDraws ELSE bankerDraws}
      notAllowed == {s \in {"P3", "B3"} : has(s)} \ third
      pt == TotalValue(c, {"P1", "P2"} \cup (third \cap {"P3"}))
      bt == TotalValue(c, {"B1", "B2"} \cup (third \cap {"B3"}))
      waiting(status, next, enabled) ==
        [status |-> status, next |-> next, enabled |-> enabled]
  IN CASE missing # {} ->
            waiting("awaiting_cards", first, IF has("P1") THEN {first} ELSE FirstFour)
       [] missing = {} /\ "P3" \in third /\ ~has("P3") -> waiting("needs_player_third", "P3", {"P3"})
       [] missing = {} /\ "B3" \in third /\ ~has("B3") -> waiting("needs_banker_third", "B3", {"B3"})
       [] OTHER ->
            [status  |-> IF notAllowed # {} \/ shoeFull THEN "invalid" ELSE "complete",
             next    |-> NoSlot,
             enabled |-> {},
             hand    |-> [cards |-> c, outcome |-> Winner(pt, bt), playerTotal |-> pt,
                          bankerTotal |-> bt, natural |-> natural,
                          pairs |-> {s \in {"P", "B"} : IF s = "P" THEN c["P1"] = c["P2"]
                                                                   ELSE c["B1"] = c["B2"]}]]

CountCards(hs) == MapThenSumSet(LAMBDA i : Cardinality(DOMAIN hs[i].cards), DOMAIN hs)

\* buildShoeTracker and the second count of evaluateHand: the live cards are counted twice.
ShoeFull == live # NoCards /\ CountCards(hands) + 2 * Cardinality(DOMAIN live) > ShoeCards

HandState == EvaluateHand(live, ShoeFull)

\* baccaratConfirm
Confirm == HandState.status = "complete"

\* A result that is entered by its outcome, without cards.
QuickHand(outcome, pairs) ==
  [cards |-> NoCards, outcome |-> outcome, playerTotal |-> None, bankerTotal |-> None,
   natural |-> FALSE, pairs |-> pairs]

-----------------------------------------------------------------------------
(* Roads.  A column is [side, cells], a cell [pairs, ties]. *)

AddToColumns(b, h) ==
  LET cs == b.columns
      cell == [pairs |-> h.pairs, ties |-> 0]
  IN CASE h.outcome = "T" /\ cs = <<>> -> [b EXCEPT !.leadingTies = @ + 1]
       [] h.outcome = "T" /\ cs # <<>> -> [b EXCEPT !.columns[Len(cs)].cells[Len(Last(cs).cells)].ties = @ + 1]
       [] h.outcome # "T" /\ (cs = <<>> \/ Last(cs).side # h.outcome) ->
            [b EXCEPT !.columns = Append(cs, [side |-> h.outcome, cells |-> <<cell>>])]
       [] OTHER -> [b EXCEPT !.columns[Len(cs)].cells = Append(@, cell)]

\* buildBigRoadColumns
BigRoad(hs) == FoldLeft(AddToColumns, [columns |-> <<>>, leadingTies |-> 0], hs)

\* Faulty variant: a column starts beside the start of the one before it, over its tail.
LayoutOverTail(lengths, first) ==
  UNION {{[x |-> first + c - 1 + (IF i > ROWS THEN i - ROWS ELSE 0), y |-> IF i > ROWS THEN ROWS - 1 ELSE i - 1,
           column |-> c, cell |-> i] : i \in 1 .. lengths[c]} : c \in DOMAIN lengths}

\* layoutBigRoad, layoutDerivedMarks: six rows, then a tail along the last row; the next
\* column starts beyond it.  first is the column after the cell of the leading ties.
Layout(lengths, first) ==
  LET tail(n) == IF n > ROWS THEN n - ROWS ELSE 0
      start[c \in DOMAIN lengths] ==
        IF c = 1 THEN first ELSE start[c - 1] + tail(lengths[c - 1]) + 1
  IN UNION {{[x |-> start[c] + tail(i), y |-> IF i > ROWS THEN ROWS - 1 ELSE i - 1,
              column |-> c, cell |-> i] : i \in 1 .. lengths[c]} : c \in DOMAIN lengths}

Lengths(columns) == [c \in DOMAIN columns |-> Len(columns[c].cells)]
BigRoadGrid(road) == Layout(Lengths(road.columns), IF road.leadingTies > 0 THEN 1 ELSE 0)

\* canMarkDerived, for row r of column c (from 1) and the offset k of the road.
CanMark(lens, c, r, k) ==
  /\ Len(lens) >= k + 1
  /\ c > k
  /\ r = 1 => lens[k + 1] >= 2 \/ Len(lens) > k + 1

\* derivedColour
DerivedColour(lens, c, r, k) ==
  IF r = 1
  THEN IF c - 1 - k < 1 THEN "red" ELSE IF lens[c - 1] = lens[c - 1 - k] THEN "red" ELSE "blue"
  ELSE IF lens[c - k] = r - 1 THEN "blue" ELSE "red"

Cells(lens) == FlattenSeq([c \in DOMAIN lens |-> [r \in 1 .. lens[c] |-> <<c, r>>]])

\* buildDerivedRoad: its marks in the order they are laid out.
DerivedMarks(lens, k) ==
  LET marked == SelectSeq(Cells(lens), LAMBDA x : CanMark(lens, x[1], x[2], k))
  IN [i \in DOMAIN marked |-> DerivedColour(lens, marked[i][1], marked[i][2], k)]

\* getCurrentStreak
CurrentStreak(hs) ==
  LET cs == BigRoad(hs).columns
  IN IF cs = <<>> THEN [side |-> "T", length |-> 0]
                  ELSE [side |-> Last(cs).side, length |-> Len(Last(cs).cells)]

\* longestStreak
LongestStreak(hs) == Max({0} \cup ToSet(Lengths(BigRoad(hs).columns)))

\* shouldFireDragon: at the threshold, then at every second hand.
FireDragon(p, n) ==
  LET fire(len) == (len - DragonThreshold) \div 2
  IN /\ n.length >= DragonThreshold
     /\ \/ p.length < DragonThreshold
        \/ n.length > p.length /\ fire(n.length) > fire(p.length)

\* streakBroken
StreakBroken(p, n) == p.length >= DragonThreshold /\ (n.side # p.side \/ n.length < p.length)

\* deriveBaccaratAnimations for a recorded or an undone hand.
Animations(event, before, after) ==
  LET p == CurrentStreak(before)
      n == CurrentStreak(after)
      broken == IF StreakBroken(p, n) THEN {"dragon_broken"} ELSE {}
      h == Last(after)
  IN CASE event = "SERIES_STARTED"  -> {"shoe_start"}
       [] event = "RESULT_UNDONE"   -> {"hand_undone"} \cup broken
       [] event = "RESULT_RECORDED" ->
            {IF h.outcome = "T" THEN "tie" ELSE IF h.outcome = "P" THEN "player_win" ELSE "banker_win"}
              \cup {IF s = "P" THEN "player_pair" ELSE "banker_pair" : s \in h.pairs}
              \cup (IF h.natural THEN {"natural"} ELSE {})
              \cup broken
              \cup (IF FireDragon(p, n) THEN {"dragon"} ELSE {})
       [] OTHER -> {}

-----------------------------------------------------------------------------
(* Bets *)

BaccaratBetId == {"player", "banker", "tie", "player_pair", "banker_pair"}

BaccaratRules == [commission : {0, 5}, tiePayout : {8, 9}, pairPayout : {11}]

\* baccaratBets: num to den, what the felt and the calculator show.
CataloguePays(bet, amount, rules) ==
  CASE bet = "player" -> amount
    [] bet = "banker" -> (amount * (100 - rules.commission)) \div 100
    [] bet = "tie" -> amount * rules.tiePayout
    [] OTHER -> amount * rules.pairPayout

BankerProfit(amount, h, rules) ==
  IF rules.commission = 0 /\ h.bankerTotal = 6 THEN amount \div 2
  ELSE (amount * (100 - rules.commission)) \div 100

\* settleBet: the profit; a bet without profit or loss is pushed.
SettleBet(bet, amount, h, rules) ==
  LET pays(won, profit) == IF won THEN profit ELSE -amount
  IN CASE bet \in {"player", "banker"} /\ h.outcome = "T" -> 0
       [] bet = "player" /\ h.outcome # "T" -> pays(h.outcome = "P", amount)
       [] bet = "banker" /\ h.outcome # "T" -> pays(h.outcome = "B", BankerProfit(amount, h, rules))
       [] bet = "tie" -> pays(h.outcome = "T", amount * rules.tiePayout)
       [] bet = "player_pair" -> pays("P" \in h.pairs, amount * rules.pairPayout)
       [] bet = "banker_pair" -> pays("B" \in h.pairs, amount * rules.pairPayout)

-----------------------------------------------------------------------------
(* Text: exportHand, importText *)

ExportHand(h) ==
  [outcome |-> h.outcome, pairs |-> h.pairs, carded |-> h.cards # NoCards,
   player |-> Selection(<<"P1", "P2", "P3">>, DOMAIN h.cards),
   banker |-> Selection(<<"B1", "B2", "B3">>, DOMAIN h.cards),
   ranks  |-> h.cards]

\* slotsFromHands: the cards of each side from its first slot on.
Place(s) == IF s \in {"P1", "B1"} THEN 1 ELSE IF s \in {"P2", "B2"} THEN 2 ELSE 3
SlotsFromHands(t) ==
  LET side(s) == IF s \in {"P1", "P2", "P3"} THEN t.player ELSE t.banker
  IN [s \in {r \in SlotId : Place(r) \in DOMAIN side(r)} |-> t.ranks[side(s)[Place(s)]]]

\* importText for one hand: the hand, or what is not accepted.
ImportHand(t) ==
  LET e == EvaluateHand(SlotsFromHands(t), FALSE)
  IN IF ~t.carded THEN QuickHand(t.outcome, t.pairs)
     ELSE IF e.status # "complete" THEN "refused"
     ELSE IF e.hand.outcome # t.outcome \/ e.hand.pairs # t.pairs THEN "mismatch" ELSE e.hand

-----------------------------------------------------------------------------
(* Entry by the dealer *)

BaccaratInit ==
  /\ play \in Plays
  /\ hands = <<>> /\ live = NoCards /\ picker = NoSlot /\ editing = 0
  /\ made = 0 /\ fixes = 0 /\ shoe = NoShoe /\ script = <<>>

ByDealer == play.source = "dealer"
Numbered(id, h) == Spread(h, [id |-> id])

\* The reducer's LIVE_INPUT: { ...state.liveSlots, ...payload.slots }.
LiveInput(c, entered) == Spread(c, entered)

\* RESULT_RECORDED
Record(h) ==
  /\ made < play.hands
  /\ made' = made + 1
  /\ hands' = Append(hands, Numbered(made + 1, h))
  /\ live' = NoCards

\* RESULT_EDITED; nothing happens to a hand that is gone, and the live hand stays.
Edit(h) ==
  /\ hands' = [i \in DOMAIN hands |-> IF hands[i].id = editing THEN Numbered(editing, h) ELSE hands[i]]
  /\ editing' = 0
  /\ UNCHANGED <<live, made>>

OpenPicker(s) ==
  /\ ByDealer /\ play.ranks # {}
  /\ s \in HandState.enabled
  /\ picker' = s
  /\ UNCHANGED <<play, hands, live, editing, made, fixes, shoe, script>>

ClosePicker ==
  /\ picker # NoSlot
  /\ picker' = NoSlot
  /\ UNCHANGED <<play, hands, live, editing, made, fixes, shoe, script>>

\* handleCommit: the card is entered and the picker moves to the slot the rules call for.
CommitCard(r) ==
  /\ ByDealer /\ picker # NoSlot /\ ~ShoeFull
  /\ r \in play.ranks
  /\ LET next == Spread(live, [s \in {picker} |-> r])
     IN /\ live' = LiveInput(live, next)
        /\ picker' = IF AutoAdvance THEN EvaluateHand(next, FALSE).next ELSE NoSlot
  /\ UNCHANGED <<play, hands, editing, made, fixes, shoe, script>>

\* handleRemove: the slot is left out of what is sent.
RemoveCard ==
  /\ ByDealer /\ picker # NoSlot
  /\ live' = LiveInput(live, Restrict(live, DOMAIN live \ {picker}))
  /\ picker' = NoSlot
  /\ UNCHANGED <<play, hands, editing, made, fixes, shoe, script>>

\* handleUndoLast: as above for the last filled slot, whose picker opens.
UndoCard ==
  /\ ByDealer /\ picker # NoSlot /\ live # NoCards
  /\ LET last == Slots[Max({i \in DOMAIN Slots : Slots[i] \in DOMAIN live})]
     IN /\ live' = LiveInput(live, Restrict(live, DOMAIN live \ {last}))
        /\ picker' = last
  /\ UNCHANGED <<play, hands, editing, made, fixes, shoe, script>>

\* executeConfirm: records the live hand, or saves it as the hand under edit and sends
\* {slots: {}} to clear the live hand, which the merge leaves as it is.  The view opens the
\* picker for the next hand.
ConfirmHand ==
  /\ ByDealer /\ Confirm
  /\ \/ /\ editing = 0
        /\ Record(HandState.hand)
        /\ picker' = IF AutoAdvance THEN "P1" ELSE picker
        /\ UNCHANGED editing
     \/ /\ editing # 0
        /\ Edit(HandState.hand)
        /\ UNCHANGED picker
  /\ UNCHANGED <<play, fixes, shoe, script>>

\* activateQuickEntry by chip or key closes the picker; the pair menu leaves it open.
QuickEntry(outcome, pairs) ==
  /\ ByDealer
  /\ outcome \in play.quick /\ (pairs # {} => play.pairs)
  /\ picker' = IF pairs = {} THEN NoSlot ELSE picker
  /\ \/ editing = 0 /\ Record(QuickHand(outcome, pairs)) /\ UNCHANGED editing
     \/ editing # 0 /\ Edit(QuickHand(outcome, pairs))
  /\ UNCHANGED <<play, fixes, shoe, script>>

\* importResults for a text of outcomes, which a dealer pastes in one piece.
ImportSeries(os) ==
  /\ ByDealer /\ made + Len(os) <= play.hands
  /\ made' = made + Len(os)
  /\ hands' = hands \o [i \in DOMAIN os |-> Numbered(made + i, ImportHand(ExportHand(QuickHand(os[i], {}))))]
  /\ live' = NoCards
  /\ UNCHANGED <<play, picker, editing, fixes, shoe, script>>

\* The reducer's RESULT_UNDONE and RESULT_DELETED: the live hand stays.
TakeBack(ids) ==
  /\ fixes < play.fixes
  /\ fixes' = fixes + 1
  /\ hands' = Selection(hands, {h \in ToSet(hands) : h.id \notin ids})
  /\ UNCHANGED <<play, live, picker, editing, made, shoe, script>>

UndoHand == ByDealer /\ editing = 0 /\ hands # <<>> /\ TakeBack({Last(hands).id})
DeleteHand(i) == ByDealer /\ TakeBack({hands[i].id})

\* onEdit of the history and the effect of the view: the cards of the hand are merged
\* into the live hand.
StartEdit(i) ==
  /\ ByDealer /\ fixes < play.fixes
  /\ fixes' = fixes + 1
  /\ editing' = hands[i].id
  /\ live' = LiveInput(live, hands[i].cards)
  /\ UNCHANGED <<play, hands, picker, made, shoe, script>>

\* cancelEdit: sends {slots: {}}.
CancelEdit ==
  /\ editing # 0
  /\ editing' = 0
  /\ live' = LiveInput(live, NoCards)
  /\ UNCHANGED <<play, hands, picker, made, fixes, shoe, script>>

\* SERIES_ENDED and SERIES_STARTED
NewShoe ==
  /\ hands # <<>> \/ live # NoCards
  /\ script = <<>>
  /\ hands' = <<>> /\ live' = NoCards /\ shoe' = NoShoe
  /\ UNCHANGED <<play, picker, editing, made, fixes, script>>

-----------------------------------------------------------------------------
(* The virtual shoe *)

\* initSession, applyBurn: the cards gone before the first deal; r is the first card.
Burn(r) == IF FirstCardBurn THEN 1 + CardValue(r) ELSE 0

\* needsSeriesRollover
NeedsRollover(dealt) ==
  ShoeCards - dealt <= CUT_RESERVE \/ ShoeCards - dealt < MIN_HAND_CARDS

\* dealHand: the cards r of the shoe in the order they are drawn.
DealHand(r) ==
  LET four == [s \in FirstFour |-> r[CHOOSE i \in 1 .. 4 : Slots[i] = s]]
      drawn(c, i) == LET e == EvaluateHand(c, FALSE)
                     IN IF e.next = NoSlot THEN c ELSE Spread(c, [s \in {e.next} |-> r[i]])
      five == drawn(four, 5)
  IN drawn(five, Cardinality(DOMAIN five) + 1)

Rollover == <<[type |-> "SERIES_STARTED"]>>

\* baccaratVirtualStep: the cards one by one, the result, and a new shoe at the cut card.
\* The pace of the reveal and who may interrupt it are VirtualDealer's.
VirtualStep ==
  /\ play.source = "virtual" /\ script = <<>> /\ made < play.hands
  /\ \E first \in play.ranks, dealt \in {DealHand(r) : r \in [1 .. 6 -> play.ranks]} :
       LET from == IF shoe = NoShoe THEN Burn(first) ELSE shoe
           order == Selection(Slots, DOMAIN dealt)
           upTo == from + Len(order)
           shown(i) == [type |-> "LIVE_INPUT", slots |-> Restrict(dealt, {order[j] : j \in 1 .. i})]
           result == [type |-> "RESULT_RECORDED", hand |-> EvaluateHand(dealt, FALSE).hand]
       IN IF NeedsRollover(from)
          THEN shoe' = NoShoe /\ script' = Rollover
          ELSE /\ script' = [i \in DOMAIN order |-> shown(i)] \o <<result>>
                              \o (IF NeedsRollover(upTo) THEN Rollover ELSE <<>>)
               /\ shoe' = IF NeedsRollover(upTo) THEN NoShoe ELSE upTo
  /\ UNCHANGED <<play, hands, live, picker, editing, made, fixes>>

\* One event of the step reaches the log.
Reveal ==
  /\ script # <<>>
  /\ LET e == Head(script)
     IN \/ /\ e.type = "LIVE_INPUT"
           /\ live' = LiveInput(live, e.slots)
           /\ UNCHANGED <<hands, made>>
        \/ e.type = "RESULT_RECORDED" /\ Record(e.hand)
        \/ /\ e.type = "SERIES_STARTED"
           /\ hands' = <<>> /\ live' = NoCards
           /\ UNCHANGED made
  /\ script' = Tail(script)
  /\ UNCHANGED <<play, picker, editing, fixes, shoe>>

BaccaratNext ==
  \/ \E s \in SlotId : OpenPicker(s)
  \/ ClosePicker \/ RemoveCard \/ UndoCard
  \/ \E r \in 1 .. 13 : CommitCard(r)
  \/ ConfirmHand
  \/ \E o \in Outcome, pairs \in SUBSET {"P", "B"} : QuickEntry(o, pairs)
  \/ \E os \in play.texts : ImportSeries(os)
  \/ UndoHand
  \/ \E i \in DOMAIN hands : DeleteHand(i) \/ StartEdit(i)
  \/ CancelEdit \/ NewShoe
  \/ VirtualStep \/ Reveal

BaccaratSpec == BaccaratInit /\ [][BaccaratNext]_bacVars

-----------------------------------------------------------------------------
(* Properties *)

RoadHands == [i \in DOMAIN hands |-> [outcome |-> hands[i].outcome, pairs |-> hands[i].pairs]]

BaccaratTypeOK ==
  /\ play \in Plays
  /\ \A i \in DOMAIN hands : hands[i].id \in 1 .. made /\ hands[i].outcome \in Outcome
  /\ DOMAIN live \subseteq SlotId /\ picker \in SlotId \cup {NoSlot}
  /\ editing \in 0 .. made /\ made \in 0 .. play.hands /\ fixes \in 0 .. play.fixes
  /\ shoe \in {NoShoe} \cup 0 .. ShoeCards + MIN_HAND_CARDS

\* The third cards the banker draws to, by the banker's first two cards (SPEC-BACCARAT,
\* appendix A).
Tableau == <<0 .. 9, 0 .. 9, 0 .. 9, 0 .. 9 \ {8}, 2 .. 7, 4 .. 7, {6, 7}, {}>>

\* In whatever order the cards are entered and corrected, and whether they are entered, edited
\* or dealt by the virtual shoe, a hand of the history holds exactly the cards the rules deal:
\* no third card after a natural, the player's on five or less, the banker's by the tableau;
\* and its outcome is the one of those cards.  Its text imports to the same hand.
HandsByTheRules ==
  \A i \in DOMAIN hands :
    LET h == hands[i]
        sum(slots) == TotalValue(h.cards, slots)
        p2 == sum({"P1", "P2"})
        b2 == sum({"B1", "B2"})
        noNatural == p2 < 8 /\ b2 < 8
        has(s) == s \in DOMAIN h.cards
        p == sum({"P1", "P2", "P3"})
        b == sum({"B1", "B2", "B3"})
    IN /\ h.cards # NoCards =>
            /\ FirstFour \subseteq DOMAIN h.cards
            /\ has("P3") <=> noNatural /\ p2 <= 5
            /\ has("B3") <=> noNatural /\ IF has("P3") THEN CardValue(h.cards["P3"]) \in Tableau[b2 + 1]
                                                       ELSE b2 <= 5
            /\ h.playerTotal = p /\ h.bankerTotal = b
            /\ h.outcome = "T" <=> p = b
            /\ h.outcome = "P" <=> p > b
       /\ ImportHand(ExportHand(h)) = Restrict(h, DOMAIN h \ {"id"})

\* The side that won the last n hands that were not tied, n as large as possible.
RunLength(decided) ==
  Max({0} \cup {n \in DOMAIN decided :
                  \A j \in Len(decided) - n + 1 .. Len(decided) : decided[j].outcome = Last(decided).outcome})

\* After any correction the roads show the hands as they stand: every hand that was not tied
\* has one cell of the big road, in order, and every tie is counted; no two cells are laid
\* out on one place; a mark of a derived road is red just when the column it is compared with
\* has a cell at the mark's row and at the row above it, or at neither; the streaks are the runs,
\* and the last hand wakes the dragon when its run reaches the threshold and at every second
\* hand after that, never on a tie.  None of them reads the live hand: they are looked at
\* while it is empty.
RoadsFollowHands == live = NoCards =>
  LET road == BigRoad(RoadHands)
      cols == road.columns
      lens == Lengths(cols)
      decided == SelectSeq(RoadHands, LAMBDA h : h.outcome # "T")
      shown == FlattenSeq([c \in DOMAIN cols |-> [i \in 1 .. lens[c] |->
                             [outcome |-> cols[c].side, pairs |-> cols[c].cells[i].pairs]]])
      ties == MapThenSumSet(LAMBDA x : cols[x[1]].cells[x[2]].ties, ToSet(Cells(lens)))
      grid == BigRoadGrid(road)
      deep(c, r) == r = 0 \/ r <= lens[c]
  IN /\ shown = decided
     /\ road.leadingTies + ties + Len(decided) = Len(hands)
     /\ \A c \in 2 .. Len(cols) : cols[c].side # cols[c - 1].side
     /\ \A a, b \in grid : a.x = b.x /\ a.y = b.y => a = b
     /\ road.leadingTies > 0 => \A a \in grid : a.x > 0
     /\ CurrentStreak(RoadHands).length = RunLength(decided)
     /\ LongestStreak(RoadHands) =
          Max({0} \cup {RunLength(SubSeq(decided, 1, n)) : n \in DOMAIN decided})
     /\ \A k \in 1 .. 3 : \A c \in k + 1 .. Len(cols), r \in 2 .. Max({2} \cup ToSet(lens)) :
          r <= lens[c] =>
            (DerivedColour(lens, c, r, k) = "red" <=> (deep(c - k, r) <=> deep(c - k, r - 1)))
     /\ hands # <<>> =>
          LET n == RunLength(decided)
          IN "dragon" \in Animations("RESULT_RECORDED", Front(hands), hands) <=>
               /\ Last(hands).outcome # "T"
               /\ n >= DragonThreshold /\ (n - DragonThreshold) % 2 = 0

\* Whatever hand is recorded, bets on the two sides never gain together and are pushed
\* together, by a tie only; a bet that wins gains what the catalogue shows (half on a banker
\* six without commission).
BaccaratPays ==
  \A i \in DOMAIN hands, rules \in BaccaratRules, amount \in {1, 10, 25} :
    LET h == hands[i]
        profit(bet) == SettleBet(bet, amount, h, rules)
    IN /\ profit("player") + profit("banker") <= 0
       /\ profit("player") = 0 <=> h.outcome = "T"
       /\ h.outcome = "T" => profit("banker") = 0
       /\ \A bet \in BaccaratBetId :
            profit(bet) > 0 => \/ profit(bet) = CataloguePays(bet, amount, rules)
                               \/ bet = "banker" /\ rules.commission = 0 /\ h.bankerTotal = 6
                                    /\ profit(bet) = amount \div 2

\* The remove button takes a card off the live hand (SPEC-BACCARAT.md:86).
RemovedCardGone == [][RemoveCard => picker \notin DOMAIN live']_bacVars

=============================================================================
