------------------------------ MODULE PlayerShell ------------------------------
(***************************************************************************)
(* The page of one player at a table with a house bank: the slip, placing,  *)
(* changing and removing bets, and the banner of a settlement.  The reducer *)
(* pays and takes whatever an event says; that a player stakes no more than *)
(* the bankroll is left to this page, which decides on its copy of the log.  *)
(*                                                                         *)
(* The log and the copy are as in TableServer and SyncedStore, with what    *)
(* the events of the rounds and of this player's bets do: an own event is   *)
(* shown at once under a guessed number, and one of the dealer that gets    *)
(* the number first is taken for known.                                     *)
(***************************************************************************)
EXTENDS Integers, Sequences, FiniteSets, FiniteSetsExt, SequencesExt

CONSTANTS
  BuyIn,      \* the chips that the player gets with the first event
  Chips,      \* chipDenominations, from tableMin to tableMax
  Pays,       \* what a bet may be paid, for each chip
  MaxRound,   \* bound: rounds opened
  MaxDealer,  \* bound: events of the dealer
  MaxBets,    \* bound: events of the player; a lost connection counts as one
  MaxSlip,    \* bound: chips on the slip
  MaxLosses   \* bound: times the connection is lost

ASSUME PlayerAssumption ==
  /\ Chips \subseteq Nat \ {0} /\ Pays \subseteq Nat
  /\ {BuyIn, MaxRound, MaxDealer, MaxBets, MaxSlip, MaxLosses} \subseteq Nat

VARIABLES
  ledger,     \* the log of the table
  sheets,     \* events of the store: number and event
  top,        \* latestSeq
  unanswered, \* pending: numbers of own events whose entry is still to be confirmed
  linked,     \* joined, with connectionState "connected"
  up, down,   \* messages to and from the server
  slip,       \* pendingBets: their amounts
  settledRef, \* lastSettledRoundRef, and the round whose effect ran last
  banner,     \* the round of settlementSummary and whether settlementTimer will clear it
  dealt, wrote, losses,
  corrected,  \* history: the dealer took chips back, or undid a result
  beyond,     \* history: a bet was pressed by more chips than the page showed
  crossed     \* history: the player and the dealer wrote at the same time; an own event was under
              \* way when the connection was lost; a removal or a press was refused when the page had
              \* gone on

storeSide == <<sheets, top, unanswered, linked, up, down>>
pageSide == <<slip, settledRef, banner>>
playerVars == <<ledger, storeSide, pageSide, dealt, wrote, losses, corrected, beyond, crossed>>

-----------------------------------------------------------------------------
(* The reducer *)

What(type, round, id, n, by) == [type |-> type, round |-> round, id |-> id, n |-> n, by |-> by]
ByDealer == 0

\* A bet is named by the client id of the event that placed it, in round; works has the bets that
\* are working, rides the later rounds that they rode into, paid what each one returned, and the
\* stake it returned it for.
NewTable == [rounds |-> [r \in 1..MaxRound |-> "none"], bets |-> {}, works |-> {}, rides |-> {}, paid |-> {}, bank |-> 0]
Worth(ps) == MapThenSumSet(LAMBDA p : p.n, ps)

\* The round that a bet stands in, and the bets of a round.
InRound(t, b) == Max({b.round} \cup {r.round : r \in {x \in t.rides : x.id = b.id}})
BetsIn(t, round) == {b \in t.bets : InRound(t, b) = round}

\* A bet that stays in a result (id) is neither paid nor lost, and is working from then on.
Reduce(t, e) ==
  CASE e.type = "issued" -> [t EXCEPT !.bank = @ + e.n]
    [] e.type = "opened" ->
         LET riding == {b \in t.bets : b.id \in t.works /\ t.rounds[InRound(t, b)] = "settled"}
         IN [t EXCEPT !.rounds[e.round] = "open", !.rides = @ \cup {[id |-> b.id, round |-> e.round] : b \in riding}]
    [] e.type = "closed" -> [t EXCEPT !.rounds[e.round] = IF @ = "none" THEN @ ELSE "closed"]
    [] e.type = "bet" ->
         IF t.rounds[e.round] # "open" THEN t
         ELSE [t EXCEPT !.bank = @ - e.n, !.bets = @ \cup {[id |-> e.id, round |-> e.round, n |-> e.n]}]
    [] e.type = "updated" ->
         LET held == {b \in t.bets : b.id = e.id /\ t.rounds[InRound(t, b)] = "open"}
             new == {[b EXCEPT !.n = e.n] : b \in held}
         IN [t EXCEPT !.bank = (@ + Worth(held)) - Worth(new), !.bets = (@ \ held) \cup new]
    [] e.type = "toggled" ->
         LET held == {b \in t.bets : b.id = e.id /\ t.rounds[InRound(t, b)] = "open"}
         IN [t EXCEPT !.works = IF held = {} THEN @ ELSE IF e.n = 1 THEN @ \cup {e.id} ELSE @ \ {e.id}]
    [] e.type \in {"removed", "voided"} ->
         LET gone == {b \in t.bets : b.id = e.id}
         IN [t EXCEPT !.bank = @ + Worth(gone), !.bets = @ \ gone]
    [] e.type = "result" ->
         LET stays == {b \in BetsIn(t, e.round) : b.id = e.id}
             done == BetsIn(t, e.round) \ stays
         IN IF t.rounds[e.round] \in {"none", "settled"} THEN t
            ELSE [t EXCEPT !.rounds[e.round] = "settled", !.works = @ \cup {b.id : b \in stays},
                           !.paid = @ \cup {[id |-> b.id, round |-> e.round, n |-> e.n * b.n, stake |-> b.n] : b \in done},
                           !.bank = @ + e.n * Worth(done)]
    [] e.type = "undone" ->
         LET paid == {p \in t.paid : p.round = e.round}
             ids == {b.id : b \in BetsIn(t, e.round)}
         IN IF t.rounds[e.round] # "settled" THEN t
            ELSE [t EXCEPT !.rounds[e.round] = "closed", !.paid = @ \ paid,
                           !.bank = @ - Worth({p \in paid : p.id \in ids})]

\* What a log of events, or a copy of it, says of the table.
TableAfter(events) ==
  LET after[n \in 0..Len(events)] == IF n = 0 THEN NewTable ELSE Reduce(after[n - 1], events[n])
  IN after[Len(events)]
EventsOf(ss) == [i \in DOMAIN ss |-> ss[i].event]
Table == TableAfter(ledger)
Shown == TableAfter(EventsOf(sheets))

\* getCurrentRound, and the settled round that is last in the list.
ActiveRounds(t) == {r \in 1..MaxRound : t.rounds[r] \in {"open", "closed"}}
OpenRound(t) ==
  LET r == Max(ActiveRounds(t) \cup {0}) IN IF r > 0 /\ t.rounds[r] = "open" THEN r ELSE 0
SettledRound(t) == Max({r \in 1..MaxRound : t.rounds[r] = "settled"} \cup {0})

-----------------------------------------------------------------------------
(* The store *)

TopOf(ss) == Max({ss[i].seq : i \in DOMAIN ss} \cup {0})
Numbers(from) == [i \in 1..Len(ledger) - from |-> [seq |-> from + i, event |-> ledger[from + i]]]

\* applyServerEvents, applyIncomingEvent
TakeSheet(c, s) ==
  IF c.gap \/ s.seq <= c.top THEN c
  ELSE IF s.seq # c.top + 1 THEN [c EXCEPT !.gap = TRUE]
  ELSE [c EXCEPT !.sheets = Append(@, s), !.top = s.seq]
ApplySheets(c, ss) == FoldLeft(TakeSheet, c, ss)
StoreAsIs == [sheets |-> sheets, top |-> top, gap |-> FALSE]
EmptyStore == [sheets |-> <<>>, top |-> 0, gap |-> FALSE]
AskAgain(c) == IF c.gap THEN <<[op |-> "resync", since |-> c.top]>> ELSE <<>>

\* joinPayload
JoinedFor(since) ==
  IF since >= Len(ledger) \/ since < 1
    THEN [op |-> "joined", replace |-> TRUE, sheets |-> Numbers(0), top |-> Len(ledger)]
    ELSE [op |-> "joined", replace |-> FALSE, sheets |-> Numbers(since), top |-> Len(ledger)]

\* sendPersistedEvent of events in a row: shown at once, and sent.
Send(events) ==
  LET guessed == [i \in DOMAIN events |-> [seq |-> top + i, event |-> events[i]]]
  IN /\ wrote + Len(events) + losses <= MaxBets
     /\ wrote' = wrote + Len(events)
     /\ IF linked
          THEN /\ sheets' = sheets \o guessed
               /\ top' = top + Len(events)
               /\ unanswered' = unanswered \cup {events[i].by : i \in DOMAIN events}
               /\ up' = up \o [i \in DOMAIN events |-> [op |-> "event", event |-> events[i]]]
          ELSE top' = TopOf(sheets) /\ UNCHANGED <<sheets, unanswered, up>>   \* OFFLINE, rolled back
     /\ crossed' = (crossed \/ \E i \in DOMAIN down : down[i].op = "reject")
     /\ UNCHANGED <<linked, down>>

\* Where the event of a client id is, if it is there.  The store keeps the index instead, which is
\* wrong after a snapshot (SyncedStore); then an own event was under way, which crossed records.
Entry(id) == {i \in DOMAIN sheets : sheets[i].event.by = id}

-----------------------------------------------------------------------------
(* The page *)

Placed(t) == Worth(BetsIn(t, OpenRound(t)))
Staked(amounts) == FoldLeft(LAMBDA n, m : n + m, 0, amounts)
OnSlip == Staked(slip)

\* Faulty variant: each bet is looked at alone.
AffordsAlone(t, staked, n) == t.bank >= n

\* The bankroll that is shown is already less the bets placed: they are counted twice.
Affords(t, staked, n) == t.bank >= staked + n

\* addPending
AddChip(n) ==
  /\ Len(slip) < MaxSlip
  /\ linked /\ OpenRound(Shown) # 0
  /\ Affords(Shown, OnSlip + Placed(Shown), n)
  /\ slip' = Append(slip, n)
  /\ UNCHANGED <<ledger, storeSide, settledRef, banner, dealt, wrote, losses, beyond, corrected, crossed>>

\* removeFromZone, handleRemoveSlip and handleRemoveBet of a chip that is on the slip
TakeChip(i) ==
  /\ slip' = RemoveAt(slip, i)
  /\ UNCHANGED <<ledger, storeSide, settledRef, banner, dealt, wrote, losses, beyond, corrected, crossed>>

BetEvents(amounts) ==
  [i \in DOMAIN amounts |-> What("bet", OpenRound(Shown), wrote + i, amounts[i], wrote + i)]

\* validatePlaceAll
PlaceAllOK(t) ==
  \A i \in DOMAIN slip : Affords(t, Placed(t) + Staked(SubSeq(slip, 1, i - 1)), slip[i])

\* handlePlace: all of the slip or none of it.
Place ==
  /\ slip # <<>> /\ OpenRound(Shown) # 0 /\ linked
  /\ PlaceAllOK(Shown)
  /\ Send(BetEvents(slip))
  /\ slip' = <<>>
  /\ UNCHANGED <<ledger, settledRef, banner, dealt, losses, beyond, corrected>>

\* handlePlaceBet, of a felt that places without the slip: what lies there is not counted.
PlaceBet(n) ==
  /\ OpenRound(Shown) # 0 /\ linked
  /\ Affords(Shown, Placed(Shown), n)
  /\ Send(BetEvents(<<n>>))
  /\ UNCHANGED <<ledger, pageSide, dealt, losses, beyond, corrected>>

\* A bet of the open round that is on the page is taken back.  Only handleRemoveSlip asks whether
\* the table is online.
RemoveBet(b) ==
  /\ b \in BetsIn(Shown, OpenRound(Shown))
  /\ Send(<<What("removed", b.round, b.id, 0, wrote + 1)>>)
  /\ UNCHANGED <<ledger, pageSide, dealt, losses, beyond, corrected>>

\* handleAct of craps, on a bet of the open round.  A press adds the most that the bet has ever won
\* to its stake, and asks neither for the bankroll nor whether the table is online.
LastWinningProfit(t, b) == Max({p.n - p.stake : p \in {x \in t.paid : x.id = b.id}} \cup {0})
PressBet(b) ==
  LET profit == LastWinningProfit(Shown, b) IN
  /\ b \in BetsIn(Shown, OpenRound(Shown))
  /\ profit > 0
  /\ Send(<<What("updated", b.round, b.id, b.n + profit, wrote + 1)>>)
  /\ beyond' = (beyond \/ Shown.bank < profit)
  /\ UNCHANGED <<ledger, pageSide, dealt, losses, corrected>>
ToggleWorking(b) ==
  /\ b \in BetsIn(Shown, OpenRound(Shown))
  /\ Send(<<What("toggled", b.round, b.id, IF b.id \in Shown.works THEN 0 ELSE 1, wrote + 1)>>)
  /\ UNCHANGED <<ledger, pageSide, dealt, losses, beyond, corrected>>

\* The effect that depends on the settled round: the clean-up stops the timer of the banner, a
\* round that settles is shown once, unless it brings the player nothing.
RenderSettled ==
  LET t == Shown
      round == SettledRound(t)
      mine == {p \in t.paid : p.round = round /\ \E b \in t.bets : b.id = p.id}
      profit == Worth(mine) - MapThenSumSet(LAMBDA p : p.stake, mine)
  IN /\ round # settledRef.effect
     /\ settledRef' = [effect |-> round, last |-> IF round = 0 THEN settledRef.last ELSE round]
     /\ banner' = IF round \notin {0, settledRef.last} /\ profit # 0
                    THEN [round |-> round, timer |-> TRUE]
                    ELSE [banner EXCEPT !.timer = FALSE]
     /\ UNCHANGED <<ledger, storeSide, slip, dealt, wrote, losses, beyond, corrected, crossed>>

BannerOver ==
  /\ banner.timer
  /\ banner' = [round |-> 0, timer |-> FALSE]
  /\ UNCHANGED <<ledger, storeSide, slip, settledRef, dealt, wrote, losses, beyond, corrected, crossed>>

-----------------------------------------------------------------------------
(* Messages *)

AckOf(id, seq) == [op |-> "ack", id |-> id, seq |-> seq]
SheetOf(seq, e) == [op |-> "sheet", seq |-> seq, event |-> e]

\* The service logs the event, answers, and sends it to all; or it refuses.
ServerTakes ==
  /\ up # <<>> /\ up' = Tail(up)
  /\ \/ /\ Head(up).op = "event"
        /\ LET e == Head(up).event IN
           \/ /\ ledger' = Append(ledger, e)
              /\ down' = down \o <<AckOf(e.by, Len(ledger) + 1), SheetOf(Len(ledger) + 1, e)>>
              /\ UNCHANGED crossed
           \/ /\ down' = Append(down, [op |-> "reject", id |-> e.by])
              /\ crossed' = (crossed \/ (e.type \in {"removed", "updated"} /\ e.by < wrote))
              /\ UNCHANGED ledger
     \/ /\ Head(up).op \in {"join", "resync"}
        /\ down' = Append(down, JoinedFor(Head(up).since))
        /\ UNCHANGED <<ledger, crossed>>
  /\ UNCHANGED <<sheets, top, unanswered, linked, pageSide, dealt, wrote, losses, beyond, corrected>>

\* confirmPending, rollbackPending, handleJoined, applyIncomingEvent
StoreTakes ==
  /\ down # <<>> /\ down' = Tail(down)
  /\ LET m == Head(down)
         stored(c) == sheets' = c.sheets /\ up' = up \o AskAgain(c)
     IN \/ /\ m.op = "ack"
           /\ sheets' = [i \in DOMAIN sheets |->
                           IF i \in Entry(m.id) /\ m.id \in unanswered /\ i = Max(Entry(m.id))
                             THEN [sheets[i] EXCEPT !.seq = m.seq] ELSE sheets[i]]
           /\ top' = IF m.id \in unanswered THEN Max({top, m.seq}) ELSE top
           /\ unanswered' = unanswered \ {m.id}
           /\ crossed' = (crossed \/ sheets' # sheets)
           /\ UNCHANGED <<up, linked>>
        \/ /\ m.op = "reject"
           /\ sheets' = IF m.id \in unanswered /\ Entry(m.id) # {} THEN RemoveAt(sheets, Max(Entry(m.id))) ELSE sheets
           /\ top' = IF m.id \in unanswered THEN TopOf(sheets') ELSE top
           /\ unanswered' = unanswered \ {m.id}
           /\ UNCHANGED <<up, linked, crossed>>
        \/ /\ m.op = "joined"
           /\ LET c == ApplySheets(IF m.replace THEN EmptyStore ELSE StoreAsIs, m.sheets)
              IN stored(c) /\ top' = Max({c.top, m.top})
           /\ linked' = TRUE
           /\ UNCHANGED <<unanswered, crossed>>
        \/ /\ m.op = "sheet"
           /\ LET c == ApplySheets(StoreAsIs, <<[seq |-> m.seq, event |-> m.event]>>)
              IN /\ stored(c) /\ top' = c.top
                 /\ crossed' = (crossed \/ (c.sheets = sheets /\ ~c.gap /\ m.event.by = ByDealer))
           /\ UNCHANGED <<unanswered, linked>>
  /\ UNCHANGED <<ledger, pageSide, dealt, wrote, losses, beyond, corrected>>

Unlink ==
  /\ linked /\ losses < MaxLosses /\ wrote + losses < MaxBets
  /\ losses' = losses + 1
  /\ linked' = FALSE /\ up' = <<>> /\ down' = <<>>
  /\ crossed' = (crossed \/ unanswered # {})
  /\ UNCHANGED <<ledger, sheets, top, unanswered, pageSide, dealt, wrote, corrected, beyond>>

Relink ==
  /\ ~linked /\ up = <<>> /\ down = <<>>
  /\ up' = <<[op |-> "join", since |-> TopOf(sheets)]>>
  /\ UNCHANGED <<ledger, sheets, top, unanswered, linked, down, pageSide, dealt, wrote, losses, beyond, corrected, crossed>>

\* What the dealer's page writes, which sees the table as it is.  It gets to the player's page
\* if that is in the room.
DealerWrites(e) ==
  /\ dealt < MaxDealer
  /\ dealt' = dealt + 1
  /\ ledger' = Append(ledger, e)
  /\ down' = IF linked \/ down # <<>> THEN Append(down, SheetOf(Len(ledger) + 1, e)) ELSE down
  /\ UNCHANGED <<sheets, top, unanswered, linked, up, pageSide, wrote, losses, beyond, crossed>>

DealerPlays ==
  LET t == Table
      opened == {r \in 1..MaxRound : t.rounds[r] # "none"}
      last == Max(opened \cup {0})
  IN /\ \/ OpenRound(t) = 0 /\ last < MaxRound /\ DealerWrites(What("opened", last + 1, 0, 0, ByDealer))
        \/ OpenRound(t) # 0 /\ DealerWrites(What("closed", OpenRound(t), 0, 0, ByDealer))
        \/ /\ ActiveRounds(t) # {} /\ t.rounds[last] = "closed"
           /\ \E n \in Pays, stays \in {b.id : b \in BetsIn(t, last)} \cup {0} :
                DealerWrites(What("result", last, stays, n, ByDealer))
        \/ \E b \in t.bets : t.rounds[InRound(t, b)] # "settled" /\ DealerWrites(What("voided", b.round, b.id, 0, ByDealer))
     /\ UNCHANGED corrected

\* undoLastResult after canUndoResult, and a take-back within the bankroll.
DealerCorrects ==
  LET t == Table IN
  /\ \/ /\ SettledRound(t) # 0 /\ \A b \in t.bets : InRound(t, b) <= SettledRound(t)
        /\ DealerWrites(What("undone", SettledRound(t), 0, 0, ByDealer))
     \/ t.bank > 0 /\ DealerWrites(What("issued", 0, 0, -1, ByDealer))
  /\ corrected' = TRUE

-----------------------------------------------------------------------------
PlayerInit ==
  /\ ledger = <<What("issued", 0, 0, BuyIn, ByDealer)>>
  /\ sheets = Numbers(0) /\ top = 1 /\ unanswered = {} /\ linked = TRUE /\ up = <<>> /\ down = <<>>
  /\ slip = <<>> /\ settledRef = [effect |-> 0, last |-> 0] /\ banner = [round |-> 0, timer |-> FALSE]
  /\ dealt = 0 /\ wrote = 0 /\ losses = 0 /\ corrected = FALSE /\ beyond = FALSE /\ crossed = FALSE

\* What Send asks of every event, asked first.
MayWrite == wrote + losses < MaxBets

PlayerNext ==
  \/ \E n \in Chips : AddChip(n)
  \/ \E i \in DOMAIN slip : TakeChip(i)
  \/ MayWrite /\ (Place \/ \E n \in Chips : PlaceBet(n))
  \/ MayWrite /\ \E b \in Shown.bets : RemoveBet(b) \/ PressBet(b) \/ ToggleWorking(b)
  \/ RenderSettled \/ BannerOver
  \/ ServerTakes \/ StoreTakes \/ Unlink \/ Relink
  \/ DealerPlays \/ DealerCorrects

PlayerSpec == PlayerInit /\ [][PlayerNext]_playerVars

-----------------------------------------------------------------------------
(* Properties *)

\* The variables have their shapes.
PlayerTypeOK ==
  /\ \A i \in DOMAIN slip : slip[i] \in Chips
  /\ top \in Nat /\ unanswered \subseteq 1..MaxBets /\ linked \in BOOLEAN
  /\ settledRef \in [effect: 0..MaxRound, last: 0..MaxRound]
  /\ banner \in [round: 0..MaxRound, timer: BOOLEAN]

\* "Bankroll >= total": however the slip, the bets placed and those placed beside it add up, and
\* whatever is pressed, refused, removed, lost or settled meanwhile, the player never owes chips,
\* unless the dealer took them back, the copy of the page has gone wrong, or the player pressed a
\* bet by more than the page showed, which nothing prevents (validate-bet.ts:85-90, player-act.ts:80-92).
NoOverdraft == Table.bank >= 0 \/ corrected \/ crossed \/ beyond

\* The reducer is said to mirror the check; it has none, so a page whose copy has gone wrong
\* stakes chips that the player has not got.
NeverOverdrawn == Table.bank >= 0 \/ corrected

\* A banner goes away.  It does not when a round that brings nothing settles, or the result is
\* undone, within its 4 s (PlayerShell.tsx:570-572).
BannerHasTimer == banner.round # 0 => banner.timer
================================================================================
