----------------------------- MODULE DealerRound -----------------------------
(***************************************************************************)
(* The dealer's client drives the betting rounds of Platform: the toggle   *)
(* button of BettingBar, the two timers of useBettingRound, the entry of a  *)
(* result and the history of results.  The hook acts on what was rendered   *)
(* last and its timers on what was rendered when they were armed.           *)
(***************************************************************************)
EXTENDS Platform

CONSTANTS
  AutoOpen,    \* settings.betting.autoOpenDelayMs > 0
  BetTimer,    \* settings.betting.betTimerSec > 0
  AutoClose,   \* settings.betting.autoCloseOnEntry
  Prompt       \* an event is rendered, effects included, before the next one

ASSUME DealerSwitchAssumption ==
  /\ AutoOpen \in BOOLEAN /\ BetTimer \in BOOLEAN /\ AutoClose \in BOOLEAN
  /\ Prompt \in BOOLEAN

VARIABLES
  seen,         \* the current round as rendered, and whether it was open
  lastSettled,  \* lastSettledRound.current
  autoOpen,     \* "off", or what openBets will do when autoOpenTimer fires
  betTimer      \* the round betTimer will close, or NoRound

hookVars == <<seen, lastSettled, autoOpen, betTimer>>
dealerVars == <<vars, hookVars>>

-----------------------------------------------------------------------------
\* getCurrentRound: the last round that is open or closed.
CurrentRound ==
  LET active == {r \in Round : status[r] \in {"open", "closed"}}
  IN IF active = {} THEN NoRound ELSE Max(active)

IsOpen(r) == r # NoRound /\ status[r] = "open"

LatestSettled ==
  LET settled == {r \in Round : status[r] = "settled"}
  IN IF settled = {} THEN NoRound ELSE Max(settled)

View == [round |-> CurrentRound, open |-> IsOpen(CurrentRound)]
Rendered == seen = View /\ LatestSettled \in {NoRound, lastSettled}

\* Faulty variant: the bet timer is cleared but not armed again.
RenderWithoutBetTimer ==
  /\ ~Rendered
  /\ seen' = View
  /\ lastSettled' = IF LatestSettled = NoRound THEN lastSettled ELSE LatestSettled
  /\ autoOpen' = IF AutoOpen /\ LatestSettled \notin {NoRound, lastSettled}
                   THEN (IF IsOpen(CurrentRound) THEN "skips" ELSE "opens")
                   ELSE autoOpen
  /\ betTimer' = NoRound
  /\ UNCHANGED vars

\* Faulty variant: only the first settlement arms the auto-open timer.
RenderArmingOnce ==
  /\ ~Rendered
  /\ seen' = View
  /\ lastSettled' = IF LatestSettled = NoRound THEN lastSettled ELSE LatestSettled
  /\ autoOpen' = IF AutoOpen /\ LatestSettled # NoRound /\ lastSettled = NoRound THEN "opens" ELSE autoOpen
  /\ betTimer' = IF BetTimer /\ IsOpen(CurrentRound) THEN CurrentRound ELSE NoRound
  /\ UNCHANGED vars

\* A render and its effects.  A newly settled round arms the auto-open timer with
\* this render's openBets; an open round arms the bet timer, any other clears it.
Render ==
  /\ ~Rendered
  /\ seen' = View
  /\ lastSettled' = IF LatestSettled = NoRound THEN lastSettled ELSE LatestSettled
  /\ autoOpen' = IF AutoOpen /\ LatestSettled \notin {NoRound, lastSettled}
                   THEN (IF IsOpen(CurrentRound) THEN "skips" ELSE "opens")
                   ELSE autoOpen
  /\ betTimer' = IF BetTimer /\ IsOpen(CurrentRound) THEN CurrentRound ELSE NoRound
  /\ UNCHANGED vars

DealerInit ==
  /\ Init
  /\ seen = [round |-> NoRound, open |-> FALSE]
  /\ lastSettled = NoRound
  /\ autoOpen = "off"
  /\ betTimer = NoRound

-----------------------------------------------------------------------------
(* Opening and closing *)

OpenNewRound == \E r \in Round : BetsOpened(r)

Close(r) == IF status[r] = "closed" THEN UNCHANGED vars ELSE BetsClosed(r)

\* Faulty variant: the button opens a round whether or not one is open.
ToggleOpening == OpenNewRound /\ UNCHANGED hookVars

\* The button closes the rendered round if it was open, otherwise opens a new one,
\* also over a round that is closed and waits for its result.
ToggleBets ==
  /\ IF seen.open THEN Close(seen.round) ELSE OpenNewRound
  /\ UNCHANGED hookVars

AutoOpenFires ==
  /\ autoOpen # "off"
  /\ IF autoOpen = "opens" THEN OpenNewRound ELSE UNCHANGED vars
  /\ autoOpen' = "off"
  /\ UNCHANGED <<seen, lastSettled, betTimer>>

BetTimerFires ==
  /\ betTimer # NoRound
  /\ Close(betTimer)
  /\ betTimer' = NoRound
  /\ UNCHANGED <<seen, lastSettled, autoOpen>>

\* onDealerEntry: the first card, die or number entered closes the current round.
EntryCloses ==
  /\ AutoClose
  /\ IsOpen(CurrentRound)
  /\ BetsClosed(CurrentRound)
  /\ UNCHANGED hookVars

-----------------------------------------------------------------------------
(* Results and bets *)

\* store.record: the result goes to the last round that is closed.
ResultRecorded(res, k) ==
  /\ \/ ClosedRound = NoRound /\ ResultOnBoardOnly(res, NoRound)
     \/ ClosedRound # NoRound /\ ResultSettles(res, ClosedRound, k)
  /\ UNCHANGED hookVars

\* The confirmed entry, which closes the round first.
ResultConfirmed(res, k) == (AutoClose => ~IsOpen(CurrentRound)) /\ ResultRecorded(res, k)

\* A chip or a key of the module's view, which hands its result to the store: a round that
\* is open stays open, and is not settled.
QuickResult(res, k) == IsOpen(CurrentRound) /\ ResultRecorded(res, k)

HistoryChanged ==
  /\ \E res \in Result :
       \/ res = results[Len(results)] /\ CanUndo(res) /\ ResultUndone(res)
       \/ ResultDeleted(res)
       \/ ResultEditedInDialog(res)
  /\ UNCHANGED hookVars

\* The bank, and what the players make of the round that they see, which may have changed
\* before their event is applied.
PlayerActs == (BankStep \/ BetStep) /\ UNCHANGED hookVars

DealerActs ==
  \/ ToggleBets
  \/ EntryCloses
  \/ \E res \in Result, k \in Kind : ResultConfirmed(res, k) \/ QuickResult(res, k)
  \/ results # <<>> /\ HistoryChanged

TimerFires == AutoOpenFires \/ BetTimerFires

DealerNext == Render \/ ((Prompt => Rendered) /\ (DealerActs \/ TimerFires \/ PlayerActs))

\* A render is always followed by its effects, and a timer that is armed fires;
\* nothing obliges the dealer or a player to act.
DealerFairness == WF_dealerVars(Render) /\ WF_dealerVars(AutoOpenFires) /\ WF_dealerVars(BetTimerFires)

DealerSpec == DealerInit /\ [][DealerNext]_dealerVars
FairDealerSpec == DealerSpec /\ DealerFairness

-----------------------------------------------------------------------------
(* Properties *)

\* The hook's variables have their types, and the bet timer belongs to the round
\* that was rendered open.
HookOK ==
  /\ seen \in [round: Round \cup {NoRound}, open: BOOLEAN]
  /\ lastSettled \in Round \cup {NoRound}
  /\ autoOpen \in {"off", "opens", "skips"}
  /\ betTimer # NoRound => seen.open /\ betTimer = seen.round

\* The state machine of a round: a new round is opened when the last one is no
\* longer open, so players never bet on two rounds at a time.
OneOpenRound == Cardinality({r \in Round : status[r] = "open"}) <= 1

\* While no open round has been left behind, a second one is opened by the auto-open
\* timer only: the button, the entry and every change of the history keep to one.
SecondRoundByTimer ==
  [][(\A r \in Round : status[r] = "open" => r = CurrentRound) /\ ~OneOpenRound'
       => autoOpen = "opens" /\ autoOpen' = "off"]_dealerVars

\* A round that has a bet timer does not stay open, unless a second one was open.
BetTimerCloses ==
  []OneOpenRound => \A r \in Round : status[r] = "open" ~> status[r] # "open"

\* After a settlement betting opens again by itself (until the bound on rounds).
Idle == LatestSettled # NoRound /\ CurrentRound = NoRound
AutoOpenFollows == Idle ~> ~Idle \/ OpenedRounds = Round

\* It does whenever no two rounds were open at the same time.
AutoOpenUnlessTwo == []OneOpenRound => AutoOpenFollows
=============================================================================
