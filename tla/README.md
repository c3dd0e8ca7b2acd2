# casino-lord: a verification of the table, its log, its seats and its money

casino-lord runs a casino table on web pages: a dealer enters results (or lets a
virtual dealer draw them), displays show them, players bet from their phones, and
the chips of the players are settled. Everything is an event log. The sync service
orders it, every page replays it, and what a page shows is a function of the log
and of the rules. This directory holds TLA+ models of the parts where that is hard
to get right, runs of TLC on small instances, and proofs checked by TLAPS.

Names in the modules are the names of the code wherever TLA+ allows it. Paths below
are relative to the repository (`core` is `packages/core/src`, `sync` is
`apps/sync/src`, `web` is `apps/web/src`). `PROJECT.json` names, for every definition
that stands for code, the lines it stands for.

1. [Inventory](#1-inventory) 2. [Modules](#2-modules) 3. [Runs](#3-runs)
4. [Proofs](#4-proofs) 5. [Known disagreements](#5-known-disagreements)
6. [Not modelled](#6-not-modelled) 7. [Plan](#7-plan)

## 1. Inventory

| Part | State | Operations | Talks to |
|---|---|---|---|
| Platform reducer, `core/platform-reducer.ts` | players, rounds, bets, bankrolls, settlements, series board | one case per event; results settle, edits and undos reverse and settle again, an opened round takes up the working bets | the game modules' `settle`; replayed by every page and by the service |
| Betting rounds of the dealer, `web/betting/use-betting-round.ts`, `BettingBar.tsx`, `DealerShell.tsx`, `HistoryDialog.tsx` | rendered round, last settled round, two timers | toggle, close on entry, confirm, undo, delete, edit; auto-open and bet timer | emits events into the store |
| Dealer's page, `web/shells/DealerShell.tsx`, `HistoryDialog.tsx` | hold of the confirm button, armed undo, edit, sheets, virtual indicators | press, hold, Cancel, undo, edit, delete, new series, end, deal, force | the store, the virtual dealer |
| Table of the service, `sync/tables/table-instance.ts`, `sync/ws/handler.ts`, `registry.ts` | log, client ids, rows, sockets | join, resync, event, restart | all clients, repository |
| Synced store, `web/table/synced-store.ts`, `offline-queue.ts` | copy of the log, pending events, offline queue, saved events | optimistic emit, confirm, roll back, resync, flush, reload | its socket, IndexedDB |
| Virtual dealer of the service, `sync/tables/virtual-dealer.ts`, `virtual-executor.ts`, `action-timer.ts` | seed, draws, awaiting, running deal, timers | trigger, action, paced reveal, change of series, end | the log, seed rows, `virtual.step` of the game |
| Dealer seat and player roster, `table-instance.ts`, `registry.ts`, `player-service.ts` | active and demoted sockets; register of players, waiting players, tokens | join, takeover, leave; join, admit, decline, remove, away, re-issue | handlers, REST routes, log |
| A phone's door, `web/pages/PlayPage.tsx`, `web/sync/player-token.ts` | phase of the page, stored token, connections | lookup, link, form, enter, refusal, retry, reload | REST routes, synced stores |
| Player's page, `web/shells/PlayerShell.tsx`, `web/betting/validate-bet.ts` | slip, banner, toasts | place, remove, settle banner | the store |
| Display, `web/shells/DisplayShell.tsx`, `web/animation/` | timeline, held board, leaderboard, notices | event, tick, timer, reload | the store |
| Solo table, `web/table/store.ts`, `solo-channel.ts`, `core/virtual-dealer.ts` | the log in one page, what was broadcast, the in-page dealer, two saved records | emit, snapshot, join, rejoin, player event, paced reveal, reload | BroadcastChannel, IndexedDB |
| Craps, baccarat, blackjack, roulette, `packages/game-*` | phase, point, shooter; shoe, roads; seats, hands, turns; spins, felt | entry, correction, statistics, virtual step, settlement | reducer, settlement |
| Dice picker, `packages/ui/src/DicePicker.tsx`, `game-craps/src/views/DealerView.tsx` | dice of the last render, express mode | tap, key, chip, confirm | the dealer's page |

What makes it hard:

* **Two orders of the same events.** A page shows its own event under a guessed
  number before the service has numbered it; another writer, a lost connection, a
  rejection or a reload may come in between (`synced-store.ts:225-262`).
* **Events applied later than they were sent.** A removal, a placement or a close
  meets a state that has moved on (`platform-reducer.ts:227-282`).
* **Settlements that are taken back.** An undo, a deletion or an edit reverses a
  settlement upon which carried bets and later rounds were built
  (`platform-reducer.ts:87-142, 301-324`).
* **Timers against people.** Auto-open and bet timer, the interval of a held button, the
  action timer and the auto-trigger, the leaderboard, the limits of an animation.
* **Death of the process or of the page** between a row and its acknowledgement, between
  two rows of one handler, between a row and the seed it commits to.
* **Seats that change hands.** Connections that break are noticed late; two pages of a
  dealer, an old connection of a phone, a token that was re-issued.
* **Derived state.** Every game rebuilds its boards after a correction in the middle of
  the history.

What makes each part correct is stated by the properties of section 3; the hazards
that they are aimed at, each at its line, are in `PROJECT.json`.

## 2. Modules

```
Platform ── DealerRound        EventLog <── implemented by ── TableServer ── SyncedStore
VirtualDealer                  TableRoom   PlayerDoor
Craps  Roulette  DiceEntry     Baccarat  Blackjack
DealerShell  SoloTable  SoloDealer  PlayerShell  Stage
Lists ── TableServer, SyncedStore, SoloTable, Stage, Craps    DataLemmas ── PlatformProofs, SyncProofs, ...
```

The `MC...` modules give the instances. `MCBets`, `MCCards`, `MCShells` and `MCTableRoom`
hold several components in one run: a behaviour chooses one of them at the start and
the variables of the others stay as they are.

Eight modules hold theorems: `PlatformProofs` (platform and the dealer's rounds),
`SyncProofs` (service and clients), `OutcomeProofs` (virtual dealer, dice entry and craps),
`SeatsProofs` (seat, roster and a phone's door), `PagesProofs` (dealer's page and display),
`PlayerProofs` (player's page), `SoloProofs` (the channel and the virtual dealer of a solo table),
and `DataLemmas`, which has no component: induction over naturals, finite sets and
sequences, sums over sets, folds. **`Lists`** has one operator, `Selection`, which is
`Array.prototype.filter` written as a fold: tlapm takes `SelectSeq` for an opaque
symbol, a fold it can unfold.

**`Platform`** has one action per event of `reducePlatform` that touches bets, rounds,
chips or results. The rules of a game are a constant table `Payout[target][kind]`, so
the module is about any game. `HasWorkingBets` separates games whose bets all end with
their round from those whose bets stay. `LateEvents` decides whether an event meets
the state that its sender saw. Three history variables (`slips`, `envelopes`, `funds`)
remember what the reducer forgets and are read by properties and by freshness guards
only. `ResultEdited` is the edit whose envelope names its round; `ResultEditedInDialog`
is the one the history dialog sends, which names none.

**`DealerRound`** extends `Platform` with `useBettingRound`: `seen` and `lastSettled` are
what was last rendered, `autoOpen` and `betTimer` are the armed timers with what they
closed over. `Render` is a render together with its effects. Every event of the page
is the platform action with the guard of the button or timer that sends it.

**`TableServer`** is one table of the service. `events` and `clientIds` are in memory,
`stored` are the rows; one action handles one message to its end, as the single thread
of the process does. `Restart` replaces the memory by the rows; `CrashAfterSave` dies
after the row and before the acknowledgement. `Environment` lets clients send anything.
**`EventLog`** is what the table promises, without sockets, memory or rows;
`TableServer` implements it with `log <- stored` (`ImplementsLog`).

**`SyncedStore`** extends `TableServer` and replaces the free environment by the clients:
one action per callback of `createSyncedTableStore`, one per step of
`flushOfflineQueue`, plus lost connections, reloads of a page and the offline view.
An event's content is its client id.

**`VirtualDealer`** is a virtual table of the service. A seed is named by its series and
a draw by its number in it; what a game's `virtual.step` may return is the constant
`Outcome`, whose instances come from the four games: craps and roulette pace one
result, baccarat paces cards and may roll the shoe over, blackjack awaits actions.
`deals` are the running timeouts of `executeVirtualRequest`. `mishaps` remembers by
which of the unusual ways the run went (`midDeal`, `afterEnd`, `again`, `torn`, ...), and
properties name the ways in which they do not hold.

**`TableRoom`** is the seat of the dealer and the register of players: pages with their
sockets and message channels, `active` and the demoted, a broken connection that the
page notices at once and the service later, rows beside the log with crashes in
between, tokens by their number.

**`PlayerDoor`** is the way of one phone to its seat: the bootstrap of `PlayPage` with the
token of a personal link or the stored one, the form, the answer that may be lost, the
dealer's answer, `connectPlayer` with its wait of 8 s, refusals, "Try again", reloads.
`stores` are all connections the page has made, the abandoned ones included; `given`
and `usurped` are history.

**`Craps`, `Baccarat`, `Blackjack`, `Roulette`** are the reducers of the games with the entry
of their dealer views (by dice, card, outcome, total, digit), corrections, the virtual
step, the statistics or roads, and the settlement of the whole catalogue. Each states
its rules a second time, declaratively, for the properties (`Tableau`, `WinsByRule`,
`Covering`, ...). One bet of craps (`slip`) is followed through the rolls, the others
are settled for every bet of the catalogue at every result.

**`DiceEntry`** is the picker of the craps dealer whose handlers see the dice of the last
render. **`DealerShell`** is the dealer's page: `holds` are the running intervals of the
confirm button, each with what was rendered when it was pressed; `ring` is the one
the page knows. **`SoloTable`** is the channel of a solo table with tabs and mirrors that
come and go; **`SoloDealer`** its virtual dealer with its two records of IndexedDB that
are written apart. **`PlayerShell`** is the slip against the rounds and the copy of the
log. **`Stage`** is the animation runtime with the display in front of it.

The faulty variants that precede some definitions (`...: Faulty variant`) are used by
no specification; they are plausible slips, and `PROJECT.json` (`mutants`) says which
property finds which. Properties under "Faulty in the code" are those the code does
not have; section 5 says of each what happens.

## 3. Runs

Each run takes one to three and a half minutes. `CHECK_DEADLOCK FALSE` is set
everywhere: a table may stop for good (a session ends, nobody acts any more), and the
bounds stop every counter.

| Run | Question | Instance |
|---|---|---|
| `platform_round` | do rounds, results, settlements and chips agree for bets that end with their round? | `RoundGameSpec` (no press, no toggle): 1 player, 2 bets, 2 rounds, 3 results; 19-to-20 banker, tie pushes |
| `dealer_auto` | does a bet that stays ride on, and does betting go on, under button, entry, history and both timers? | game of working bets, late events: 3 rounds, 2 results, 1 bet, fair timers |
| `store_queue` | is the queue delivered, does the display hear everything, is the log the promised one? | dealer and display, 2 events, a restart or crash, a lost display, fair messages |
| `store_pages` | do copies agree through reloads, lost connections, rejections, live input and the end? | dealer and display, 2 events, 1 reload each, 1 and 2 lost connections |
| `store_writers` | do they with two writers? **No** | dealer and player, one connection each |
| `virtual_series` | deals, seeds, timers, series, restarts of each game | 4 series, 6 rows, 3 draws, 2 closings, 1 restart, 1 repeated message |
| `virtual_replay` | does the log verify after a restart? **No** | 2 series, 2 draws, 1 restart |
| `felt` | craps, roulette and the dice picker: boards after corrections, rules, payouts, the order of the dice, throws from taps | 3 rolls of 4 throws, 1 correction; 1 to 3 spins on seven tables (wheels, zero rules, keys, felt); 2 throws by picker with faces 2, 5 |
| `cards` | baccarat and blackjack: recorded hands, roads, statistics, turns, payouts | ten plays of baccarat and seven sittings of blackjack, 1 to 14 hands, 1 correction |
| `shells` | the five pages: hold and undo, solo channel, solo dealer, slip, display | 3 presses, 2 corrections, 2 deals; five meetings on the channel; 6 rows, 1 reload; 2 rounds, 2 bets; 4 notices, 2 loads |
| `tables` | dealer seat, roster and a phone's door | 2 pages on 3 sockets, 2 players, 1 crash; 2 joins, 2 tokens, 3 connections, 4 faults |
| `solo_seed` | is a revealed seed of a solo table the committed one? **No** | as `shells` |

What the properties say:

* `RoundsAgree`, `ResolvedOnce`, `ChipsReconcile`: a round is paid exactly when it names its
  result; no bet is resolved twice; a bankroll is what was issued, less the felt, plus
  the profit of the settled bets, after any rewriting of the history.
* `StayingBetsRide`, `SecondRoundByTimer`, `BetTimerCloses`, `AutoOpenUnlessTwo`: a bet that
  stays rides into the very next round; a second open round comes from a stale
  auto-open timer only; without it rounds close and open again by themselves.
* `AckedKept`, `QueueDelivered`, `DisplayHears`, `ImplementsLog`, `QuietAgree`,
  `DisplayShowsPrefix`, `AtMostOnce`: what was acknowledged stays; what was made offline
  arrives; displays show a beginning of the log and come to its end; nothing is there
  twice while the process lives.
* `DealsCommitted`, `SeriesSealed`, `DealerSurvives`, `DealsEnd`: one deal at a time from a
  committed seed, no result after its seed was revealed, the next process finds the
  seed, every deal ends, outside the mishaps that each names.
* `CountsFollowThrows`, `OutcomesByTheRules`, `DiceGoToNext`, `FeltPays`, `RollsFromTheDice`:
  the puck and the statistics are those of the rolls and spins as they stand; bets are
  decided and paid by the rules; the dice go to the neighbour; a recorded throw was
  tapped, die by die, after the bets had closed.
* `CardsPay`, `RecordByTheRules`, `CountsFollowHands`, `TurnsInOrder`: the same for the card
  games; only the hand whose turn it is changes, and turns pass on.
* `OncePerPress`, `UndoTakesTheNamed`: one press saves one hand, Undo takes the hand it names.
* `FollowersAgree`, `NumbersRise`, `SeedSurvives`: who follows a solo table shows its log, no
  number is given twice over a reload, and the page comes back with its seed.
* `NoOverdraft`: the slip and all that was placed beside it never exceed the chips.
* `BoardReleased`, `FinalBoardStays`: an old board stands only under a timeline that will
  release it; the final leaderboard is not taken away by an earlier timer.
* `OneDealer`, `DealerKnows`, `PendingShown`, `AdmittedOnce`: one socket writes; a page to which
  nothing is on its way knows whether it is the dealer's and who waits; nobody is
  admitted twice.
* `SeatKept`: a phone keeps the token it was last given as long as it is worth something,
  and plays for the seat that this token opens.

Why the bounds are enough for what each asks. A reversal meets everything it can meet
with one earlier and one later round and one more result (2 and 3); a bet that stays
needs a round to come from, one to ride into and one to be taken up by (3 rounds). For
the log, one event on each side of a restart decides whether it is there twice; two
events are needed for an order and for a gap, and a second lost connection for a
resync that is itself lost. `store_pages` has no restart, for client ids are forgotten
with the process (`AtMostOnce` fails then, section 5). Two results of one series after a
restart show a repeated draw; a deal with two pauses can be overtaken at each of
them. In craps a point, its decision and one roll after it are three rolls; the four
throws contain a natural seven and a seven-out, a point made and missed, a hard way
and the barred twelve. `OneConcern` of `MCBets` explores bets and players one at a time,
for settlement never reads the players and the dice never read the bets. Seven player
hands in a row fill the grid of a road, six more turn beside its tail. A takeover of a
takeover needs two pages and a third socket; `OneConcern` of `MCTableRoom` keeps the
phones idle while the dealers move, for nothing of theirs is read by the seat. Three
connections of a phone are a first seat, a second one and one made while the first is
still refused. The symmetry of the pages, sockets and players of the room is sound:
its properties are all invariants and name none of them.

### What the violations show

* `store_writers`: the guessed number of an own event is that of another writer's, whose
  broadcast is then skipped as old (`synced-store.ts:225, 254`).
* `virtual_replay`: a restored dealer begins its seed again at the first draw
  (`registry.ts:219`).
* `solo_seed`: a new series is started while the last cards of a shoe are shown: the end
  of the series reveals a seed that the log has not committed to (`store.ts:229`).

### Fairness

* `DealerRound`: a render is followed by its effects and an armed timer fires (React and
  the browser promise both). The dealer and the players need not act.
* `SyncedStore`: socket.io reconnects by itself, messages that arrive are handled, the
  steps of a flush follow each other and its wait ends. Lost connections, restarts and
  reloads are bounded and never required; nobody is required to make an event.
* `VirtualDealer`: timeouts fire. Triggers, restarts and changes of series are free. Of
  the action timer this holds while the process lives; a restart forgets it together
  with what was awaited.

All are weak fairness: each action named stays enabled until it is taken or something
else makes it moot. The other components are checked for safety only.

## 4. Proofs

TLAPS checks the theorems for every value of the constants: any number of players,
rounds, clients, sockets, series, deals, faults. The assumptions are those the modules
name (types of the bounds and of the payout table; a game without working bets has no
bet that stays). The listed theorems and the properties of runs that they state:

| Module | Theorem | States |
|---|---|---|
| `PlatformProofs` | `BooksStayTyped`, `RoundsAlwaysAgree`, `RoundBetsResolveOnce`, `StayersAlwaysRide` | `RoundsAgree`, `ResolvedOnce` (games of round bets), `StayingBetsRide` |
| | `BankReconciles` | `ChipsReconcile` (games of round bets, no late events: the instance of its run) |
| | `DealerImplementsPlatform`, `StayersRideUnderTimers`, `SecondRoundOnlyByTimer` | `DealerSpec => Spec`, `StayingBetsRide`, `SecondRoundByTimer` (`Prompt`, as in its run) |
| `SyncProofs` | `LogInvariant`, `SeqsAlwaysIncrease`, `AcknowledgedStays`, `EndIsFinal`, `OnceInOneLife`, `TableImplementsLog` | `AckedKept`, `AtMostOnce` (one life of the process), `ImplementsLog` |
| | `PromisesAmongClients` | the same with the clients of `SyncedStore` |
| | `DisplayAlwaysShowsPrefix`, `DisplayCatchesUp` | `DisplayShowsPrefix` (one life of the process); the part of `QuietAgree` that is about displays, for any number of writers |
| | `OneWriterAgrees` | `QuietAgree` (one writer and any displays, one life of the process: the instance of its run; with two writers it is false, `store_writers`) |
| `OutcomeProofs` | `VirtualInvariant`, `DealsAlwaysCommitted`, `SeriesAlwaysSealed`, `DealerAlwaysSurvives` | `DealsCommitted`, `SeriesSealed`, `DealerSurvives` |
| | `EntryInvariant`, `RollsFromTheDiceAlways` | `RollsFromTheDice` |
| | `CrapsTyped`, `RollsSettleByTheRules`, `DiceGoRound` | `OutcomesByTheRules`, `DiceGoToNext` |
| | `PuckAsRolled` | `PuckFollowsRolls`, the craps half of `CountsFollowThrows` |
| `SeatsProofs` | `OneDealerAlways`, `AdmittedOnceAlways`, `PagesInvariant`, `DealerAlwaysKnows`, `PendingAlwaysShown` | `OneDealer`, `AdmittedOnce`, `DealerKnows`, `PendingShown` |
| | `DoorInvariant`, `SeatAlwaysKept` | `SeatKept` |
| `PagesProofs` | `ShellInvariant`, `SavesOncePerPress`, `UndoAlwaysTakesTheNamed` | `OncePerPress`, `UndoTakesTheNamed` (a button not pressed again while held) |
| | `BoardAlwaysReleased` | `BoardReleased` |
| | `FinalBoardAlwaysStays` | `FinalBoardStays` (no event after the end: `~AfterEnd`) |
| `PlayerProofs` | `StakesAreCovered` | `NoOverdraft` |
| `SoloProofs` | `KeeperInvariant`, `SeedAlwaysSurvives` | `SeedSurvives` |
| | `SoloInvariant`, `NumbersAlwaysRise`, `FollowersAlwaysAgree` | `NumbersRise`, `FollowersAgree` |

None of the properties is inductive alone. What each needs besides:

* **Platform.** `IInv == BooksOK /\ RoundsAgree /\ OneRoundPerResult /\ BetsHome /\ StayersWork`.
  A result may settle only its own round because it is fresh in `envelopes`; an edit
  keeps `RoundsAgree` because the round its envelope names is the one that names it
  back; `ResolvedOnce` needs that settlements of a round are about bets whose home is,
  or was, that round (`BetsHome`); riding needs that a bet that stays is marked working
  in a settled round (`StayersWork`). One lemma per kind of step.
* **The bank.** `BankInv`: every bet has the slip it was placed with, a settled bet has the
  chips of its settlement, a settled round has a settlement for every bet it holds, and
  for every player the sums agree. The sums are sums over finite sets of bets and of
  settlements; `DataLemmas` proves what a step does to one (`SumSteps`, `SumParts`,
  `SumPlus`, `SumImage`), `ReversingKeeps` and `SettlingKeeps` what an edit and a result
  do to all of them at once. Two hypotheses, both of them those of the run
  `platform_round`: bets that stay are settled again by a known fault (section 5), and a
  late removal meets a state its sender never saw.
* **The dealer's rounds.** Every step of `DealerRound` is one of `Platform` or leaves its
  variables alone, so all theorems of `Platform` hold under timers and buttons.
  `SecondRoundByTimer` needs of the hook what its rendered view and its timers may hold
  (`HookInv`), of the rounds that the opened ones have a last one (`RoundsBounded`: else
  there is no current round), and one lemma about which steps open a round
  (`WhoOpens`): with `Prompt` the button is the button of the current round.
* **Table of the service.** `LogInv` must know the rows: a restart replaces the log by
  them, so what is said of the log after it is what was said of the rows before it.
  `IdsAnswered` (a remembered client id is in the log) makes the answer to a repeated
  event an acknowledgement of something that is there; with `IdsRemembered` (what the
  log holds is remembered) it gives `AtMostOnce` until the first restart.
* **Displays.** `DisplayInv` says of one display where on its way to the log it is: no
  connection (`Off`), a join or resync not yet answered (`Asks`), an answer on its way
  (`Told`), or following (`Hears`), and that copy, answer and the news behind it are, one
  after the other, a run of the log without a gap. In one life of the process the log
  is numbered without gaps (`NewIsNumbered`), and a copy without gaps (`GoodCopy`) takes
  exactly the next event (`TakeNext`, `TakeRun`). The copy is a fold of `TakeEvent`, whose
  steps are proved from `DataLemmas`. After a restart the numbers of events without
  rows are given again, and the property is false of a copy that kept them.
* **The writer.** `WriterInv`: the only client that is not a display is not told the log yet
  (`Away`) or plays (`Plays`), and then its copy is `Sound`. The seqs of the copy say
  little: what it makes gets a guessed seq, live input may take the number that was
  guessed, and an event of the log may be skipped because the guess was too high. So
  `Sound` speaks of ids: they tell in which order the writer made its events, and both
  log and copy keep that order (`Written`, `InOrder`). What lasts in the copy is in the
  log or waits for an answer; what lasts in the log is in the copy, or waits there and
  its confirmation is on its way (`Agrees`). News is harmless because an event that still
  waits is confirmed before it is announced (`Known`), so a copy that has it under a guess
  is corrected first. A refusal says what is not in the log and will not come there
  (`Says`); what waits was sent or is answered (`Waits`), so when nothing is on its way
  nothing waits, copy and log have the same lasting events in the same order, and are
  equal (`SameIsEqual`). `LossesStay` and `DisplayIsQuiet` keep everybody else out of it. A
  second writer breaks `Agrees`: its event is skipped for a guess of the first.
* **Virtual dealer.** `VirtualInv`. What the log will say is already decided in a running
  deal and in the dealer's memory: `DealPending` says of every closing of a deal what
  it may append, depending on what went amiss; `HostCommitted` that the seed in memory
  is committed by the log or by the deal; `Survives` that the newest series of the log
  is saved.
* **Dealer seat and roster.** `OneDealer` is inductive. `PagesInv` speaks of the last message
  about the seat, and the last list of waiting people, on every channel: what they say
  is true, and a page to which none is coming knows it (`SeatTold`, `SeatKnown`,
  `ListTold`, `ListKnown`). `RegisterInv` counts the events of a player against the row.
* **A phone's door.** `DoorInv`. Every token that is stored, shown or used was issued, and
  rows only take validity away (`WorthNothingStays`), so a refusal that is still on its
  way is still true when it is heard; until a page has heard the answer to its join, the
  answer is what comes first (`Sound`); and the store that is shown is the one whose
  token is stored whenever no connection is being waited for (`PlaysForStored`).
* **Dice entry.** The dice shown were tapped since the series last changed, and betting
  is closed while one is shown (`EntryInv`).
* **Craps.** `CrapsInv`. The board is what its rolls say, or a shooter was started in
  mid-hand since (`BoardInv`); a bet has a number exactly when its kind has one
  (`SlipInv`); and until the next shooter is named the dice are with the player who threw
  the seven-out, unless they were passed on (`DiceInv`). The board is a fold over rolls
  that each say what the board before them made of them, and a correction folds rows
  that an earlier fold wrote: `RebuiltSteps` says what one roll more does, `RebuiltAgain`
  that the rows of a rebuilt board rebuild it. With that a settlement reads the phase and
  the puck that the row of its roll shows, and one lemma for each family of bets
  (`LineBets`, `ComeBets`, `OddsBets`, `NumberBets`, `FieldBets`) compares the code's case
  analysis with the rule. For the puck, `Told` says of every row that it was decided by the
  one number that was set and not settled by the rows before it (`PuckAt`, `PuckMoves`);
  that number and the rows which set it are then the only ones the totals allow
  (`PointsOfLog`, `DecisionsOfLog`). Assumed: what the catalogue says of bets
  (`WagerAssumption`) and the schema of rules (`CrapsRulesAssumption`).
* **Dealer's page.** At most one hold runs, it is the one of the ring and has not saved
  (`PressInv`); every hand has an origin of its own (`HandInv`); an armed undo names the
  last hand until the last hand is another one (`UndoInv`). Proved for `Patient`: a button
  is not pressed again while it is held. Without it `OncePerPress` is false.
* **Display's board.** `BoardInv`: the runtime is one (`Machine`) that holds back, if anything, the
  board before the event whose blocking timeline runs, and the timeline is `Within` the
  limit of the device. The second part is what a scheduler that scales by rounding could
  get wrong: rounding keeps the order (`RoundedMore`) and maps the longest end to the
  limit itself (`RoundedWhole`), and because begin and end are rounded alike the parts
  still meet (`ScaledWithin`); the follow-ups begin where their predecessors end
  (`BeginsSteps`, over a fold of lengths). Several events of one notice are a fold of
  `Schedule`, which keeps all that (`ScheduleAllKeeps`); later events change nothing of what
  the log says of the event shown (`MachineMore`).
* **Display's leaderboard.** `FinalInv`: if the table ended, the end is its last event (`EndsLast`),
  the leaderboard stands for an event that was rendered, and a persistent leaderboard
  has no timer that could hide it.
* **Player's page.** `OnTheRightPage`, that is `PlayerInv` with the type of the slip. The page
  checks a stake against its copy and the service checks nothing, so the chips are right
  only because the copy is. As long as it was neither `corrected` nor `crossed` there are
  `k` and `h` with `CopyRight(k, h)`: the copy is the first `k` events of the log and after
  them own events that wait for an answer (`Copy`, `Order`); the service has answered the
  first `h` of the copy; and the messages on their way bring the rest of the log, each
  event once and in order (`News`). Then both logs are without debt (`NoDebt`), from their
  first event to their last, for which the chips of the player (`Wealth`, in hand and on
  the felt) are followed: own events move them between the two, the dealer's only add to
  them and empty the felt. Three cases are hard. An own event may reach the log behind
  events of the dealer the page has not heard of (`AcceptLog`). A refused bet takes itself
  out of the middle of the copy, under removals and results the page has applied
  (`DropBet`). And a bet taken back may be given back by a refusal (`GivenBack`), so the
  felt of the log is on the page (`OnThePage`) only until then. TLC checked the invariant
  on the instance of the run `shells` before it was proved.
* **Virtual dealer of a solo table.** The rows of the table with those its deal will add
  are one plan; every dealer that is saved or on its way to the database has a series
  that the plan starts with that dealer's seed only (`Fits`), so whichever of the saved
  states a reload finds agrees with whichever rows it finds.
* **Channel of a solo table.** `SoloInv`. What a follower will show when it has heard the
  messages on its way is a fold of them over what it shows (`Caught`). For one that has a
  store and is not apart, that is the log, or its hello is still on the way and will be
  answered with everything (`Agreed`); to one without a store only answers are on the
  way. The dealer's tab has told everything while it listens, and when it does not
  although it should, everybody is apart (`HostInv`): else the switch that makes it
  listen would be an event nobody is told of. `Spreading` is the one lemma for all that
  `Emit` does: the numbers it gives go on from the log, so what is fresh is exactly what
  was appended (`FreshAreNew`), and a follower takes it one by one (`NewsArrive`).

Model-checked only:

* what holds under fairness, out of the provers' reach: `QueueDelivered`, `DisplayHears`,
  `DealsEnd`, `BetTimerCloses`, `AutoOpenUnlessTwo`;
* what the card games and roulette rebuild from their history: `CountsFollowHands`,
  `RecordByTheRules`, `TurnsInOrder`, the roulette half of `CountsFollowThrows`, and the
  payouts (`FeltPays`, `CardsPay`). The induction theorems of the library take an operator
  as a parameter and cannot be used; `DataLemmas` gets round this for sets and, with a
  lemma for each operator, for folds (`BankReconciles`, the displays and craps rest on
  that). The boards of these games are folds of hundreds of lines, and their rules are
  what a run can enumerate;
* `QuietAgree` for a table with two or more writers is false, and the run `store_writers`
  shows it; no state of the code excludes a second writer, so one writer is a hypothesis
  of the theorem and not an assumption of the module.

## 5. Known disagreements

Each line is what the code does against what a document or the rest of the code says,
met while modelling. Names in capitals and lower case (`EditsResettle`) are properties
that the module states and that TLC finds violated.

**Platform and rounds.** The dialog's edit (`HistoryDialog.tsx:82`) leaves out the `roundId`:
the payments are taken back, the round is closed again and not settled
(`EditsResettle`, `SPEC.md:288`). `reassignCarriedBets` (`platform-reducer.ts:57`) asks
whether a bet is working and not whether it stayed, so a resolved line bet is settled
again (`ResolvedBetsRest`, `SPEC.md:466`). The reducer checks no bankroll
(`SPEC.md:931`). A stale auto-open timer opens a second round beside the dealer's own
(`OneOpenRound`; `use-betting-round.ts:100`); in a solo table two panes run the hook on
one store (`DealerShell.tsx:133`, `DisplayShell.tsx:153`), so both timers open one
(`SPEC.md:459-461`). Quick results (chips, `autoConfirm`, the picker's commit) go past
`onDealerEntry` (`DealerShell.tsx:637`): an open round is neither closed nor settled
(`SPEC.md:371`), and betting goes on after the result is known.

**Sync and virtual dealer.** `store_writers`, `virtual_replay`. Client ids have no rows: an
event whose acknowledgement is lost in a restart is appended a second time
(`AtMostOnce` across restarts). A repeated `SERIES_STARTED` rotates the virtual dealer
before its client id is looked up, so results follow that no event committed to.
Results may follow the reveal of their seed, or the end of the session, when a deal
is running. No shipped game names a player in `turn()`: the action timer is never
armed by them.

**Dealer's page.** Cancel takes away the ring and not the interval, with two presses held
at once (`CancelledStaysCancelled`, `SPEC-PLATFORM-v2.md:281`; `DealerShell.tsx:232-249`);
the first one's interval then saves again and again. The force button may
never come back while a player is awaited (`ForceComesBack`, `SPEC.md:372`;
`DealerShell.tsx:487-489`). In solo events may follow the end
(`EndIsFinal`, `SPEC.md:346`). Cancelling an edit does not stop a hold.

**Seats.** The capacity is checked when a player joins and not when one is admitted, and
a removed phone that becomes active is patched back (`WithinMaxPlayers`, `SPEC.md:305`). A
crash between a row and its event loses a player (`NobodyLost`). A reconnecting dealer
whose own dead socket still sits is refused and does not try again (`DealerSeesShell`).
Admission taps made offline are sent before the join and ignored. `purgeIdle` deletes
rows (`registry.ts:314-331`).

**A phone's door.** The connection of an earlier seat is never closed; when it is refused,
the token of the later seat is thrown away (`EarlierSeatKept`, `PlayPage.tsx:250-255`,
`SPEC.md:330`). A page reloaded while it waits for the dealer shows the table as if it
played (`WaitingIsShown`). A lost answer to the form leaves an orphan player. An
outdated personal link overwrites and then discards a token that was still good
(`PlayPage.tsx:148-152`).

**Player's page.** The reducer checks no bet against the bankroll, so a page whose copy
another writer has made wrong stakes chips the player has not got (`NeverOverdrawn`).
The page itself counts placed chips twice, for the bankroll is already less the placed
bets (`SPEC.md:430`). A banner stays when, within its 4 s, a round that brings nothing
settles or the result is undone (`BannerHasTimer`, `PlayerShell.tsx:570-572`). The slip
survives the close of its round (`SPEC.md:429`).

**Solo.** `solo_seed`. A second tab takes over the token of the first (`OwnPlayers`,
`SPEC.md:891`). A reload between two saves leaves a player without chips; a restored
stream of dice starts at draw 0; ephemeral numbers are given again, so open mirrors
ignore events until their next snapshot.

**Display.** A rewriting of the history is not noticed if another event comes before the
render (`RewriteNoticed`). A second end of a series within 15 s does not restart the
timer of its leaderboard.

**Craps.** Horn and C&E pay the returned unit once too often (`settle.ts:347`); a place or
hard way bet that stays is on at the next come-out although `SPEC-CRAPS.md` turns it off; an
edit settles with the boards of before and after it (`platform-reducer.ts:118`); the
dice passed between a seven-out and its automatic series skip a player; statistics are
counted again by a rebuild (`state.ts:145`); "Hard 5" and "Hard 9" are offered
(`PlayerView.tsx:59-63`). In express mode the second die records nothing, and
correcting a full pair records the old one (`SPEC-CRAPS.md` section 3.2).

**Baccarat.** A card that was removed comes back with the next entry (`RemovedCardGone`,
`SPEC-BACCARAT.md:86`, `reducer.ts:45`).

**Blackjack.** A 21 after a split is entered as a natural (`SplitIsNoNatural`,
`SPEC-BLACKJACK.md:45`); the hole card is shown (`HoleFaceDown`, `SPEC-BLACKJACK.md:371`); the
virtual dealer deals to seat 1 only (`virtual.ts:102`) and checks neither legality nor turn.

**Roulette.** The phone marks its bets as declared, and their stakes are then not taken
from the bankroll though they are paid back (`PurseReconciles`, `SPEC.md:445`,
`platform-reducer.ts:20-38, 233`); a bet placed by "Repeat last" keeps the mark of a
prisoner (`FreshBetsAreFree`, `SPEC-ROULETTE.md:324`); a digit that makes no number on the
wheel takes the place of the first (`DigitsBuildTheNumber`, `SPEC-ROULETTE.md:89`,
`NumberGrid.tsx:131-139`); the remainder of a call bet vanishes (`settle.ts:146`).

## 6. Not modelled

`PROJECT.json` lists every part with the reason. In short: wording, layout and sound;
cryptography (seeds are opaque; what is verified with them is modelled); SQL and
IndexedDB (a save is a step that takes effect at once, or, in `SoloDealer`, one that is
under way); rate limits beyond "rejected"; settings; exports other than the text of a
hand; odds limits and limits of the table; the landing, solo and verification pages.
Writes to IndexedDB of the queue are taken as done when they are started, so two
enqueues that overlap (`offline-queue.ts:22`) are not explored. `PlayerDoor` leaves out the
removal of a player by the dealer, which `TableRoom` has.

## 7. Plan

Done: the models of sections 2 and 3, and proofs for twelve of them. Next, in this order:

1. `OfflineQueue` with overlapping transactions; `Platform` with `VirtualDealer`, for bets
   that meet a paced result.
