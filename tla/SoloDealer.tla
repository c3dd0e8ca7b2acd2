------------------------------- MODULE SoloDealer -------------------------------
(***************************************************************************)
(* The virtual dealer of a solo table, which the page runs and the browser *)
(* keeps: the steps of the game and their paced reveal, the change of      *)
(* series, the end of the session, and what a reload finds.                *)
(*                                                                         *)
(* The rows of the table and the state of the dealer are two records of    *)
(* the browser's database that are written separately, each of them in the *)
(* order of the calls.  LIVE_INPUT is not kept: in these rows a card is    *)
(* only a pause, but the dealer's state is saved with it.                  *)
(***************************************************************************)
EXTENDS Integers, Sequences, SequencesExt

CONSTANTS
  SoloGame,    \* the games: "dice" (and wheel), "shoe"
  StepResult,  \* StepResult[g][a]: what the step of g may return while it awaits a
  MaxRows,     \* bound: rows after which nobody starts anything
  MaxChanges,  \* bound: series
  MaxSteps,    \* bound: steps from one seed
  MaxReloads   \* bound: reloads of the page

ASSUME SoloDealerAssumption ==
  /\ \A g \in SoloGame : \A a \in {"none", "action", "trigger"} : \A o \in StepResult[g][a] :
       /\ o.waits \in Nat /\ o.result \in BOOLEAN /\ o.rollover \in BOOLEAN
       /\ o.next \in {"none", "action", "trigger"}
  /\ {MaxRows, MaxChanges, MaxSteps, MaxReloads} \subseteq Nat

VARIABLES
  soloGame,     \* the game of the table
  rows,         \* its events: series, results and the end of the session
  rowsKept,     \* how many of them the database has
  keeper,       \* the VirtualDealer: series, seed, place of its next draw, awaiting
  keeperKept,   \* the one in the database
  keeperSaves,  \* saveVirtualState calls that are not there yet
  script,       \* the deal that runs, or <<>>: pauses left and the rows that follow them
  changes,      \* series made so far
  secrets,      \* seeds made so far
  reloads,
  missteps      \* history: the series or the session ended while a deal ran; a reload found
                \* the rows and the dealer at two series

tableVars == <<rows, keeper, keeperSaves, script, changes, secrets>>
soloDealerVars == <<soloGame, tableVars, rowsKept, keeperKept, reloads, missteps>>

SeriesRow(s, seed) == [type |-> "started", series |-> s, seed |-> seed]
SealRow(s, seed) == [type |-> "ended", series |-> s, seed |-> seed]
ResultRow(d) == [type |-> "result", series |-> d.series, seed |-> d.seed]
LastRow == [type |-> "over", series |-> 0, seed |-> 0]

FreshKeeper(s, seed) == [series |-> s, seed |-> seed, place |-> 0, awaiting |-> "trigger"]
Rotated == FreshKeeper(changes + 1, secrets + 1)
RotationRows == <<SealRow(keeper.series, keeper.seed), SeriesRow(changes + 1, secrets + 1)>>

SoloDealerInit ==
  /\ soloGame \in SoloGame
  /\ rows = <<SeriesRow(1, 1)>> /\ rowsKept = 1
  /\ keeper = FreshKeeper(1, 1) /\ keeperKept = keeper /\ keeperSaves = <<>>
  /\ script = <<>> /\ changes = 1 /\ secrets = 1 /\ reloads = 0 /\ missteps = {}

-----------------------------------------------------------------------------
(* The store *)

\* Faulty variant: the rows are appended, the state of the dealer is not saved.
AppendOnly(es, d) == rows' = rows \o es /\ UNCHANGED keeperSaves

\* appendPersisted, for every event; the state is the same for all of a batch.
AppendPersisted(es, d) ==
  /\ rows' = rows \o es
  /\ keeperSaves' = IF Last(<<keeperKept>> \o keeperSaves) = d THEN keeperSaves ELSE Append(keeperSaves, d)

Rolls(yes) ==
  IF yes THEN changes < MaxChanges /\ changes' = changes + 1 /\ secrets' = secrets + 1
         ELSE UNCHANGED <<changes, secrets>>

\* runStep, and the first events of the script: what needs no pause is appended at once.  The
\* series is changed before any of it is shown.
SoloStep(o) ==
  /\ script = <<>> /\ Len(rows) < MaxRows /\ keeper.place < MaxSteps
  /\ Rolls(o.rollover)
  /\ keeper' = IF o.rollover THEN Rotated ELSE [keeper EXCEPT !.place = @ + 1, !.awaiting = o.next]
  /\ LET es == (IF o.result THEN <<ResultRow(keeper)>> ELSE <<>>) \o (IF o.rollover THEN RotationRows ELSE <<>>)
     IN IF o.waits = 0
          THEN AppendPersisted(es, keeper') /\ UNCHANGED script
          ELSE AppendPersisted(<<>>, keeper') /\ script' = <<[waits |-> o.waits, rows |-> es]>>
  /\ UNCHANGED <<soloGame, rowsKept, keeperKept, reloads, missteps>>

\* sendVirtual: the button and Force.  Neither looks whether the session has ended.
SendVirtual == \E o \in StepResult[soloGame][keeper.awaiting] : SoloStep(o)

\* A pause of runScheduledEvents ends.
PauseEnds ==
  /\ script # <<>>
  /\ LET s == Head(script)
     IN IF s.waits > 1
          THEN AppendPersisted(<<>>, keeper) /\ script' = <<[s EXCEPT !.waits = @ - 1]>>
          ELSE AppendPersisted(s.rows, keeper) /\ script' = <<>>
  /\ UNCHANGED <<soloGame, rowsKept, keeper, keeperKept, changes, secrets, reloads, missteps>>

MidScript == IF script # <<>> THEN missteps \cup {"midDeal"} ELSE missteps

\* startNewSeries, also while a deal runs or after the end
ChangeSeries ==
  /\ Len(rows) < MaxRows
  /\ Rolls(TRUE)
  /\ keeper' = Rotated
  /\ AppendPersisted(RotationRows, keeper')
  /\ missteps' = MidScript
  /\ UNCHANGED <<soloGame, rowsKept, keeperKept, script, reloads>>

\* endSession, which the page offers once.
CloseSession ==
  /\ \A i \in DOMAIN rows : rows[i].type # "over"
  /\ AppendPersisted(<<SealRow(keeper.series, keeper.seed), LastRow>>, keeper)
  /\ missteps' = MidScript
  /\ UNCHANGED <<soloGame, rowsKept, keeper, keeperKept, script, changes, secrets, reloads>>

-----------------------------------------------------------------------------
(* The browser *)

\* saveTableEvents, saveVirtualState
RowsSaved ==
  /\ rowsKept < Len(rows)
  /\ rowsKept' = rowsKept + 1
  /\ UNCHANGED <<soloGame, tableVars, keeperKept, reloads, missteps>>

KeeperSaved ==
  /\ keeperSaves # <<>>
  /\ keeperKept' = Head(keeperSaves) /\ keeperSaves' = Tail(keeperSaves)
  /\ UNCHANGED <<soloGame, rows, rowsKept, keeper, script, changes, secrets, reloads, missteps>>

LastSeries(rs) ==
  LET starts == {i \in DOMAIN rs : rs[i].type = "started"}
  IN rs[CHOOSE i \in starts : \A j \in starts : j <= i].series

\* Faulty variant: the dealer is made anew for the last series.
ReopenedAnew(rs) == FreshKeeper(LastSeries(rs), secrets + 1)

\* reopenTableStore: the kept dealer if it is the one of the last series, or another one with a
\* seed of its own.  A shoe is part of what is kept, the place in a stream of dice is not.
Reopened(rs) ==
  LET s == LastSeries(rs)
  IN IF keeperKept.series # s THEN FreshKeeper(s, secrets + 1)
     ELSE IF soloGame = "dice" THEN [keeperKept EXCEPT !.place = 0] ELSE keeperKept

Reload ==
  /\ reloads < MaxReloads
  /\ reloads' = reloads + 1
  /\ rows' = SubSeq(rows, 1, rowsKept)
  /\ keeper' = Reopened(rows') /\ secrets' = secrets + 1
  /\ missteps' = IF keeperKept.series # LastSeries(rows') THEN missteps \cup {"torn"} ELSE missteps
  /\ keeperSaves' = <<>> /\ script' = <<>>
  /\ UNCHANGED <<soloGame, rowsKept, keeperKept, changes>>

-----------------------------------------------------------------------------

SoloDealerNext ==
  \/ SendVirtual \/ PauseEnds \/ ChangeSeries \/ CloseSession
  \/ RowsSaved \/ KeeperSaved \/ Reload

SoloDealerSpec == SoloDealerInit /\ [][SoloDealerNext]_soloDealerVars

-----------------------------------------------------------------------------
(* Properties *)

\* State of the table and of its dealer.
SoloDealerOK ==
  /\ \A i \in DOMAIN rows : rows[i].type \in {"started", "ended", "result", "over"} /\ rows[i].seed \in 0 .. secrets
  /\ rowsKept \in 1 .. Len(rows) /\ changes \in 1 .. MaxChanges
  /\ keeper.series \in 1 .. changes /\ keeperKept.series \in 1 .. changes

\* One of the first n rows commits to the seed of r.
Committed(rs, n, r) == \E k \in 1 .. n : rs[k] = SeriesRow(r.series, r.seed)
AsCommitted(rs) == \A i \in DOMAIN rs : rs[i].type \in {"result", "ended"} => Committed(rs, i - 1, rs[i])

\* Every result comes from a seed that the table committed to before, and what the end of a
\* series reveals is the seed of that commitment, however often the page is reloaded; unless a
\* reload found the dealer at another series than the rows, or a series ended while a deal ran.
SeedsKept == missteps = {} => AsCommitted(rows)

\* The page comes back at the series it had, with its seed: whenever both records are written and
\* no deal runs, a reload goes on with the committed seed, unless a series ended while a deal ran.
ReloadKeepsSeed ==
  missteps = {} /\ rowsKept = Len(rows) /\ keeperSaves = <<>> /\ script = <<>> =>
    LET d == Reopened(rows) IN d.series = keeper.series /\ d.seed = keeper.seed

\* Both: what a reload brings back is the dealer the table had, and its draws stay committed.
SeedSurvives == SeedsKept /\ ReloadKeepsSeed

\* "Anyone can recompute the commitment" (SPEC.md:516), "per-series commit-reveal" also in
\* process for Solo (SPEC.md:965): a revealed seed is the committed one.
RevealsTheCommitted == \A i \in DOMAIN rows : rows[i].type = "ended" => Committed(rows, Len(rows), rows[i])

================================================================================
