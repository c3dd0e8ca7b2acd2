---------------------------- MODULE VirtualDealer ----------------------------
(***************************************************************************)
(* The virtual dealer of one table of the sync service: the series and its *)
(* committed seed, the steps of the game, their paced reveal, the timers    *)
(* that step by themselves, the dealer's change of series and end of the    *)
(* session, and what a restart finds in the repository.                     *)
(*                                                                         *)
(* A seed is named by its series: SERIES_STARTED commits to it, SERIES_ENDED *)
(* reveals it.  A draw is what one step takes from the seed (rng counter and *)
(* place in the shoe).  Card reveals and VIRTUAL_PENDING are ephemeral: in   *)
(* this log they are only the pauses before the events that stay.           *)
(***************************************************************************)
EXTENDS Integers, Sequences, FiniteSets, SequencesExt

CONSTANTS
  Game,         \* the games that have a virtual.step
  Outcome,      \* Outcome[g][a]: what the step of g may return while it awaits a
  AutoTrigger,  \* settings.virtual.autoTrigger
  ActionTimer,  \* settings.virtual.actionTimerSec > 0, and turn() names a player
  MaxSeries,    \* bound: series of the table
  MaxLog,       \* bound: rows after which nobody starts anything
  MaxDraws,     \* bound: steps from one seed
  MaxCloses,    \* bound: BETS_CLOSED
  MaxRestarts,  \* bound: restarts of the process
  MaxResends    \* bound: SERIES_STARTED messages that arrive twice

Awaiting == {"none", "action", "trigger"}

ASSUME OutcomeAssumption ==
  \A g \in Game : \A a \in Awaiting : \A o \in Outcome[g][a] :
    o.waits \in Nat /\ o.result \in BOOLEAN /\ o.rollover \in BOOLEAN /\ o.next \in Awaiting
ASSUME SettingAssumption == AutoTrigger \in BOOLEAN /\ ActionTimer \in BOOLEAN
ASSUME LimitAssumption ==
  /\ MaxSeries \in Nat \ {0} /\ MaxLog \in Nat /\ MaxDraws \in Nat /\ MaxCloses \in Nat
  /\ MaxRestarts \in Nat /\ MaxResends \in Nat

\* A series or the session ended while a deal ran; a step after the end of the
\* session; a series rotated again by a repeated message; a death between two rows.
Mishap == {"midDeal", "afterEnd", "again", "torn"}

VARIABLES
  game,      \* the game of the table
  log,       \* rows of the event log: series, results and the end of the session
  seeds,     \* the series whose seed is in the repository
  host,      \* the VirtualDealer in memory: series (0: there is none), drawn, awaiting
  dealing,   \* VirtualDealer.dealing
  deals,     \* running paced deals: pauses left and the events that follow them
  timer,     \* the action timer is armed
  autos,     \* auto-trigger timers that run
  created,   \* number of series created so far
  started,   \* the process has handled a SERIES_STARTED message
  closes, restarts, resends,
  mishaps    \* history: what went amiss, of Mishap

dealVars == <<dealing, deals, timer>>
countVars == <<closes, restarts, resends>>
virtualVars == <<game, log, seeds, host, dealVars, autos, created, started, countVars, mishaps>>

Started(s) == [type |-> "started", series |-> s]
EndedSeries(s) == [type |-> "ended", series |-> s]
Over == [type |-> "over"]
ResultOf(s, n) == [type |-> "result", series |-> s, draw |-> n, process |-> restarts]

Opened(s) == [series |-> s, drawn |-> 0, awaiting |-> "trigger"]
Hosted == host.series # 0
SessionOver == \E i \in DOMAIN log : log[i].type = "over"

-----------------------------------------------------------------------------
(* One step of the game *)

\* Faulty variant: the series changes before the result is appended.
ClosingBackwards(o, s, n) ==
  (IF o.rollover THEN <<EndedSeries(s), Started(created + 1)>> ELSE <<>>)
    \o (IF o.result THEN <<ResultOf(s, n)>> ELSE <<>>)

\* The final events of the step: the result, then the change of series.
Closing(o, s, n) ==
  (IF o.result THEN <<ResultOf(s, n)>> ELSE <<>>)
    \o (IF o.rollover THEN <<EndedSeries(s), Started(created + 1)>> ELSE <<>>)

\* Faulty variant: the seed of an automatic series is in memory only.
AppendUnsaved(es, h) == log' = log \o es /\ UNCHANGED seeds

\* appendPacedEvent: SERIES_STARTED saves the seed that the dealer holds by now.
AppendPaced(es, h) ==
  /\ log' = log \o es
  /\ seeds' = IF \E i \in DOMAIN es : es[i].type = "started" THEN seeds \cup {h.series} ELSE seeds

\* onAck of a deal: the timer of the player whose action is awaited.
ArmTimer(h) == ActionTimer /\ h.awaiting = "action"

\* The place in the seed that the next step draws from.
NextDraw == host.drawn + 1

\* executeVirtualStep: the step is computed at once, the series with it; what it
\* returned is appended now or after its pauses.
Step(o) ==
  /\ Hosted /\ ~dealing
  /\ Len(log) < MaxLog /\ host.drawn < MaxDraws /\ (o.rollover => created < MaxSeries)
  /\ LET h == IF o.rollover THEN Opened(created + 1)
              ELSE [host EXCEPT !.drawn = @ + 1, !.awaiting = o.next]
         es == Closing(o, host.series, NextDraw)
     IN /\ host' = h
        /\ IF o.waits = 0
             THEN AppendPaced(es, h) /\ timer' = ArmTimer(h) /\ UNCHANGED <<dealing, deals>>
             ELSE /\ dealing' = TRUE /\ timer' = FALSE
                  /\ deals' = Append(deals, [waits |-> o.waits, closing |-> es])
                  /\ UNCHANGED <<log, seeds>>
  /\ created' = IF o.rollover THEN created + 1 ELSE created
  /\ mishaps' = IF SessionOver THEN mishaps \cup {"afterEnd"} ELSE mishaps
  /\ UNCHANGED <<game, started>>

\* Faulty variant: a deal that finds the series changed returns without a word.
FinishDealUnlessRotated(d) ==
  dealing' = ~ \E i \in DOMAIN d.closing :
                  /\ d.closing[i].type \in {"started", "result"}
                  /\ d.closing[i].series = host.series

\* The finally of runScheduledEvents.
FinishDeal(d) == dealing' = FALSE

\* A pause ends: another card is shown, or the deal is finished.
Reveal == \E i \in DOMAIN deals :
  /\ IF deals[i].waits > 1
       THEN /\ deals' = [deals EXCEPT ![i].waits = @ - 1]
            /\ UNCHANGED <<log, seeds, dealing, timer>>
       ELSE /\ AppendPaced(deals[i].closing, host)
            /\ deals' = RemoveAt(deals, i)
            /\ FinishDeal(deals[i])
            /\ timer' = (timer \/ ArmTimer(host))
  /\ UNCHANGED <<game, host, autos, created, started, countVars, mishaps>>

-----------------------------------------------------------------------------
(* What makes it step *)

\* handleVirtual: trigger, action or force, each of them a step.
HandleVirtual ==
  /\ \E o \in Outcome[game][host.awaiting] : Step(o)
  /\ UNCHANGED <<autos, countVars>>

\* The action timer plays the default action; every step cancels it first, so that
\* no deal runs when it fires.
ActionTimerFires ==
  /\ timer
  /\ \E o \in Outcome[game][host.awaiting] : Step(o)
  /\ UNCHANGED <<autos, countVars>>

\* scheduleAutoTrigger and its timer leave a deal and an awaited player alone.
Refused == ~Hosted \/ dealing \/ host.awaiting = "action"

\* The dealer closes the bets of a round, which may schedule a trigger.
HandleBetsClosed ==
  /\ ~SessionOver /\ closes < MaxCloses
  /\ closes' = closes + 1
  /\ autos' = IF AutoTrigger /\ ~Refused THEN autos + 1 ELSE autos
  /\ UNCHANGED <<game, log, seeds, host, dealVars, created, started, restarts, resends, mishaps>>

AutoTriggerFires ==
  /\ autos > 0
  /\ autos' = autos - 1
  /\ IF Refused
       THEN UNCHANGED <<game, log, seeds, host, dealVars, created, started, mishaps>>
       ELSE \E o \in Outcome[game][host.awaiting] : Step(o)
  /\ UNCHANGED countVars

-----------------------------------------------------------------------------
(* The dealer's messages *)

MidDeal == IF dealing THEN mishaps \cup {"midDeal"} ELSE mishaps

\* Faulty variant: a new series is a new VirtualDealer, which is not dealing.
RotateSeriesAnew ==
  /\ created < MaxSeries
  /\ created' = created + 1
  /\ host' = Opened(created + 1)
  /\ dealing' = FALSE
  /\ UNCHANGED <<deals, timer>>

\* rotateSeries, which keeps `dealing`.
RotateSeries ==
  /\ created < MaxSeries
  /\ created' = created + 1
  /\ host' = Opened(created + 1)
  /\ UNCHANGED dealVars

HandleSeriesStarted ==
  /\ Hosted /\ ~SessionOver /\ Len(log) < MaxLog
  /\ RotateSeries
  /\ log' = log \o <<EndedSeries(host.series), Started(created + 1)>>
  /\ seeds' = seeds \cup {created + 1}
  /\ started' = TRUE
  /\ mishaps' = MidDeal
  /\ UNCHANGED <<game, autos, countVars>>

\* The message again, whose acknowledgement was lost: the series is rotated before
\* the client id is looked up, the events are known and not appended.
HandleSeriesStartedAgain ==
  /\ Hosted /\ ~SessionOver /\ started /\ resends < MaxResends
  /\ RotateSeries
  /\ resends' = resends + 1
  /\ mishaps' = MidDeal \cup {"again"}
  /\ UNCHANGED <<game, log, seeds, autos, started, closes, restarts>>

HandleSessionEnded ==
  /\ Hosted /\ ~SessionOver
  /\ log' = log \o <<EndedSeries(host.series), Over>>
  /\ mishaps' = MidDeal
  /\ UNCHANGED <<game, seeds, host, dealVars, autos, created, started, countVars>>

-----------------------------------------------------------------------------
(* The process *)

LastStarted(l) ==
  LET starts == {i \in DOMAIN l : l[i].type = "started"}
  IN l[CHOOSE i \in starts : \A j \in starts : j <= i].series

\* Faulty variant: a table whose seed is lost gets a dealer with a seed of its own.
RestoredAnyway(l) ==
  Opened(IF LastStarted(l) \in seeds THEN LastStarted(l) ELSE created + 1)

\* restoreVirtualDealer: the last series of the log, if its seed was saved.
Restored(l) ==
  IF LastStarted(l) \in seeds THEN Opened(LastStarted(l)) ELSE Opened(0)

LoseProcess ==
  /\ restarts < MaxRestarts
  /\ restarts' = restarts + 1
  /\ host' = Restored(log')
  /\ dealing' = FALSE /\ deals' = <<>> /\ timer' = FALSE
  /\ autos' = 0
  /\ started' = FALSE
  /\ UNCHANGED <<game, seeds, closes, resends>>

Restart == UNCHANGED <<log, created, mishaps>> /\ LoseProcess

\* Events that a handler is about to append, one row at a time.
Appending ==
  {d.closing : d \in {deals[i] : i \in {j \in DOMAIN deals : deals[j].waits = 1}}}
  \cup (IF Hosted /\ ~SessionOver /\ created < MaxSeries
          THEN {<<EndedSeries(host.series), Started(created + 1)>>} ELSE {})
  \cup (IF Hosted /\ ~SessionOver THEN {<<EndedSeries(host.series), Over>>} ELSE {})

\* A crash between two rows, or between the row of a series and its seed.
CrashWhileAppending ==
  /\ \E es \in Appending : \E k \in DOMAIN es :
       /\ k < Len(es) \/ es[k].type = "started"
       /\ log' = log \o SubSeq(es, 1, k)
       /\ created' = IF es[k].type = "started" /\ es[k].series > created THEN created + 1 ELSE created
  /\ mishaps' = mishaps \cup {"torn"}
  /\ LoseProcess

-----------------------------------------------------------------------------
\* createTable saves the seed of the first series before its event.
VirtualInit ==
  /\ game \in Game
  /\ log = <<Started(1)>>
  /\ seeds = {1}
  /\ host = Opened(1)
  /\ dealing = FALSE /\ deals = <<>> /\ timer = FALSE
  /\ autos = 0
  /\ created = 1
  /\ started = FALSE
  /\ closes = 0 /\ restarts = 0 /\ resends = 0
  /\ mishaps = {}

TimersFire == Reveal \/ ActionTimerFires \/ AutoTriggerFires

VirtualNext ==
  \/ HandleVirtual \/ HandleBetsClosed
  \/ TimersFire
  \/ HandleSeriesStarted \/ HandleSeriesStartedAgain \/ HandleSessionEnded
  \/ Restart \/ CrashWhileAppending

VirtualSpec == VirtualInit /\ [][VirtualNext]_virtualVars

\* Timers fire; nobody has to trigger anything, and the process need not crash.
VirtualFairness ==
  /\ WF_virtualVars(Reveal) /\ WF_virtualVars(ActionTimerFires) /\ WF_virtualVars(AutoTriggerFires)

FairVirtualSpec == VirtualSpec /\ VirtualFairness

-----------------------------------------------------------------------------
(* Properties *)

\* Types: the log holds rows of the three kinds, the dealer in memory stands at a
\* created series, and every count is within its bound.
VirtualOK ==
  /\ game \in Game
  /\ \A i \in DOMAIN log :
       /\ log[i].type \in {"started", "ended", "result", "over"}
       /\ log[i].type # "over" => log[i].series \in 1..created
  /\ seeds \subseteq 1..created /\ created \in 1..MaxSeries
  /\ host \in [series: 0..created, drawn: 0..MaxDraws, awaiting: Awaiting]
  /\ dealing \in BOOLEAN /\ timer \in BOOLEAN /\ started \in BOOLEAN
  /\ \A i \in DOMAIN deals : deals[i].waits \in Nat \ {0}
  /\ autos \in 0..MaxCloses /\ closes \in 0..MaxCloses
  /\ restarts \in 0..MaxRestarts /\ resends \in 0..MaxResends
  /\ mishaps \subseteq Mishap

\* One paced deal at a time: no trigger, timer or change of series starts a deal
\* while the cards of another are still being shown, and `dealing` tells which.
OneDealAtATime == Len(deals) = IF dealing THEN 1 ELSE 0

Results == {i \in DOMAIN log : log[i].type = "result"}

\* The seed that a result was drawn from was committed to earlier in the log, unless
\* a repeated SERIES_STARTED rotated the series without an event.
DrawsCommitted == "again" \notin mishaps =>
  \A i \in Results : \E k \in 1..(i - 1) : log[k] = Started(log[i].series)

\* One deal at a time, each drawn from a seed that the log has committed to.
DealsCommitted == OneDealAtATime /\ DrawsCommitted

\* No result follows the event that reveals its seed, unless the dealer ended the
\* series or the session while a deal ran, somebody triggered after the end of the
\* session, or the process died between two rows.
SeriesSealed ==
  mishaps \subseteq {"again"} =>
    ~ \E k \in DOMAIN log, i \in Results :
        k < i /\ log[k] = EndedSeries(log[i].series)

\* Whenever the process dies, the next one finds the seed of the series that the
\* table plays, unless the dealer changed the series while a deal ran, the message
\* that changed it was repeated, or the process died before the seed was saved.
DealerSurvives ==
  mishaps \cap {"midDeal", "again", "torn"} = {} =>
    /\ LastStarted(log) \in seeds
    /\ dealing \/ host.series = LastStarted(log)

\* Every deal comes to its end, and with it the refusals of other triggers.
DealsEnd == dealing ~> ~dealing

\* Appendix C of SPEC.md: whoever replays a series from its seed, draw by draw,
\* finds the results of the log.  The rows carry the process they came from; the
\* replay has only one.
ReplayMatches ==
  \A i, j \in Results :
    i < j /\ log[i].series = log[j].series => log[i].draw < log[j].draw
=============================================================================
