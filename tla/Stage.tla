--------------------------------- MODULE Stage ---------------------------------
(***************************************************************************)
(* The display: the animation runtime, which plays a timeline over the      *)
(* board and holds the board back meanwhile, and what DisplayShell puts in  *)
(* front of it: the leaderboard, the notice of a changed history, the       *)
(* announcement of a result and the idle picture.  A phone has the runtime   *)
(* only.                                                                    *)
(*                                                                         *)
(* The runtime hears of an event at once, the shell when it is rendered;    *)
(* a resync brings several events with one notice.  A board is named by the *)
(* number of events that it shows.                                          *)
(***************************************************************************)
EXTENDS Integers, Sequences, FiniteSets, FiniteSetsExt, SequencesExt, Lists

CONSTANTS
  Shows,       \* Shows[type]: the enabled presets that an event of the type may trigger, in order
  Modes,       \* "display", "reduced" (prefers-reduced-motion) or "phone"
  MaxTotal,    \* maxTotalMs
  ShortTotal,  \* PHONE_MAX_MS, REDUCED_FLASH_MAX_MS
  AfterEnd,    \* events come after SESSION_ENDED: nothing refuses them at a solo table
  MaxNews,     \* bound: events of the table
  MaxMounts    \* bound: times the page is loaded

\* ANIMATION_EVENT_TYPES and others: RESULT_EDITED and RESULT_DELETED are not among them.
Animated == {"result", "undone", "bets", "series", "end", "preview"}
Types == Animated \cup {"edited", "other"}
NoBoard == -1
NoTimeline == [segments |-> <<>>, total |-> 0, blocks |-> FALSE]

ASSUME StageAssumption ==
  /\ \A t \in Animated : Shows[t] \subseteq Seq([layered : BOOLEAN, blocks : BOOLEAN, length : Nat \ {0}])
  /\ Modes \subseteq {"display", "reduced", "phone"}
  /\ MaxTotal \in Nat \ {0} /\ ShortTotal \in Nat \ {0}
  /\ AfterEnd \in BOOLEAN /\ MaxNews \in Nat /\ MaxMounts \in Nat

VARIABLES
  mode, animations,  \* of the device; deviceSettings.animations
  news,              \* store.events: type and presets of each
  rendered,          \* how many of them the shell has rendered, 0 before it is mounted
  seen,              \* lastSeenSeq.current
  timeline,          \* timelineRef.current, with its end timer
  over,              \* the event that it belongs to
  held,              \* heldModuleState, or NoBoard
  leader,            \* showLeaderboard, leaderboardPersistent, the timer, lastLeaderboardSeq
  notice,            \* the event that the history toast is about, or 0
  announced,         \* lastAnnouncedResultId
  idle,              \* idleAttractActive
  mounts

runtimeVars == <<seen, timeline, over, held>>
boardVars == <<leader, notice, announced, idle>>
stageVars == <<mode, animations, news, rendered, runtimeVars, boardVars, mounts>>

HiddenLeader == [shown |-> FALSE, persistent |-> FALSE, timer |-> FALSE, last |-> 0]
Created == [type |-> "other", shows |-> <<>>]

StageInit ==
  /\ mode \in Modes /\ animations = TRUE
  /\ news = <<Created>> /\ rendered = 0
  /\ seen = 0 /\ timeline = NoTimeline /\ over = 0 /\ held = NoBoard
  /\ leader = HiddenLeader /\ notice = 0 /\ announced = 0 /\ idle = FALSE
  /\ mounts = 1

-----------------------------------------------------------------------------
(* buildAnimationTimeline *)

Shorter(a, b) == IF a <= b THEN a ELSE b
Rounded(a, b) == (2 * a + b) \div (2 * b)

\* applyReducedMotion, applyPhoneMainPreset
LengthOf(p) == IF mode = "display" THEN p.length ELSE Shorter(p.length, ShortTotal)

Total(segments) == Max({segments[i].end : i \in DOMAIN segments})

\* Faulty variant: only the ends are scaled.
ScaledEnds(segments, most) ==
  IF Total(segments) <= most THEN segments
  ELSE [i \in DOMAIN segments |-> [segments[i] EXCEPT !.end = Rounded(@ * most, Total(segments))]]

\* scaleTimeline
Scaled(segments, most) ==
  IF Total(segments) <= most THEN segments
  ELSE [i \in DOMAIN segments |->
          [segments[i] EXCEPT !.start = Rounded(@ * most, Total(segments)),
                              !.end = Rounded(@ * most, Total(segments))]]

\* The first preset that is not layered is the main one; layered ones start with it, the others
\* follow it one after the other.  A phone shows the main one only.
Timeline(presets) ==
  LET mains == {i \in DOMAIN presets : ~presets[i].layered}
      main == presets[Min(mains)]
      layers == Selection(presets, {p \in ToSet(presets) : p.layered})
      rest == Selection(SubSeq(presets, Min(mains) + 1, Len(presets)), {p \in ToSet(presets) : ~p.layered})
      begins(i) == LengthOf(main) + FoldLeft(LAMBDA n, p : n + LengthOf(p), 0, SubSeq(rest, 1, i - 1))
      segments ==
        <<[kind |-> "main", start |-> 0, end |-> LengthOf(main)]>>
        \o [i \in DOMAIN layers |-> [kind |-> "layered", start |-> 0, end |-> LengthOf(layers[i])]]
        \o [i \in DOMAIN rest |->
              [kind |-> "followup", start |-> begins(i), end |-> begins(i) + LengthOf(rest[i])]]
      scaled == IF mode = "phone" THEN Scaled(SubSeq(segments, 1, 1), ShortTotal) ELSE Scaled(segments, MaxTotal)
  IN IF mains = {} THEN NoTimeline
     ELSE [segments |-> scaled, total |-> Total(scaled), blocks |-> main.blocks]

-----------------------------------------------------------------------------
(* The runtime *)

Runtime == [seen |-> seen, timeline |-> timeline, over |-> over, held |-> held]
Become(r) == seen' = r.seen /\ timeline' = r.timeline /\ over' = r.over /\ held' = r.held

\* Faulty variant: the board stays held.
FinishedHolding(r) == [r EXCEPT !.timeline = NoTimeline, !.over = 0]

\* finishTimeline: the timers are cleared, the board is released.
Finished(r) == [r EXCEPT !.timeline = NoTimeline, !.over = 0, !.held = NoBoard]

\* playTimeline, over the board as it was before event i; a preview has none.
Played(events, r, i, t) ==
  [r EXCEPT !.timeline = t, !.over = i,
            !.held = IF t.blocks /\ events[i].type # "preview" THEN i - 1 ELSE NoBoard]

\* scheduleForEvent, after what played has been finished
Schedule(events, r, i) ==
  LET rest == IF r.timeline = NoTimeline THEN r ELSE Finished(r)
      t == Timeline(events[i].shows)
      played == IF ~animations \/ t = NoTimeline THEN rest ELSE Played(events, rest, i, t)
  IN [played EXCEPT !.seen = i]

\* processEvents: every new event of a kind that is animated, in order.
ProcessEvents(events) ==
  LET fresh == Selection([i \in DOMAIN events |-> i], {i \in DOMAIN events : i > seen /\ events[i].type \in Animated})
  IN Become(FoldLeft(LAMBDA r, i : Schedule(events, r, i), Runtime, fresh))

TimelineEnds ==
  /\ timeline # NoTimeline
  /\ Become(Finished(Runtime))
  /\ UNCHANGED <<mode, animations, news, rendered, boardVars, mounts>>

\* The setting changes what the effect depends on: it runs again and skips what is there.
ToggleAnimations ==
  /\ rendered > 0
  /\ animations' = ~animations
  /\ seen' = Len(news)
  /\ UNCHANGED <<mode, news, rendered, timeline, over, held, boardVars, mounts>>

-----------------------------------------------------------------------------
(* Events *)

EventsOfType(t) == {[type |-> t, shows |-> s] : s \in IF t \in Animated THEN Shows[t] ELSE {<<>>}}

\* The results that count after the first n events, each with the event it has its data from.
ResultsAt(n) ==
  FoldLeft(LAMBDA rs, i :
             IF news[i].type = "result" THEN Append(rs, i)
             ELSE IF news[i].type = "undone" /\ rs # <<>> THEN Front(rs)
             ELSE IF news[i].type = "edited" /\ rs # <<>> THEN [rs EXCEPT ![Len(rs)] = i]
             ELSE rs,
           <<>>, [i \in 1..n |-> i])

Over == \E i \in DOMAIN news : news[i].type = "end"

\* One notice of the store, with one event or two.
Arrive(batch) ==
  /\ Len(news) + Len(batch) <= MaxNews
  /\ Over => AfterEnd
  /\ batch[1].type = "end" => Len(batch) = 1 \/ AfterEnd
  /\ news' = news \o batch
  /\ IF rendered = 0 THEN UNCHANGED runtimeVars ELSE ProcessEvents(news \o batch)
  /\ UNCHANGED <<mode, animations, rendered, boardVars, mounts>>

-----------------------------------------------------------------------------
(* The shell *)

\* Faulty variant: the effect is not cleaned up, a timer that runs goes on.
LeaderRenderedUncleaned ==
  LET asked == {i \in DOMAIN news : i > leader.last /\ news[i].type \in {"series", "end"}}
      persistent == news[Max(asked)].type = "end"
  IN IF asked = {} THEN leader
     ELSE [shown |-> TRUE, persistent |-> persistent, last |-> Max(asked), timer |-> leader.timer \/ ~persistent]

\* The last event that asks for the leaderboard says whether it stays.  Only a change of what is
\* shown clears the timer and, unless it stays, starts it again.
LeaderRendered ==
  LET asked == {i \in DOMAIN news : i > leader.last /\ news[i].type \in {"series", "end"}}
      persistent == news[Max(asked)].type = "end"
  IN IF asked = {} THEN leader
     ELSE [shown |-> TRUE, persistent |-> persistent, last |-> Max(asked), timer |-> ~persistent]

\* countAffectedSettlements of what was rendered before and what is there now, a bet lying on
\* every result; the mounted page has rendered nothing before.
Affected == rendered > 0 /\ ResultsAt(rendered) # ResultsAt(Len(news))

Render ==
  /\ rendered # Len(news)
  /\ rendered' = Len(news)
  /\ IF mode = "phone" THEN UNCHANGED boardVars
     ELSE /\ leader' = LeaderRendered
          /\ notice' = IF Last(news).type \in {"edited", "undone"} /\ Affected THEN Len(news) ELSE notice
          /\ announced' = IF Last(news).type = "result" THEN Len(news) ELSE announced
          /\ idle' = FALSE
  /\ IF rendered = 0 THEN seen' = Len(news) ELSE UNCHANGED seen
  /\ UNCHANGED <<mode, animations, news, timeline, over, held, mounts>>

LeaderOver ==
  /\ leader.timer
  /\ leader' = [leader EXCEPT !.shown = FALSE, !.timer = FALSE]
  /\ UNCHANGED <<mode, animations, news, rendered, runtimeVars, notice, announced, idle, mounts>>

\* A tap; the one at the end of the session has no handler.
DismissLeader ==
  /\ leader.shown /\ ~leader.persistent
  /\ leader' = [leader EXCEPT !.shown = FALSE, !.timer = FALSE]
  /\ UNCHANGED <<mode, animations, news, rendered, runtimeVars, notice, announced, idle, mounts>>

NoticeOver ==
  /\ notice # 0
  /\ notice' = 0
  /\ UNCHANGED <<mode, animations, news, rendered, runtimeVars, leader, announced, idle, mounts>>

\* 90 s without a render of a new event.
GoIdle ==
  /\ mode # "phone" /\ rendered > 0 /\ ~idle
  /\ idle' = TRUE
  /\ UNCHANGED <<mode, animations, news, rendered, runtimeVars, leader, notice, announced, mounts>>

\* The page is loaded again and gets the log as it is by then.
Remount ==
  /\ mounts < MaxMounts
  /\ mounts' = mounts + 1
  /\ rendered' = 0
  /\ seen' = 0 /\ timeline' = NoTimeline /\ over' = 0 /\ held' = NoBoard
  /\ leader' = HiddenLeader /\ notice' = 0 /\ announced' = 0 /\ idle' = FALSE
  /\ UNCHANGED <<mode, animations, news>>

StageNext ==
  \/ \E t, u \in Types : \E e \in EventsOfType(t), f \in EventsOfType(u) : Arrive(<<e>>) \/ Arrive(<<e, f>>)
  \/ TimelineEnds \/ ToggleAnimations
  \/ Render \/ LeaderOver \/ DismissLeader \/ NoticeOver \/ GoIdle
  \/ Remount

StageSpec == StageInit /\ [][StageNext]_stageVars

-----------------------------------------------------------------------------
(* Properties *)

\* The variables have their shapes.
StageTypeOK ==
  /\ mode \in Modes /\ animations \in BOOLEAN
  /\ \A i \in DOMAIN news : news[i].type \in Types
  /\ rendered \in 0..Len(news) /\ seen \in 0..Len(news)
  /\ over \in 0..Len(news) /\ held \in Int
  /\ notice \in 0..Len(news) /\ announced \in 0..Len(news) /\ idle \in BOOLEAN

\* A timeline stays within the limit for the device, its parts are over when it ends, and those
\* that follow the main one come one after the other (scheduler.ts).
TimelineFits ==
  LET s == timeline.segments
  IN /\ timeline.total <= (IF mode = "phone" THEN ShortTotal ELSE MaxTotal)
     /\ \A i \in DOMAIN s : s[i].start <= s[i].end /\ s[i].end <= timeline.total
     /\ \A i \in DOMAIN s : s[i].kind = "followup" =>
          \E j \in 1..i - 1 : s[j].kind # "layered" /\ s[j].end = s[i].start

\* The board is held back only under a timeline that blocks it, whose end within the limit will
\* release it, and then it is the board that the event being shown found; nothing else, not even
\* an event without an animation or the switch of the setting, leaves an old board standing
\* (useAnimationRuntime.ts, finishTimeline and playTimeline).
BoardReleased ==
  /\ held # NoBoard => timeline.blocks /\ held = over - 1
  /\ timeline # NoTimeline => over \in DOMAIN news /\ news[over].type \in Animated
  /\ TimelineFits

\* "at session end": the final leaderboard, once rendered, stays, whatever was shown for the end
\* of a series just before.
FinalBoardStays ==
  mode # "phone" /\ rendered > 0 /\ (\E i \in 1..rendered : news[i].type = "end") => leader.shown /\ leader.persistent

\* A change of a result that was on the board is noticed.  It is not when the next event arrives
\* before the render (DisplayShell.tsx:205-210 looks at the last event only).
RewriteNoticed ==
  [][mode # "phone" /\ rendered > 0 /\ rendered' > rendered
       /\ (\E i \in rendered + 1..Len(news) : news[i].type \in {"edited", "undone"}) /\ Affected
     => notice' > rendered]_stageVars
================================================================================
