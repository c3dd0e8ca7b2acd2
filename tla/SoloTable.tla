------------------------------- MODULE SoloTable -------------------------------
(***************************************************************************)
(* A solo table: the dealer's tab keeps the log and saves it, the tabs of  *)
(* the players and the mirrors of the display follow it over a             *)
(* BroadcastChannel of the browser, all of them in one browser.            *)
(*                                                                         *)
(* A channel delivers the messages of a tab in order, to the channels that *)
(* are open when they are posted.  The dealer's tab may be reloaded at any *)
(* time; the player of a token and the token are the same number.          *)
(***************************************************************************)
EXTENDS Integers, Sequences, FiniteSets, SequencesExt, FiniteSetsExt, Lists

CONSTANTS
  Tab,          \* tabs that open the play link
  Mirror,       \* tabs that open the display link
  SeatsAtTable, \* settings.players.maxPlayers
  Meetings      \* bounds: what the dealer enters, whether nobody gives up after five seconds,
                \* events of the log, join requests, pages opened or closed, events players send

NoPlayer == 0
Follower == Tab \cup Mirror

ASSUME SoloAssumption ==
  /\ Tab \cap Mirror = {} /\ SeatsAtTable \in Nat
  /\ \A m \in Meetings : /\ m.entries \subseteq {"live", "play", "on", "off", "ended"} /\ m.patience \in BOOLEAN
                         /\ {m.events, m.asks, m.visits, m.sent} \subseteq Nat

VARIABLES
  meeting,    \* the one of Meetings that takes place
  log,        \* events of the dealer's tab: seq, kind, who
  written,    \* events in the browser's database
  open,       \* the dealer's tab is loaded
  attached,   \* it listens on the channel
  sent,       \* lastBroadcastSeq
  tokens,     \* tokens of the dealer's tab's session
  stored,     \* the token that the browser keeps for the players of this table, or NoPlayer
  tabs,       \* of every follower: phase, player, events of its store, join requests
  toDealer,   \* messages on the way from a follower
  toTab,      \* messages on the way to a follower
  asks, visits, moves,
  apart       \* history: followers that missed events since the last snapshot

hostVars == <<log, written, open, attached, sent, tokens>>
soloVars == <<meeting, hostVars, stored, tabs, toDealer, toTab, asks, visits, moves, apart>>

-----------------------------------------------------------------------------
(* The log *)

Ephemeral == {"live"}
Persisted(es) == Selection(es, {e \in ToSet(es) : e.kind \notin Ephemeral})
\* Faulty variant: the events are counted.
CountOfEvents(es) == Len(es)

\* latestSeq, reopenTableStore: the highest number, not the count.
LatestSeq(es) == Max({0} \cup {es[i].seq : i \in DOMAIN es})

Happened(es, k) == {i \in DOMAIN es : es[i].kind = k}
LocalPlayersOn(es) == Max({0} \cup Happened(es, "on")) > Max({0} \cup Happened(es, "off"))
Ended(es) == Happened(es, "ended") # {}
AtTable(es) == {es[i].who : i \in Happened(es, "joined")} \ {es[i].who : i \in Happened(es, "removed")}

\* Events that are appended one after the other.
Numbered(n, new) == [i \in DOMAIN new |-> [seq |-> n + i, kind |-> new[i].kind, who |-> new[i].who]]
Of(k, p) == [kind |-> k, who |-> p]

\* A tab whose store listens.
HasStore(t) == tabs[t].phase \in {"waiting", "playing"}

-----------------------------------------------------------------------------
(* The dealer's tab *)

\* Messages that reach the followers: what is broadcast, and what one of them is answered.
Deliver(broadcast, asker, answer) ==
  toTab' = [f \in Follower |-> toTab[f] \o (IF HasStore(f) THEN broadcast ELSE <<>>)
                                       \o (IF f \in asker THEN answer ELSE <<>>)]
NoAnswer == <<>>

\* append and broadcastNewEvents, then the snapshot when one is asked for.
Emit(new, snapshot, asker, answer) ==
  LET added == Numbered(LatestSeq(log), new)
      all == log \o added
      fresh == IF attached THEN Selection(all, {e \in ToSet(all) : e.seq > sent}) ELSE <<>>
      news == [i \in DOMAIN fresh |-> [op |-> "event", event |-> fresh[i]]]
      whole == IF snapshot THEN <<[op |-> "snapshot", events |-> all]>> ELSE <<>>
  IN /\ LatestSeq(log) + Len(new) <= meeting.events
     /\ log' = all
     /\ sent' = IF attached THEN LatestSeq(log') ELSE sent
     /\ Deliver(news \o whole, asker, answer)
     /\ apart' = IF attached THEN (IF snapshot THEN {} ELSE apart) ELSE apart \cup (IF new = <<>> THEN {} ELSE Follower)

\* The dealer's own entries and switches; a solo store takes them after the end, too.
DealerEnters(k) ==
  /\ open
  /\ k \in {"on", "off"} => (k = "on") # LocalPlayersOn(log)
  /\ Emit(<<Of(k, NoPlayer)>>, FALSE, {}, NoAnswer)
  /\ UNCHANGED <<written, open, attached, tokens, stored, tabs, toDealer, asks, visits, moves>>

RemovePlayer(p) ==
  /\ open /\ p \in AtTable(log)
  /\ Emit(<<Of("removed", p)>>, FALSE, {}, NoAnswer)
  /\ UNCHANGED <<written, open, attached, tokens, stored, tabs, toDealer, asks, visits, moves>>

\* The effect of SoloPanes on the switch: what was on the way to a channel that is closed is lost.
AttachOrDetach ==
  /\ open /\ attached # LocalPlayersOn(log)
  /\ attached' = LocalPlayersOn(log)
  /\ sent' = LatestSeq(log)
  /\ toDealer' = [t \in Follower |-> <<>>]
  /\ UNCHANGED <<log, written, open, tokens, stored, tabs, toTab, asks, visits, moves, apart>>

\* saveTableEvents of one of the appends, in their order.
SaveArrives ==
  /\ open /\ Len(written) < Len(Persisted(log))
  /\ written' = SubSeq(Persisted(log), 1, Len(written) + 1)
  /\ UNCHANGED <<log, open, attached, sent, tokens, stored, tabs, toDealer, toTab, asks, visits, moves, apart>>

DealerCloses ==
  /\ open /\ visits < meeting.visits
  /\ open' = FALSE /\ attached' = FALSE /\ visits' = visits + 1
  /\ toDealer' = [t \in Follower |-> <<>>]
  /\ UNCHANGED <<log, written, sent, tokens, stored, tabs, toTab, asks, moves, apart>>

\* resolveSoloTableStore, reopenTableStore: what was loaded keeps its numbers, with gaps where
\* ephemeral events were.
DealerReopens ==
  /\ ~open
  /\ open' = TRUE /\ log' = written
  /\ apart' = Follower
  /\ UNCHANGED <<written, attached, sent, tokens, stored, tabs, toDealer, toTab, asks, visits, moves>>

-----------------------------------------------------------------------------
(* What the dealer's tab makes of a message *)

\* handleJoin
Join(t, ask) ==
  LET p == 1 + Max({0} \cup tokens)
  IN IF /\ LocalPlayersOn(log) /\ ~Ended(log)
        /\ Cardinality(AtTable(log)) < SeatsAtTable
     THEN /\ Emit(<<Of("joined", p), Of("issued", p)>>, FALSE, {t}, <<[op |-> "joinAck", ask |-> ask, player |-> p]>>)
          /\ tokens' = tokens \cup {p}
     ELSE /\ Emit(<<>>, FALSE, {t}, <<[op |-> "joinReject", ask |-> ask]>>)
          /\ UNCHANGED tokens

\* handleRejoin
Rejoin(t, ask, token) ==
  /\ IF token \in tokens \cap AtTable(log)
       THEN /\ Deliver(<<[op |-> "snapshot", events |-> log]>>, {t}, <<[op |-> "joinAck", ask |-> ask, player |-> token]>>)
            /\ sent' = LatestSeq(log) /\ apart' = {}
       ELSE Deliver(<<>>, {t}, <<[op |-> "joinReject", ask |-> ask]>>) /\ UNCHANGED <<sent, apart>>
  /\ UNCHANGED <<log, tokens>>

\* validateSoloPlayerEvent asks whether the event is one of the player it claims to come from, not
\* whether that player is at the table; a change of status is dropped without a word.
PlayersOwn == {"bet"}
PlayerEvent(p, k) ==
  /\ IF k \in PlayersOwn THEN Emit(<<Of(k, p)>>, FALSE, {}, NoAnswer) ELSE UNCHANGED <<log, sent, toTab, apart>>
  /\ UNCHANGED tokens

HandleMessage(t) ==
  /\ open /\ attached /\ toDealer[t] # <<>>
  /\ LET m == Head(toDealer[t])
     IN \/ m.op = "hello"  /\ Emit(<<>>, TRUE, {}, NoAnswer) /\ UNCHANGED tokens
        \/ m.op = "join"   /\ Join(t, m.ask)
        \/ m.op = "rejoin" /\ Rejoin(t, m.ask, m.token)
        \/ m.op = "playerEvent" /\ PlayerEvent(m.player, m.kind)
  /\ toDealer' = [toDealer EXCEPT ![t] = Tail(@)]
  /\ UNCHANGED <<written, open, attached, stored, tabs, asks, visits, moves>>

-----------------------------------------------------------------------------
(* The tabs of players and mirrors *)

NoTab == [phase |-> "closed", player |-> NoPlayer, events |-> <<>>, asking |-> {}]
Posted(t, ms) == toDealer' = [toDealer EXCEPT ![t] = IF attached THEN @ \o ms ELSE @]
Hello == [op |-> "hello"]
Answers(ms) == Selection(ms, {m \in ToSet(ms) : m.op \in {"joinAck", "joinReject"}})

\* createSoloPlayerStore, createSoloDisplayStore: a channel that is opened now hears nothing of
\* what was posted before.
NewStore(t, p, asking) ==
  /\ tabs' = [tabs EXCEPT ![t] = [phase |-> "waiting", player |-> p, events |-> <<>>, asking |-> asking]]
  /\ toTab' = [toTab EXCEPT ![t] = Answers(Tail(@))]

\* The play page with a token of the browser asks for its player; without one it shows the form.
OpenPlay(t) ==
  /\ tabs[t].phase = "closed" /\ visits < meeting.visits /\ asks < meeting.asks
  /\ visits' = visits + 1
  /\ IF stored = NoPlayer
       THEN /\ tabs' = [tabs EXCEPT ![t].phase = "form"]
            /\ UNCHANGED <<asks, toDealer>>
       ELSE /\ tabs' = [tabs EXCEPT ![t].phase = "loading", ![t].asking = {asks + 1}]
            /\ asks' = asks + 1
            /\ Posted(t, <<Hello, [op |-> "rejoin", ask |-> asks + 1, token |-> stored]>>)
  /\ UNCHANGED <<hostVars, stored, toTab, moves, apart>>

\* The join button, which can be tapped again while the answer is on its way.
TapJoin(t) ==
  /\ tabs[t].phase = "form" /\ asks < meeting.asks
  /\ asks' = asks + 1
  /\ tabs' = [tabs EXCEPT ![t].asking = @ \cup {asks + 1}]
  /\ Posted(t, <<Hello, [op |-> "join", ask |-> asks + 1]>>)
  /\ UNCHANGED <<hostVars, stored, toTab, visits, moves, apart>>

OpenMirror(t) ==
  /\ tabs[t].phase = "closed" /\ visits < meeting.visits
  /\ visits' = visits + 1
  /\ tabs' = [tabs EXCEPT ![t].phase = "waiting"]
  /\ Posted(t, <<Hello>>)
  /\ UNCHANGED <<hostVars, stored, toTab, asks, moves, apart>>

CloseFollower(t) ==
  /\ tabs[t].phase # "closed" /\ visits < meeting.visits
  /\ visits' = visits + 1
  /\ tabs' = [tabs EXCEPT ![t] = NoTab]
  /\ toTab' = [toTab EXCEPT ![t] = <<>>]
  /\ UNCHANGED <<hostVars, stored, toDealer, asks, moves, apart>>

\* Faulty variant: what was applied before the snapshot stays.
AddSnapshot(events, snapshot) == events \o SelectSeq(snapshot, LAMBDA e : e.seq > LatestSeq(events))

\* applySnapshot
ApplySnapshot(events, snapshot) == snapshot

\* applyEvent: what is not newer is skipped, what is missing before it is not noticed.
ApplyEvent(events, e) == IF e.seq <= LatestSeq(events) THEN events ELSE Append(events, e)

\* waitForSoloSnapshot is content with any event.
Receive(t) ==
  /\ toTab[t] # <<>> /\ Head(toTab[t]).op \in {"snapshot", "event"}
  /\ LET m == Head(toTab[t])
     IN tabs' = [tabs EXCEPT ![t].phase = "playing",
                             ![t].events = IF m.op = "snapshot" THEN ApplySnapshot(@, m.events) ELSE ApplyEvent(@, m.event)]
  /\ toTab' = [toTab EXCEPT ![t] = Tail(@)]
  /\ UNCHANGED <<hostVars, stored, toDealer, asks, visits, moves, apart>>

\* joinSoloPlayer, rejoinSoloPlayer: the answer to a request that still waits.
HearAnswer(t) ==
  /\ toTab[t] # <<>> /\ Head(toTab[t]).op \in {"joinAck", "joinReject"}
  /\ LET m == Head(toTab[t])
         left == tabs[t].asking \ {m.ask}
     IN \/ /\ m.ask \notin tabs[t].asking
           /\ toTab' = [toTab EXCEPT ![t] = Tail(@)]
           /\ UNCHANGED <<stored, tabs, toDealer>>
        \/ /\ m.ask \in tabs[t].asking /\ m.op = "joinAck"
           /\ stored' = m.player
           /\ NewStore(t, m.player, left)
           /\ Posted(t, <<Hello>>)
        \/ /\ m.ask \in tabs[t].asking /\ m.op = "joinReject"
           /\ tabs' = [tabs EXCEPT ![t].asking = left, ![t].phase = IF HasStore(t) THEN @ ELSE "form"]
           /\ toTab' = [toTab EXCEPT ![t] = Tail(@)]
           /\ UNCHANGED <<stored, toDealer>>
  /\ UNCHANGED <<hostVars, asks, visits, moves, apart>>

\* Five seconds without the answer, or without a snapshot.
GiveUpAsking(t, ask) ==
  /\ ~meeting.patience /\ ask \in tabs[t].asking
  /\ tabs' = [tabs EXCEPT ![t].asking = @ \ {ask}, ![t].phase = IF HasStore(t) THEN @ ELSE "form"]
  /\ UNCHANGED <<hostVars, stored, toDealer, toTab, asks, visits, moves, apart>>

GiveUpWaiting(t) ==
  /\ ~meeting.patience /\ tabs[t].phase = "waiting"
  /\ tabs' = [tabs EXCEPT ![t] = IF t \in Mirror THEN NoTab ELSE [NoTab EXCEPT !.phase = "form", !.asking = tabs[t].asking]]
  /\ toTab' = [toTab EXCEPT ![t] = Answers(@)]
  /\ UNCHANGED <<hostVars, stored, toDealer, asks, visits, moves, apart>>

\* emitLive of the player's store: nobody waits for the ack.
PlayerSends(t, k) ==
  /\ tabs[t].phase = "playing" /\ moves < meeting.sent
  /\ moves' = moves + 1
  /\ Posted(t, <<[op |-> "playerEvent", player |-> tabs[t].player, kind |-> k]>>)
  /\ UNCHANGED <<hostVars, stored, tabs, toTab, asks, visits, apart>>

-----------------------------------------------------------------------------

\* The table was made and saved; nobody has opened a link.
SoloInit ==
  /\ meeting \in Meetings
  /\ log = Numbered(0, <<Of("on", NoPlayer)>>) /\ written = log
  /\ open = TRUE /\ attached = TRUE /\ sent = 1 /\ tokens = {}
  /\ stored = NoPlayer /\ tabs = [t \in Follower |-> NoTab]
  /\ toDealer = [t \in Follower |-> <<>>] /\ toTab = [t \in Follower |-> <<>>]
  /\ asks = 0 /\ visits = 0 /\ moves = 0 /\ apart = {}

DealerTab ==
  \/ \E k \in meeting.entries : DealerEnters(k)
  \/ \E p \in tokens : RemovePlayer(p)
  \/ AttachOrDetach \/ SaveArrives \/ DealerCloses \/ DealerReopens
  \/ \E t \in Follower : HandleMessage(t)

FollowerTab ==
  \/ \E t \in Tab : OpenPlay(t) \/ TapJoin(t) \/ \E k \in {"bet", "away"} : PlayerSends(t, k)
  \/ \E t \in Mirror : OpenMirror(t)
  \/ \E t \in Follower : CloseFollower(t) \/ Receive(t) \/ HearAnswer(t) \/ GiveUpWaiting(t)
  \/ \E t \in Tab : \E ask \in tabs[t].asking : GiveUpAsking(t, ask)

SoloNext == (DealerTab \/ FollowerTab) /\ UNCHANGED meeting
SoloSpec == SoloInit /\ [][SoloNext]_soloVars

-----------------------------------------------------------------------------
(* Properties *)

\* State of the dealer's tab and of the followers.
SoloTypeOK ==
  /\ \A i \in DOMAIN log : log[i].seq \in 1 .. meeting.events
  /\ \A t \in Follower : tabs[t].phase \in {"closed", "form", "loading", "waiting", "playing"}
  /\ stored \in {NoPlayer} \cup tokens /\ tokens \subseteq 1 .. meeting.asks

\* Nothing is on the way to a tab that follows, and its hello was answered.
Follows(t) ==
  open /\ attached /\ tabs[t].phase = "playing" /\ toTab[t] = <<>> /\ Hello \notin ToSet(toDealer[t])

\* Every follower shows the table of the dealer's tab once its messages are through, whoever joins,
\* comes back, or was told of an event before it was sent a snapshot; unless events were made
\* while the dealer's tab did not listen, or that tab was loaded again, and nobody has said hello since.
FollowersAgree == \A t \in Follower : Follows(t) /\ t \notin apart => tabs[t].events = log

\* No number is given twice, by the dealer's tab or by the one that is loaded after it: the events
\* of the log, and those of every follower, are in the order of their numbers.
NumbersRise ==
  LET rise(es) == \A i, j \in DOMAIN es : i < j => es[i].seq < es[j].seq
  IN rise(log) /\ \A t \in Follower : rise(tabs[t].events)

\* "Local players in extra tabs" (SPEC.md:891): two tabs are two players.
OwnPlayers ==
  \A t, u \in Tab : tabs[t].phase = "playing" /\ tabs[u].phase = "playing" /\ t # u => tabs[t].player # tabs[u].player

================================================================================
