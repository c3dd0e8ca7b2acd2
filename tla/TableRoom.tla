------------------------------- MODULE TableRoom -------------------------------
(***************************************************************************)
(* Who is at a table of the sync service: the one dealer's seat, which a   *)
(* second page may take over, and the register of players beside the log,  *)
(* with the dealer's approval, removal and a new token for a lost phone.   *)
(*                                                                         *)
(* A connection that breaks is noticed by the page at once and by the      *)
(* service later: until then the seat belongs to a socket nobody holds.    *)
(* What the log holds besides, and events made offline, are in SyncedStore. *)
(***************************************************************************)
EXTENDS Integers, Sequences, FiniteSets

CONSTANTS
  Page,        \* devices that open the dealer's page
  Socket,      \* sockets of those pages, a new one for every connection
  Player,      \* requests to join: each one that is taken has an id of its own
  NoSocket,
  MaxPlayers,  \* min(settings.players.maxPlayers, maxPlayersHard)
  MaxTokens,   \* bound: tokens issued to one player
  MaxTaps,     \* bound: what the dealers tap
  MaxCrashes   \* bound: ends of the process

ASSUME RoomAssumption ==
  /\ NoSocket \notin Socket
  /\ MaxPlayers \in Nat /\ MaxTokens \in Nat /\ MaxTaps \in Nat /\ MaxCrashes \in Nat

VARIABLES
  up,        \* a socket: "unused", "open", "dead" (the service does not know yet) or "closed"
  toServer,  \* messages of each socket, in order
  toPage,
  dealers,   \* dealerSockets: those that have joined
  active,    \* activeDealerSocketId
  demoted,   \* demotedSocketIds
  misled,    \* history: sockets whose resync was answered "joined" while they were demoted
  rows,      \* table "players": "none", "pending", "in", or "declined" when the row is deleted
  status,    \* players of the log, "none" before PLAYER_JOINED
  ended,     \* SESSION_ENDED is in the log
  token,     \* number of the token whose hash is in the row
  phones,    \* tokens of the player's sockets that have joined
  markedAway,\* the phone has announced that it is away
  pages,     \* of a dealer's page: sock, joined, readOnly, shows, list
  unsent,    \* what socket.emit keeps until the socket is connected again
  joins,     \* history: PLAYER_JOINED events of a player
  taps, crashes

wire == <<up, toServer, toPage>>
seat == <<dealers, active, demoted, misled>>
register == <<rows, status, ended, joins>>
devices == <<token, phones, markedAway>>
roomVars == <<wire, seat, register, devices, pages, unsent, taps, crashes>>

Pending == {p \in Player : rows[p] = "pending"}

NewPage == [sock |-> NoSocket, joined |-> FALSE, readOnly |-> FALSE, shows |-> "shell", list |-> {}]

RoomInit ==
  /\ up = [s \in Socket |-> "unused"]
  /\ toServer = [s \in Socket |-> <<>>] /\ toPage = [s \in Socket |-> <<>>]
  /\ dealers = {} /\ active = NoSocket /\ demoted = {} /\ misled = {}
  /\ rows = [p \in Player |-> "none"] /\ status = [p \in Player |-> "none"] /\ ended = FALSE
  /\ token = [p \in Player |-> 1] /\ phones = [p \in Player |-> {}] /\ markedAway = [p \in Player |-> FALSE]
  /\ pages = [d \in Page |-> NewPage] /\ unsent = [d \in Page |-> <<>>]
  /\ joins = [p \in Player |-> 0] /\ taps = 0 /\ crashes = 0

-----------------------------------------------------------------------------
(* Messages *)

Told(channel, who, m) == [s \in Socket |-> IF s \in who THEN Append(channel[s], m) ELSE channel[s]]

\* The room keeps a demoted socket.
InRoom(m) == toPage' = Told(toPage, {s \in dealers : up[s] = "open"}, m)

ListMessage(list) == [op |-> "pending", list |-> list]

Incoming(s, op) ==
  /\ up[s] \in {"open", "dead"} /\ toServer[s] # <<>> /\ Head(toServer[s]).op = op
  /\ toServer' = [toServer EXCEPT ![s] = Tail(@)]

\* emit of a page: kept while there is no connection, and then sent before its join.
Emits(d, m) ==
  LET s == pages[d].sock
  IN IF s = NoSocket
       THEN unsent' = [unsent EXCEPT ![d] = Append(@, m)] /\ UNCHANGED toServer
       ELSE toServer' = [toServer EXCEPT ![s] = Append(@, m)] /\ UNCHANGED unsent

-----------------------------------------------------------------------------
(* The dealer's seat, in the service *)

MaySit(s, takeover) == active \in {NoSocket, s} \/ takeover

\* Faulty variant: the socket that is replaced may go on writing.
DemotedBySittingNobody(s) == demoted

DemotedBySitting(s) == (demoted \cup {active}) \ {s, NoSocket}

\* Faulty variant: the players that wait are not told to a dealer who joins.
JoinedWithoutList == [op |-> "joined", list |-> {}]

JoinedMessage == [op |-> "joined", list |-> Pending]

\* onJoin and what handleJoin answers
HandleJoin(s) ==
  /\ Incoming(s, "join")
  /\ LET takeover == Head(toServer[s]).takeover
         Answer(m) == toPage' = [toPage EXCEPT ![s] = Append(@, m)]
     IN \/ ended /\ Answer([op |-> "over"]) /\ UNCHANGED seat
        \/ ~ended /\ ~MaySit(s, takeover) /\ Answer([op |-> "refused"]) /\ UNCHANGED seat
        \/ /\ ~ended /\ MaySit(s, takeover)
           /\ demoted' = DemotedBySitting(s) /\ misled' = misled \ {s}
           /\ dealers' = dealers \cup {s} /\ active' = s
           /\ toPage' = Told(Told(toPage, {active} \ {s, NoSocket}, [op |-> "demoted"]), {s}, JoinedMessage)
  /\ UNCHANGED <<up, register, devices, pages, unsent, taps, crashes>>

MayWrite(s) == s \in dealers /\ s \notin demoted

\* handleResync: whoever has joined is answered as one who joins, without the list.
HandleResync(s) ==
  /\ Incoming(s, "resync")
  /\ IF s \in dealers
       THEN /\ toPage' = [toPage EXCEPT ![s] = Append(@, [op |-> "resynced"])]
            /\ misled' = IF s \in demoted THEN misled \cup {s} ELSE misled
       ELSE UNCHANGED <<toPage, misled>>
  /\ UNCHANGED <<up, dealers, active, demoted, register, devices, pages, unsent, taps, crashes>>

\* Faulty variant: whoever leaves, the seat is free.
LeavesFreeingSeat(s) ==
  dealers' = dealers \ {s} /\ demoted' = demoted \ {s} /\ active' = NoSocket /\ misled' = misled

\* onLeave
Leaves(s) ==
  /\ dealers' = dealers \ {s} /\ demoted' = demoted \ {s}
  /\ active' = IF active = s THEN NoSocket ELSE active
  /\ misled' = misled

\* The service finds a connection gone, with what had not been read of it.
NoticeLeft(s) ==
  /\ up[s] = "dead"
  /\ up' = [up EXCEPT ![s] = "closed"]
  /\ toServer' = [toServer EXCEPT ![s] = <<>>]
  /\ Leaves(s)
  /\ UNCHANGED <<toPage, register, devices, pages, unsent, taps, crashes>>

-----------------------------------------------------------------------------
(* The register of players *)

OnLog(p) == status[p] # "none"

AtTable == {p \in Player : status[p] \in {"active", "away"}}

Full == Cardinality(AtTable) + Cardinality(Pending) >= MaxPlayers

PlayerJoined(p) ==
  /\ status' = [status EXCEPT ![p] = "active"]
  /\ joins' = [joins EXCEPT ![p] = @ + 1]

\* joinPlayer, with joinApproval as it is at the moment
PostJoin(p) ==
  /\ rows[p] = "none" /\ ~ended /\ ~Full
  /\ \/ /\ rows' = [rows EXCEPT ![p] = "pending"]
        /\ InRoom(ListMessage(Pending \cup {p}))
        /\ UNCHANGED <<status, joins>>
     \/ /\ rows' = [rows EXCEPT ![p] = "in"]
        /\ PlayerJoined(p)
        /\ UNCHANGED toPage
  /\ UNCHANGED <<up, toServer, seat, ended, devices, pages, unsent, taps, crashes>>

Admissible(p) == rows[p] = "pending"

\* admitPlayer and handleAdmit; what cannot be admitted is ignored.
HandleAdmit(s) ==
  /\ Incoming(s, "admit")
  /\ LET p == Head(toServer[s]).player
         accept == Head(toServer[s]).accept
     IN IF ~MayWrite(s) \/ ~Admissible(p)
          THEN UNCHANGED <<toPage, register, phones>>
          ELSE /\ rows' = [rows EXCEPT ![p] = IF accept THEN "in" ELSE "declined"]
               /\ IF accept THEN PlayerJoined(p) /\ UNCHANGED phones
                            ELSE phones' = [phones EXCEPT ![p] = {}] /\ UNCHANGED <<status, joins>>
               /\ InRoom(ListMessage(Pending \ {p}))
               /\ UNCHANGED ended
  /\ UNCHANGED <<up, seat, token, markedAway, pages, unsent, taps, crashes>>

\* PLAYER_REMOVED and SESSION_ENDED of a dealer; only one who has joined is answered.
HandleEvent(s) ==
  /\ Incoming(s, "event")
  /\ LET m == Head(toServer[s])
     IN \/ s \notin dealers /\ UNCHANGED <<toPage, status, ended>>
        \/ /\ s \in dealers /\ (s \in demoted \/ ended)
           /\ toPage' = [toPage EXCEPT ![s] = Append(@, [op |-> "reject"])]
           /\ UNCHANGED <<status, ended>>
        \/ /\ MayWrite(s) /\ ~ended
           /\ status' = [p \in Player |-> IF p = m.player /\ OnLog(p) THEN "removed" ELSE status[p]]
           /\ ended' = (m.player \notin Player)
           /\ UNCHANGED toPage
  /\ UNCHANGED <<up, seat, rows, joins, devices, pages, unsent, taps, crashes>>

\* PLAYER_UPDATED of a phone: the reducer patches whoever the log has, and nobody else.
Patched(p, s) == status' = [status EXCEPT ![p] = IF OnLog(p) /\ ~ended THEN s ELSE @]

\* A phone that has been hidden for a minute, and one that is looked at again; each
\* is lost when the phone is offline.
PhoneHides(p) ==
  /\ rows[p] \in {"pending", "in"} /\ ~markedAway[p]
  /\ markedAway' = [markedAway EXCEPT ![p] = TRUE]
  /\ IF phones[p] # {} THEN Patched(p, "away") ELSE UNCHANGED status
  /\ UNCHANGED <<wire, seat, rows, ended, joins, token, phones, pages, unsent, taps, crashes>>

PhoneShows(p) ==
  /\ markedAway[p]
  /\ markedAway' = [markedAway EXCEPT ![p] = FALSE]
  /\ IF phones[p] # {} THEN Patched(p, "active") ELSE UNCHANGED status
  /\ UNCHANGED <<wire, seat, rows, ended, joins, token, phones, pages, unsent, taps, crashes>>

\* A device with one of the player's tokens joins; an old one is a BAD_TOKEN.
PhoneJoins(p) ==
  /\ rows[p] \in {"pending", "in"} /\ token[p] \notin phones[p]
  /\ phones' = [phones EXCEPT ![p] = @ \cup {token[p]}]
  /\ UNCHANGED <<wire, seat, register, token, markedAway, pages, unsent, taps, crashes>>

PhoneLeaves(p) == \E t \in phones[p] :
  /\ phones' = [phones EXCEPT ![p] = @ \ {t}]
  /\ UNCHANGED <<wire, seat, register, token, markedAway, pages, unsent, taps, crashes>>

\* disconnectPlayerSockets
ReissueDisconnects(p) == [phones EXCEPT ![p] = {}]

\* A REST request with the dealer's token, which every page of the dealer has.
Reissue(p) ==
  /\ rows[p] = "in" /\ token[p] < MaxTokens
  /\ token' = [token EXCEPT ![p] = @ + 1]
  /\ phones' = ReissueDisconnects(p)
  /\ UNCHANGED <<wire, seat, register, markedAway, pages, unsent, taps, crashes>>

-----------------------------------------------------------------------------
(* The dealer's page *)

\* Opening the page, or the client's own reconnect: a join without takeover.
Connects(d) == \E s \in Socket :
  /\ up[s] = "unused" /\ pages[d].sock = NoSocket /\ pages[d].shows # "over"
  /\ up' = [up EXCEPT ![s] = "open"]
  /\ pages' = [pages EXCEPT ![d].sock = s, ![d].joined = FALSE]
  /\ toServer' = [toServer EXCEPT ![s] = unsent[d] \o <<[op |-> "join", takeover |-> FALSE]>>]
  /\ unsent' = [unsent EXCEPT ![d] = <<>>]
  /\ UNCHANGED <<toPage, seat, register, devices, taps, crashes>>

\* The network fails, or the page is loaded again.
Disconnects(d) ==
  /\ pages[d].sock # NoSocket
  /\ up' = [up EXCEPT ![pages[d].sock] = "dead"]
  /\ toPage' = [toPage EXCEPT ![pages[d].sock] = <<>>]
  /\ \/ pages' = [pages EXCEPT ![d].sock = NoSocket, ![d].joined = FALSE]
     \/ pages' = [pages EXCEPT ![d] = NewPage]
  /\ UNCHANGED <<toServer, seat, register, devices, unsent, taps, crashes>>

\* onSocketMessage.  joinBlocked is shown until Take over is tapped; a rejected event goes
\* from the page's log (SyncedStore).
Hears(d) ==
  LET s == pages[d].sock
      m == Head(toPage[s])
  IN /\ s # NoSocket /\ toPage[s] # <<>>
     /\ toPage' = [toPage EXCEPT ![s] = Tail(@)]
     /\ pages' = [pages EXCEPT ![d] =
          CASE m.op = "joined" -> [@ EXCEPT !.joined = TRUE, !.readOnly = FALSE, !.list = m.list]
            [] m.op = "refused" -> [@ EXCEPT !.joined = FALSE, !.shows = "card"]
            [] m.op = "over" -> [@ EXCEPT !.joined = FALSE, !.shows = "over"]
            [] m.op = "demoted" -> [@ EXCEPT !.readOnly = TRUE]
            [] m.op = "resynced" -> [@ EXCEPT !.joined = TRUE, !.readOnly = FALSE]
            [] m.op = "pending" -> [@ EXCEPT !.list = m.list]
            [] m.op = "reject" -> @]
     /\ UNCHANGED <<up, toServer, seat, register, devices, unsent, taps, crashes>>

\* An event of the room does not follow on the page's log: one was lost, or a guess was
\* rejected and rolled back.  Which events those are is in SyncedStore: here it may be any.
MeetsGap(d) ==
  /\ pages[d].sock \in dealers
  /\ Emits(d, [op |-> "resync"])
  /\ UNCHANGED <<up, toPage, seat, register, devices, pages, taps, crashes>>

Tap == taps < MaxTaps /\ taps' = taps + 1

\* "Take over" of the card, "Take back" of the banner
TapTakeover(d) ==
  /\ Tap /\ pages[d].shows # "over" /\ (pages[d].shows = "card" \/ pages[d].readOnly)
  /\ Emits(d, [op |-> "join", takeover |-> TRUE])
  /\ pages' = [pages EXCEPT ![d].shows = "shell", ![d].readOnly = FALSE, ![d].joined = FALSE]
  /\ UNCHANGED <<up, toPage, seat, register, devices, crashes>>

\* The players' panel is there until the session is ended on this page.
EndTapped(s) == \E i \in DOMAIN toServer[s] :
  toServer[s][i].op = "event" /\ toServer[s][i].player \notin Player

PanelShown(d) ==
  /\ pages[d].shows = "shell" /\ ~ended
  /\ pages[d].sock # NoSocket => ~EndTapped(pages[d].sock)

\* sendAdmit looks at readOnly only.
TapAdmit(d) == \E p \in pages[d].list, accept \in BOOLEAN :
  /\ Tap /\ PanelShown(d) /\ ~pages[d].readOnly
  /\ Emits(d, [op |-> "admit", player |-> p, accept |-> accept])
  /\ UNCHANGED <<up, toPage, seat, register, devices, pages, crashes>>

TapRemove(d) == \E p \in AtTable :
  /\ Tap /\ PanelShown(d) /\ pages[d].joined /\ ~pages[d].readOnly
  /\ Emits(d, [op |-> "event", player |-> p])
  /\ UNCHANGED <<up, toPage, seat, register, devices, pages, crashes>>

TapEnd(d) ==
  /\ Tap /\ PanelShown(d) /\ pages[d].joined /\ ~pages[d].readOnly
  /\ Emits(d, [op |-> "event", player |-> NoSocket])
  /\ UNCHANGED <<up, toPage, seat, register, devices, pages, crashes>>

-----------------------------------------------------------------------------
(* The end of the process *)

\* Every socket with it; the tables come back from their rows.
ProcessEnds ==
  /\ crashes < MaxCrashes /\ crashes' = crashes + 1
  /\ up' = [s \in Socket |-> IF up[s] = "unused" THEN "unused" ELSE "closed"]
  /\ toServer' = [s \in Socket |-> <<>>] /\ toPage' = [s \in Socket |-> <<>>]
  /\ dealers' = {} /\ active' = NoSocket /\ demoted' = {} /\ misled' = {}
  /\ phones' = [p \in Player |-> {}]
  /\ pages' = [d \in Page |-> [pages[d] EXCEPT !.sock = NoSocket, !.joined = FALSE]]
  /\ UNCHANGED <<token, markedAway, unsent, taps>>

Restart == ProcessEnds /\ UNCHANGED register

\* Inside joinPlayer: the row is there, its PLAYER_JOINED is not saved.
CrashInJoin(p) ==
  /\ rows[p] = "none" /\ ~ended /\ ~Full
  /\ ProcessEnds
  /\ rows' \in {[rows EXCEPT ![p] = r] : r \in {"pending", "in"}}
  /\ UNCHANGED <<status, ended, joins>>

\* Faulty variant: the event is saved before the row is.
CrashAfterJoined(p) == rows' = rows /\ PlayerJoined(p)

\* Inside admitPlayer: the row has been set, its PLAYER_JOINED is not saved.
CrashAfterRow(p) == rows' = [rows EXCEPT ![p] = "in"] /\ UNCHANGED <<status, joins>>

CrashInAdmit(p) ==
  /\ \E s \in Socket :
       /\ toServer[s] # <<>> /\ MayWrite(s) /\ Admissible(p)
       /\ Head(toServer[s]) = [op |-> "admit", player |-> p, accept |-> TRUE]
  /\ ProcessEnds
  /\ CrashAfterRow(p) /\ UNCHANGED ended

-----------------------------------------------------------------------------
RoomNext ==
  \/ \E s \in Socket : HandleJoin(s) \/ HandleResync(s) \/ HandleAdmit(s) \/ HandleEvent(s) \/ NoticeLeft(s)
  \/ \E p \in Player :
       \/ PostJoin(p) \/ PhoneHides(p) \/ PhoneShows(p) \/ PhoneJoins(p) \/ PhoneLeaves(p) \/ Reissue(p)
       \/ CrashInJoin(p) \/ CrashInAdmit(p)
  \/ \E d \in Page :
       Connects(d) \/ Disconnects(d) \/ Hears(d) \/ MeetsGap(d) \/ TapTakeover(d) \/ TapAdmit(d) \/ TapRemove(d) \/ TapEnd(d)
  \/ Restart

RoomSpec == RoomInit /\ [][RoomNext]_roomVars

-----------------------------------------------------------------------------
(* Properties *)

\* "One dealer is active per table": however the pages come, go and take over, no
\* two sockets may write, and the one that may is the one the service calls active.
OneDealer == \A s \in Socket : MayWrite(s) => active = s

\* Nothing is on its way to or from the page.
Settled(d) == LET s == pages[d].sock
              IN s # NoSocket /\ up[s] = "open" /\ toServer[s] = <<>> /\ toPage[s] = <<>>

\* Once its messages are through, the dealer's page has no banner that says that another
\* one took over, and a page whose buttons write is the dealer, unless it was demoted and
\* then asked for what it had missed: the answer is the one of a join, and its banner goes.
\* A page that shows that the session is over has no buttons: it may hold the seat all the
\* same.
DealerKnows == \A d \in Page : Settled(d) /\ pages[d].shows # "over" =>
  LET writes == pages[d].joined /\ ~pages[d].readOnly
  IN /\ active = pages[d].sock => writes
     /\ writes => active = pages[d].sock \/ pages[d].sock \in misled

\* ... and the people it shows as waiting are the ones who are waiting: after joins,
\* approvals by another page, takeovers, reconnects and restarts.
PendingShown == \A d \in Page :
  Settled(d) /\ pages[d].joined /\ ~ended => pages[d].list = Pending

\* No player comes to the table twice, by a second tap, a second dealer or a crash
\* inside an admission, and nobody at the table is still asked about.
AdmittedOnce == \A p \in Player : joins[p] <= 1 /\ (OnLog(p) => rows[p] = "in")

\* "Players up to maxPlayers", however the players joined.
WithinMaxPlayers == Cardinality(AtTable) <= MaxPlayers

\* Whoever was admitted is in the log.
NobodyLost == \A p \in Player : rows[p] = "in" => OnLog(p)

\* The page of the active dealer does not offer to take over.
DealerSeesShell == \A d \in Page : Settled(d) /\ active = pages[d].sock => pages[d].shows = "shell"
================================================================================
