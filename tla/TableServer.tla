----------------------------- MODULE TableServer -----------------------------
(***************************************************************************)
(* One table of the sync service: the event log of a TableInstance, its    *)
(* map of client ids, the rows that the repository keeps of it, and the     *)
(* socket handlers for join, resync and event.  Handlers run to completion  *)
(* on one thread; the process may crash between two of them, or inside one  *)
(* after the row was written and before the sender heard of it.             *)
(*                                                                         *)
(* The sockets are two channels per client.  What clients send is free      *)
(* here (Environment); SyncedStore says what they really send.              *)
(***************************************************************************)
EXTENDS Integers, Sequences, FiniteSets, Lists

CONSTANTS
  Client,       \* the sockets' owners: a dealer, displays, players
  Dealer,       \* the clients that join as dealer
  Display,      \* the clients that join as display
  Server,       \* the author of TABLE_CREATED
  MaxEvents,    \* bound: events one client makes
  MaxRestarts,  \* bound: restarts of the process
  MaxInFlight,  \* bound: messages in one channel (free environment only)
  Rejects       \* an event may be rejected (rate limit, failed validation)

ASSUME ClientAssumption ==
  Dealer \subseteq Client /\ Display \subseteq Client \ Dealer /\ Server \notin Client
ASSUME BoundAssumption ==
  MaxEvents \in Nat /\ MaxRestarts \in Nat /\ MaxInFlight \in Nat /\ Rejects \in BOOLEAN

\* LIVE_INPUT is ephemeral; SESSION_ENDED ends the table; the rest plays.
Kind == {"live", "play", "end"}
\* A client id; it stands for the event that the client sends under it.
Id == [by: Client, n: 1..MaxEvents, kind: Kind]
Created == [by |-> Server, n |-> 0, kind |-> "play"]
Entry == [seq: Nat, id: Id \cup {Created}]

VARIABLES
  events,     \* TableInstance.events
  clientIds,  \* clientIdMap: the seq given to each client id, in memory only
  stored,     \* the rows of table "events"
  room,       \* the clients whose socket has joined
  toServer,   \* toServer[c]: messages from c, in order
  toClient,   \* toClient[c]: messages to c, in order
  acked,      \* history: client ids that were acknowledged to their sender
  restarts

memory == <<events, clientIds>>
serverVars == <<events, clientIds, stored, room, toServer, toClient, acked, restarts>>

-----------------------------------------------------------------------------
(* TableInstance *)

LastSeq(s) == IF s = <<>> THEN 0 ELSE s[Len(s)].seq

SessionEnded == \E i \in DOMAIN events : events[i].id.kind = "end"

NextSeq == LastSeq(events) + 1

EventFor(id) == [seq |-> NextSeq, id |-> id]

\* Faulty variant: a client id that is known is appended all the same.
IsNewAlways(id) == TRUE

IsNew(id) == id \notin DOMAIN clientIds

\* appendEvent for a new client id.
AppendEvent(id) ==
  /\ events' = Append(events, EventFor(id))
  /\ clientIds' = [x \in DOMAIN clientIds \cup {id} |-> IF x = id THEN NextSeq ELSE clientIds[x]]

\* persistEvent: an ephemeral event has no row.
PersistEvent(id) ==
  stored' = IF id.kind = "live" THEN stored ELSE Append(stored, EventFor(id))

\* Faulty variant: the delta leaves out the event that follows `since`.
JoinPayloadPastNext(since) ==
  [op |-> "joined", replace |-> since >= LastSeq(events), seq |-> LastSeq(events),
   events |-> IF since >= LastSeq(events) THEN events
              ELSE Selection(events, {e \in Entry : e.seq > since + 1})]

\* joinPayload: everything to a client that has nothing, is up to date or
\* claims to be ahead; what follows `since` otherwise.
JoinPayload(since) ==
  IF since >= LastSeq(events) \/ since < events[1].seq
    THEN [op |-> "joined", replace |-> TRUE, events |-> events, seq |-> LastSeq(events)]
    ELSE [op |-> "joined", replace |-> FALSE, seq |-> LastSeq(events),
          events |-> Selection(events, {e \in Entry : e.seq > since})]

-----------------------------------------------------------------------------
(* Sockets *)

Reply(c, m) == toClient' = [toClient EXCEPT ![c] = Append(@, m)]

\* The acknowledgement to the sender, then the event to the room, sender included.
Broadcast(c, e) ==
  toClient' = [x \in Client |->
    LET ack == IF x = c THEN <<[op |-> "ack", id |-> e.id, seq |-> e.seq]>> ELSE <<>>
        copy == IF x \in room THEN <<[op |-> "event", event |-> e]>> ELSE <<>>
    IN toClient[x] \o ack \o copy]

Incoming(c, op) == toServer[c] # <<>> /\ Head(toServer[c]).op = op
Consume(c) == toServer' = [toServer EXCEPT ![c] = Tail(@)]

\* A dealer cannot come back to a table whose session has ended.
HandleJoin(c) ==
  /\ Incoming(c, "join") /\ Consume(c)
  /\ IF c \in Dealer /\ SessionEnded
       THEN Reply(c, [op |-> "error"]) /\ UNCHANGED room
       ELSE Reply(c, JoinPayload(Head(toServer[c]).since)) /\ room' = room \cup {c}
  /\ UNCHANGED <<memory, stored, acked, restarts>>

HandleResync(c) ==
  /\ Incoming(c, "resync") /\ Consume(c)
  /\ IF c \in room THEN Reply(c, JoinPayload(Head(toServer[c]).since)) ELSE UNCHANGED toClient
  /\ UNCHANGED <<memory, stored, room, acked, restarts>>

\* A display emits nothing; only the dealer's live input and end are taken.
Permitted(c, id) == c \notin Display /\ (id.kind \in {"live", "end"} => c \in Dealer)

\* Ignored before the join, refused after the end, without the permission, or by
\* the rate limit or the validation.
HandleEventRefused(c) ==
  /\ Incoming(c, "event") /\ Consume(c)
  /\ LET id == Head(toServer[c]).id
     IN IF c \notin room
          THEN UNCHANGED toClient
          ELSE /\ SessionEnded \/ ~Permitted(c, id) \/ Rejects
               /\ Reply(c, [op |-> "reject", id |-> id])
  /\ UNCHANGED <<memory, stored, room, acked, restarts>>

\* Faulty variant: an event is taken after the end of the session too.
AcceptsAfterEnd(c, id) ==
  /\ Incoming(c, "event") /\ id = Head(toServer[c]).id
  /\ c \in room
  /\ Permitted(c, id)

Accepts(c, id) ==
  /\ Incoming(c, "event") /\ id = Head(toServer[c]).id
  /\ c \in room /\ ~SessionEnded
  /\ Permitted(c, id)

HandleEventDuplicate(c) == \E id \in Id :
  /\ Accepts(c, id) /\ ~IsNew(id)
  /\ Consume(c)
  /\ Reply(c, [op |-> "ack", id |-> id, seq |-> clientIds[id]])
  /\ acked' = acked \cup {id}
  /\ UNCHANGED <<memory, stored, room, restarts>>

\* Faulty variant: the row is written after the reply, and only then is it safe.
HandleEventNewUnsaved(c) == \E id \in Id :
  /\ Accepts(c, id) /\ IsNew(id)
  /\ Consume(c)
  /\ AppendEvent(id) /\ UNCHANGED stored
  /\ Broadcast(c, EventFor(id))
  /\ acked' = acked \cup {id}
  /\ UNCHANGED <<room, restarts>>

HandleEventNew(c) == \E id \in Id :
  /\ Accepts(c, id) /\ IsNew(id)
  /\ Consume(c)
  /\ AppendEvent(id) /\ PersistEvent(id)
  /\ Broadcast(c, EventFor(id))
  /\ acked' = acked \cup {id}
  /\ UNCHANGED <<room, restarts>>

\* The process is gone: sockets, channels and memory with it.
LoseProcess ==
  /\ restarts < MaxRestarts
  /\ restarts' = restarts + 1
  /\ room' = {}
  /\ clientIds' = [id \in {} |-> 0]
  /\ toServer' = [c \in Client |-> <<>>]
  /\ toClient' = [c \in Client |-> <<>>]
  /\ UNCHANGED acked

\* The registry loads every table from its rows; client ids have none.
Restart ==
  /\ LoseProcess
  /\ events' = stored
  /\ UNCHANGED stored

\* A crash inside handleEvent, between saveEvent and the reply.
CrashAfterSave(c) == \E id \in Id :
  /\ Accepts(c, id) /\ IsNew(id)
  /\ PersistEvent(id)
  /\ LoseProcess
  /\ events' = stored'

\* disconnect: the socket leaves the room, what was in flight is lost.
Disconnect(c) ==
  /\ room' = room \ {c}
  /\ toServer' = [toServer EXCEPT ![c] = <<>>]
  /\ toClient' = [toClient EXCEPT ![c] = <<>>]
  /\ UNCHANGED <<memory, stored, acked, restarts>>

-----------------------------------------------------------------------------
(* The clients, for all that the server knows *)

ServerState == <<memory, stored, room, acked, restarts>>

\* Whatever a client may send, in any order and any number of times.  The server
\* never looks at toClient, so answers are read before anything else is sent.
Environment ==
  \/ \E c \in Client :
       /\ Len(toServer[c]) < MaxInFlight
       /\ \A x \in Client : toClient[x] = <<>>
       /\ \E m \in [op: {"join", "resync"}, since: 0 .. LastSeq(events) + 1]
                \cup [op: {"event"}, id: {id \in Id : id.by = c}] :
            toServer' = [toServer EXCEPT ![c] = Append(@, m)]
       /\ UNCHANGED <<ServerState, toClient>>
  \/ /\ \E c \in Client : toClient[c] # <<>>
     /\ toClient' = [c \in Client |-> <<>>]
     /\ UNCHANGED <<ServerState, toServer>>

ServerInit ==
  /\ events = <<[seq |-> 1, id |-> Created]>>
  /\ stored = events
  /\ clientIds = [id \in {Created} |-> 1]
  /\ room = {}
  /\ toServer = [c \in Client |-> <<>>]
  /\ toClient = [c \in Client |-> <<>>]
  /\ acked = {}
  /\ restarts = 0

ServerHandles(c) ==
  \/ HandleJoin(c) \/ HandleResync(c)
  \/ HandleEventRefused(c) \/ HandleEventDuplicate(c) \/ HandleEventNew(c)

ServerStep ==
  \/ \E c \in Client : ServerHandles(c) \/ CrashAfterSave(c) \/ Disconnect(c)
  \/ Restart

ServerNext == ServerStep \/ Environment

ServerSpec == ServerInit /\ [][ServerNext]_serverVars
-----------------------------------------------------------------------------
(* Properties *)

\* The log, its rows and the map of client ids have their shapes, and a client id is
\* answered with the seq of its own event.
ServerTypeOK ==
  /\ events \in Seq(Entry) /\ stored \in Seq(Entry)
  /\ DOMAIN clientIds \subseteq Id \cup {Created}
  /\ \A id \in DOMAIN clientIds : \E i \in DOMAIN events : events[i] = [seq |-> clientIds[id], id |-> id]
  /\ room \subseteq Client /\ acked \subseteq Id /\ restarts \in Nat

Increasing(s) == \A i, j \in DOMAIN s : i < j => s[i].seq < s[j].seq
Holds(s, id) == \E i \in DOMAIN s : s[i].id = id

\* "The server assigns a monotonically increasing seq": also for the rows, and
\* after restarts that leave gaps where ephemeral events had been.
SeqsIncrease == Increasing(events) /\ Increasing(stored)

\* What a sender was told is in the log stays in it, whenever the process crashes.
AckedKept == \A id \in acked : id.kind # "live" => Holds(events, id)

\* "No further events are accepted" after the end of the session, whichever
\* process received it.
NothingAfterEnd == \A i \in DOMAIN events : events[i].id.kind = "end" => i = Len(events)

\* One client id is one event, however often it is sent.
AtMostOnce == \A i, j \in DOMAIN events : events[i].id = events[j].id => i = j

EndsSession(id) == id.kind = "end"
Log == INSTANCE EventLog
         WITH IsEnd <- EndsSession, log <- stored, acked <- {id \in acked : id.kind # "live"}

\* The table implements the event log that its clients were promised.
ImplementsLog == Log!LogSpec
=============================================================================
