----------------------------- MODULE SyncedStore -----------------------------
(***************************************************************************)
(* The clients of a TableServer: createSyncedTableStore keeps a copy of the *)
(* log, shows an own event at once under a guessed seq, corrects it when    *)
(* the acknowledgement comes, and queues the dealer's events while offline. *)
(* One action is one callback of the store: a user's emit, a message, the   *)
(* socket's connect or disconnect, or a step of flushOfflineQueue.          *)
(* Writes to IndexedDB are taken as done when they are started.             *)
(***************************************************************************)
EXTENDS TableServer, FiniteSetsExt, SequencesExt

CONSTANTS
  Makes,        \* Makes[c]: the kinds of events that the users of c make
  MaxDrops,     \* bound: MaxDrops[c] disconnects of client c
  MaxReloads,   \* bound: MaxReloads[c] reloads of the page of client c
  Slow          \* an answer may take longer than the 5 s that a flush waits

ASSUME StoreAssumption ==
  /\ Makes \in [Client -> SUBSET Kind] /\ \A c \in Display : Makes[c] = {}
  /\ MaxDrops \in [Client -> Nat] /\ MaxReloads \in [Client -> Nat] /\ Slow \in BOOLEAN

VARIABLES
  log,       \* log[c]: events of the store, own ones included
  latest,    \* latest[c]: latestSeq
  pending,   \* pending[c]: the index in log[c] of each own event not yet answered
  online,    \* online[c]: the socket is connected
  joined,    \* joined[c]
  mounted,   \* mounted[c]: the page has shown its shell (waitForSyncReady)
  queue,     \* queue[c]: the offline queue
  flushing,  \* flushing[c]
  peeked,    \* peeked[c]: the queued event that the flush has read last, or {}
  awaiting,  \* awaiting[c]: the queued event that the flush has sent, or {}
  late,      \* history: events that were queued although the dealer was connected
  saved,     \* saved[c]: the events kept for the next load of the page
  made,      \* made[c]: number of events made
  drops, reloads

copyVars == <<log, latest, pending, saved>>
linkVars == <<online, joined, mounted>>
queueVars == <<queue, flushing, peeked, awaiting, late>>
boundVars == <<drops, reloads>>
storeVars == <<serverVars, copyVars, linkVars, queueVars, made, boundVars>>

-----------------------------------------------------------------------------
(* The copy of the log *)

Persisted(s) == Selection(s, {e \in Entry : e.id.kind # "live"})
HighestSeq(s) == Max({s[i].seq : i \in DOMAIN s} \cup {0})

\* An event that is not newer is skipped; after a gap nothing more is taken.
TakeEvent(copy, e) ==
  IF copy.gap \/ e.seq <= copy.latest THEN copy
  ELSE IF e.seq # copy.latest + 1 THEN [copy EXCEPT !.gap = TRUE]
  ELSE [copy EXCEPT !.log = Append(@, e), !.latest = e.seq]

Copy(c) == [log |-> log[c], latest |-> latest[c], gap |-> FALSE]
EmptyCopy == [log |-> <<>>, latest |-> 0, gap |-> FALSE]

\* applyServerEvents, applyIncomingEvent
ApplyEvents(copy, s) == FoldLeft(TakeEvent, copy, s)

ResyncFrom(copy) == IF copy.gap THEN <<[op |-> "resync", since |-> copy.latest]>> ELSE <<>>

\* Faulty variant: the optimistic event keeps the seq that was guessed.
ConfirmedAsGuessed(c, id, seq) == log[c]

\* confirmPending: the event at the remembered index gets the server's seq.
Confirmed(c, id, seq) ==
  IF id \in DOMAIN pending[c] /\ pending[c][id] <= Len(log[c])
    THEN [log[c] EXCEPT ![pending[c][id]].seq = seq]
    ELSE log[c]

Forget(c, id) == [x \in DOMAIN pending[c] \ {id} |-> pending[c][x]]

\* rollbackPending: the indices behind the removed event move up.
RolledBack(c, id) ==
  [x \in DOMAIN pending[c] \ {id} |->
     IF pending[c][x] > pending[c][id] THEN pending[c][x] - 1 ELSE pending[c][x]]

IsOnline(c) == joined[c] /\ online[c] /\ ~flushing[c]

-----------------------------------------------------------------------------
(* Messages *)

Message(c, op) == toClient[c] # <<>> /\ Head(toClient[c]).op = op

\* The first message is taken from the channel ...
Take(c, op) ==
  /\ Message(c, op)
  /\ toClient' = [toClient EXCEPT ![c] = Tail(@)]
  /\ UNCHANGED ServerState

\* ... and what `answer` holds is sent.
Answering(c, answer) == toServer' = [toServer EXCEPT ![c] = @ \o answer]

Peek(q) == IF q = <<>> THEN {} ELSE {Head(q)}

\* flushOfflineQueue up to its first await, in which the queue is read.  A flush that is
\* under way is not begun again; from now on the client is not online.
StartFlush(c) ==
  IF c \in Dealer /\ ~flushing[c]
    THEN /\ flushing' = [flushing EXCEPT ![c] = TRUE]
         /\ peeked' = [peeked EXCEPT ![c] = Peek(queue[c])]
    ELSE UNCHANGED <<flushing, peeked>>

\* handleJoined: a snapshot replaces the copy, a delta extends it; latestSeq
\* follows the server's in any case; the offline queue is flushed.
ReceiveJoined(c) ==
  /\ Take(c, "joined")
  /\ LET m == Head(toClient[c])
         copy == ApplyEvents(IF m.replace THEN EmptyCopy ELSE Copy(c), m.events)
     IN /\ log' = [log EXCEPT ![c] = copy.log]
        /\ latest' = [latest EXCEPT ![c] = Max({copy.latest, m.seq})]
        /\ saved' = [saved EXCEPT ![c] = Persisted(copy.log)]
        /\ Answering(c, ResyncFrom(copy))
  /\ joined' = [joined EXCEPT ![c] = TRUE]
  /\ mounted' = [mounted EXCEPT ![c] = TRUE]
  /\ StartFlush(c)
  /\ UNCHANGED <<pending, online, queue, awaiting, late, made, boundVars>>

ReceiveEvent(c) ==
  /\ Take(c, "event")
  /\ LET copy == ApplyEvents(Copy(c), <<Head(toClient[c]).event>>)
     IN /\ log' = [log EXCEPT ![c] = copy.log]
        /\ latest' = [latest EXCEPT ![c] = copy.latest]
        /\ saved' = IF copy.log = log[c] THEN saved ELSE [saved EXCEPT ![c] = Persisted(copy.log)]
        /\ Answering(c, ResyncFrom(copy))
  /\ UNCHANGED <<pending, linkVars, queueVars, made, boundVars>>

ReceiveAck(c) ==
  /\ Take(c, "ack")
  /\ LET m == Head(toClient[c])
         new == Confirmed(c, m.id, m.seq)
     IN /\ log' = [log EXCEPT ![c] = new]
        /\ latest' = [latest EXCEPT ![c] = IF new = log[c] THEN @ ELSE Max({@, m.seq})]
        /\ pending' = [pending EXCEPT ![c] = Forget(c, m.id)]
        /\ saved' = IF m.id \in DOMAIN pending[c] THEN [saved EXCEPT ![c] = Persisted(new)] ELSE saved
  /\ Answering(c, <<>>)
  /\ UNCHANGED <<linkVars, queueVars, made, boundVars>>

ReceiveReject(c) ==
  /\ Take(c, "reject")
  /\ LET id == Head(toClient[c]).id
     IN IF id \in DOMAIN pending[c]
          THEN /\ log' = [log EXCEPT ![c] = IF pending[c][id] <= Len(@) THEN RemoveAt(@, pending[c][id]) ELSE @]
               /\ latest' = [latest EXCEPT ![c] = HighestSeq(log'[c])]
               /\ pending' = [pending EXCEPT ![c] = RolledBack(c, id)]
          ELSE UNCHANGED <<log, latest, pending>>
  /\ Answering(c, <<>>)
  /\ UNCHANGED <<saved, linkVars, queueVars, made, boundVars>>

ReceiveError(c) ==
  /\ Take(c, "error")
  /\ joined' = [joined EXCEPT ![c] = FALSE]
  /\ Answering(c, <<>>)
  /\ UNCHANGED <<copyVars, online, mounted, queueVars, made, boundVars>>

-----------------------------------------------------------------------------
(* The user *)

Emit(c, id) ==
  /\ toServer' = [toServer EXCEPT ![c] = Append(@, [op |-> "event", id |-> id])]
  /\ UNCHANGED <<ServerState, toClient>>

\* sendPersistedEvent: shown at once; sent when online, queued by an offline
\* dealer; a player's event is taken back when offline, which changes nothing.
MakeEvent(c) == \E kind \in Makes[c] \ {"live"} :
  LET id == [by |-> c, n |-> made[c] + 1, kind |-> kind]
      new == Append(log[c], [seq |-> latest[c] + 1, id |-> id])
  IN /\ mounted[c] /\ made[c] < MaxEvents
     /\ made' = [made EXCEPT ![c] = @ + 1]
     /\ log' = [log EXCEPT ![c] = new]
     /\ latest' = [latest EXCEPT ![c] = @ + 1]
     /\ pending' = [pending EXCEPT ![c] = [x \in DOMAIN @ \cup {id} |-> IF x = id THEN Len(new) ELSE @[x]]]
     /\ \/ IsOnline(c) /\ Emit(c, id) /\ UNCHANGED <<queue, late, saved>>
        \/ /\ ~IsOnline(c) /\ c \in Dealer
           /\ queue' = [queue EXCEPT ![c] = Append(@, id)]
           /\ late' = IF joined[c] THEN late \cup {id} ELSE late
           /\ saved' = [saved EXCEPT ![c] = Persisted(new)]
           /\ UNCHANGED serverVars
     /\ UNCHANGED <<linkVars, flushing, peeked, awaiting, boundVars>>

\* emitLive: a dealer's input is sent when joined, never shown as an event of the
\* log before it comes back, and dropped otherwise.
MakeLive(c) ==
  /\ "live" \in Makes[c] /\ made[c] < MaxEvents
  /\ mounted[c] /\ joined[c] /\ online[c]
  /\ made' = [made EXCEPT ![c] = @ + 1]
  /\ Emit(c, [by |-> c, n |-> made[c] + 1, kind |-> "live"])
  /\ UNCHANGED <<copyVars, linkVars, queueVars, boundVars>>

-----------------------------------------------------------------------------
(* flushOfflineQueue *)

\* shiftOfflineQueue and the peek that follows it.
NextItem(c) ==
  /\ queue' = [queue EXCEPT ![c] = Tail(@)]
  /\ peeked' = [peeked EXCEPT ![c] = Peek(queue'[c])]

EndFlush(c) ==
  /\ flushing' = [flushing EXCEPT ![c] = FALSE]
  /\ peeked' = [peeked EXCEPT ![c] = {}]

\* After a peek: the flush ends when nothing was read or the connection is gone; an event
\* that is no longer pending is dropped; any other is sent, and the flush waits.
FlushNext(c) ==
  /\ flushing[c] /\ awaiting[c] = {}
  /\ IF peeked[c] = {} \/ ~(joined[c] /\ online[c])
       THEN EndFlush(c) /\ UNCHANGED <<serverVars, queue, awaiting>>
     ELSE IF peeked[c] \cap DOMAIN pending[c] = {}
       THEN NextItem(c) /\ UNCHANGED <<serverVars, flushing, awaiting>>
     ELSE /\ \E id \in peeked[c] : Emit(c, id)
          /\ awaiting' = [awaiting EXCEPT ![c] = peeked[c]]
          /\ UNCHANGED <<queue, flushing, peeked>>
  /\ UNCHANGED <<copyVars, linkVars, late, made, boundVars>>

Answered(c) == awaiting[c] # {} /\ awaiting[c] \cap DOMAIN pending[c] = {}

\* Faulty variant: the flush ends with the first answer.
FlushAnsweredOnce(c) ==
  /\ Answered(c)
  /\ awaiting' = [awaiting EXCEPT ![c] = {}]
  /\ EndFlush(c)
  /\ queue' = [queue EXCEPT ![c] = Tail(@)]
  /\ UNCHANGED <<serverVars, copyVars, linkVars, late, made, boundVars>>

FlushAnswered(c) ==
  /\ Answered(c)
  /\ awaiting' = [awaiting EXCEPT ![c] = {}]
  /\ NextItem(c)
  /\ UNCHANGED <<serverVars, copyVars, linkVars, flushing, late, made, boundVars>>

\* An answer to what the flush has sent is still on its way.
AnswerComes(c) ==
  \/ \E i \in DOMAIN toServer[c] : toServer[c][i].op = "event" /\ toServer[c][i].id \in awaiting[c]
  \/ \E i \in DOMAIN toClient[c] : toClient[c][i].op \in {"ack", "reject"} /\ toClient[c][i].id \in awaiting[c]

\* After 5 s the flush gives up and leaves the event in the queue.
FlushTimeout(c) ==
  /\ awaiting[c] \cap DOMAIN pending[c] # {}
  /\ Slow \/ ~AnswerComes(c)
  /\ awaiting' = [awaiting EXCEPT ![c] = {}]
  /\ EndFlush(c)
  /\ UNCHANGED <<serverVars, copyVars, linkVars, queue, late, made, boundVars>>

-----------------------------------------------------------------------------
(* The connection *)

\* "connect": the join asks for what follows the highest seq of the copy.
Connect(c) ==
  /\ ~online[c]
  /\ online' = [online EXCEPT ![c] = TRUE]
  /\ toServer' = [toServer EXCEPT ![c] = Append(@, [op |-> "join", since |-> HighestSeq(log[c])])]
  /\ UNCHANGED <<ServerState, toClient, joined, mounted, copyVars, queueVars, made, boundVars>>

Drop(c) ==
  /\ online[c] /\ drops[c] < MaxDrops[c]
  /\ drops' = [drops EXCEPT ![c] = @ + 1]
  /\ Disconnect(c)
  /\ online' = [online EXCEPT ![c] = FALSE]
  /\ joined' = [joined EXCEPT ![c] = FALSE]
  /\ UNCHANGED <<mounted, copyVars, queueVars, made, reloads>>

\* The page is loaded again: memory is gone, the saved events and the queue stay.
Reload(c) ==
  /\ reloads[c] < MaxReloads[c]
  /\ reloads' = [reloads EXCEPT ![c] = @ + 1]
  /\ Disconnect(c)
  /\ log' = [log EXCEPT ![c] = saved[c]]
  /\ latest' = [latest EXCEPT ![c] = HighestSeq(saved[c])]
  /\ pending' = [pending EXCEPT ![c] = [x \in {} |-> 0]]
  /\ online' = [online EXCEPT ![c] = FALSE]
  /\ joined' = [joined EXCEPT ![c] = FALSE]
  /\ mounted' = [mounted EXCEPT ![c] = FALSE]
  /\ EndFlush(c)
  /\ awaiting' = [awaiting EXCEPT ![c] = {}]
  /\ UNCHANGED <<saved, queue, late, made, drops>>

\* Every socket is closed when the process goes.
ServerLost ==
  /\ Restart \/ \E c \in Client : CrashAfterSave(c)
  /\ online' = [c \in Client |-> FALSE]
  /\ joined' = [c \in Client |-> FALSE]
  /\ UNCHANGED <<mounted, copyVars, queueVars, made, boundVars>>

\* After 8 s without an answer the page shows the saved events.
ShowOffline(c) ==
  /\ ~mounted[c] /\ ~joined[c] /\ log[c] # <<>>
  /\ mounted' = [mounted EXCEPT ![c] = TRUE]
  /\ UNCHANGED <<serverVars, copyVars, online, joined, queueVars, made, boundVars>>

ServerAnswers(c) == ServerHandles(c) /\ UNCHANGED <<copyVars, linkVars, queueVars, made, boundVars>>

-----------------------------------------------------------------------------
StoreInit ==
  /\ ServerInit
  /\ log = [c \in Client |-> <<>>]
  /\ latest = [c \in Client |-> 0]
  /\ pending = [c \in Client |-> [x \in {} |-> 0]]
  /\ online = [c \in Client |-> FALSE]
  /\ joined = [c \in Client |-> FALSE]
  /\ mounted = [c \in Client |-> FALSE]
  /\ queue = [c \in Client |-> <<>>]
  /\ flushing = [c \in Client |-> FALSE]
  /\ peeked = [c \in Client |-> {}]
  /\ awaiting = [c \in Client |-> {}]
  /\ late = {}
  /\ saved = [c \in Client |-> <<>>]
  /\ made = [c \in Client |-> 0]
  /\ drops = [c \in Client |-> 0]
  /\ reloads = [c \in Client |-> 0]

Receives(c) ==
  ReceiveJoined(c) \/ ReceiveEvent(c) \/ ReceiveAck(c) \/ ReceiveReject(c) \/ ReceiveError(c)
Flushes(c) == FlushNext(c) \/ FlushAnswered(c) \/ FlushTimeout(c)
Uses(c) == MakeEvent(c) \/ MakeLive(c)

StoreNext ==
  \/ \E c \in Client : \/ Connect(c) \/ Drop(c) \/ Reload(c) \/ ShowOffline(c) \/ Uses(c)
                       \/ Receives(c) \/ Flushes(c) \/ ServerAnswers(c)
  \/ ServerLost

\* The socket reconnects by itself, messages are handled, the flush goes on and its
\* wait ends.  Nobody has to make an event, and nothing has to fail.
StoreFairness == \A c \in Client :
  /\ WF_storeVars(Connect(c)) /\ WF_storeVars(Receives(c)) /\ WF_storeVars(ServerAnswers(c))
  /\ c \in Dealer => WF_storeVars(Flushes(c))

StoreSpec == StoreInit /\ [][StoreNext]_storeVars
FairStoreSpec == StoreSpec /\ StoreFairness
-----------------------------------------------------------------------------
(* Properties *)

\* The copies, queues and pending maps have their shapes, and latestSeq is never
\* behind an event of the copy.
StoreTypeOK ==
  /\ ServerTypeOK
  /\ \A c \in Client :
       /\ log[c] \in Seq(Entry) /\ saved[c] \in Seq(Entry) /\ latest[c] \in Nat
       /\ HighestSeq(log[c]) <= latest[c]
       /\ DOMAIN pending[c] \subseteq Id /\ queue[c] \in Seq(Id)
       /\ awaiting[c] \subseteq peeked[c] /\ peeked[c] \subseteq Peek(queue[c])

\* Nothing is on its way to or from a joined client, nor waiting to be flushed.
Quiet(c) == joined[c] /\ toServer[c] = <<>> /\ toClient[c] = <<>> /\ queue[c] = <<>>

\* "Every device computes identical state": once the messages are through, the
\* copy of every client is the log, as long as no writer lost a connection, loaded the
\* page again or queued an event while a flush kept it from sending.
QuietAgree ==
  late = {} /\ (\A w \in Client \ Display : drops[w] + reloads[w] = 0) =>
    \A c \in Client : Quiet(c) => Persisted(log[c]) = Persisted(events)

\* "Displays apply events strictly in seq order": what a display shows is the
\* beginning of the log, whatever was lost and asked for again.
DisplayShowsPrefix ==
  \A c \in Display : IsPrefix(Persisted(log[c]), Persisted(events))

\* Live input that some page has seen and that a restart took out of the log: its number
\* is missing in the rows, or is given again.
LiveLost == \E id \in acked : id.kind = "live" /\ ~Holds(events, id)

\* Every event of the log comes to every display, through lost connections and restarts,
\* unless a restart has lost live input: then a page that asks for what follows the gap
\* takes the number of the answer for its own and skips the answer (handleJoined).
DisplayHears ==
  \A c \in Display, by \in Client \ Display, n \in 1..MaxEvents :
    LET id == [by |-> by, n |-> n, kind |-> "play"]
    IN Holds(events, id) ~> Holds(log[c], id) \/ LiveLost

Queued(c, id) == \E i \in DOMAIN queue[c] : queue[c][i] = id

\* The connection went while a flush was under way: the flush of the next connection may
\* be refused because of it, and nothing makes up for that.
Interrupted(c) == flushing[c] /\ ~joined[c]

\* What a dealer without a connection made comes into the log when it is back, unless the
\* session ends, the page is loaded again (which forgets what is pending, so that the flush
\* drops it) or a flush is interrupted.
QueueDelivered ==
  \A c \in Dealer, n \in 1..MaxEvents :
    LET id == [by |-> c, n |-> n, kind |-> "play"]
    IN Queued(c, id) /\ id \in DOMAIN pending[c] /\ ~joined[c]
         ~> Holds(events, id) \/ SessionEnded \/ id \notin DOMAIN pending[c] \/ Interrupted(c)

\* Faulty in the code: the same without the exceptions.
QueueSurvives ==
  \A c \in Dealer, n \in 1..MaxEvents :
    LET id == [by |-> c, n |-> n, kind |-> "play"]
    IN Queued(c, id) ~> Holds(events, id) \/ SessionEnded
=============================================================================
