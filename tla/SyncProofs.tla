------------------------------ MODULE SyncProofs ------------------------------
(***************************************************************************)
(* Proofs about the table of the sync service, for any clients, any number  *)
(* of events, restarts and crashes, and any messages: what it promises of    *)
(* its log, and that its rows are the log EventLog promises; and about the   *)
(* clients that keep a copy of it: the same promises, what a display shows,  *)
(* however often it loses its connection or is loaded again, and that the    *)
(* only writer of a table shows the log when nothing is on its way.          *)
(***************************************************************************)
EXTENDS SyncedStore, DataLemmas, TLAPS

\* TABLE_CREATED has the client id of no client.
LEMMA CreatedIsNoId == Created \notin Id
BY ClientAssumption DEF Created, Id

\* The parts of an entry.
LEMMA EntryParts == \A e \in Entry : e.seq \in Nat /\ e.id \in Id \cup {Created}
BY DEF Entry

\* Sequences, one element longer.
LEMMA AppendParts ==
  ASSUME NEW S, NEW s \in Seq(S), NEW e \in S
  PROVE  /\ Len(s) \in Nat /\ DOMAIN s = 1..Len(s)
         /\ Append(s, e) \in Seq(S) /\ Append(s, e) # <<>> /\ Len(Append(s, e)) = Len(s) + 1
         /\ DOMAIN Append(s, e) = 1..(Len(s) + 1)
         /\ Append(s, e)[Len(s) + 1] = e
         /\ \A i \in 1..Len(s) : Append(s, e)[i] = s[i] /\ s[i] \in S
OBVIOUS

\* The last entry of a log that is not empty, and its seq.
LEMMA LastParts ==
  ASSUME NEW s \in Seq(Entry), s # <<>>
  PROVE  /\ Len(s) \in DOMAIN s /\ LastSeq(s) = s[Len(s)].seq /\ LastSeq(s) \in Nat
<1>1. Len(s) \in DOMAIN s /\ s[Len(s)] \in Entry
  OBVIOUS
<1> QED BY <1>1, EntryParts DEF LastSeq

\* No seq of a log is above its last.
LEMMA LastIsHighest ==
  ASSUME NEW s \in Seq(Entry), Increasing(s)
  PROVE  \A i \in DOMAIN s : s[i].seq \in Nat /\ s[i].seq <= LastSeq(s)
<1> SUFFICES ASSUME NEW i \in DOMAIN s
             PROVE  s[i].seq \in Nat /\ s[i].seq <= LastSeq(s)
  OBVIOUS
<1>1. DOMAIN s = 1..Len(s) /\ Len(s) \in Nat /\ s # <<>> /\ s[i] \in Entry
  OBVIOUS
<1>2. s[i].seq \in Nat
  BY <1>1, EntryParts
<1>3. Len(s) \in DOMAIN s /\ LastSeq(s) = s[Len(s)].seq /\ LastSeq(s) \in Nat
  BY <1>1, LastParts
<1>4. i < Len(s) => s[i].seq < s[Len(s)].seq
  BY <1>3 DEF Increasing
<1> QED BY <1>1, <1>2, <1>3, <1>4

\* An entry that follows a log's last seq keeps the seqs increasing.
LEMMA AppendIncreases ==
  ASSUME NEW s \in Seq(Entry), NEW e \in Entry, Increasing(s), LastSeq(s) < e.seq
  PROVE  Increasing(Append(s, e))
<1> DEFINE t == Append(s, e)
<1>1. /\ Len(s) \in Nat /\ DOMAIN s = 1..Len(s) /\ DOMAIN t = 1..(Len(s) + 1)
      /\ t[Len(s) + 1] = e /\ \A i \in 1..Len(s) : t[i] = s[i]
  BY AppendParts
<1>2. e.seq \in Nat /\ LastSeq(s) \in Nat
  <2>1. s = <<>> => LastSeq(s) = 0
    BY DEF LastSeq
  <2> QED BY <2>1, LastParts, EntryParts
<1>3. \A i \in 1..Len(s) : s[i].seq < e.seq
  BY <1>1, <1>2, LastIsHighest
<1> SUFFICES ASSUME NEW i \in DOMAIN t, NEW j \in DOMAIN t, i < j
             PROVE  t[i].seq < t[j].seq
  BY DEF Increasing
<1> HIDE DEF t
<1>4. i \in 1..Len(s)
  BY <1>1
<1>5. CASE j \in 1..Len(s)
  BY <1>1, <1>4, <1>5 DEF Increasing
<1>6. CASE j = Len(s) + 1
  BY <1>1, <1>3, <1>4, <1>6
<1> QED BY <1>1, <1>5, <1>6

-----------------------------------------------------------------------------
(* The inductive invariant.  The properties say what the log holds now; a      *)
(* restart replaces it by its rows, so the rows must be known too: they are     *)
(* the events of the log that are not ephemeral, neither more nor fewer.        *)

Shapes ==
  /\ events \in Seq(Entry) /\ events # <<>>
  /\ stored \in Seq(Entry) /\ stored # <<>>
  /\ room \subseteq Client /\ acked \subseteq Id /\ restarts \in Nat

RowsAreEvents ==
  /\ \A i \in DOMAIN stored : \E j \in DOMAIN events : events[j] = stored[i]
  /\ \A j \in DOMAIN events :
       events[j].id.kind # "live" => \E i \in DOMAIN stored : stored[i] = events[j]
  /\ LastSeq(stored) <= LastSeq(events)

IdsAnswered ==
  /\ DOMAIN clientIds \subseteq Id \cup {Created}
  /\ \A id \in DOMAIN clientIds :
       \E i \in DOMAIN events : events[i] = [seq |-> clientIds[id], id |-> id]

LogInv ==
  /\ Shapes
  /\ SeqsIncrease
  /\ RowsAreEvents
  /\ IdsAnswered
  /\ AckedKept
  /\ NothingAfterEnd

\* The first process starts in a state of the invariant.
LEMMA InitLog == ServerInit => LogInv
<1> SUFFICES ASSUME ServerInit PROVE LogInv
  OBVIOUS
<1> DEFINE e == [seq |-> 1, id |-> Created]
<1>1. e \in Entry /\ Created.kind = "play"
  BY DEF Entry, Created
<1>2. events = <<e>> /\ stored = <<e>> /\ DOMAIN events = {1} /\ DOMAIN stored = {1}
  BY DEF ServerInit
<1>3. Shapes
  BY <1>1, <1>2 DEF ServerInit, Shapes
<1>4. SeqsIncrease
  BY <1>2 DEF SeqsIncrease, Increasing
<1>5. RowsAreEvents
  BY <1>2 DEF RowsAreEvents, LastSeq
<1>6. IdsAnswered
  BY <1>2 DEF ServerInit, IdsAnswered
<1>7. AckedKept /\ NothingAfterEnd
  BY <1>1, <1>2 DEF ServerInit, AckedKept, NothingAfterEnd
<1> QED BY <1>3, <1>4, <1>5, <1>6, <1>7 DEF LogInv

\* What the log, its rows and the acknowledgements consist of; a step that leaves
\* them and only moves messages and sockets keeps the invariant.
LEMMA QuietSteps ==
  ASSUME LogInv, UNCHANGED <<memory, stored, acked, restarts>>, room' \subseteq Client
  PROVE  LogInv'
BY DEF LogInv, Shapes, SeqsIncrease, RowsAreEvents, IdsAnswered, AckedKept, NothingAfterEnd,
       Increasing, Holds, LastSeq, memory

\* A new event at the end of the log.
LEMMA AppendFacts ==
  ASSUME LogInv, NEW id \in Id, ~SessionEnded
  PROVE  /\ EventFor(id) \in Entry /\ EventFor(id).seq = LastSeq(events) + 1
         /\ LastSeq(stored) < EventFor(id).seq
         /\ \A i \in DOMAIN stored : stored[i].id.kind # "end"
         /\ \A i \in DOMAIN stored : stored[i].seq < EventFor(id).seq
<1> DEFINE e == EventFor(id)
<1>1. events \in Seq(Entry) /\ stored \in Seq(Entry) /\ events # <<>> /\ stored # <<>>
  BY DEF LogInv, Shapes
<1>2. LastSeq(events) \in Nat /\ LastSeq(stored) \in Nat
  BY <1>1, LastParts
<1>3. e \in Entry /\ e.seq = LastSeq(events) + 1
  BY <1>2 DEF EventFor, NextSeq, Entry
<1>4. LastSeq(stored) < e.seq
  BY <1>2, <1>3 DEF LogInv, RowsAreEvents
<1>5. \A i \in DOMAIN stored : stored[i].id.kind # "end"
  BY DEF LogInv, RowsAreEvents, SessionEnded
<1>6. \A i \in DOMAIN stored : stored[i].seq < e.seq
  <2>1. \A i \in DOMAIN stored : stored[i].seq \in Nat /\ stored[i].seq <= LastSeq(stored)
    BY <1>1, LastIsHighest DEF LogInv, SeqsIncrease
  <2> QED BY <1>2, <1>3, <1>4, <2>1
<1> QED BY <1>3, <1>4, <1>5, <1>6

\* The shapes and the seqs of a log that grows by an entry above its last.
LEMMA GrownLog ==
  ASSUME NEW s \in Seq(Entry), Increasing(s), NEW e \in Entry, LastSeq(s) < e.seq,
         \A i \in DOMAIN s : s[i].id.kind # "end"
  PROVE  /\ Append(s, e) \in Seq(Entry) /\ Append(s, e) # <<>>
         /\ Increasing(Append(s, e)) /\ LastSeq(Append(s, e)) = e.seq
         /\ \A i \in DOMAIN Append(s, e) :
              Append(s, e)[i].id.kind = "end" => i = Len(Append(s, e))
<1>1. /\ Len(s) \in Nat /\ DOMAIN s = 1..Len(s)
      /\ Append(s, e) \in Seq(Entry) /\ Append(s, e) # <<>> /\ Len(Append(s, e)) = Len(s) + 1
      /\ DOMAIN Append(s, e) = 1..(Len(s) + 1)
      /\ Append(s, e)[Len(s) + 1] = e
      /\ \A i \in 1..Len(s) : Append(s, e)[i] = s[i]
  BY AppendParts
<1>2. Increasing(Append(s, e))
  BY AppendIncreases
<1> DEFINE t == Append(s, e)
<1> HIDE DEF t
<1>3. LastSeq(t) = e.seq
  BY <1>1 DEF LastSeq, t
<1> QED BY <1>1, <1>2, <1>3 DEF t

\* What a handler appends to the log and to the rows of one event.
LEMMA HandlerKeeps ==
  ASSUME LogInv, NEW id \in Id, ~SessionEnded, IsNew(id),
         AppendEvent(id), PersistEvent(id), acked' = acked \cup {id}, UNCHANGED <<room, restarts>>
  PROVE  LogInv'
<1> DEFINE e == EventFor(id)
<1>1. events \in Seq(Entry) /\ stored \in Seq(Entry) /\ Increasing(events) /\ Increasing(stored)
  BY DEF LogInv, Shapes, SeqsIncrease
<1>2. e \in Entry /\ LastSeq(events) < e.seq /\ LastSeq(stored) < e.seq /\ e.id = id /\ e.seq = NextSeq
      /\ LastSeq(events) \in Nat
  BY <1>1, AppendFacts, LastParts DEF LogInv, Shapes, EventFor
<1>3. \A i \in DOMAIN events : events[i].id.kind # "end"
  BY DEF SessionEnded
<1>4. \A i \in DOMAIN stored : stored[i].id.kind # "end"
  BY AppendFacts
<1>5. events' = Append(events, e)
  BY DEF AppendEvent
<1>6. stored' = IF id.kind = "live" THEN stored ELSE Append(stored, e)
  BY DEF PersistEvent
<1> HIDE DEF e
<1>7. /\ DOMAIN events = 1..Len(events) /\ Len(events) \in Nat
      /\ DOMAIN events' = 1..(Len(events) + 1) /\ events'[Len(events) + 1] = e
      /\ \A i \in DOMAIN events : i \in DOMAIN events' /\ events'[i] = events[i]
  BY <1>1, <1>2, <1>5, AppendParts
<1>8. id.kind # "live" =>
        /\ DOMAIN stored = 1..Len(stored) /\ Len(stored) \in Nat
        /\ DOMAIN stored' = 1..(Len(stored) + 1) /\ stored'[Len(stored) + 1] = e
        /\ \A i \in DOMAIN stored : i \in DOMAIN stored' /\ stored'[i] = stored[i]
  BY <1>1, <1>2, <1>6, AppendParts
<1>9. /\ events' \in Seq(Entry) /\ events' # <<>> /\ Increasing(events)' /\ LastSeq(events') = e.seq
      /\ NothingAfterEnd'
  <2>1. /\ Append(events, e) \in Seq(Entry) /\ Append(events, e) # <<>>
        /\ Increasing(Append(events, e)) /\ LastSeq(Append(events, e)) = e.seq
        /\ \A i \in DOMAIN Append(events, e) :
             Append(events, e)[i].id.kind = "end" => i = Len(Append(events, e))
    BY <1>1, <1>2, <1>3, GrownLog
  <2> QED BY <1>5, <2>1 DEF NothingAfterEnd, Increasing
<1>10. /\ stored' \in Seq(Entry) /\ stored' # <<>> /\ Increasing(stored)'
       /\ LastSeq(stored') <= LastSeq(events')
  <2>1. CASE id.kind = "live"
    BY <1>1, <1>2, <1>6, <1>9, <2>1, LastParts, EntryParts DEF LogInv, Shapes, Increasing
  <2>2. CASE id.kind # "live"
    <3>1. /\ Append(stored, e) \in Seq(Entry) /\ Append(stored, e) # <<>>
          /\ Increasing(Append(stored, e)) /\ LastSeq(Append(stored, e)) = e.seq
      BY <1>1, <1>2, <1>4, GrownLog
    <3>2. e.seq \in Nat
      BY <1>2, EntryParts
    <3> QED BY <1>6, <1>9, <2>2, <3>1, <3>2 DEF Increasing
  <2> QED BY <2>1, <2>2
<1>11. Shapes'
  BY <1>9, <1>10 DEF LogInv, Shapes
<1>12. RowsAreEvents'
  <2>1. \A i \in DOMAIN stored' : \E j \in DOMAIN events' : events'[j] = stored'[i]
    BY <1>6, <1>7, <1>8 DEF LogInv, RowsAreEvents
  <2>2. \A j \in DOMAIN events' :
          events'[j].id.kind # "live" => \E i \in DOMAIN stored' : stored'[i] = events'[j]
    <3> SUFFICES ASSUME NEW j \in DOMAIN events', events'[j].id.kind # "live"
                 PROVE  \E i \in DOMAIN stored' : stored'[i] = events'[j]
      OBVIOUS
    <3>1. CASE j \in DOMAIN events
      <4>1. PICK i \in DOMAIN stored : stored[i] = events[j]
        BY <1>7, <3>1 DEF LogInv, RowsAreEvents
      <4> QED BY <1>6, <1>7, <1>8, <3>1, <4>1
    <3>2. CASE j = Len(events) + 1
      BY <1>2, <1>7, <1>8, <3>2
    <3> QED BY <1>7, <3>1, <3>2
  <2> QED BY <1>10, <2>1, <2>2 DEF RowsAreEvents
<1>13. IdsAnswered'
  <2>1. /\ DOMAIN clientIds' = DOMAIN clientIds \cup {id} /\ clientIds'[id] = NextSeq
        /\ \A x \in DOMAIN clientIds : x # id => clientIds'[x] = clientIds[x]
    BY DEF AppendEvent
  <2>2. e = [seq |-> NextSeq, id |-> id]
    BY DEF e, EventFor
  <2>3. \A x \in DOMAIN clientIds :
          x # id /\ \E i \in DOMAIN events' : events'[i] = [seq |-> clientIds'[x], id |-> x]
    BY <1>7, <2>1 DEF LogInv, IdsAnswered, IsNew
  <2>4. \E i \in DOMAIN events' : events'[i] = [seq |-> clientIds'[id], id |-> id]
    BY <1>7, <2>1, <2>2
  <2> QED BY <2>1, <2>3, <2>4 DEF LogInv, IdsAnswered
<1>14. AckedKept'
  <2>1. \A x : Holds(events, x) => Holds(events', x)
    BY <1>7 DEF Holds
  <2>2. Holds(events', id)
    BY <1>2, <1>7 DEF Holds
  <2> QED BY <2>1, <2>2 DEF LogInv, AckedKept, Holds
<1> QED BY <1>9, <1>10, <1>11, <1>12, <1>13, <1>14 DEF LogInv, SeqsIncrease

\* Among the rows, too, nothing follows the end of the session.
LEMMA EndIsLastRow ==
  ASSUME LogInv
  PROVE  \A i \in DOMAIN stored : stored[i].id.kind = "end" => i = Len(stored)
<1> SUFFICES ASSUME NEW i \in DOMAIN stored, stored[i].id.kind = "end"
             PROVE  i = Len(stored)
  OBVIOUS
<1>1. /\ events \in Seq(Entry) /\ stored \in Seq(Entry) /\ events # <<>> /\ stored # <<>>
      /\ Increasing(stored)
  BY DEF LogInv, Shapes, SeqsIncrease
<1>2. PICK j \in DOMAIN events : events[j] = stored[i]
  BY DEF LogInv, RowsAreEvents
<1>3. stored[i].seq = LastSeq(events)
  <2>1. j = Len(events)
    BY <1>2 DEF LogInv, NothingAfterEnd
  <2> QED BY <1>1, <1>2, <2>1, LastParts
<1>4. LastSeq(stored) <= LastSeq(events) /\ LastSeq(events) \in Nat
  BY <1>1, LastParts DEF LogInv, RowsAreEvents
<1>5. /\ Len(stored) \in DOMAIN stored /\ LastSeq(stored) = stored[Len(stored)].seq
      /\ LastSeq(stored) \in Nat /\ DOMAIN stored = 1..Len(stored) /\ Len(stored) \in Nat
  BY <1>1, LastParts
<1>6. i < Len(stored) => stored[i].seq < LastSeq(stored)
  BY <1>1, <1>5 DEF Increasing
<1> QED BY <1>3, <1>4, <1>5, <1>6

\* A new process holds the rows of the last one, whatever was lost with it.
LEMMA RestartKeeps ==
  ASSUME LogInv, LoseProcess, events' = stored', stored' \in Seq(Entry), stored' # <<>>,
         Increasing(stored)', \A i \in DOMAIN stored : stored[i] = stored'[i] /\ i \in DOMAIN stored',
         \A i \in DOMAIN stored' : stored'[i].id.kind = "end" => i = Len(stored')
  PROVE  LogInv'
<1>1. Shapes'
  BY DEF LogInv, Shapes, LoseProcess
<1>2. SeqsIncrease' /\ NothingAfterEnd'
  BY DEF SeqsIncrease, NothingAfterEnd, Increasing
<1>3. RowsAreEvents'
  <2>1. LastSeq(stored') \in Nat
    BY LastParts
  <2> QED BY <2>1 DEF RowsAreEvents
<1>4. IdsAnswered'
  BY DEF IdsAnswered, LoseProcess
<1>5. AckedKept'
  <2> SUFFICES ASSUME NEW id \in acked, id.kind # "live"
               PROVE  \E i \in DOMAIN stored' : stored'[i].id = id
    BY DEF AckedKept, Holds, LoseProcess
  <2>1. PICK j \in DOMAIN events : events[j].id = id
    BY DEF LogInv, AckedKept, Holds
  <2>2. PICK i \in DOMAIN stored : stored[i] = events[j]
    BY <2>1 DEF LogInv, RowsAreEvents
  <2> QED BY <2>1, <2>2
<1> QED BY <1>1, <1>2, <1>3, <1>4, <1>5 DEF LogInv

\* Every step of the process, of a client and of the network keeps the invariant.
LEMMA NextLog == LogInv /\ [ServerNext]_serverVars => LogInv'
<1> SUFFICES ASSUME LogInv, [ServerNext]_serverVars PROVE LogInv'
  OBVIOUS
<1>0. room \subseteq Client
  BY DEF LogInv, Shapes
<1>1. ASSUME NEW c \in Client, HandleJoin(c) PROVE LogInv'
  <2>1. room' \subseteq Client
    BY <1>0, <1>1 DEF HandleJoin
  <2> QED BY <1>1, <2>1, QuietSteps DEF HandleJoin
<1>2. ASSUME NEW c \in Client, HandleResync(c) PROVE LogInv'
  BY <1>0, <1>2, QuietSteps DEF HandleResync
<1>3. ASSUME NEW c \in Client, HandleEventRefused(c) PROVE LogInv'
  BY <1>0, <1>3, QuietSteps DEF HandleEventRefused
<1>4. ASSUME NEW c \in Client, HandleEventDuplicate(c) PROVE LogInv'
  <2>1. PICK id \in Id : ~IsNew(id) /\ acked' = acked \cup {id} /\ UNCHANGED <<memory, stored, room, restarts>>
    BY <1>4 DEF HandleEventDuplicate
  <2>2. Holds(events, id)
    BY <2>1 DEF LogInv, IdsAnswered, IsNew, Holds
  <2>3. AckedKept'
    BY <2>1, <2>2 DEF LogInv, AckedKept, Holds, memory
  <2>4. Shapes'
    BY <2>1 DEF LogInv, Shapes, memory
  <2>5. SeqsIncrease' /\ RowsAreEvents' /\ IdsAnswered' /\ NothingAfterEnd'
    BY <2>1 DEF LogInv, SeqsIncrease, RowsAreEvents, IdsAnswered, NothingAfterEnd, Increasing, LastSeq, memory
  <2> QED BY <2>3, <2>4, <2>5 DEF LogInv
<1>5. ASSUME NEW c \in Client, HandleEventNew(c) PROVE LogInv'
  <2>1. PICK id \in Id : /\ ~SessionEnded /\ IsNew(id) /\ AppendEvent(id) /\ PersistEvent(id)
                         /\ acked' = acked \cup {id} /\ UNCHANGED <<room, restarts>>
    BY <1>5 DEF HandleEventNew, Accepts
  <2> QED BY <2>1, HandlerKeeps
<1>6. ASSUME NEW c \in Client, CrashAfterSave(c) PROVE LogInv'
  <2>1. PICK id \in Id : ~SessionEnded /\ PersistEvent(id) /\ LoseProcess /\ events' = stored'
    BY <1>6 DEF CrashAfterSave, Accepts
  <2>2. stored \in Seq(Entry) /\ stored # <<>> /\ Increasing(stored)
    BY DEF LogInv, Shapes, SeqsIncrease
  <2>3. CASE id.kind = "live"
    <3>1. stored' = stored
      BY <2>1, <2>3 DEF PersistEvent
    <3>2. \A i \in DOMAIN stored : stored[i].id.kind # "end"
      BY <2>1, AppendFacts
    <3> QED BY <2>1, <2>2, <3>1, <3>2, RestartKeeps DEF Increasing
  <2>4. CASE id.kind # "live"
    <3> DEFINE e == EventFor(id)
    <3>1. /\ e \in Entry /\ LastSeq(stored) < e.seq
          /\ \A i \in DOMAIN stored : stored[i].id.kind # "end"
      BY <2>1, AppendFacts
    <3>2. stored' = Append(stored, e)
      BY <2>1, <2>4 DEF PersistEvent
    <3> HIDE DEF e
    <3>3. /\ stored' \in Seq(Entry) /\ stored' # <<>> /\ Increasing(stored')
          /\ \A i \in DOMAIN stored' : stored'[i].id.kind = "end" => i = Len(stored')
      BY <2>2, <3>1, <3>2, GrownLog
    <3>4. \A i \in DOMAIN stored : stored[i] = stored'[i] /\ i \in DOMAIN stored'
      BY <2>2, <3>1, <3>2, AppendParts
    <3> QED BY <2>1, <3>3, <3>4, RestartKeeps DEF Increasing
  <2> QED BY <2>3, <2>4
<1>7. ASSUME NEW c \in Client, Disconnect(c) PROVE LogInv'
  BY <1>0, <1>7, QuietSteps DEF Disconnect
<1>8. ASSUME Restart PROVE LogInv'
  <2>1. LoseProcess /\ events' = stored /\ stored' = stored
    BY <1>8 DEF Restart
  <2>2. stored \in Seq(Entry) /\ stored # <<>> /\ Increasing(stored)
    BY DEF LogInv, Shapes, SeqsIncrease
  <2>3. \A i \in DOMAIN stored : stored[i].id.kind = "end" => i = Len(stored)
    BY EndIsLastRow
  <2> QED BY <2>1, <2>2, <2>3, RestartKeeps DEF Increasing
<1>9. ASSUME Environment PROVE LogInv'
  BY <1>0, <1>9, QuietSteps DEF Environment, ServerState, memory
<1>10. ASSUME UNCHANGED serverVars PROVE LogInv'
  BY <1>0, <1>10, QuietSteps DEF serverVars, memory
<1> QED BY <1>1, <1>2, <1>3, <1>4, <1>5, <1>6, <1>7, <1>8, <1>9, <1>10
       DEF ServerNext, ServerStep, ServerHandles

\* In every reachable state the log, its rows, the client ids and the
\* acknowledgements agree as LogInv says.
THEOREM LogInvariant == ServerSpec => []LogInv
BY InitLog, NextLog, PTL DEF ServerSpec

\* The log, the rows and the map of client ids keep their shapes, and a client id
\* is answered with the seq of its own event.
THEOREM ServerStaysTyped == ServerSpec => []ServerTypeOK
<1>1. LogInv => ServerTypeOK
  BY DEF LogInv, Shapes, IdsAnswered, ServerTypeOK
<1> QED BY <1>1, LogInvariant, PTL

\* appendEvent numbers the events upwards, and so do the rows, across restarts.
THEOREM SeqsAlwaysIncrease == ServerSpec => []SeqsIncrease
<1>1. LogInv => SeqsIncrease
  BY DEF LogInv
<1> QED BY <1>1, LogInvariant, PTL

\* handleEvent writes the row before it acknowledges: no restart or crash takes an
\* acknowledged event out of the log.
THEOREM AcknowledgedStays == ServerSpec => []AckedKept
<1>1. LogInv => AckedKept
  BY DEF LogInv
<1> QED BY <1>1, LogInvariant, PTL

\* sessionEnded is read from the log, so that no process accepts an event after it.
THEOREM EndIsFinal == ServerSpec => []NothingAfterEnd
<1>1. LogInv => NothingAfterEnd
  BY DEF LogInv
<1> QED BY <1>1, LogInvariant, PTL

-----------------------------------------------------------------------------
(* One client id, one event.  The map that tells a repeated client id from a    *)
(* new one is in memory only: what is proved is for one life of the process.    *)

\* Every event of the log can be recognised, and none is there twice.
Recognised == \A i \in DOMAIN events : events[i].id \in DOMAIN clientIds
OneLife == restarts = 0 => Recognised /\ AtMostOnce

\* A client id that is not in the map is in no event.
LEMMA AppendOnce ==
  ASSUME LogInv, OneLife, NEW id \in Id, IsNew(id), AppendEvent(id), UNCHANGED restarts
  PROVE  OneLife'
<1> SUFFICES ASSUME restarts = 0
             PROVE  Recognised' /\ AtMostOnce'
  BY DEF OneLife
<1>1. Recognised /\ AtMostOnce
  BY DEF OneLife
<1> DEFINE e == EventFor(id)
<1>2. e \in Entry /\ e.id = id
  <2>1. LastSeq(events) \in Nat
    BY LastParts DEF LogInv, Shapes
  <2> QED BY <2>1 DEF EventFor, NextSeq, Entry
<1>3. events' = Append(events, e)
  BY DEF AppendEvent
<1>4. DOMAIN clientIds' = DOMAIN clientIds \cup {id}
  BY DEF AppendEvent
<1> HIDE DEF e
<1>5. /\ DOMAIN events = 1..Len(events) /\ Len(events) \in Nat
      /\ DOMAIN events' = 1..(Len(events) + 1) /\ events'[Len(events) + 1] = e
      /\ \A i \in DOMAIN events : events'[i] = events[i]
  BY <1>2, <1>3, AppendParts DEF LogInv, Shapes
<1>6. \A i \in DOMAIN events : events[i].id # id
  BY <1>1 DEF Recognised, IsNew
<1>7. Recognised'
  <2> SUFFICES ASSUME NEW i \in DOMAIN events'
               PROVE  events'[i].id \in DOMAIN clientIds'
    BY DEF Recognised
  <2>1. CASE i \in DOMAIN events
    BY <1>1, <1>4, <1>5, <2>1 DEF Recognised
  <2>2. CASE i = Len(events) + 1
    BY <1>2, <1>4, <1>5, <2>2
  <2> QED BY <1>5, <2>1, <2>2
<1>8. AtMostOnce'
  <2> SUFFICES ASSUME NEW i \in DOMAIN events', NEW j \in DOMAIN events', events'[i].id = events'[j].id
               PROVE  i = j
    BY DEF AtMostOnce
  <2>1. CASE i \in DOMAIN events /\ j \in DOMAIN events
    BY <1>1, <1>5, <2>1 DEF AtMostOnce
  <2>2. CASE i \in DOMAIN events /\ j = Len(events) + 1
    BY <1>2, <1>5, <1>6, <2>2
  <2>3. CASE i = Len(events) + 1 /\ j \in DOMAIN events
    BY <1>2, <1>5, <1>6, <2>3
  <2> QED BY <1>5, <2>1, <2>2, <2>3
<1> QED BY <1>7, <1>8

\* Every step of one life keeps it, and a restart ends the life.
LEMMA NextOnce == LogInv /\ OneLife /\ [ServerNext]_serverVars => OneLife'
<1> SUFFICES ASSUME LogInv, OneLife, [ServerNext]_serverVars
             PROVE  OneLife'
  OBVIOUS
<1>1. CASE UNCHANGED <<memory, restarts>>
  BY <1>1 DEF OneLife, Recognised, AtMostOnce, memory
<1>2. CASE LoseProcess
  <2>1. restarts' # 0
    BY <1>2 DEF LoseProcess, LogInv, Shapes
  <2> QED BY <2>1 DEF OneLife
<1>3. ASSUME NEW c \in Client, ServerHandles(c)
      PROVE  OneLife'
  <2>1. CASE HandleEventNew(c)
    <3>1. PICK id \in Id : IsNew(id) /\ AppendEvent(id) /\ UNCHANGED restarts
      BY <2>1 DEF HandleEventNew
    <3> QED BY <3>1, AppendOnce
  <2> QED BY <1>1, <1>3, <2>1 DEF ServerHandles, HandleJoin, HandleResync, HandleEventRefused, HandleEventDuplicate
<1>4. ASSUME NEW c \in Client, CrashAfterSave(c) \/ Disconnect(c)
      PROVE  OneLife'
  BY <1>1, <1>2, <1>4 DEF CrashAfterSave, Disconnect
<1>5. CASE Restart \/ Environment \/ UNCHANGED serverVars
  BY <1>1, <1>2, <1>5 DEF Restart, Environment, ServerState, serverVars, memory
<1> QED BY <1>3, <1>4, <1>5 DEF ServerNext, ServerStep

\* handleEvent looks up the client id before it appends: while the process lives, an event
\* that is sent again, by whatever reconnects and resends, is in the log once.
THEOREM OnceInOneLife == ServerSpec => [](restarts = 0 => AtMostOnce)
<1>1. ServerInit => OneLife
  <2> SUFFICES ASSUME ServerInit PROVE OneLife
    OBVIOUS
  <2>1. DOMAIN events = {1} /\ events[1].id = Created /\ DOMAIN clientIds = {Created}
    BY DEF ServerInit
  <2> QED BY <2>1 DEF OneLife, Recognised, AtMostOnce
<1>2. OneLife => (restarts = 0 => AtMostOnce)
  BY DEF OneLife
<1> QED BY <1>1, <1>2, NextOnce, LogInvariant, PTL DEF ServerSpec

-----------------------------------------------------------------------------
(* The rows implement EventLog. *)

\* What a new row means for the abstract log.
LEMMA RowExtends ==
  ASSUME LogInv, NEW id \in Id, ~SessionEnded, id.kind # "live", PersistEvent(id),
         acked' \in {acked, acked \cup {id}}
  PROVE  Log!LogNext
<1> DEFINE e == EventFor(id)
<1>1. /\ e \in Entry /\ e.id = id
      /\ \A i \in DOMAIN stored : stored[i].id.kind # "end"
      /\ \A i \in DOMAIN stored : stored[i].seq < e.seq
  BY AppendFacts DEF EventFor
<1>2. stored' = Append(stored, e) /\ stored \in Seq(Entry)
  BY DEF PersistEvent, LogInv, Shapes
<1> HIDE DEF e
<1>3. Len(stored) \in Nat /\ Len(stored') = Len(stored) + 1 /\ stored'[Len(stored')] = e
  BY <1>1, <1>2, AppendParts
<1>4. Log!Extend(stored'[Len(stored')])
  BY <1>1, <1>2, <1>3 DEF Log!Extend, Log!Ended, EndsSession
<1>5. Len(stored') > Len(stored)
  BY <1>3
<1> QED BY <1>4, <1>5 DEF Log!LogNext

\* Every step appends a row, acknowledges what has one, or leaves both alone.
LEMMA StepImplements == LogInv /\ [ServerNext]_serverVars => [Log!LogNext]_(Log!logVars)
<1> SUFFICES ASSUME LogInv, [ServerNext]_serverVars PROVE [Log!LogNext]_(Log!logVars)
  OBVIOUS
<1>1. ASSUME UNCHANGED <<stored, acked>> PROVE UNCHANGED Log!logVars
  BY <1>1 DEF Log!logVars
<1>2. ASSUME NEW c \in Client, HandleEventDuplicate(c) PROVE [Log!LogNext]_(Log!logVars)
  <2>1. PICK id \in Id : ~IsNew(id) /\ acked' = acked \cup {id} /\ UNCHANGED stored
    BY <1>2 DEF HandleEventDuplicate
  <2>2. CASE id.kind = "live"
    BY <2>1, <2>2 DEF Log!logVars
  <2>3. CASE id.kind # "live"
    <3>1. PICK j \in DOMAIN events : events[j].id = id
      BY <2>1 DEF LogInv, IdsAnswered, IsNew
    <3>2. \E i \in DOMAIN stored : stored[i].id = id
      BY <2>3, <3>1 DEF LogInv, RowsAreEvents
    <3>3. {x \in acked' : x.kind # "live"} = {x \in acked : x.kind # "live"} \cup {id}
      BY <2>1, <2>3
    <3>4. Log!Acknowledge(id)
      BY <2>1, <3>2, <3>3 DEF Log!Acknowledge, Log!InLog
    <3> QED BY <3>4 DEF Log!LogNext
  <2> QED BY <2>2, <2>3
<1>3. ASSUME NEW c \in Client, HandleEventNew(c) PROVE [Log!LogNext]_(Log!logVars)
  <2>1. PICK id \in Id : ~SessionEnded /\ PersistEvent(id) /\ acked' = acked \cup {id}
    BY <1>3 DEF HandleEventNew, Accepts
  <2>2. CASE id.kind = "live"
    BY <2>1, <2>2 DEF Log!logVars, PersistEvent
  <2>3. CASE id.kind # "live"
    BY <2>1, <2>3, RowExtends
  <2> QED BY <2>2, <2>3
<1>4. ASSUME NEW c \in Client, CrashAfterSave(c) PROVE [Log!LogNext]_(Log!logVars)
  <2>1. PICK id \in Id : ~SessionEnded /\ PersistEvent(id) /\ acked' = acked
    BY <1>4 DEF CrashAfterSave, Accepts, LoseProcess
  <2>2. CASE id.kind = "live"
    BY <2>1, <2>2, <1>1 DEF PersistEvent
  <2>3. CASE id.kind # "live"
    BY <2>1, <2>3, RowExtends
  <2> QED BY <2>2, <2>3
<1>5. ASSUME NEW c \in Client,
             HandleJoin(c) \/ HandleResync(c) \/ HandleEventRefused(c) \/ Disconnect(c)
      PROVE  UNCHANGED <<stored, acked>>
  BY <1>5 DEF HandleJoin, HandleResync, HandleEventRefused, Disconnect
<1>6. Restart \/ Environment \/ UNCHANGED serverVars => UNCHANGED <<stored, acked>>
  BY DEF Restart, LoseProcess, Environment, ServerState, serverVars
<1> QED BY <1>1, <1>2, <1>3, <1>4, <1>5, <1>6 DEF ServerNext, ServerStep, ServerHandles

\* The table keeps the promises of the abstract event log: its rows grow at their
\* end only, and an event is acknowledged when it has its row.
THEOREM TableImplementsLog == ServerSpec => ImplementsLog
<1>1. ServerInit => Log!LogInit
  BY DEF ServerInit, Log!LogInit
<1> QED BY <1>1, LogInvariant, StepImplements, PTL DEF ServerSpec, ImplementsLog, Log!LogSpec

-----------------------------------------------------------------------------
(* The synced clients.  Whatever their stores do, the table takes a step of    *)
(* its own or only messages move, so its promises hold among them.             *)

LEMMA StoreStepsAreServerSteps ==
  ASSUME [StoreNext]_storeVars
  PROVE  ServerStep \/ UNCHANGED ServerState
<1>1. ASSUME NEW c \in Client, Drop(c) \/ Reload(c) \/ ServerAnswers(c)
      PROVE  ServerStep
  <2>1. ServerHandles(c) \/ Disconnect(c)
    BY <1>1 DEF Drop, Reload, ServerAnswers
  <2> QED BY <2>1 DEF ServerStep
<1>2. CASE ServerLost
  BY <1>2 DEF ServerLost, ServerStep
<1>3. ASSUME NEW c \in Client, Connect(c) \/ ShowOffline(c) \/ Uses(c) \/ Receives(c) \/ Flushes(c)
      PROVE  UNCHANGED ServerState
  <2>1. CASE Connect(c) \/ ShowOffline(c)
    BY <2>1 DEF Connect, ShowOffline, ServerState, serverVars, memory
  <2>2. CASE Uses(c)
    BY <2>2 DEF Uses, MakeEvent, MakeLive, Emit, ServerState, serverVars, memory
  <2>3. CASE Receives(c)
    BY <2>3 DEF Receives, ReceiveJoined, ReceiveEvent, ReceiveAck, ReceiveReject, ReceiveError, Take, Answering,
                ServerState, memory
  <2>4. CASE Flushes(c)
    BY <2>4 DEF Flushes, FlushNext, FlushAnswered, FlushTimeout, Emit, ServerState, serverVars, memory
  <2> QED BY <1>3, <2>1, <2>2, <2>3, <2>4
<1>4. CASE UNCHANGED storeVars
  BY <1>4 DEF storeVars, serverVars, ServerState, memory
<1> QED BY <1>1, <1>2, <1>3, <1>4 DEF StoreNext

LEMMA StoreKeepsLog == LogInv /\ [StoreNext]_storeVars => LogInv'
<1> SUFFICES ASSUME LogInv, [StoreNext]_storeVars PROVE LogInv'
  OBVIOUS
<1>1. CASE ServerStep
  BY <1>1, NextLog DEF ServerNext
<1>2. CASE UNCHANGED ServerState
  <2>1. room' \subseteq Client
    BY <1>2 DEF ServerState, LogInv, Shapes
  <2> QED BY <1>2, <2>1, QuietSteps DEF ServerState
<1> QED BY <1>1, <1>2, StoreStepsAreServerSteps

LEMMA StoreKeepsOneLife == LogInv /\ OneLife /\ [StoreNext]_storeVars => OneLife'
<1> SUFFICES ASSUME LogInv, OneLife, [StoreNext]_storeVars PROVE OneLife'
  OBVIOUS
<1>1. CASE ServerStep
  BY <1>1, NextOnce DEF ServerNext
<1>2. CASE UNCHANGED ServerState
  BY <1>2 DEF ServerState, OneLife, Recognised, AtMostOnce, memory
<1> QED BY <1>1, <1>2, StoreStepsAreServerSteps

LEMMA StoreImplements == LogInv /\ [StoreNext]_storeVars => [Log!LogNext]_(Log!logVars)
<1> SUFFICES ASSUME LogInv, [StoreNext]_storeVars PROVE [Log!LogNext]_(Log!logVars)
  OBVIOUS
<1>1. CASE ServerStep
  BY <1>1, StepImplements DEF ServerNext
<1>2. CASE UNCHANGED ServerState
  BY <1>2 DEF ServerState, Log!logVars
<1> QED BY <1>1, <1>2, StoreStepsAreServerSteps

LEMMA StoreOpens == StoreInit => ServerInit
BY DEF StoreInit

\* The promises of the table hold among the clients as they are, whatever they queue, send
\* again, lose or load again.
THEOREM PromisesAmongClients ==
  StoreSpec => [](LogInv /\ AckedKept /\ (restarts = 0 => AtMostOnce)) /\ ImplementsLog
<1>1. StoreInit => LogInv /\ OneLife
  <2> SUFFICES ASSUME StoreInit PROVE LogInv /\ OneLife
    OBVIOUS
  <2>1. DOMAIN events = {1} /\ events[1].id = Created /\ DOMAIN clientIds = {Created}
    BY StoreOpens DEF ServerInit
  <2> QED BY <2>1, StoreOpens, InitLog DEF OneLife, Recognised, AtMostOnce
<1>2. StoreInit => Log!LogInit
  BY StoreOpens DEF ServerInit, Log!LogInit
<1>3. LogInv /\ OneLife => AckedKept /\ (restarts = 0 => AtMostOnce)
  BY DEF LogInv, OneLife
<1>4. StoreSpec => []LogInv
  BY <1>1, StoreKeepsLog, PTL DEF StoreSpec
<1>5. StoreSpec => []OneLife
  BY <1>1, <1>4, StoreKeepsOneLife, PTL DEF StoreSpec
<1>6. StoreSpec => ImplementsLog
  BY <1>2, <1>4, StoreImplements, PTL DEF StoreSpec, ImplementsLog, Log!LogSpec
<1> QED BY <1>3, <1>4, <1>5, <1>6, PTL

-----------------------------------------------------------------------------
(* Beginnings of the log.  In one life of the process the seq of an event is   *)
(* its place in the log.                                                       *)

Lasting == {e \in Entry : e.id.kind # "live"}
Numbered(es) == \A i \in DOMAIN es : es[i].seq = i
UpTo(es, n) == SubSeq(es, 1, n)

\* n is the highest seq of l, 0 if it is empty.
Tops(l, n) == (\A i \in DOMAIN l : l[i].seq <= n) /\ (n = 0 \/ \E i \in DOMAIN l : l[i].seq = n)

LEMMA PersistedSteps ==
  /\ Persisted(<<>>) = <<>>
  /\ \A s \in Seq(Entry) :
       /\ Persisted(s) \in Seq(Entry)
       /\ \A e \in Entry : Persisted(Append(s, e)) =
            IF e \in Lasting THEN Append(Persisted(s), e) ELSE Persisted(s)
<1>1. ASSUME NEW s PROVE Persisted(s) = Selection(s, Lasting)
  BY DEF Persisted, Lasting
<1> DEFINE T == Lasting
           Y == Entry
<1>2. \A s : Persisted(s) = Selection(s, T)
  BY <1>1
<1> HIDE DEF T, Y
<1>3. /\ Selection(<<>>, T) = <<>>
      /\ \A s \in Seq(Y) : /\ Selection(s, T) \in Seq(Y)
                           /\ \A e \in Y : Selection(Append(s, e), T) =
                                IF e \in T THEN Append(Selection(s, T), e) ELSE Selection(s, T)
  BY SelectionSteps
<1>4. /\ Persisted(<<>>) = <<>>
      /\ \A s \in Seq(Y) : /\ Persisted(s) \in Seq(Y)
                           /\ \A e \in Y : Persisted(Append(s, e)) =
                                IF e \in T THEN Append(Persisted(s), e) ELSE Persisted(s)
  BY <1>2, <1>3
<1> QED BY <1>4 DEF T, Y

LEMMA TopIsHighest ==
  ASSUME NEW l \in Seq(Entry), NEW n \in Nat, Tops(l, n)
  PROVE  HighestSeq(l) = n
<1> DEFINE S == {l[i].seq : i \in DOMAIN l} \cup {0}
<1>1. \A i \in DOMAIN l : l[i].seq \in Nat
  BY EntryParts
<1>2. S \subseteq Nat /\ \A y \in S : y <= n
  BY <1>1 DEF Tops
<1>3. n \in S
  BY DEF Tops
<1> HIDE DEF S
<1>4. Max(S) \in S /\ \A y \in S : y <= Max(S)
  BY <1>2, <1>3, MaxOfBounded
<1>5. Max(S) = n
  <2> DEFINE m == Max(S)
  <2>1. m \in S /\ n <= m
    BY <1>3, <1>4
  <2> HIDE DEF m
  <2>2. m \in Nat /\ m <= n
    BY <1>2, <2>1
  <2>3. m = n
    BY <2>1, <2>2
  <2> QED BY <2>3 DEF m
<1> QED BY <1>5 DEF S, HighestSeq

LEMMA UpToSteps ==
  ASSUME NEW es \in Seq(Entry)
  PROVE  /\ UpTo(es, 0) = <<>> /\ UpTo(es, Len(es)) = es
         /\ \A n \in 0..Len(es) : UpTo(es, n) \in Seq(Entry)
         /\ \A n \in 0..(Len(es) - 1) : /\ n + 1 \in 1..Len(es) /\ es[n + 1] \in Entry
                                        /\ UpTo(es, n + 1) = Append(UpTo(es, n), es[n + 1])
         /\ \A e \in Entry : \A n \in 0..Len(es) : UpTo(Append(es, e), n) = UpTo(es, n)
<1>1. UpTo(es, 0) = <<>> /\ UpTo(es, Len(es)) = es
  BY DEF UpTo
<1>2. \A n \in 0..Len(es) : UpTo(es, n) \in Seq(Entry)
  BY DEF UpTo
<1>3. ASSUME NEW n \in 0..(Len(es) - 1)
      PROVE  /\ n + 1 \in 1..Len(es) /\ es[n + 1] \in Entry
             /\ UpTo(es, n + 1) = Append(UpTo(es, n), es[n + 1])
  BY DEF UpTo
<1>4. ASSUME NEW e \in Entry, NEW n \in 0..Len(es)
      PROVE  UpTo(Append(es, e), n) = UpTo(es, n)
  BY DEF UpTo
<1> QED BY <1>1, <1>2, <1>3, <1>4

\* What is persisted of the persisted is all of it.
LEMMA PersistedTwice == \A s \in Seq(Entry) : Persisted(Persisted(s)) = Persisted(s)
<1> DEFINE Q == {s \in Seq(Entry) : Persisted(Persisted(s)) = Persisted(s)}
<1>1. <<>> \in Q
  BY PersistedSteps
<1>2. ASSUME NEW s \in Seq(Entry), NEW e \in Entry, s \in Q
      PROVE  Append(s, e) \in Q
  <2>1. Append(s, e) \in Seq(Entry) /\ Persisted(s) \in Seq(Entry)
    BY PersistedSteps
  <2>2. CASE e \in Lasting
    BY <1>2, <2>1, <2>2, PersistedSteps
  <2>3. CASE e \notin Lasting
    BY <1>2, <2>1, <2>3, PersistedSteps
  <2> QED BY <2>2, <2>3
<1> HIDE DEF Q
<1>3. Seq(Entry) \subseteq Q
  BY <1>1, <1>2, SequencesBySteps
<1> QED BY <1>3 DEF Q

\* The highest seq among the lasting events up to n is a beginning with the same lasting events.
LEMMA SavedTop ==
  ASSUME NEW es \in Seq(Entry), Numbered(es)
  PROVE  \A n \in 0..Len(es) : \E h \in 0..n :
           Persisted(UpTo(es, h)) = Persisted(UpTo(es, n)) /\ Tops(Persisted(UpTo(es, n)), h)
<1> DEFINE Good(n) == \E h \in 0..n : /\ Persisted(UpTo(es, h)) = Persisted(UpTo(es, n))
                                      /\ Tops(Persisted(UpTo(es, n)), h)
           T == {n \in Nat : n <= Len(es) => Good(n)}
<1>1. 0 \in T
  <2>1. UpTo(es, 0) = <<>> /\ Persisted(<<>>) = <<>>
    BY UpToSteps, PersistedSteps
  <2>2. Tops(<<>>, 0)
    BY DEF Tops
  <2>3. Good(0)
    BY <2>1, <2>2
  <2> QED BY <2>3
<1>2. ASSUME NEW n \in Nat, n \in T PROVE n + 1 \in T
  <2> SUFFICES ASSUME n + 1 <= Len(es) PROVE Good(n + 1)
    OBVIOUS
  <2> DEFINE a == UpTo(es, n)
             b == UpTo(es, n + 1)
             e == es[n + 1]
  <2>1. n \in 0..(Len(es) - 1) /\ n \in 0..Len(es)
    OBVIOUS
  <2>2. a \in Seq(Entry) /\ e \in Entry /\ b = Append(a, e)
    BY <2>1, UpToSteps
  <2>3. e.seq = n + 1
    BY <2>1 DEF Numbered
  <2>4. PICK h \in 0..n : Persisted(UpTo(es, h)) = Persisted(a) /\ Tops(Persisted(a), h)
    BY <1>2
  <2> HIDE DEF a, e
  <2>5. Persisted(b) = IF e \in Lasting THEN Append(Persisted(a), e) ELSE Persisted(a)
    <3> HIDE DEF b
    <3> QED BY <2>2, PersistedSteps
  <2>6. CASE e \notin Lasting
    <3>1. h \in 0..(n + 1) /\ Persisted(UpTo(es, h)) = Persisted(b) /\ Tops(Persisted(b), h)
      BY <2>4, <2>5, <2>6
    <3> QED BY <3>1
  <2>7. CASE e \in Lasting
    <3> DEFINE q == Persisted(a)
               r == Append(q, e)
    <3>1. q \in Seq(Entry)
      BY <2>2, PersistedSteps
    <3> HIDE DEF q
    <3>2. DOMAIN r = 1..(Len(q) + 1) /\ r[Len(q) + 1] = e /\ \A i \in 1..Len(q) : r[i] = q[i]
      BY <2>2, <3>1
    <3>3. \A i \in 1..Len(q) : q[i].seq <= h /\ q[i].seq \in Nat
      BY <2>4, <3>1, EntryParts DEF Tops, q
    <3> HIDE DEF r
    <3>4. Tops(r, n + 1)
      <4>1. Len(q) \in Nat
        BY <3>1
      <4>2. ASSUME NEW i \in DOMAIN r PROVE r[i].seq <= n + 1
        <5>1. i \in 1..Len(q) \/ i = Len(q) + 1
          BY <3>2, <4>1
        <5> QED BY <2>3, <3>2, <3>3, <5>1
      <4>3. Len(q) + 1 \in DOMAIN r /\ r[Len(q) + 1].seq = n + 1
        BY <2>3, <3>2, <4>1
      <4> QED BY <4>2, <4>3 DEF Tops
    <3>5. n + 1 \in 0..(n + 1) /\ Persisted(b) = r
      BY <2>5, <2>7 DEF r, q
    <3> QED BY <3>4, <3>5
  <2> QED BY <2>6, <2>7
<1> HIDE DEF T
<1>3. Nat \subseteq T
  BY <1>1, <1>2, NaturalsBySteps
<1> QED BY <1>3 DEF T

\* The lasting events of a beginning are a beginning of the lasting events.
LEMMA PersistedPrefix ==
  ASSUME NEW es \in Seq(Entry), NEW n \in 0..Len(es)
  PROVE  IsPrefix(Persisted(UpTo(es, n)), Persisted(es))
<1> DEFINE p == Persisted(UpTo(es, n))
           Starts(q) == q \in Seq(Entry) /\ Len(p) <= Len(q) /\ \A i \in 1..Len(p) : q[i] = p[i]
           T == {k \in Nat : n + k <= Len(es) => Starts(Persisted(UpTo(es, n + k)))}
<1>1. p \in Seq(Entry)
  BY UpToSteps, PersistedSteps
<1>2. 0 \in T
  BY <1>1
<1>3. ASSUME NEW k \in Nat, k \in T PROVE k + 1 \in T
  <2> SUFFICES ASSUME n + (k + 1) <= Len(es) PROVE Starts(Persisted(UpTo(es, n + (k + 1))))
    OBVIOUS
  <2> DEFINE m == n + k
             a == UpTo(es, m)
             e == es[m + 1]
  <2>1. m \in 0..(Len(es) - 1) /\ m \in 0..Len(es) /\ n + (k + 1) = m + 1 /\ n + k <= Len(es)
    OBVIOUS
  <2>2. Starts(Persisted(a))
    BY <1>3, <2>1
  <2> HIDE DEF m
  <2>3. a \in Seq(Entry) /\ e \in Entry /\ UpTo(es, m + 1) = Append(a, e)
    BY <2>1, UpToSteps
  <2> HIDE DEF a, e
  <2>4. Persisted(Append(a, e)) = IF e \in Lasting THEN Append(Persisted(a), e) ELSE Persisted(a)
    BY <2>3, PersistedSteps
  <2> DEFINE q == Persisted(a)
  <2> HIDE DEF p, q
  <2>5. Starts(Append(q, e))
    BY <1>1, <2>2, <2>3 DEF q
  <2>6. Starts(Persisted(Append(a, e)))
    BY <2>2, <2>4, <2>5 DEF q
  <2> QED BY <2>1, <2>3, <2>6
<1> HIDE DEF T
<1>4. Nat \subseteq T
  BY <1>2, <1>3, NaturalsBySteps
<1>5. Starts(Persisted(es))
  <2>1. Len(es) - n \in T /\ n + (Len(es) - n) = Len(es)
    BY <1>4
  <2>2. Starts(Persisted(UpTo(es, Len(es))))
    BY <2>1 DEF T
  <2> QED BY <2>2, UpToSteps
<1> HIDE DEF p
<1>6. SubSeq(p, 1, Len(p)) = SubSeq(Persisted(es), 1, Len(p))
  BY <1>1, <1>5
<1> QED BY <1>1, <1>5, <1>6 DEF IsPrefix, p

-----------------------------------------------------------------------------
(* Events that a copy takes.  ApplyEvents folds TakeEvent over what has come.   *)

CopyOf == [log: Seq(Entry), latest: Nat, gap: BOOLEAN]

LEMMA TakeParts == \A k \in CopyOf : \A e \in Entry : TakeEvent(k, e) \in CopyOf
<1> SUFFICES ASSUME NEW k \in CopyOf, NEW e \in Entry PROVE TakeEvent(k, e) \in CopyOf
  OBVIOUS
<1>1. k.log \in Seq(Entry) /\ k.latest \in Nat /\ e.seq \in Nat
  BY EntryParts DEF CopyOf
<1>2. Append(k.log, e) \in Seq(Entry)
  BY <1>1
<1>3. [k EXCEPT !.gap = TRUE] \in CopyOf
  BY DEF CopyOf
<1>4. [k EXCEPT !.log = Append(@, e), !.latest = e.seq] \in CopyOf
  BY <1>1, <1>2 DEF CopyOf
<1> QED BY <1>3, <1>4 DEF TakeEvent

\* The function by which FoldLeft applies events.
Taker(g, k, s) ==
  g = [S \in SUBSET DOMAIN s |-> IF S = {} THEN k ELSE TakeEvent(g[S \ {Max(S)}], s[Max(S)])]

LEMMA ApplyIsChosen ==
  ASSUME NEW k, NEW s
  PROVE  ApplyEvents(k, s) = (CHOOSE g : Taker(g, k, s))[DOMAIN s]
BY DEF ApplyEvents, FoldLeft, MapThenFoldSet, Taker

TakeBy == [p \in CopyOf \X Entry |-> TakeEvent(p[1], p[2])]

LEMMA TakeByFolds ==
  /\ Folding(TakeBy, CopyOf, Entry)
  /\ \A k \in CopyOf : \A e \in Entry : TakeBy[<<k, e>>] = TakeEvent(k, e)
<1>1. \A p \in CopyOf \X Entry : TakeEvent(p[1], p[2]) \in CopyOf
  BY TakeParts
<1>2. Folding(TakeBy, CopyOf, Entry)
  BY <1>1 DEF TakeBy, Folding
<1>3. \A k \in CopyOf : \A e \in Entry : TakeBy[<<k, e>>] = TakeEvent(k, e)
  BY DEF TakeBy
<1> QED BY <1>2, <1>3

LEMMA ApplyFolds ==
  ASSUME NEW k \in CopyOf, NEW s \in Seq(Entry)
  PROVE  ApplyEvents(k, s) = FoldOf(TakeBy, k, s)
<1> DEFINE F == TakeBy
           X == CopyOf
           Y == Entry
           c == CHOOSE g : Taker(g, k, s)
<1>1. Folding(F, X, Y) /\ \A q \in X : \A e \in Y : F[<<q, e>>] = TakeEvent(q, e)
  BY TakeByFolds
<1>2. k \in X /\ s \in Seq(Y)
  OBVIOUS
<1>3. ApplyEvents(k, s) = c[DOMAIN s]
  BY ApplyIsChosen
<1> HIDE DEF F, X, Y
<1>4. Len(s) \in Nat /\ DOMAIN s = 1..Len(s)
  BY <1>2
<1>5. ASSUME NEW S \in SUBSET DOMAIN s, S # {}
      PROVE  s[Max(S)] \in Y /\ S \ {Max(S)} \in SUBSET DOMAIN s
  <2> DEFINE n == Len(s)
  <2>1. n \in Nat /\ S \in SUBSET (1..n)
    BY <1>4
  <2> HIDE DEF n
  <2>2. Max(S) \in S
    BY <1>5, <2>1, MaxOfPart
  <2> QED BY <1>2, <2>2
<1>6. Taker(c, k, s)
  <2>1. PICK g : Folder(g, F, k, s) /\ \A S \in SUBSET DOMAIN s : g[S] \in X
    BY <1>1, <1>2, TypedFolder
  <2>2. ASSUME NEW S \in SUBSET DOMAIN s
        PROVE  (IF S = {} THEN k ELSE F[<<g[S \ {Max(S)}], s[Max(S)]>>])
             = (IF S = {} THEN k ELSE TakeEvent(g[S \ {Max(S)}], s[Max(S)]))
    BY <1>1, <1>5, <2>1
  <2>3. Taker(g, k, s)
    BY <2>1, <2>2 DEF Folder, Taker
  <2> QED BY <2>3
<1> HIDE DEF c
<1>7. FoldsBy(c, F, k, s, Len(s), X)
  <2>1. c[{}] = k
    BY <1>6 DEF Taker
  <2>2. ASSUME NEW S \in SUBSET (1..Len(s)), S # {}, c[S \ {Max(S)}] \in X
        PROVE  c[S] = F[<<c[S \ {Max(S)}], s[Max(S)]>>]
    <3>1. S \in SUBSET DOMAIN s
      BY <1>4
    <3>2. c[S] = TakeEvent(c[S \ {Max(S)}], s[Max(S)])
      BY <1>6, <2>2, <3>1 DEF Taker
    <3>3. s[Max(S)] \in Y
      BY <1>5, <2>2, <3>1
    <3> QED BY <1>1, <2>2, <3>2, <3>3
  <2> QED BY <2>1, <2>2 DEF FoldsBy
<1>8. c[DOMAIN s] = FoldOf(F, k, s)
  BY <1>1, <1>2, <1>7, FoldByFunction
<1> QED BY <1>3, <1>8 DEF F

\* Events are applied one after the other.
LEMMA ApplySteps ==
  ASSUME NEW k \in CopyOf
  PROVE  /\ ApplyEvents(k, <<>>) = k
         /\ \A s \in Seq(Entry) :
              /\ ApplyEvents(k, s) \in CopyOf
              /\ \A e \in Entry : ApplyEvents(k, Append(s, e)) = TakeEvent(ApplyEvents(k, s), e)
<1> DEFINE F == TakeBy
           X == CopyOf
           Y == Entry
<1>1. Folding(F, X, Y) /\ k \in X /\ \A q \in X : \A e \in Y : F[<<q, e>>] = TakeEvent(q, e)
  BY TakeByFolds
<1>2. \A s \in Seq(Y) : ApplyEvents(k, s) = FoldOf(F, k, s)
  BY ApplyFolds
<1> HIDE DEF F, X, Y
<1>3. /\ FoldOf(F, k, <<>>) = k
      /\ \A s \in Seq(Y) : /\ FoldOf(F, k, s) \in X
                           /\ \A e \in Y : FoldOf(F, k, Append(s, e)) = F[<<FoldOf(F, k, s), e>>]
  BY <1>1, FoldSteps
<1>4. <<>> \in Seq(Y) /\ \A s \in Seq(Y), e \in Y : Append(s, e) \in Seq(Y)
  OBVIOUS
<1>5. ApplyEvents(k, <<>>) = k
  BY <1>2, <1>3, <1>4
<1>6. ASSUME NEW s \in Seq(Y) PROVE ApplyEvents(k, s) \in X
  BY <1>2, <1>3
<1>7. ASSUME NEW s \in Seq(Y), NEW e \in Y
      PROVE  ApplyEvents(k, Append(s, e)) = TakeEvent(ApplyEvents(k, s), e)
  BY <1>1, <1>2, <1>3, <1>4
<1> QED BY <1>5, <1>6, <1>7 DEF X, Y

-----------------------------------------------------------------------------
(* Copies without a gap *)

\* l shows what lasts of the first n events, and n is the highest seq it knows.
Good(l, n, es) ==
  /\ l \in Seq(Entry) /\ n \in 0..Len(es)
  /\ Persisted(l) = Persisted(UpTo(es, n)) /\ Tops(l, n)

GoodCopy(k, es) == k \in CopyOf /\ ~k.gap /\ Good(k.log, k.latest, es)

LEMMA NoneIsGood ==
  ASSUME NEW es \in Seq(Entry)
  PROVE  GoodCopy(EmptyCopy, es) /\ EmptyCopy.latest = 0 /\ Good(<<>>, 0, es)
<1>1. UpTo(es, 0) = <<>> /\ <<>> \in Seq(Entry) /\ Len(es) \in Nat
  BY UpToSteps
<1>2. Tops(<<>>, 0)
  BY DEF Tops
<1>3. Good(<<>>, 0, es)
  BY <1>1, <1>2 DEF Good
<1> QED BY <1>3 DEF GoodCopy, EmptyCopy, CopyOf, Good

\* The event that comes next is taken.
LEMMA TakeNext ==
  ASSUME NEW es \in Seq(Entry), Numbered(es), NEW k, GoodCopy(k, es), k.latest + 1 <= Len(es)
  PROVE  /\ GoodCopy(TakeEvent(k, es[k.latest + 1]), es)
         /\ TakeEvent(k, es[k.latest + 1]).latest = k.latest + 1
<1> DEFINE n == k.latest
           l == k.log
           e == es[n + 1]
           r == Append(l, e)
           t == TakeEvent(k, e)
<1>1. /\ k \in CopyOf /\ ~k.gap /\ l \in Seq(Entry) /\ n \in Nat /\ n \in 0..Len(es)
      /\ Persisted(l) = Persisted(UpTo(es, n)) /\ Tops(l, n)
  BY DEF GoodCopy, Good, CopyOf
<1>2. n \in 0..(Len(es) - 1) /\ n + 1 \in 0..Len(es)
  BY <1>1
<1>3. e \in Entry /\ UpTo(es, n + 1) = Append(UpTo(es, n), e) /\ UpTo(es, n) \in Seq(Entry)
  BY <1>1, <1>2, UpToSteps
<1>4. e.seq = n + 1
  BY <1>1, <1>2 DEF Numbered
<1>5. t = [k EXCEPT !.log = r, !.latest = n + 1]
  BY <1>1, <1>4 DEF TakeEvent
<1>6. r \in Seq(Entry) /\ n + 1 \in Nat
  BY <1>1, <1>3
<1>7. t \in CopyOf /\ ~t.gap /\ t.log = r /\ t.latest = n + 1
  BY <1>1, <1>5, <1>6 DEF CopyOf
<1> HIDE DEF t, e, l, n
<1>8. Persisted(r) = Persisted(UpTo(es, n + 1))
  <2>1. Persisted(r) = IF e \in Lasting THEN Append(Persisted(l), e) ELSE Persisted(l)
    BY <1>1, <1>3, PersistedSteps
  <2>2. Persisted(UpTo(es, n + 1)) = IF e \in Lasting THEN Append(Persisted(UpTo(es, n)), e)
                                     ELSE Persisted(UpTo(es, n))
    BY <1>3, PersistedSteps
  <2> QED BY <1>1, <2>1, <2>2
<1>9. Tops(r, n + 1)
  <2>1. DOMAIN r = 1..(Len(l) + 1) /\ r[Len(l) + 1] = e /\ Len(l) \in Nat /\ DOMAIN l = 1..Len(l)
        /\ \A i \in 1..Len(l) : r[i] = l[i] /\ l[i] \in Entry
    BY <1>1, <1>3
  <2>2. ASSUME NEW i \in DOMAIN r PROVE r[i].seq <= n + 1
    <3>1. CASE i \in 1..Len(l)
      <4>1. l[i].seq \in Nat /\ l[i].seq <= n
        BY <1>1, <2>1, <3>1, EntryParts DEF Tops
      <4> QED BY <1>1, <2>1, <3>1, <4>1
    <3>2. CASE i = Len(l) + 1
      BY <1>1, <1>4, <2>1, <3>2
    <3> QED BY <2>1, <2>2, <3>1, <3>2
  <2>3. Len(l) + 1 \in DOMAIN r /\ r[Len(l) + 1].seq = n + 1
    BY <1>4, <2>1
  <2> QED BY <2>2, <2>3 DEF Tops
<1>10. Good(r, n + 1, es)
  BY <1>2, <1>6, <1>8, <1>9 DEF Good
<1> QED BY <1>7, <1>10 DEF GoodCopy, t, e, n

\* A run of events from the next one on is taken to its end.
LEMMA TakeRun ==
  ASSUME NEW es \in Seq(Entry), Numbered(es), NEW k, GoodCopy(k, es), NEW m \in k.latest..Len(es)
  PROVE  /\ GoodCopy(ApplyEvents(k, SubSeq(es, k.latest + 1, m)), es)
         /\ ApplyEvents(k, SubSeq(es, k.latest + 1, m)).latest = m
<1> DEFINE n == k.latest
           Run(j) == SubSeq(es, n + 1, n + j)
           Fine(t, j) == GoodCopy(t, es) /\ t.latest = n + j
           T == {j \in Nat : n + j <= Len(es) => Fine(ApplyEvents(k, Run(j)), j)}
<1>1. k \in CopyOf /\ n \in Nat /\ Len(es) \in Nat
  BY DEF GoodCopy, CopyOf
<1> HIDE DEF n
<1>2. 0 \in T
  <2>1. Run(0) = <<>>
    BY <1>1
  <2>2. ApplyEvents(k, Run(0)) = k
    BY <1>1, <2>1, ApplySteps
  <2>3. Fine(k, 0)
    BY <1>1 DEF n
  <2> QED BY <2>2, <2>3
<1>3. ASSUME NEW j \in Nat, j \in T PROVE j + 1 \in T
  <2> SUFFICES ASSUME n + (j + 1) <= Len(es) PROVE Fine(ApplyEvents(k, Run(j + 1)), j + 1)
    OBVIOUS
  <2> DEFINE e == es[n + (j + 1)]
             a == Run(j)
             b == Run(j + 1)
             t == ApplyEvents(k, a)
  <2>1. n + j <= Len(es) /\ n + (j + 1) = (n + j) + 1 /\ n + j + 1 \in 1..Len(es)
    BY <1>1
  <2>2. Fine(t, j)
    BY <1>3, <2>1
  <2>3. a \in Seq(Entry) /\ e \in Entry /\ b = Append(a, e)
    BY <1>1, <2>1
  <2> HIDE DEF a, b
  <2>4. ApplyEvents(k, b) = TakeEvent(t, e)
    BY <1>1, <2>3, ApplySteps
  <2>5. t.latest + 1 <= Len(es) /\ e = es[t.latest + 1] /\ GoodCopy(t, es)
    BY <2>1, <2>2
  <2> HIDE DEF t, e
  <2>6. GoodCopy(TakeEvent(t, e), es) /\ TakeEvent(t, e).latest = t.latest + 1
    BY <2>5, TakeNext
  <2> QED BY <1>1, <2>1, <2>2, <2>4, <2>6 DEF b
<1> HIDE DEF T
<1>4. Nat \subseteq T
  BY <1>2, <1>3, NaturalsBySteps
<1>5. m - n \in T /\ n + (m - n) = m /\ m <= Len(es)
  <2>1. m \in n..Len(es)
    BY DEF n
  <2> QED BY <1>1, <1>4, <2>1
<1>6. Fine(ApplyEvents(k, Run(m - n)), m - n)
  BY <1>5 DEF T
<1> QED BY <1>5, <1>6 DEF n

\* What joinPayload filters is the end of the log.
LEMMA SelectTail ==
  ASSUME NEW es \in Seq(Entry), Numbered(es), NEW n \in Nat
  PROVE  Selection(es, {e \in Entry : e.seq > n}) = SubSeq(es, n + 1, Len(es))
<1> DEFINE S == {e \in Entry : e.seq > n}
           Y == Entry
           T == {m \in Nat : m <= Len(es) => Selection(UpTo(es, m), S) = SubSeq(es, n + 1, m)}
<1>1. \A e \in Y : e \in S <=> e.seq > n
  OBVIOUS
<1> HIDE DEF S, Y
<1>2. /\ Selection(<<>>, S) = <<>>
      /\ \A s \in Seq(Y) : /\ Selection(s, S) \in Seq(Y)
                           /\ \A e \in Y : Selection(Append(s, e), S) =
                                IF e \in S THEN Append(Selection(s, S), e) ELSE Selection(s, S)
  BY SelectionSteps
<1>3. 0 \in T
  <2>1. UpTo(es, 0) = <<>> /\ SubSeq(es, n + 1, 0) = <<>>
    BY UpToSteps
  <2> QED BY <1>2, <2>1
<1>4. ASSUME NEW m \in Nat, m \in T PROVE m + 1 \in T
  <2> SUFFICES ASSUME m + 1 <= Len(es) PROVE Selection(UpTo(es, m + 1), S) = SubSeq(es, n + 1, m + 1)
    OBVIOUS
  <2> DEFINE a == UpTo(es, m)
             e == es[m + 1]
  <2>1. m \in 0..(Len(es) - 1) /\ m \in 0..Len(es) /\ m + 1 \in DOMAIN es
    OBVIOUS
  <2>2. a \in Seq(Y) /\ e \in Y /\ UpTo(es, m + 1) = Append(a, e)
    BY <2>1, UpToSteps DEF Y
  <2>3. Selection(a, S) = SubSeq(es, n + 1, m)
    BY <1>4, <2>1
  <2>4. e.seq = m + 1
    BY <2>1 DEF Numbered
  <2> HIDE DEF a, e
  <2>5. Selection(UpTo(es, m + 1), S) = IF m + 1 > n THEN Append(SubSeq(es, n + 1, m), e)
                                        ELSE SubSeq(es, n + 1, m)
    BY <1>1, <1>2, <2>2, <2>3, <2>4
  <2>6. CASE m + 1 > n
    <3>1. SubSeq(es, n + 1, m + 1) = Append(SubSeq(es, n + 1, m), e)
      BY <2>1, <2>6 DEF e
    <3> QED BY <2>5, <2>6, <3>1
  <2>7. CASE ~(m + 1 > n)
    <3>1. SubSeq(es, n + 1, m + 1) = <<>> /\ SubSeq(es, n + 1, m) = <<>>
      BY <2>1, <2>7
    <3> QED BY <2>5, <2>7, <3>1
  <2> QED BY <2>6, <2>7
<1> HIDE DEF T
<1>5. Nat \subseteq T
  BY <1>3, <1>4, NaturalsBySteps
<1>6. Len(es) \in Nat /\ UpTo(es, Len(es)) = es
  BY UpToSteps
<1> QED BY <1>5, <1>6 DEF T, S

-----------------------------------------------------------------------------
(* What is on its way to a display *)

Announcement(e) == [op |-> "event", event |-> e]
News == [op: {"joined"}, replace: BOOLEAN, seq: Nat, events: Seq(Entry)]
          \cup [op: {"event"}, event: Entry]

\* The events behind the first n, in their order.
Hearing(ms, es, n) ==
  /\ ms \in Seq(News) /\ Len(ms) = Len(es) - n
  /\ \A i \in DOMAIN ms : ms[i] = Announcement(es[n + i])

\* The log up to an event, or what of it follows the first n.
Payload(m, n, es) ==
  /\ m.op = "joined" /\ m.replace \in BOOLEAN /\ m.seq \in n..Len(es)
  /\ m.events = SubSeq(es, (IF m.replace THEN 0 ELSE n) + 1, m.seq)

\* The answer to a join, and the events behind it.
Joining(ms, es, n) ==
  /\ ms \in Seq(News) /\ ms # <<>>
  /\ Payload(Head(ms), n, es) /\ Hearing(Tail(ms), es, Head(ms).seq)

LEMMA AnnouncementIsNews == \A e \in Entry : Announcement(e) \in News
BY DEF Announcement, News

LEMMA GoodStays ==
  ASSUME NEW es \in Seq(Entry), NEW e \in Entry, NEW l, NEW n, Good(l, n, es)
  PROVE  Good(l, n, Append(es, e))
<1>1. UpTo(Append(es, e), n) = UpTo(es, n) /\ Len(Append(es, e)) = Len(es) + 1 /\ Len(es) \in Nat
  BY UpToSteps DEF Good
<1>2. n \in 0..Len(Append(es, e))
  BY <1>1 DEF Good
<1> QED BY <1>1, <1>2 DEF Good

LEMMA HearingGrows ==
  ASSUME NEW es \in Seq(Entry), NEW e \in Entry, NEW n \in 0..Len(es), NEW ms, Hearing(ms, es, n)
  PROVE  Hearing(Append(ms, Announcement(e)), Append(es, e), n)
<1> DEFINE M == News
           a == Announcement(e)
           t == Append(ms, a)
           r == Append(es, e)
<1>1. a \in M /\ ms \in Seq(M) /\ Len(ms) = Len(es) - n
  BY AnnouncementIsNews DEF Hearing
<1> HIDE DEF M, a
<1>2. /\ t \in Seq(M) /\ Len(t) = Len(ms) + 1 /\ DOMAIN t = 1..(Len(ms) + 1) /\ t[Len(ms) + 1] = a
      /\ DOMAIN ms = 1..Len(ms) /\ \A i \in 1..Len(ms) : t[i] = ms[i]
  BY <1>1
<1>3. Len(r) = Len(es) + 1 /\ r[Len(es) + 1] = e /\ \A i \in 1..Len(es) : r[i] = es[i]
  OBVIOUS
<1> HIDE DEF t, r
<1>4. ASSUME NEW i \in DOMAIN t PROVE t[i] = Announcement(r[n + i])
  <2>1. CASE i \in 1..Len(ms)
    <3>1. n + i \in 1..Len(es)
      BY <1>1, <2>1
    <3> QED BY <1>2, <1>3, <2>1, <3>1 DEF Hearing
  <2>2. CASE i = Len(ms) + 1
    <3>1. n + i = Len(es) + 1
      BY <1>1, <2>2
    <3> QED BY <1>2, <1>3, <2>2, <3>1 DEF a
  <2>3. i \in 1..Len(ms) \/ i = Len(ms) + 1
    <3>1. Len(ms) \in Nat
      BY <1>1
    <3> QED BY <1>2, <1>4, <3>1
  <2> QED BY <2>1, <2>2, <2>3
<1>5. Len(t) = Len(r) - n
  BY <1>1, <1>2, <1>3
<1> QED BY <1>2, <1>4, <1>5 DEF Hearing, M, t, r, a

LEMMA SubSeqStays ==
  ASSUME NEW es \in Seq(Entry), NEW e \in Entry, NEW b \in Nat \ {0}, NEW k \in 0..Len(es)
  PROVE  SubSeq(Append(es, e), b, k) = SubSeq(es, b, k)
<1> DEFINE Y == Entry
<1>1. es \in Seq(Y) /\ e \in Y
  OBVIOUS
<1> HIDE DEF Y
<1>2. \A i \in 1..Len(es) : Append(es, e)[i] = es[i]
  BY <1>1
<1>3. \A i \in 1..(k - b + 1) : i + b - 1 \in 1..Len(es)
  BY <1>1
<1> QED BY <1>1, <1>2, <1>3

LEMMA JoiningGrows ==
  ASSUME NEW es \in Seq(Entry), NEW e \in Entry, NEW n \in 0..Len(es), NEW ms, Joining(ms, es, n)
  PROVE  Joining(Append(ms, Announcement(e)), Append(es, e), n)
<1> DEFINE M == News
           a == Announcement(e)
           t == Append(ms, a)
           r == Append(es, e)
           m == Head(ms)
<1>1. a \in M /\ ms \in Seq(M) /\ ms # <<>> /\ Payload(m, n, es) /\ Hearing(Tail(ms), es, m.seq)
  BY AnnouncementIsNews DEF Joining
<1>2. Len(r) = Len(es) + 1 /\ m.seq \in n..Len(es) /\ m.seq \in 0..Len(es)
  BY <1>1 DEF Payload
<1>3. Hearing(Append(Tail(ms), a), r, m.seq)
  BY <1>1, <1>2, HearingGrows
<1>4. Payload(m, n, r)
  <2> DEFINE b == (IF m.replace THEN 0 ELSE n) + 1
  <2>1. b \in Nat \ {0} /\ m.events = SubSeq(es, b, m.seq)
    BY <1>1 DEF Payload
  <2> HIDE DEF b, m
  <2>2. SubSeq(r, b, m.seq) = SubSeq(es, b, m.seq)
    BY <1>2, <2>1, SubSeqStays
  <2>3. m.seq \in n..Len(r)
    BY <1>2
  <2> QED BY <1>1, <2>1, <2>2, <2>3 DEF Payload, b
<1> HIDE DEF M, a
<1>5. t \in Seq(M) /\ t # <<>> /\ Head(t) = m /\ Tail(t) = Append(Tail(ms), a)
  <2>1. Len(t) = Len(ms) + 1 /\ Len(ms) \in Nat /\ t \in Seq(M) /\ 1 \in 1..Len(ms)
    BY <1>1
  <2>2. t # <<>> /\ Head(t) = m
    BY <1>1, <2>1
  <2>3. Tail(t) = Append(Tail(ms), a)
    BY <1>1, <2>1
  <2> QED BY <2>1, <2>2, <2>3
<1> HIDE DEF t, r, m
<1>6. Joining(t, r, n)
  BY <1>3, <1>4, <1>5 DEF Joining, M
<1> QED BY <1>6 DEF t, r, a

-----------------------------------------------------------------------------
(* The connection of a display *)

Off(d) ==
  /\ ~online[d] /\ ~joined[d] /\ d \notin room
  /\ toServer[d] = <<>> /\ toClient[d] = <<>>
Asks(d) ==
  /\ online[d] /\ d \notin room
  /\ toServer[d] = <<[op |-> "join", since |-> latest[d]]>> /\ toClient[d] = <<>>
Told(d) ==
  /\ online[d] /\ d \in room
  /\ toServer[d] = <<>> /\ Joining(toClient[d], events, latest[d])
Hears(d) ==
  /\ online[d] /\ d \in room
  /\ toServer[d] = <<>> /\ Hearing(toClient[d], events, latest[d])

\* A display shows a beginning of the log, keeps an earlier one for the next load of the
\* page, queues nothing, and all that it still has to hear is on its way or will be asked for.
DisplayInv(d) ==
  /\ Good(log[d], latest[d], events)
  /\ \E n \in 0..Len(events) : saved[d] = Persisted(UpTo(events, n))
  /\ queue[d] = <<>> /\ ~flushing[d] /\ awaiting[d] = {}
  /\ Off(d) \/ Asks(d) \/ Told(d) \/ Hears(d)

Wired ==
  /\ DOMAIN log = Client /\ DOMAIN latest = Client /\ DOMAIN saved = Client
  /\ DOMAIN online = Client /\ DOMAIN joined = Client
  /\ DOMAIN queue = Client /\ DOMAIN flushing = Client /\ DOMAIN peeked = Client /\ DOMAIN awaiting = Client
  /\ DOMAIN toServer = Client /\ DOMAIN toClient = Client

SameView(d) ==
  /\ log'[d] = log[d] /\ latest'[d] = latest[d] /\ saved'[d] = saved[d]
  /\ online'[d] = online[d] /\ joined'[d] = joined[d] /\ (d \in room' <=> d \in room)
  /\ queue'[d] = queue[d] /\ flushing'[d] = flushing[d]
  /\ peeked'[d] = peeked[d] /\ awaiting'[d] = awaiting[d]
  /\ toServer'[d] = toServer[d] /\ toClient'[d] = toClient[d]

LEMMA ViewKept ==
  ASSUME NEW d, DisplayInv(d), SameView(d), events' = events
  PROVE  DisplayInv(d)'
BY DEF DisplayInv, SameView, Off, Asks, Told, Hears

\* The steps of a client leave the others as they are, unless a new event is sent to them.
LEMMA OthersLeave ==
  ASSUME Wired, NEW d \in Client, NEW c \in Client, c # d,
         \/ Connect(c) \/ Drop(c) \/ Reload(c) \/ ShowOffline(c) \/ Uses(c) \/ Receives(c) \/ Flushes(c)
         \/ ServerAnswers(c) /\ ~HandleEventNew(c)
  PROVE  SameView(d) /\ events' = events
<1>1. CASE Connect(c)
  BY <1>1 DEF Wired, SameView, Connect, ServerState, memory, copyVars, queueVars
<1>2. CASE Drop(c)
  BY <1>2 DEF Wired, SameView, Drop, Disconnect, memory, copyVars, queueVars
<1>3. CASE Reload(c)
  BY <1>3 DEF Wired, SameView, Reload, EndFlush, Disconnect, memory
<1>4. CASE ShowOffline(c)
  BY <1>4 DEF Wired, SameView, ShowOffline, serverVars, memory, copyVars, queueVars
<1>5. CASE Uses(c)
  <2>1. CASE MakeEvent(c)
    BY <2>1 DEF Wired, SameView, MakeEvent, Emit, ServerState, serverVars, memory, linkVars
  <2>2. CASE MakeLive(c)
    BY <2>2 DEF Wired, SameView, MakeLive, Emit, ServerState, memory, copyVars, linkVars, queueVars
  <2> QED BY <1>5, <2>1, <2>2 DEF Uses
<1>6. CASE Receives(c)
  <2>1. CASE ReceiveJoined(c)
    BY <2>1 DEF Wired, SameView, ReceiveJoined, StartFlush, Take, Answering, ServerState, memory
  <2>2. CASE ReceiveEvent(c)
    BY <2>2 DEF Wired, SameView, ReceiveEvent, Take, Answering, ServerState, memory, linkVars, queueVars
  <2>3. CASE ReceiveAck(c)
    BY <2>3 DEF Wired, SameView, ReceiveAck, Take, Answering, ServerState, memory, linkVars, queueVars
  <2>4. CASE ReceiveReject(c)
    BY <2>4 DEF Wired, SameView, ReceiveReject, Take, Answering, ServerState, memory, linkVars, queueVars
  <2>5. CASE ReceiveError(c)
    BY <2>5 DEF Wired, SameView, ReceiveError, Take, Answering, ServerState, memory, copyVars, queueVars
  <2> QED BY <1>6, <2>1, <2>2, <2>3, <2>4, <2>5 DEF Receives
<1>7. CASE Flushes(c)
  <2>1. CASE FlushNext(c)
    BY <2>1 DEF Wired, SameView, FlushNext, NextItem, EndFlush, Emit, ServerState, serverVars, memory, copyVars, linkVars
  <2>2. CASE FlushAnswered(c)
    BY <2>2 DEF Wired, SameView, FlushAnswered, NextItem, serverVars, memory, copyVars, linkVars
  <2>3. CASE FlushTimeout(c)
    BY <2>3 DEF Wired, SameView, FlushTimeout, EndFlush, serverVars, memory, copyVars, linkVars
  <2> QED BY <1>7, <2>1, <2>2, <2>3 DEF Flushes
<1>8. CASE ServerAnswers(c) /\ ~HandleEventNew(c)
  <2>1. UNCHANGED <<copyVars, linkVars, queueVars>>
    BY <1>8 DEF ServerAnswers
  <2>2. CASE HandleJoin(c)
    BY <2>1, <2>2 DEF Wired, SameView, HandleJoin, Consume, Reply, memory, copyVars, linkVars, queueVars
  <2>3. CASE HandleResync(c)
    BY <2>1, <2>3 DEF Wired, SameView, HandleResync, Consume, Reply, memory, copyVars, linkVars, queueVars
  <2>4. CASE HandleEventRefused(c)
    BY <2>1, <2>4 DEF Wired, SameView, HandleEventRefused, Consume, Reply, memory, copyVars, linkVars, queueVars
  <2>5. CASE HandleEventDuplicate(c)
    BY <2>1, <2>5 DEF Wired, SameView, HandleEventDuplicate, Consume, Reply, memory, copyVars, linkVars, queueVars
  <2> QED BY <1>8, <2>2, <2>3, <2>4, <2>5 DEF ServerAnswers, ServerHandles
<1> QED BY <1>1, <1>2, <1>3, <1>4, <1>5, <1>6, <1>7, <1>8

\* The display's own steps.  It queues nothing, so nothing is flushed and nothing refused.
LEMMA DisplayConnects ==
  ASSUME Wired, NEW d \in Client, DisplayInv(d), Connect(d)
  PROVE  DisplayInv(d)'
<1>1. Off(d) /\ Good(log[d], latest[d], events)
  BY DEF Connect, DisplayInv, Asks, Told, Hears
<1>2. HighestSeq(log[d]) = latest[d]
  BY <1>1, TopIsHighest DEF Good
<1>3. /\ UNCHANGED <<events, room, log, latest, saved, queue, flushing, awaiting, toClient>>
      /\ online'[d] /\ toServer'[d] = Append(toServer[d], [op |-> "join", since |-> latest[d]])
  BY <1>2 DEF Wired, Connect, ServerState, memory, copyVars, queueVars
<1>4. Asks(d)'
  BY <1>1, <1>3 DEF Off, Asks
<1> QED BY <1>3, <1>4 DEF DisplayInv

LEMMA DisplayDrops ==
  ASSUME Wired, NEW d \in Client, DisplayInv(d), Drop(d)
  PROVE  DisplayInv(d)'
<1>1. Off(d)' /\ UNCHANGED <<events, log, latest, saved, queue, flushing, awaiting>>
  BY DEF Wired, Drop, Disconnect, Off, memory, copyVars, queueVars
<1> QED BY <1>1 DEF DisplayInv

\* What was saved is what lasts of a beginning, so its highest seq is where it ends.
LEMMA SavedIsGood ==
  ASSUME NEW es \in Seq(Entry), Numbered(es), NEW n \in 0..Len(es)
  PROVE  LET s == Persisted(UpTo(es, n)) IN Good(s, HighestSeq(s), es)
<1> DEFINE s == Persisted(UpTo(es, n))
<1>1. s \in Seq(Entry) /\ Persisted(s) = s
  BY UpToSteps, PersistedSteps, PersistedTwice
<1>2. PICK h \in 0..n : Persisted(UpTo(es, h)) = s /\ Tops(s, h)
  BY SavedTop
<1> HIDE DEF s
<1>3. h \in Nat /\ h \in 0..Len(es)
  BY <1>2
<1>4. HighestSeq(s) = h
  BY <1>1, <1>2, <1>3, TopIsHighest
<1> QED BY <1>1, <1>2, <1>3, <1>4 DEF Good, s

LEMMA DisplayReloads ==
  ASSUME events \in Seq(Entry), Numbered(events), Wired, NEW d \in Client, DisplayInv(d), Reload(d)
  PROVE  DisplayInv(d)'
<1>1. Off(d)' /\ UNCHANGED <<events, saved, queue>> /\ ~flushing'[d] /\ awaiting'[d] = {}
  BY DEF Wired, Reload, EndFlush, Disconnect, Off, memory
<1>2. log'[d] = saved[d] /\ latest'[d] = HighestSeq(saved[d])
  BY DEF Wired, Reload
<1>3. Good(saved[d], HighestSeq(saved[d]), events)
  <2>1. PICK n \in 0..Len(events) : saved[d] = Persisted(UpTo(events, n))
    BY DEF DisplayInv
  <2> QED BY <2>1, SavedIsGood
<1> QED BY <1>1, <1>2, <1>3 DEF DisplayInv

LEMMA DisplayShowsOffline ==
  ASSUME Wired, NEW d \in Client, DisplayInv(d), ShowOffline(d)
  PROVE  DisplayInv(d)'
<1>1. SameView(d) /\ events' = events
  BY DEF SameView, ShowOffline, serverVars, memory, copyVars, queueVars
<1> QED BY <1>1, ViewKept

\* The news that comes first.
LEMMA FirstNews ==
  ASSUME NEW M, NEW ms \in Seq(M), ms # <<>>
  PROVE  /\ Len(ms) \in Nat \ {0} /\ Head(ms) = ms[1] /\ Head(ms) \in M /\ 1 \in DOMAIN ms
         /\ Tail(ms) \in Seq(M) /\ Len(Tail(ms)) = Len(ms) - 1
         /\ DOMAIN Tail(ms) = 1..(Len(ms) - 1) /\ \A i \in DOMAIN Tail(ms) : Tail(ms)[i] = ms[i + 1]
OBVIOUS

LEMMA EventComesFirst ==
  ASSUME NEW ms, NEW es, NEW n, Hearing(ms, es, n), ms # <<>>
  PROVE  Head(ms).op = "event"
<1> DEFINE M == News
<1>1. ms \in Seq(M) /\ \A i \in DOMAIN ms : ms[i] = Announcement(es[n + i])
  BY DEF Hearing
<1> HIDE DEF M
<1>2. Head(ms) = ms[1] /\ 1 \in DOMAIN ms
  BY <1>1, FirstNews
<1>3. Head(ms) = Announcement(es[n + 1])
  BY <1>1, <1>2
<1> QED BY <1>3 DEF Announcement

LEMMA DisplayHearsPayload ==
  ASSUME events \in Seq(Entry), Numbered(events), Wired, NEW d \in Client, d \notin Dealer, DisplayInv(d),
         ReceiveJoined(d)
  PROVE  DisplayInv(d)'
<1> DEFINE m == Head(toClient[d])
           k == IF m.replace THEN EmptyCopy ELSE Copy(d)
           t == ApplyEvents(k, m.events)
<1>1. toClient[d] # <<>> /\ m.op = "joined"
  BY DEF ReceiveJoined, Take, Message
<1>2. Told(d)
  <2>1. ASSUME Hears(d) PROVE FALSE
    <3>1. m.op = "event"
      BY <1>1, <2>1, EventComesFirst DEF Hears
    <3> QED BY <1>1, <3>1
  <2> QED BY <1>1, <2>1 DEF DisplayInv, Off, Asks
<1>3. /\ Payload(m, latest[d], events) /\ Hearing(Tail(toClient[d]), events, m.seq)
      /\ online[d] /\ d \in room /\ toServer[d] = <<>>
  BY <1>2 DEF Told, Joining
<1>4. Good(log[d], latest[d], events)
  BY DEF DisplayInv
<1>5. GoodCopy(k, events) /\ k.latest = IF m.replace THEN 0 ELSE latest[d]
  <2>1. CASE m.replace
    BY <2>1, NoneIsGood
  <2>2. CASE ~m.replace
    BY <1>4, <2>2 DEF Copy, GoodCopy, CopyOf, Good
  <2> QED BY <2>1, <2>2
<1>6. m.seq \in latest[d]..Len(events) /\ latest[d] \in 0..Len(events) /\ Len(events) \in Nat
  BY <1>3, <1>4 DEF Payload, Good
<1> HIDE DEF k, m
<1>7. m.seq \in k.latest..Len(events) /\ m.events = SubSeq(events, k.latest + 1, m.seq) /\ m.seq \in 0..Len(events)
  BY <1>3, <1>5, <1>6 DEF Payload
<1>8. /\ log'[d] = t.log /\ latest'[d] = Max({t.latest, m.seq}) /\ saved'[d] = Persisted(t.log)
      /\ toClient'[d] = Tail(toClient[d]) /\ toServer'[d] = toServer[d] \o ResyncFrom(t)
      /\ UNCHANGED <<events, room, online, queue, awaiting>>
      /\ flushing'[d] = flushing[d]
  BY DEF Wired, ReceiveJoined, StartFlush, Take, Answering, ServerState, memory, k, m
<1> HIDE DEF t
<1>9. GoodCopy(t, events) /\ t.latest = m.seq
  BY <1>5, <1>7, TakeRun DEF t
<1>10. Max({t.latest, m.seq}) = m.seq
  <2> DEFINE S == {t.latest, m.seq}
             n == m.seq
  <2>1. S \subseteq Nat /\ S # {} /\ n \in Nat /\ (\A y \in S : y <= n) /\ \A y \in S : y = n
    BY <1>7, <1>9
  <2> HIDE DEF S, n
  <2>2. Max(S) \in S
    BY <2>1, MaxOfBounded
  <2> QED BY <2>1, <2>2 DEF S, n
<1>11. Good(t.log, m.seq, events) /\ ResyncFrom(t) = <<>>
  BY <1>9 DEF GoodCopy, ResyncFrom
<1>12. Hears(d)'
  <2>1. toServer'[d] = <<>>
    BY <1>3, <1>8, <1>11
  <2> QED BY <1>3, <1>8, <1>10, <2>1 DEF Hears
<1>13. saved'[d] = Persisted(UpTo(events, m.seq))
  BY <1>8, <1>11 DEF Good
<1>14. ~flushing'[d] /\ queue'[d] = <<>> /\ awaiting'[d] = {}
  BY <1>8 DEF DisplayInv
<1> QED BY <1>7, <1>8, <1>10, <1>11, <1>12, <1>13, <1>14 DEF DisplayInv

LEMMA DisplayHearsEvent ==
  ASSUME events \in Seq(Entry), Numbered(events), Wired, NEW d \in Client, DisplayInv(d), ReceiveEvent(d)
  PROVE  DisplayInv(d)'
<1> DEFINE ms == toClient[d]
           n == latest[d]
           e == events[n + 1]
           k == Copy(d)
           t == ApplyEvents(k, <<Head(toClient[d]).event>>)
<1>1. ms # <<>> /\ Head(ms).op = "event"
  BY DEF ReceiveEvent, Take, Message
<1>2. Hears(d)
  BY <1>1 DEF DisplayInv, Off, Asks, Told, Joining, Payload
<1>3. /\ ms \in Seq(News) /\ Len(ms) = Len(events) - n
      /\ \A i \in DOMAIN ms : ms[i] = Announcement(events[n + i])
      /\ online[d] /\ d \in room /\ toServer[d] = <<>>
  BY <1>2 DEF Hears, Hearing
<1>4. Good(log[d], n, events) /\ n \in 0..Len(events) /\ Len(events) \in Nat
  BY DEF DisplayInv, Good
<1>5. GoodCopy(k, events) /\ k.latest = n /\ k \in CopyOf
  BY <1>4 DEF Copy, GoodCopy, CopyOf, Good
<1>6. /\ log'[d] = t.log /\ latest'[d] = t.latest /\ saved'[d] \in {saved[d], Persisted(t.log)}
      /\ toClient'[d] = Tail(toClient[d]) /\ toServer'[d] = toServer[d] \o ResyncFrom(t)
      /\ UNCHANGED <<events, room, online, queue, flushing, awaiting>>
  BY DEF Wired, ReceiveEvent, Take, Answering, ServerState, memory, linkVars, queueVars
<1>7. Head(ms) = Announcement(e) /\ n + 1 <= Len(events) /\ n + 1 \in 0..Len(events)
  <2> DEFINE M == News
  <2>0. ms \in Seq(M)
    BY <1>3
  <2> HIDE DEF M, ms, n
  <2>1. Len(ms) \in Nat \ {0} /\ Head(ms) = ms[1] /\ 1 \in DOMAIN ms
    BY <1>1, <2>0, FirstNews
  <2>2. n \in Nat /\ n + 1 <= Len(events)
    BY <1>3, <1>4, <2>1
  <2>3. n + 1 \in 0..Len(events)
    BY <1>4, <2>2
  <2>4. Head(ms) = Announcement(events[n + 1])
    BY <1>3, <2>1
  <2> QED BY <2>2, <2>3, <2>4
<1>8. Head(ms).event = e /\ e \in Entry
  BY <1>4, <1>7 DEF Announcement
<1> HIDE DEF k, e
<1>9. t = TakeEvent(k, e)
  <2>1. <<>> \in Seq(Entry) /\ <<e>> = Append(<<>>, e)
    BY <1>8
  <2>2. ApplyEvents(k, <<>>) = k
    BY <1>5, ApplySteps
  <2>3. ApplyEvents(k, Append(<<>>, e)) = TakeEvent(ApplyEvents(k, <<>>), e)
    BY <1>5, <1>8, <2>1, ApplySteps
  <2> QED BY <1>8, <2>1, <2>2, <2>3
<1>10. GoodCopy(t, events) /\ t.latest = n + 1
  BY <1>5, <1>7, <1>9, TakeNext DEF e
<1> HIDE DEF t
<1>11. Good(t.log, n + 1, events) /\ ResyncFrom(t) = <<>>
  BY <1>10 DEF GoodCopy, ResyncFrom
<1>12. Hearing(Tail(ms), events, n + 1)
  <2> DEFINE M == News
             r == Tail(ms)
  <2>1. ms \in Seq(M)
    BY <1>3
  <2> HIDE DEF M, ms, n
  <2>2. /\ r \in Seq(M) /\ Len(r) = Len(ms) - 1 /\ Len(ms) \in Nat \ {0} /\ DOMAIN ms = 1..Len(ms)
        /\ DOMAIN r = 1..(Len(ms) - 1) /\ \A i \in DOMAIN r : r[i] = ms[i + 1]
    BY <1>1, <2>1
  <2> HIDE DEF r
  <2>3. ASSUME NEW i \in DOMAIN r PROVE r[i] = Announcement(events[(n + 1) + i])
    <3>0. n \in Nat /\ i \in Nat /\ i + 1 \in 1..Len(ms)
      BY <1>4, <2>2
    <3>1. i + 1 \in DOMAIN ms /\ n + (i + 1) = (n + 1) + i
      BY <2>2, <3>0
    <3> QED BY <1>3, <2>2, <3>1
  <2>4. Len(r) = Len(events) - (n + 1)
    BY <1>3, <1>4, <2>2
  <2> QED BY <2>2, <2>3, <2>4 DEF Hearing, M, r
<1>13. Hears(d)'
  <2>1. toServer'[d] = <<>>
    BY <1>3, <1>6, <1>11
  <2> QED BY <1>3, <1>6, <1>10, <1>12, <2>1 DEF Hears
<1>14. \E i \in 0..Len(events) : saved'[d] = Persisted(UpTo(events, i))
  <2>1. Persisted(t.log) = Persisted(UpTo(events, n + 1))
    BY <1>11 DEF Good
  <2> QED BY <1>6, <1>7, <2>1 DEF DisplayInv
<1>15. ~flushing'[d] /\ queue'[d] = <<>> /\ awaiting'[d] = {}
  BY <1>6 DEF DisplayInv
<1>16. Good(log'[d], latest'[d], events')
  BY <1>6, <1>10, <1>11
<1>17. events' = events
  BY <1>6
<1> QED BY <1>13, <1>14, <1>15, <1>16, <1>17 DEF DisplayInv

\* Nothing else is ever sent to a display, and it makes and sends nothing of its own.
LEMMA DisplayIsQuiet ==
  ASSUME NEW d \in Display, DisplayInv(d)
  PROVE  /\ ~Uses(d) /\ ~Flushes(d) /\ ~ReceiveAck(d) /\ ~ReceiveReject(d) /\ ~ReceiveError(d)
         /\ ~HandleResync(d) /\ ~HandleEventRefused(d) /\ ~HandleEventDuplicate(d) /\ ~HandleEventNew(d)
<1>1. ~Uses(d)
  BY StoreAssumption DEF Uses, MakeEvent, MakeLive
<1>2. ~Flushes(d)
  BY DEF DisplayInv, Flushes, FlushNext, FlushAnswered, Answered, FlushTimeout
<1>3. ASSUME toClient[d] # <<>> PROVE Head(toClient[d]).op \in {"joined", "event"}
  <2>1. CASE Told(d)
    BY <2>1 DEF Told, Joining, Payload
  <2>2. CASE Hears(d)
    <3>1. Head(toClient[d]).op = "event"
      BY <1>3, <2>2, EventComesFirst DEF Hears
    <3> QED BY <3>1
  <2> QED BY <1>3, <2>1, <2>2 DEF DisplayInv, Off, Asks
<1>4. ~ReceiveAck(d) /\ ~ReceiveReject(d) /\ ~ReceiveError(d)
  BY <1>3 DEF ReceiveAck, ReceiveReject, ReceiveError, Take, Message
<1>5. ASSUME toServer[d] # <<>> PROVE Head(toServer[d]).op = "join"
  BY <1>5 DEF DisplayInv, Off, Asks, Told, Hears
<1>6. ~HandleResync(d) /\ ~HandleEventRefused(d) /\ ~HandleEventDuplicate(d) /\ ~HandleEventNew(d)
  BY <1>5 DEF HandleResync, HandleEventRefused, HandleEventDuplicate, HandleEventNew, Accepts, Incoming
<1> QED BY <1>1, <1>2, <1>4, <1>6

\* The last seq is the length of the log, so joinPayload sends all of it or what follows n.
LEMMA NumberedEnd ==
  ASSUME NEW es \in Seq(Entry), es # <<>>, Numbered(es)
  PROVE  /\ LastSeq(es) = Len(es) /\ es[1].seq = 1 /\ Len(es) \in Nat \ {0}
         /\ \A e \in Entry : e.seq = Len(es) + 1 => Numbered(Append(es, e))
<1>1. Len(es) \in Nat \ {0} /\ DOMAIN es = 1..Len(es) /\ 1 \in DOMAIN es /\ Len(es) \in DOMAIN es
  OBVIOUS
<1>2. LastSeq(es) = Len(es) /\ es[1].seq = 1
  BY <1>1 DEF LastSeq, Numbered
<1>3. ASSUME NEW e \in Entry, e.seq = Len(es) + 1 PROVE Numbered(Append(es, e))
  <2> DEFINE r == Append(es, e)
  <2>1. /\ DOMAIN r = 1..(Len(es) + 1) /\ r[Len(es) + 1] = e /\ \A i \in 1..Len(es) : r[i] = es[i]
    BY AppendParts
  <2> HIDE DEF r
  <2>2. ASSUME NEW i \in DOMAIN r PROVE r[i].seq = i
    <3>1. i \in 1..Len(es) \/ i = Len(es) + 1
      BY <1>1, <2>1, <2>2
    <3>2. CASE i \in 1..Len(es)
      BY <1>1, <2>1, <3>2 DEF Numbered
    <3>3. CASE i = Len(es) + 1
      BY <1>3, <2>1, <3>3
    <3> QED BY <3>1, <3>2, <3>3
  <2> QED BY <2>2 DEF Numbered, r
<1> QED BY <1>1, <1>2, <1>3

LEMMA PayloadFits ==
  ASSUME events \in Seq(Entry), events # <<>>, Numbered(events), NEW n \in 0..Len(events)
  PROVE  JoinPayload(n) \in News /\ Payload(JoinPayload(n), n, events) /\ JoinPayload(n).seq = Len(events)
<1>1. LastSeq(events) = Len(events) /\ events[1].seq = 1 /\ Len(events) \in Nat \ {0}
  BY NumberedEnd
<1>2. SubSeq(events, 1, Len(events)) = events
  BY UpToSteps DEF UpTo
<1>3. Len(events) \in n..Len(events) /\ n \in Nat
  BY <1>1
<1>4. CASE n >= LastSeq(events) \/ n < events[1].seq
  <2>1. JoinPayload(n) = [op |-> "joined", replace |-> TRUE, events |-> events, seq |-> Len(events)]
    BY <1>1, <1>4 DEF JoinPayload
  <2>2. JoinPayload(n) \in News
    BY <1>1, <2>1 DEF News
  <2> QED BY <1>1, <1>2, <1>3, <2>1, <2>2 DEF Payload
<1>5. CASE ~(n >= LastSeq(events) \/ n < events[1].seq)
  <2> DEFINE q == SubSeq(events, n + 1, Len(events))
  <2>1. Selection(events, {e \in Entry : e.seq > n}) = q
    BY <1>3, SelectTail
  <2>2. q \in Seq(Entry)
    BY <1>3
  <2>3. JoinPayload(n) = [op |-> "joined", replace |-> FALSE, seq |-> Len(events), events |-> q]
    BY <1>1, <1>5, <2>1 DEF JoinPayload
  <2> HIDE DEF q
  <2>4. JoinPayload(n) \in News
    BY <1>1, <2>2, <2>3 DEF News
  <2>5. Payload(JoinPayload(n), n, events)
    BY <1>3, <2>3 DEF Payload, q
  <2> QED BY <2>3, <2>4, <2>5
<1> QED BY <1>4, <1>5

LEMMA DisplayIsTold ==
  ASSUME events \in Seq(Entry), events # <<>>, Numbered(events), Wired,
         NEW d \in Display, DisplayInv(d), HandleJoin(d), UNCHANGED <<copyVars, linkVars, queueVars>>
  PROVE  DisplayInv(d)'
<1> DEFINE p == JoinPayload(latest[d])
           M == News
<1>1. d \in Client /\ d \notin Dealer
  BY ClientAssumption
<1>2. Asks(d)
  BY DEF HandleJoin, Incoming, DisplayInv, Off, Told, Hears
<1>3. toServer[d] = <<[op |-> "join", since |-> latest[d]]>> /\ toClient[d] = <<>> /\ online[d]
  BY <1>2 DEF Asks
<1>4. Head(toServer[d]).since = latest[d] /\ Tail(toServer[d]) = <<>>
  BY <1>3
<1>5. /\ toServer'[d] = <<>> /\ toClient'[d] = Append(<<>>, p) /\ d \in room' /\ online'[d]
      /\ UNCHANGED <<events, log, latest, saved, queue, flushing, awaiting>>
  BY <1>1, <1>3, <1>4 DEF HandleJoin, Consume, Reply, Wired, memory, copyVars, linkVars, queueVars
<1>6. latest[d] \in 0..Len(events)
  BY DEF DisplayInv, Good
<1>7. p \in M /\ Payload(p, latest[d], events) /\ p.seq = Len(events)
  BY <1>6, PayloadFits
<1> HIDE DEF p, M
<1>8. /\ Append(<<>>, p) \in Seq(M) /\ Append(<<>>, p) # <<>>
      /\ Head(Append(<<>>, p)) = p /\ Tail(Append(<<>>, p)) = <<>>
  BY <1>7
<1>9. Hearing(<<>>, events, p.seq)
  BY <1>7 DEF Hearing
<1>10. Joining(Append(<<>>, p), events, latest[d])
  BY <1>7, <1>8, <1>9 DEF Joining, M
<1>11. Told(d)'
  BY <1>5, <1>10 DEF Told
<1> QED BY <1>5, <1>11 DEF DisplayInv

\* A new event goes to all that have joined, a display among them.
LEMMA DisplayIsSentEvent ==
  ASSUME events \in Seq(Entry), Wired, NEW d \in Client, DisplayInv(d),
         NEW c \in Client, c # d, NEW e \in Entry, events' = Append(events, e), Broadcast(c, e),
         Consume(c), UNCHANGED <<room, copyVars, linkVars, queueVars>>
  PROVE  DisplayInv(d)'
<1> DEFINE ms == toClient[d]
           a == Announcement(e)
           es == events
           r == Append(es, e)
           n == latest[d]
<1>1. /\ UNCHANGED <<room, log, latest, saved, online, joined, queue, flushing, awaiting>>
      /\ toServer'[d] = toServer[d] /\ events' = r
  BY DEF Consume, Wired, copyVars, linkVars, queueVars
<1>2. toClient'[d] = (ms \o <<>>) \o (IF d \in room THEN <<a>> ELSE <<>>)
  BY DEF Broadcast, Announcement
<1>3. Good(log[d], n, es) /\ n \in 0..Len(es)
  BY DEF DisplayInv, Good
<1>4. Good(log[d], n, r)
  BY <1>3, GoodStays
<1>5. \E i \in 0..Len(r) : saved[d] = Persisted(UpTo(r, i))
  <2>1. PICK i \in 0..Len(es) : saved[d] = Persisted(UpTo(es, i))
    BY DEF DisplayInv
  <2>2. Len(r) = Len(es) + 1 /\ Len(es) \in Nat /\ UpTo(r, i) = UpTo(es, i)
    BY UpToSteps
  <2> QED BY <2>1, <2>2
<1>6. ASSUME d \notin room, ms = <<>> PROVE toClient'[d] = <<>>
  BY <1>2, <1>6
<1>7. ASSUME d \in room, ms \in Seq(News) PROVE toClient'[d] = Append(ms, a)
  <2> DEFINE M == News
  <2>1. ms \in Seq(M) /\ a \in M
    BY <1>7, AnnouncementIsNews
  <2> HIDE DEF M, ms, a
  <2>2. ms \o <<>> = ms /\ ms \o <<a>> = Append(ms, a)
    BY <2>1
  <2> QED BY <1>2, <1>7, <2>2
<1> HIDE DEF ms, a, r, n, es
<1>8. CASE Off(d)
  BY <1>1, <1>4, <1>5, <1>6, <1>8 DEF Off, DisplayInv, ms, n
<1>9. CASE Asks(d)
  BY <1>1, <1>4, <1>5, <1>6, <1>9 DEF Asks, DisplayInv, ms, n
<1>10. CASE Told(d)
  <2>1. Joining(ms, es, n) /\ ms \in Seq(News)
    BY <1>10 DEF Told, Joining, ms, es, n
  <2>2. es \in Seq(Entry)
    BY DEF es
  <2>3. Joining(Append(ms, a), r, n)
    BY <1>3, <2>1, <2>2, JoiningGrows DEF a, r
  <2>4. Told(d)'
    BY <1>1, <1>7, <1>10, <2>1, <2>3 DEF Told, n
  <2> QED BY <1>1, <1>4, <1>5, <2>4 DEF DisplayInv, n
<1>11. CASE Hears(d)
  <2>1. Hearing(ms, es, n) /\ ms \in Seq(News)
    BY <1>11 DEF Hears, Hearing, ms, es, n
  <2>2. es \in Seq(Entry)
    BY DEF es
  <2>3. Hearing(Append(ms, a), r, n)
    BY <1>3, <2>1, <2>2, HearingGrows DEF a, r
  <2>4. Hears(d)'
    BY <1>1, <1>7, <1>11, <2>1, <2>3 DEF Hears, n
  <2> QED BY <1>1, <1>4, <1>5, <2>4 DEF DisplayInv, n
<1> QED BY <1>8, <1>9, <1>10, <1>11 DEF DisplayInv

-----------------------------------------------------------------------------
(* All displays, in one life of the process *)

ShowingInv == Numbered(events) /\ Wired /\ \A d \in Display : DisplayInv(d)

LEMMA ShowingStarts == StoreInit => ShowingInv
<1> SUFFICES ASSUME StoreInit PROVE ShowingInv
  OBVIOUS
<1> DEFINE e == [seq |-> 1, id |-> Created]
<1>1. e \in Entry
  BY DEF Entry
<1>2. events = <<e>> /\ DOMAIN events = {1} /\ events[1].seq = 1 /\ events \in Seq(Entry)
  <2>1. events = <<e>> /\ DOMAIN events = {1} /\ events[1].seq = 1
    BY StoreOpens DEF ServerInit
  <2> HIDE DEF e
  <2>2. events \in Seq(Entry)
    BY <1>1, <2>1
  <2> QED BY <2>1, <2>2
<1>3. Numbered(events)
  BY <1>2 DEF Numbered
<1>4. Wired
  BY StoreOpens DEF StoreInit, ServerInit, Wired
<1>5. ASSUME NEW d \in Display PROVE DisplayInv(d)
  <2>1. d \in Client
    BY ClientAssumption
  <2>2. Off(d) /\ log[d] = <<>> /\ latest[d] = 0 /\ saved[d] = <<>> /\ queue[d] = <<>> /\ ~flushing[d] /\ awaiting[d] = {}
    BY <2>1, StoreOpens DEF StoreInit, ServerInit, Off
  <2>3. Good(<<>>, 0, events) /\ Persisted(UpTo(events, 0)) = <<>> /\ 0 \in 0..Len(events)
    BY <1>2, NoneIsGood, UpToSteps, PersistedSteps DEF Good
  <2> QED BY <2>2, <2>3 DEF DisplayInv
<1> QED BY <1>3, <1>4, <1>5 DEF ShowingInv

\* Every step leaves each client its variables.
LEMMA WiresStay == Wired /\ [StoreNext]_storeVars => Wired'
<1> SUFFICES ASSUME Wired, [StoreNext]_storeVars PROVE Wired'
  OBVIOUS
<1>1. CASE UNCHANGED storeVars
  BY <1>1 DEF storeVars, serverVars, copyVars, linkVars, queueVars, Wired
<1>2. ASSUME NEW c \in Client, Connect(c) \/ Drop(c) \/ Reload(c) \/ ShowOffline(c) PROVE Wired'
  BY <1>2 DEF Wired, Connect, Drop, Reload, EndFlush, ShowOffline, Disconnect, serverVars, copyVars, queueVars
<1>3. ASSUME NEW c \in Client, Uses(c) PROVE Wired'
  BY <1>3 DEF Wired, Uses, MakeEvent, MakeLive, Emit, serverVars, copyVars, linkVars, queueVars
<1>4. ASSUME NEW c \in Client, Receives(c) PROVE Wired'
  <2>1. CASE ReceiveJoined(c)
    BY <2>1 DEF Wired, ReceiveJoined, StartFlush, Take, Answering
  <2>2. CASE ReceiveEvent(c)
    BY <2>2 DEF Wired, ReceiveEvent, Take, Answering, linkVars, queueVars
  <2>3. CASE ReceiveAck(c)
    BY <2>3 DEF Wired, ReceiveAck, Take, Answering, linkVars, queueVars
  <2>4. CASE ReceiveReject(c)
    BY <2>4 DEF Wired, ReceiveReject, Take, Answering, linkVars, queueVars
  <2>5. CASE ReceiveError(c)
    BY <2>5 DEF Wired, ReceiveError, Take, Answering, copyVars, queueVars
  <2> QED BY <1>4, <2>1, <2>2, <2>3, <2>4, <2>5 DEF Receives
<1>5. ASSUME NEW c \in Client, Flushes(c) PROVE Wired'
  BY <1>5 DEF Wired, Flushes, FlushNext, FlushAnswered, FlushTimeout, Answered, NextItem, EndFlush, Emit, serverVars, copyVars, linkVars
<1>6. ASSUME NEW c \in Client, ServerAnswers(c) PROVE Wired'
  <2>1. UNCHANGED <<copyVars, linkVars, queueVars>>
    BY <1>6 DEF ServerAnswers
  <2>2. DOMAIN toServer' = Client /\ DOMAIN toClient' = Client
    <3>1. CASE HandleJoin(c)
      BY <3>1 DEF Wired, HandleJoin, Consume, Reply
    <3>2. CASE HandleResync(c)
      BY <3>2 DEF Wired, HandleResync, Consume, Reply
    <3>3. CASE HandleEventRefused(c)
      BY <3>3 DEF Wired, HandleEventRefused, Consume, Reply
    <3>4. CASE HandleEventDuplicate(c)
      BY <3>4 DEF Wired, HandleEventDuplicate, Consume, Reply
    <3>5. CASE HandleEventNew(c)
      BY <3>5 DEF Wired, HandleEventNew, Consume, Broadcast
    <3> QED BY <1>6, <3>1, <3>2, <3>3, <3>4, <3>5 DEF ServerAnswers, ServerHandles
  <2> QED BY <2>1, <2>2 DEF Wired, copyVars, linkVars, queueVars
<1>7. CASE ServerLost
  BY <1>7 DEF Wired, ServerLost, Restart, CrashAfterSave, LoseProcess, copyVars, queueVars
<1> QED BY <1>1, <1>2, <1>3, <1>4, <1>5, <1>6, <1>7 DEF StoreNext

\* A new event has the number of its place.
LEMMA NewIsNumbered ==
  ASSUME LogInv, Numbered(events), NEW c \in Client, HandleEventNew(c)
  PROVE  /\ Numbered(events')
         /\ \E e \in Entry : events' = Append(events, e) /\ Broadcast(c, e) /\ Consume(c) /\ room' = room
<1>1. PICK id \in Id : AppendEvent(id) /\ Broadcast(c, EventFor(id)) /\ Consume(c) /\ room' = room
  BY DEF HandleEventNew
<1>2. events \in Seq(Entry) /\ events # <<>>
  BY DEF LogInv, Shapes
<1>3. LastSeq(events) = Len(events) /\ Len(events) \in Nat
  BY <1>2, NumberedEnd
<1>4. EventFor(id) \in Entry /\ EventFor(id).seq = Len(events) + 1
  BY <1>3 DEF EventFor, NextSeq, Entry
<1>5. events' = Append(events, EventFor(id))
  BY <1>1 DEF AppendEvent
<1>6. Numbered(events')
  BY <1>2, <1>4, <1>5, NumberedEnd
<1> QED BY <1>1, <1>4, <1>5, <1>6

\* A display keeps its invariant with every step of every client and of the table, until
\* the process is lost.
LEMMA DisplayStep ==
  ASSUME LogInv, Numbered(events), Wired, NEW d \in Display, DisplayInv(d), [StoreNext]_storeVars, restarts' = 0
  PROVE  DisplayInv(d)'
<1>1. /\ d \in Client /\ d \notin Dealer
      /\ events \in Seq(Entry) /\ events # <<>> /\ restarts \in Nat
  BY ClientAssumption DEF LogInv, Shapes
<1>2. CASE UNCHANGED storeVars
  <2>1. SameView(d) /\ events' = events
    BY <1>2 DEF storeVars, serverVars, memory, copyVars, linkVars, queueVars, SameView
  <2> QED BY <2>1, ViewKept
<1>3. ~ServerLost
  BY <1>1 DEF ServerLost, Restart, CrashAfterSave, LoseProcess
<1>4. ASSUME NEW c \in Client, c # d,
             \/ Connect(c) \/ Drop(c) \/ Reload(c) \/ ShowOffline(c) \/ Uses(c) \/ Receives(c) \/ Flushes(c)
             \/ ServerAnswers(c) /\ ~HandleEventNew(c)
      PROVE  DisplayInv(d)'
  BY <1>1, <1>4, OthersLeave, ViewKept
<1>5. ASSUME NEW c \in Client, c # d, ServerAnswers(c), HandleEventNew(c)
      PROVE  DisplayInv(d)'
  <2>1. PICK e \in Entry : events' = Append(events, e) /\ Broadcast(c, e) /\ Consume(c) /\ room' = room
    BY <1>5, NewIsNumbered
  <2> QED BY <1>1, <1>5, <2>1, DisplayIsSentEvent DEF ServerAnswers
<1>6. CASE Connect(d) \/ Drop(d) \/ Reload(d) \/ ShowOffline(d)
  BY <1>1, <1>6, DisplayConnects, DisplayDrops, DisplayReloads, DisplayShowsOffline
<1>7. CASE Uses(d) \/ Receives(d) \/ Flushes(d)
  <2>1. ReceiveJoined(d) \/ ReceiveEvent(d)
    BY <1>7, DisplayIsQuiet DEF Receives
  <2> QED BY <1>1, <2>1, DisplayHearsPayload, DisplayHearsEvent
<1>8. CASE ServerAnswers(d)
  <2>1. HandleJoin(d)
    BY <1>8, DisplayIsQuiet DEF ServerAnswers, ServerHandles
  <2> QED BY <1>1, <1>8, <2>1, DisplayIsTold DEF ServerAnswers
<1> QED BY <1>2, <1>3, <1>4, <1>5, <1>6, <1>7, <1>8 DEF StoreNext

LEMMA ShowingStep ==
  LogInv /\ (restarts = 0 => ShowingInv) /\ [StoreNext]_storeVars => (restarts = 0 => ShowingInv)'
<1> SUFFICES ASSUME LogInv, restarts = 0 => ShowingInv, [StoreNext]_storeVars, restarts' = 0
             PROVE  ShowingInv'
  OBVIOUS
<1>1. ServerStep \/ UNCHANGED ServerState
  BY StoreStepsAreServerSteps
<1>2. restarts = 0 /\ ~Restart /\ \A c \in Client : ~CrashAfterSave(c)
  <2>1. restarts \in Nat
    BY DEF LogInv, Shapes
  <2>2. ~Restart /\ \A c \in Client : ~CrashAfterSave(c)
    BY <2>1 DEF Restart, CrashAfterSave, LoseProcess
  <2>3. restarts' = restarts
    BY <1>1, <2>2 DEF ServerState, ServerStep, ServerHandles, HandleJoin, HandleResync, HandleEventRefused,
                      HandleEventDuplicate, HandleEventNew, Disconnect
  <2> QED BY <2>2, <2>3
<1>3. Numbered(events) /\ Wired /\ \A d \in Display : DisplayInv(d)
  BY <1>2 DEF ShowingInv
<1>4. Wired'
  BY <1>3, WiresStay
<1>5. Numbered(events)'
  <2>1. CASE \E c \in Client : HandleEventNew(c)
    BY <1>3, <2>1, NewIsNumbered
  <2>2. CASE ~\E c \in Client : HandleEventNew(c)
    <3>1. events' = events
      BY <1>1, <1>2, <2>2 DEF ServerState, ServerStep, ServerHandles, HandleJoin, HandleResync, HandleEventRefused,
                              HandleEventDuplicate, Disconnect, memory
    <3> QED BY <1>3, <3>1
  <2> QED BY <2>1, <2>2
<1>6. ASSUME NEW d \in Display PROVE DisplayInv(d)'
  BY <1>3, DisplayStep
<1> QED BY <1>4, <1>5, <1>6 DEF ShowingInv

LEMMA ShowingShows ==
  ASSUME LogInv, ShowingInv, NEW d \in Display
  PROVE  /\ IsPrefix(Persisted(log[d]), Persisted(events))
         /\ Quiet(d) => Persisted(log[d]) = Persisted(events)
<1>1. events \in Seq(Entry)
  BY DEF LogInv, Shapes
<1>2. /\ DisplayInv(d) /\ latest[d] \in 0..Len(events)
      /\ Persisted(log[d]) = Persisted(UpTo(events, latest[d]))
  BY DEF ShowingInv, DisplayInv, Good
<1>3. IsPrefix(Persisted(log[d]), Persisted(events))
  BY <1>1, <1>2, PersistedPrefix
<1>4. ASSUME Quiet(d) PROVE Persisted(log[d]) = Persisted(events)
  <2>1. Hears(d)
    BY <1>2, <1>4 DEF Quiet, DisplayInv, Off, Asks, Told, Joining
  <2>2. Len(toClient[d]) = Len(events) - latest[d] /\ toClient[d] = <<>>
    BY <1>4, <2>1 DEF Hears, Hearing, Quiet
  <2>3. latest[d] = Len(events)
    BY <1>1, <1>2, <2>2
  <2> QED BY <1>1, <1>2, <2>3, UpToSteps
<1> QED BY <1>3, <1>4

LEMMA ShowingAlways == StoreSpec => [](LogInv /\ (restarts = 0 => ShowingInv))
<1>1. StoreInit => LogInv
  <2> SUFFICES ASSUME StoreInit PROVE LogInv
    OBVIOUS
  <2> QED BY StoreOpens, InitLog
<1>2. StoreInit => (restarts = 0 => ShowingInv)
  BY ShowingStarts
<1> QED BY <1>1, <1>2, StoreKeepsLog, ShowingStep, PTL DEF StoreSpec

\* For any clients and events, and however often a display loses its connection or its page
\* is loaded again: what it shows is the beginning of the log, as long as the process lives.
\* (After a restart the seqs of events without a row are given again, and a display that
\* showed them skips their successors.)
THEOREM DisplayAlwaysShowsPrefix == StoreSpec => [](restarts = 0 => DisplayShowsPrefix)
<1>1. LogInv /\ (restarts = 0 => ShowingInv) => (restarts = 0 => DisplayShowsPrefix)
  BY ShowingShows DEF DisplayShowsPrefix
<1> QED BY <1>1, ShowingAlways, PTL

\* ... and once nothing is on its way it shows all of it.
THEOREM DisplayCatchesUp ==
  StoreSpec => [](restarts = 0 => \A d \in Display : Quiet(d) => Persisted(log[d]) = Persisted(events))
<1>1. LogInv /\ (restarts = 0 => ShowingInv)
      => (restarts = 0 => \A d \in Display : Quiet(d) => Persisted(log[d]) = Persisted(events))
  BY ShowingShows
<1> QED BY <1>1, ShowingAlways, PTL

-----------------------------------------------------------------------------
(* The only writer of a table.  Its copy shows what it made before the table   *)
(* has numbered it, and live input may take the number that was guessed.  As   *)
(* the ids say in which order the events were made, it is enough to know which *)
(* of them the copy has, and which answers are still on their way.             *)

Lasts(e) == e.id.kind # "live"
InLog(e, s) == \E i \in DOMAIN s : s[i] = e
First == [seq |-> 1, id |-> Created]

Asking(id) == [op |-> "event", id |-> id]
Resync(n) == [op |-> "resync", since |-> n]
Call == [op: {"event"}, id: Id] \cup [op: {"resync"}, since: Nat]

Confirmation(id, n) == [op |-> "ack", id |-> id, seq |-> n]
Refusal(id) == [op |-> "reject", id |-> id]
Delta(n, s) == [op |-> "joined", replace |-> FALSE, seq |-> n, events |-> s]
Answer == [op: {"ack"}, id: Id, seq: Nat] \cup [op: {"reject"}, id: Id]
            \cup [op: {"event"}, event: Entry] \cup [op: {"joined"}, replace: {FALSE}, seq: Nat, events: Seq(Entry)]
Answers(m) == m.op \in {"ack", "reject"}

\* The events that last are in the order in which they were made, the m-th one the last.
InOrder(l, m) ==
  /\ \A i \in DOMAIN l : Lasts(l[i]) => l[i].id.n <= m
  /\ \A i, j \in DOMAIN l : i < j /\ Lasts(l[i]) /\ Lasts(l[j]) => l[i].id.n < l[j].id.n

\* The copy l, its highest seq and the events that wait for an answer.
Copied(l, top, pd, m) ==
  /\ l \in Seq(Entry) /\ top \in Nat /\ m \in Nat /\ DOMAIN pd \subseteq Id
  /\ \A id \in DOMAIN pd : id.kind # "live" /\ pd[id] \in DOMAIN l /\ l[pd[id]].id = id
  /\ \A i \in DOMAIN l : l[i].seq <= top
  /\ InOrder(l, m)

\* The log es is the writer's.
Written(w, es, m) ==
  /\ es \in Seq(Entry) /\ es # <<>> /\ Numbered(es) /\ InLog(First, es)
  /\ \A i, j \in DOMAIN es : i < j => es[i].id.n < es[j].id.n
  /\ \A i \in DOMAIN es : es[i].id = Created \/ (es[i].id.by = w /\ es[i].id.n <= m)

\* What lasts in the copy is in the log or waits; what lasts in the log is in the copy or is about
\* to be confirmed there.
Agrees(l, pd, es, ms) ==
  /\ \A i \in DOMAIN l : Lasts(l[i]) => l[i].id \in DOMAIN pd \/ InLog(l[i], es)
  /\ \A i \in DOMAIN es : Lasts(es[i]) =>
       IF es[i].id \in DOMAIN pd THEN InLog(Confirmation(es[i].id, es[i].seq), ms) ELSE InLog(es[i], l)

\* The calls on their way: events that are not in the log, in their order, and resyncs from an
\* event of the log.
Calls(w, cs, es, pd, m) ==
  /\ cs \in Seq(Call)
  /\ \A k \in DOMAIN cs : cs[k].op = "event" =>
       /\ cs[k].id.by = w /\ cs[k].id.n <= m /\ (cs[k].id.kind # "live" => cs[k].id \in DOMAIN pd)
       /\ \A i \in DOMAIN es : es[i].id.n < cs[k].id.n
  /\ \A k \in DOMAIN cs : cs[k].op = "resync" => 1 <= cs[k].since /\ cs[k].since < Len(es)
  /\ \A j, k \in DOMAIN cs : j < k /\ cs[j].op = "event" /\ cs[k].op = "event" => cs[j].id.n < cs[k].id.n

\* An event that the k-th message brings comes after its confirmation, if it still waits for it.
Known(e, k, ms, es, pd) ==
  /\ InLog(e, es)
  /\ Lasts(e) /\ e.id \in DOMAIN pd => \E j \in DOMAIN ms : j < k /\ ms[j] = Confirmation(e.id, e.seq)

\* What the k-th message says is so.
Says(k, ms, es, pd, cs) ==
  LET m == ms[k] IN
  /\ m.op = "ack" => InLog([seq |-> m.seq, id |-> m.id], es) /\ (m.id.kind # "live" => m.id \in DOMAIN pd)
  /\ m.op = "reject" => /\ \A i \in DOMAIN es : es[i].id # m.id
                        /\ \A j \in DOMAIN cs : cs[j].op = "event" => cs[j].id # m.id
  /\ m.op = "event" => Known(m.event, k, ms, es, pd)
  /\ m.op = "joined" => \A i \in DOMAIN m.events : Known(m.events[i], k, ms, es, pd)

Heard(ms, es, pd, cs, m) ==
  /\ ms \in Seq(Answer)
  /\ \A k \in DOMAIN ms : Says(k, ms, es, pd, cs)
  /\ \A k \in DOMAIN ms : Answers(ms[k]) => ms[k].id.n <= m
  /\ \A j, k \in DOMAIN ms : j < k /\ Answers(ms[j]) /\ Answers(ms[k]) => ms[j].id # ms[k].id

\* Every event that waits was sent or is answered.
Waits(pd, cs, ms) ==
  \A id \in DOMAIN pd : \/ \E k \in DOMAIN cs : cs[k] = Asking(id)
                        \/ \E k \in DOMAIN ms : Answers(ms[k]) /\ ms[k].id = id

Sound(w, l, top, pd, es, cs, ms, m) ==
  /\ Copied(l, top, pd, m) /\ Written(w, es, m) /\ Agrees(l, pd, es, ms)
  /\ Calls(w, cs, es, pd, m) /\ Heard(ms, es, pd, cs, m) /\ Waits(pd, cs, ms)

LEMMA ElementOf ==
  ASSUME NEW S, NEW s \in Seq(S)
  PROVE  \A i \in DOMAIN s : i \in Nat /\ i >= 1 /\ s[i] \in S
OBVIOUS

LEMMA CallKinds ==
  /\ \A id \in Id : Asking(id) \in Call /\ Asking(id).op = "event" /\ Asking(id).id = id
  /\ \A n \in Nat : Resync(n) \in Call /\ Resync(n).op = "resync" /\ Resync(n).since = n
  /\ \A c \in Call : /\ c.op \in {"event", "resync"}
                     /\ c.op = "event" => c.id \in Id /\ c = Asking(c.id)
                     /\ c.op = "resync" => c.since \in Nat
BY DEF Asking, Resync, Call

LEMMA AnswerKinds ==
  /\ \A id \in Id, n \in Nat : /\ Confirmation(id, n) \in Answer /\ Confirmation(id, n).op = "ack"
                               /\ Confirmation(id, n).id = id /\ Confirmation(id, n).seq = n
  /\ \A id \in Id : Refusal(id) \in Answer /\ Refusal(id).op = "reject" /\ Refusal(id).id = id
  /\ \A e \in Entry : Announcement(e) \in Answer /\ Announcement(e).op = "event" /\ Announcement(e).event = e
  /\ \A n \in Nat, s \in Seq(Entry) : Delta(n, s) \in Answer /\ Delta(n, s).op = "joined" /\ Delta(n, s).events = s
BY DEF Confirmation, Refusal, Announcement, Delta, Answer

LEMMA AnswerParts ==
  ASSUME NEW m \in Answer
  PROVE  /\ m.op \in {"ack", "reject", "event", "joined"}
         /\ m.op = "ack" => m.id \in Id /\ m.seq \in Nat /\ m = Confirmation(m.id, m.seq)
         /\ m.op = "reject" => m.id \in Id
         /\ m.op = "event" => m.event \in Entry
         /\ m.op = "joined" => ~m.replace /\ m.seq \in Nat /\ m.events \in Seq(Entry)
<1>1. CASE m \in [op: {"ack"}, id: Id, seq: Nat]
  <2>1. m.op = "ack" /\ m.id \in Id /\ m.seq \in Nat /\ m = [op |-> m.op, id |-> m.id, seq |-> m.seq]
    BY <1>1
  <2> QED BY <2>1 DEF Confirmation
<1>2. CASE m \in [op: {"reject"}, id: Id]
  <2>1. m.op = "reject" /\ m.id \in Id
    BY <1>2
  <2> QED BY <2>1
<1>3. CASE m \in [op: {"event"}, event: Entry]
  <2>1. m.op = "event" /\ m.event \in Entry
    BY <1>3
  <2> QED BY <2>1
<1>4. CASE m \in [op: {"joined"}, replace: {FALSE}, seq: Nat, events: Seq(Entry)]
  <2>1. m.op = "joined" /\ m.replace \in {FALSE} /\ m.seq \in Nat /\ m.events \in Seq(Entry)
    BY <1>4
  <2>2. ~m.replace
    BY ONLY <2>1, Zenon
  <2> QED BY <2>1, <2>2
<1> QED BY <1>1, <1>2, <1>3, <1>4 DEF Answer

LEMMA IdParts ==
  /\ \A id \in Id : id.by \in Client /\ id.n \in Nat /\ id.n >= 1
  /\ Created.n = 0 /\ Created.kind = "play" /\ First \in Entry /\ Lasts(First)
  /\ \A e \in Entry : e.id.n \in Nat /\ e.seq \in Nat
<1>1. \A id \in Id : id.by \in Client /\ id.n \in Nat /\ id.n >= 1
  BY BoundAssumption DEF Id
<1>2. Created.n = 0 /\ Created.kind = "play" /\ First \in Entry /\ Lasts(First)
  BY DEF Created, First, Entry, Lasts
<1>3. \A e \in Entry : e.id.n \in Nat /\ e.seq \in Nat
  BY <1>1, <1>2, EntryParts
<1> QED BY <1>1, <1>2, <1>3

LEMMA InMore ==
  ASSUME NEW S, NEW s \in Seq(S), NEW x \in S
  PROVE  InLog(x, Append(s, x)) /\ \A e : InLog(e, s) => InLog(e, Append(s, x))
<1> DEFINE r == Append(s, x)
<1>1. /\ Len(s) \in Nat /\ DOMAIN s = 1..Len(s) /\ DOMAIN r = 1..(Len(s) + 1)
      /\ r[Len(s) + 1] = x /\ \A i \in 1..Len(s) : r[i] = s[i]
  BY AppendParts
<1> HIDE DEF r
<1>2. Len(s) + 1 \in DOMAIN r /\ \A i \in DOMAIN s : i \in DOMAIN r
  BY <1>1
<1>3. InLog(x, r)
  BY <1>1, <1>2 DEF InLog
<1>4. ASSUME NEW e, InLog(e, s) PROVE InLog(e, r)
  BY <1>1, <1>2, <1>4 DEF InLog
<1> QED BY <1>3, <1>4 DEF r

\* Of the events that last there is one for a number.
LEMMA OneForNumber ==
  ASSUME NEW l, NEW m, l \in Seq(Entry), InOrder(l, m)
  PROVE  \A i, j \in DOMAIN l : Lasts(l[i]) /\ Lasts(l[j]) /\ l[i].id.n = l[j].id.n => i = j
<1> SUFFICES ASSUME NEW i \in DOMAIN l, NEW j \in DOMAIN l, Lasts(l[i]), Lasts(l[j]), l[i].id.n = l[j].id.n, i # j
             PROVE  FALSE
  OBVIOUS
<1>1. i \in Nat /\ j \in Nat /\ l[i] \in Entry /\ l[j] \in Entry
  BY ElementOf
<1>2. l[i].id.n \in Nat
  BY <1>1, IdParts
<1>3. i < j \/ j < i
  BY <1>1
<1> QED BY <1>2, <1>3 DEF InOrder

LEMMA OneInLog ==
  ASSUME NEW w, NEW es, NEW m, Written(w, es, m)
  PROVE  \A i, j \in DOMAIN es : es[i].id.n = es[j].id.n => i = j
<1> SUFFICES ASSUME NEW i \in DOMAIN es, NEW j \in DOMAIN es, es[i].id.n = es[j].id.n, i # j
             PROVE  FALSE
  OBVIOUS
<1>1. i \in Nat /\ j \in Nat /\ es[i] \in Entry /\ es[j] \in Entry
  BY ElementOf DEF Written
<1>2. es[i].id.n \in Nat
  BY <1>1, IdParts
<1>3. i < j \/ j < i
  BY <1>1
<1> QED BY <1>2, <1>3 DEF Written

\* A new event is sent: it is the last of the calls.
LEMMA CallMade ==
  ASSUME NEW w, NEW cs, NEW es, NEW pd, NEW m \in Nat, Calls(w, cs, es, pd, m), Written(w, es, m),
         NEW id \in Id, id.by = w, id.n = m + 1, NEW pd2, DOMAIN pd \subseteq DOMAIN pd2,
         id.kind # "live" => id \in DOMAIN pd2
  PROVE  Calls(w, Append(cs, Asking(id)), es, pd2, m + 1)
<1> DEFINE a == Asking(id)
           r == Append(cs, a)
<1>1. a \in Call /\ a.op = "event" /\ a.id = id
  BY CallKinds
<1>2. cs \in Seq(Call)
  BY DEF Calls
<1> HIDE DEF a
<1>3. /\ Len(cs) \in Nat /\ DOMAIN cs = 1..Len(cs) /\ r \in Seq(Call) /\ DOMAIN r = 1..(Len(cs) + 1)
      /\ r[Len(cs) + 1] = a /\ \A i \in 1..Len(cs) : r[i] = cs[i] /\ cs[i] \in Call
  BY <1>1, <1>2, AppendParts
<1> HIDE DEF r
<1>4. \A k \in DOMAIN r : (k \in DOMAIN cs /\ r[k] = cs[k]) \/ (k = Len(cs) + 1 /\ r[k] = a)
  BY <1>3
<1>5. es \in Seq(Entry) /\ \A i \in DOMAIN es : es[i].id.n <= m
  <2>1. \A i \in DOMAIN es : es[i].id.n <= m
    BY IdParts DEF Written
  <2> QED BY <2>1 DEF Written
<1>6. \A i \in DOMAIN es : es[i].id.n \in Nat /\ es[i].id.n < m + 1
  <2> TAKE i \in DOMAIN es
  <2>1. es[i] \in Entry
    BY <1>5, ElementOf
  <2>2. es[i].id.n \in Nat
    BY <2>1, IdParts
  <2> QED BY <1>5, <2>2
<1>7. \A k \in DOMAIN cs : cs[k].op = "event" => cs[k].id.n \in Nat /\ cs[k].id.n <= m /\ cs[k].id.n < m + 1
  <2> SUFFICES ASSUME NEW k \in DOMAIN cs, cs[k].op = "event"
               PROVE  cs[k].id.n \in Nat /\ cs[k].id.n <= m /\ cs[k].id.n < m + 1
    OBVIOUS
  <2>1. cs[k].id \in Id
    BY <1>3, CallKinds
  <2>2. cs[k].id.n \in Nat /\ cs[k].id.n <= m
    BY <2>1, IdParts DEF Calls
  <2> QED BY <2>2
<1>8. ASSUME NEW k \in DOMAIN r, r[k].op = "event"
      PROVE  /\ r[k].id.by = w /\ r[k].id.n <= m + 1 /\ (r[k].id.kind # "live" => r[k].id \in DOMAIN pd2)
             /\ \A i \in DOMAIN es : es[i].id.n < r[k].id.n
  <2>1. CASE k \in DOMAIN cs /\ r[k] = cs[k]
    <3>1. r[k].id.n <= m + 1
      BY <1>7, <1>8, <2>1
    <3> QED BY <1>8, <2>1, <3>1 DEF Calls
  <2>2. CASE r[k] = a
    BY <1>1, <1>6, <2>2
  <2> QED BY <1>4, <2>1, <2>2
<1>9. ASSUME NEW k \in DOMAIN r, r[k].op = "resync"
      PROVE  1 <= r[k].since /\ r[k].since < Len(es)
  BY <1>1, <1>4, <1>9 DEF Calls
<1>10. ASSUME NEW j \in DOMAIN r, NEW k \in DOMAIN r, j < k, r[j].op = "event", r[k].op = "event"
       PROVE  r[j].id.n < r[k].id.n
  <2>1. CASE k \in DOMAIN cs /\ r[k] = cs[k]
    <3>1. j \in DOMAIN cs /\ r[j] = cs[j]
      BY <1>3, <1>10, <2>1
    <3> QED BY <1>10, <2>1, <3>1 DEF Calls
  <2>2. CASE k = Len(cs) + 1 /\ r[k] = a
    <3>1. j \in DOMAIN cs /\ r[j] = cs[j]
      BY <1>3, <1>10, <2>2
    <3> QED BY <1>1, <1>7, <1>10, <2>2, <3>1
  <2> QED BY <1>4, <2>1, <2>2
<1>11. Calls(w, r, es, pd2, m + 1)
  BY <1>3, <1>8, <1>9, <1>10 DEF Calls
<1> QED BY <1>11 DEF r, a

\* What was answered is not about an event that is made only now.
LEMMA HeardBefore ==
  ASSUME NEW w, NEW ms, NEW cs, NEW es, NEW pd, NEW m \in Nat, Heard(ms, es, pd, cs, m), Written(w, es, m),
         cs \in Seq(Call), NEW id \in Id, id.n = m + 1,
         NEW pd2, DOMAIN pd \subseteq DOMAIN pd2, DOMAIN pd2 \subseteq DOMAIN pd \cup {id}
  PROVE  Heard(ms, es, pd2, Append(cs, Asking(id)), m + 1)
<1> DEFINE a == Asking(id)
           r == Append(cs, a)
<1>1. a \in Call /\ a.op = "event" /\ a.id = id
  BY CallKinds
<1> HIDE DEF a
<1>2. /\ Len(cs) \in Nat /\ DOMAIN cs = 1..Len(cs) /\ DOMAIN r = 1..(Len(cs) + 1)
      /\ r[Len(cs) + 1] = a /\ \A i \in 1..Len(cs) : r[i] = cs[i]
  BY <1>1, AppendParts
<1> HIDE DEF r
<1>3. \A k \in DOMAIN r : (k \in DOMAIN cs /\ r[k] = cs[k]) \/ r[k] = a
  BY <1>2
<1>4. ASSUME NEW e, InLog(e, es) PROVE e.id \in DOMAIN pd2 => e.id \in DOMAIN pd
  <2>1. PICK i \in DOMAIN es : es[i] = e
    BY <1>4 DEF InLog
  <2>2. e.id = Created \/ e.id.n <= m
    BY <2>1 DEF Written
  <2>3. e.id # id
    <3>1. m + 1 # 0 /\ ~(m + 1 <= m)
      OBVIOUS
    <3> QED BY <2>2, <3>1, IdParts
  <2> QED BY <2>3
<1>5. ASSUME NEW k, NEW e, Known(e, k, ms, es, pd) PROVE Known(e, k, ms, es, pd2)
  BY <1>4, <1>5 DEF Known
<1>6. ms \in Seq(Answer)
  BY DEF Heard
<1>7. ASSUME NEW k \in DOMAIN ms, Answers(ms[k])
      PROVE  ms[k].id # id /\ ms[k].id.n <= m + 1
  <2>1. ms[k] \in Answer
    BY <1>6, ElementOf
  <2>2. ms[k].id \in Id
    BY <1>7, <2>1, AnswerParts DEF Answers
  <2>3. ms[k].id.n \in Nat /\ ms[k].id.n <= m
    BY <1>7, <2>2, IdParts DEF Heard
  <2>4. ms[k].id.n # m + 1 /\ ms[k].id.n <= m + 1
    BY <2>3
  <2> QED BY <2>4
<1>8. ASSUME NEW k \in DOMAIN ms PROVE Says(k, ms, es, pd2, r)
  <2>1. Says(k, ms, es, pd, cs)
    BY DEF Heard
  <2>2. ASSUME ms[k].op = "ack"
        PROVE  InLog([seq |-> ms[k].seq, id |-> ms[k].id], es) /\ (ms[k].id.kind # "live" => ms[k].id \in DOMAIN pd2)
    BY <2>1, <2>2 DEF Says
  <2>3. ASSUME ms[k].op = "reject"
        PROVE  /\ \A i \in DOMAIN es : es[i].id # ms[k].id
               /\ \A j \in DOMAIN r : r[j].op = "event" => r[j].id # ms[k].id
    <3>1. ms[k].id # id
      BY <1>7, <2>3 DEF Answers
    <3>2. \A i \in DOMAIN es : es[i].id # ms[k].id
      BY <2>1, <2>3 DEF Says
    <3>3. \A j \in DOMAIN cs : cs[j].op = "event" => cs[j].id # ms[k].id
      BY <2>1, <2>3 DEF Says
    <3> QED BY <1>1, <1>3, <3>1, <3>2, <3>3
  <2>4. ASSUME ms[k].op = "event" PROVE Known(ms[k].event, k, ms, es, pd2)
    BY <1>5, <2>1, <2>4 DEF Says
  <2>5. ASSUME ms[k].op = "joined" PROVE \A i \in DOMAIN ms[k].events : Known(ms[k].events[i], k, ms, es, pd2)
    BY <1>5, <2>1, <2>5 DEF Says
  <2> QED BY <2>2, <2>3, <2>4, <2>5 DEF Says
<1>9. Heard(ms, es, pd2, r, m + 1)
  BY <1>6, <1>7, <1>8 DEF Heard
<1> QED BY <1>9 DEF r, a

LEMMA WaitsOn ==
  ASSUME NEW cs, cs \in Seq(Call), NEW pd, NEW ms, Waits(pd, cs, ms), NEW id \in Id,
         NEW pd2, DOMAIN pd2 \subseteq DOMAIN pd \cup {id}
  PROVE  Waits(pd2, Append(cs, Asking(id)), ms)
<1> DEFINE a == Asking(id)
           r == Append(cs, a)
<1>1. a \in Call
  BY CallKinds
<1> HIDE DEF a
<1>2. /\ Len(cs) \in Nat /\ DOMAIN cs = 1..Len(cs) /\ DOMAIN r = 1..(Len(cs) + 1)
      /\ r[Len(cs) + 1] = a /\ \A i \in 1..Len(cs) : r[i] = cs[i]
  BY <1>1, AppendParts
<1> HIDE DEF r
<1>3. (\A k \in DOMAIN cs : k \in DOMAIN r /\ r[k] = cs[k]) /\ Len(cs) + 1 \in DOMAIN r
  BY <1>2
<1>4. ASSUME NEW x \in DOMAIN pd2
      PROVE  \/ \E k \in DOMAIN r : r[k] = Asking(x)
             \/ \E k \in DOMAIN ms : Answers(ms[k]) /\ ms[k].id = x
  <2>1. CASE x = id
    BY <1>2, <1>3, <2>1 DEF a
  <2>2. CASE x \in DOMAIN pd
    BY <1>3, <2>2 DEF Waits
  <2> QED BY <2>1, <2>2
<1>5. Waits(pd2, r, ms)
  BY <1>4 DEF Waits
<1> QED BY <1>5 DEF r, a

LEMMA WrittenOn ==
  ASSUME NEW w, NEW es, NEW m \in Nat, Written(w, es, m)
  PROVE  Written(w, es, m + 1)
<1>1. ASSUME NEW i \in DOMAIN es PROVE es[i].id = Created \/ (es[i].id.by = w /\ es[i].id.n <= m + 1)
  <2>1. es[i] \in Entry
    BY ElementOf DEF Written
  <2>2. es[i].id.n \in Nat
    BY <2>1, IdParts
  <2>3. es[i].id.n <= m => es[i].id.n <= m + 1
    BY <2>2
  <2> QED BY <2>3 DEF Written
<1> QED BY <1>1 DEF Written

\* The copy after an own event was shown.
LEMMA CopyShows ==
  ASSUME NEW l, NEW top, NEW pd, NEW m, Copied(l, top, pd, m), NEW id \in Id, id.n = m + 1, id.kind # "live"
  PROVE  LET e == [seq |-> top + 1, id |-> id]
             pd2 == [x \in DOMAIN pd \cup {id} |-> IF x = id THEN Len(Append(l, e)) ELSE pd[x]]
         IN e \in Entry /\ Copied(Append(l, e), top + 1, pd2, m + 1)
<1> DEFINE e == [seq |-> top + 1, id |-> id]
           r == Append(l, e)
           pd2 == [x \in DOMAIN pd \cup {id} |-> IF x = id THEN Len(r) ELSE pd[x]]
<1>1. l \in Seq(Entry) /\ top \in Nat /\ m \in Nat /\ m + 1 \in Nat /\ top + 1 \in Nat
  BY DEF Copied
<1>2. e \in Entry /\ e.seq = top + 1 /\ e.id = id
  BY <1>1 DEF Entry
<1> HIDE DEF e
<1>3. /\ Len(l) \in Nat /\ DOMAIN l = 1..Len(l) /\ r \in Seq(Entry) /\ DOMAIN r = 1..(Len(l) + 1)
      /\ Len(r) = Len(l) + 1 /\ r[Len(l) + 1] = e /\ \A i \in 1..Len(l) : r[i] = l[i] /\ l[i] \in Entry
  BY <1>1, <1>2, AppendParts
<1> HIDE DEF r
<1>4. \A k \in DOMAIN r : (k \in DOMAIN l /\ r[k] = l[k]) \/ (k = Len(l) + 1 /\ r[k] = e)
  BY <1>3
<1>5. DOMAIN pd2 = DOMAIN pd \cup {id} /\ DOMAIN pd2 \subseteq Id
  BY DEF Copied
<1>6. ASSUME NEW x \in DOMAIN pd2 PROVE x.kind # "live" /\ pd2[x] \in DOMAIN r /\ r[pd2[x]].id = x
  <2>1. CASE x = id
    <3>1. pd2[x] = Len(l) + 1
      BY <1>3, <2>1
    <3> QED BY <1>2, <1>3, <2>1, <3>1
  <2>2. CASE x # id
    <3>1. x \in DOMAIN pd /\ pd2[x] = pd[x]
      BY <2>2
    <3>2. x.kind # "live" /\ pd[x] \in DOMAIN l /\ l[pd[x]].id = x
      BY <3>1 DEF Copied
    <3> QED BY <1>3, <3>1, <3>2
  <2> QED BY <2>1, <2>2
<1> HIDE DEF pd2
<1>7. ASSUME NEW i \in DOMAIN r PROVE r[i].seq <= top + 1
  <2>1. CASE i \in DOMAIN l /\ r[i] = l[i]
    <3>1. l[i].seq \in Nat /\ l[i].seq <= top
      BY <1>3, <2>1, IdParts DEF Copied
    <3> QED BY <1>1, <2>1, <3>1
  <2>2. CASE r[i] = e
    BY <1>1, <1>2, <2>2
  <2> QED BY <1>4, <2>1, <2>2
<1>8. \A i \in DOMAIN l : Lasts(l[i]) => l[i].id.n < m + 1 /\ l[i].id.n <= m + 1
  <2> TAKE i \in DOMAIN l
  <2>1. l[i].id.n \in Nat
    BY <1>3, IdParts
  <2>2. Lasts(l[i]) => l[i].id.n <= m
    BY DEF Copied, InOrder
  <2> QED BY <1>1, <2>1, <2>2
<1>9. ASSUME NEW i \in DOMAIN r, Lasts(r[i]) PROVE r[i].id.n <= m + 1
  BY <1>1, <1>2, <1>4, <1>8, <1>9
<1>10. ASSUME NEW i \in DOMAIN r, NEW j \in DOMAIN r, i < j, Lasts(r[i]), Lasts(r[j])
       PROVE  r[i].id.n < r[j].id.n
  <2>1. i \in DOMAIN l /\ r[i] = l[i]
    BY <1>3, <1>10
  <2>2. CASE j \in DOMAIN l /\ r[j] = l[j]
    BY <1>10, <2>1, <2>2 DEF Copied, InOrder
  <2>3. CASE r[j] = e
    BY <1>2, <1>8, <1>10, <2>1, <2>3
  <2> QED BY <1>4, <2>2, <2>3
<1>11. InOrder(r, m + 1)
  BY <1>9, <1>10 DEF InOrder
<1>12. Copied(r, top + 1, pd2, m + 1)
  BY <1>1, <1>3, <1>5, <1>6, <1>7, <1>11 DEF Copied
<1> QED BY <1>2, <1>12 DEF e, r, pd2

LEMMA ShowsAgree ==
  ASSUME NEW w, NEW l, l \in Seq(Entry), NEW pd, NEW es, NEW ms, Agrees(l, pd, es, ms), NEW m \in Nat,
         Written(w, es, m), NEW e \in Entry, e.id.n = m + 1,
         NEW pd2, DOMAIN pd2 = DOMAIN pd \cup {e.id}
  PROVE  Agrees(Append(l, e), pd2, es, ms)
<1> DEFINE r == Append(l, e)
<1>1. /\ Len(l) \in Nat /\ DOMAIN l = 1..Len(l) /\ DOMAIN r = 1..(Len(l) + 1)
      /\ r[Len(l) + 1] = e /\ \A i \in 1..Len(l) : r[i] = l[i] /\ l[i] \in Entry
  BY AppendParts
<1>2. \A x : InLog(x, l) => InLog(x, r)
  BY InMore
<1> HIDE DEF r
<1>3. \A k \in DOMAIN r : (k \in DOMAIN l /\ r[k] = l[k]) \/ r[k] = e
  BY <1>1
<1>4. ASSUME NEW i \in DOMAIN r, Lasts(r[i]) PROVE r[i].id \in DOMAIN pd2 \/ InLog(r[i], es)
  BY <1>3, <1>4 DEF Agrees
<1>5. ASSUME NEW i \in DOMAIN es PROVE es[i].id # e.id
  <2>1. es[i].id = Created \/ es[i].id.n <= m
    BY DEF Written
  <2>2. m + 1 # 0 /\ ~(m + 1 <= m)
    OBVIOUS
  <2> QED BY <2>1, <2>2, IdParts
<1>6. ASSUME NEW i \in DOMAIN es, Lasts(es[i])
      PROVE  IF es[i].id \in DOMAIN pd2 THEN InLog(Confirmation(es[i].id, es[i].seq), ms) ELSE InLog(es[i], r)
  BY <1>2, <1>5, <1>6 DEF Agrees
<1>7. Agrees(r, pd2, es, ms)
  BY <1>4, <1>6 DEF Agrees
<1> QED BY <1>7 DEF r

\* sendPersistedEvent of a client that is online.
LEMMA OwnShown ==
  ASSUME NEW w, NEW l, NEW top, NEW pd, NEW es, NEW cs, NEW ms, NEW m, Sound(w, l, top, pd, es, cs, ms, m),
         NEW id \in Id, id.by = w, id.n = m + 1, id.kind # "live"
  PROVE  LET e == [seq |-> top + 1, id |-> id]
             pd2 == [x \in DOMAIN pd \cup {id} |-> IF x = id THEN Len(Append(l, e)) ELSE pd[x]]
         IN Sound(w, Append(l, e), top + 1, pd2, es, Append(cs, Asking(id)), ms, m + 1)
<1> DEFINE e == [seq |-> top + 1, id |-> id]
           pd2 == [x \in DOMAIN pd \cup {id} |-> IF x = id THEN Len(Append(l, e)) ELSE pd[x]]
<1>1. /\ Copied(l, top, pd, m) /\ Written(w, es, m) /\ Agrees(l, pd, es, ms)
      /\ Calls(w, cs, es, pd, m) /\ Heard(ms, es, pd, cs, m) /\ Waits(pd, cs, ms)
  BY DEF Sound
<1>2. l \in Seq(Entry) /\ m \in Nat /\ cs \in Seq(Call)
  BY <1>1 DEF Copied, Calls
<1>3. e \in Entry /\ Copied(Append(l, e), top + 1, pd2, m + 1)
  BY <1>1, CopyShows
<1>4. DOMAIN pd2 = DOMAIN pd \cup {id} /\ e.id = id
  OBVIOUS
<1> HIDE DEF e, pd2
<1>5. Written(w, es, m + 1)
  BY <1>1, <1>2, WrittenOn
<1>6. Agrees(Append(l, e), pd2, es, ms)
  BY <1>1, <1>2, <1>3, <1>4, ShowsAgree
<1>7. Calls(w, Append(cs, Asking(id)), es, pd2, m + 1)
  BY <1>1, <1>2, <1>4, CallMade
<1>8. Heard(ms, es, pd2, Append(cs, Asking(id)), m + 1)
  BY <1>1, <1>2, <1>4, HeardBefore
<1>9. Waits(pd2, Append(cs, Asking(id)), ms)
  BY <1>1, <1>2, <1>4, WaitsOn
<1>10. Sound(w, Append(l, e), top + 1, pd2, es, Append(cs, Asking(id)), ms, m + 1)
  BY <1>3, <1>5, <1>6, <1>7, <1>8, <1>9 DEF Sound
<1> QED BY <1>10 DEF e, pd2

\* emitLive.
LEMMA OwnInput ==
  ASSUME NEW w, NEW l, NEW top, NEW pd, NEW es, NEW cs, NEW ms, NEW m, Sound(w, l, top, pd, es, cs, ms, m),
         NEW id \in Id, id.by = w, id.n = m + 1, id.kind = "live"
  PROVE  Sound(w, l, top, pd, es, Append(cs, Asking(id)), ms, m + 1)
<1>1. /\ Copied(l, top, pd, m) /\ Written(w, es, m) /\ Agrees(l, pd, es, ms)
      /\ Calls(w, cs, es, pd, m) /\ Heard(ms, es, pd, cs, m) /\ Waits(pd, cs, ms)
  BY DEF Sound
<1>2. l \in Seq(Entry) /\ m \in Nat /\ m + 1 \in Nat /\ cs \in Seq(Call)
  BY <1>1 DEF Copied, Calls
<1>3. InOrder(l, m + 1)
  <2>1. ASSUME NEW i \in DOMAIN l, Lasts(l[i]) PROVE l[i].id.n <= m + 1
    <3>1. l[i].id.n \in Nat /\ l[i].id.n <= m
      BY <1>1, <1>2, <2>1, ElementOf, IdParts DEF Copied, InOrder
    <3> QED BY <1>2, <3>1
  <2> QED BY <1>1, <2>1 DEF Copied, InOrder
<1>4. Copied(l, top, pd, m + 1)
  BY <1>1, <1>2, <1>3 DEF Copied
<1>5. Written(w, es, m + 1)
  BY <1>1, <1>2, WrittenOn
<1>6. Calls(w, Append(cs, Asking(id)), es, pd, m + 1)
  BY <1>1, <1>2, CallMade
<1>7. Heard(ms, es, pd, Append(cs, Asking(id)), m + 1)
  BY <1>1, <1>2, HeardBefore
<1>8. Waits(pd, Append(cs, Asking(id)), ms)
  BY <1>1, <1>2, WaitsOn
<1> QED BY <1>1, <1>4, <1>5, <1>6, <1>7, <1>8 DEF Sound

-----------------------------------------------------------------------------
(* The table takes a call of the writer *)

LEMMA CallsTaken ==
  ASSUME NEW w, NEW cs, NEW es, NEW pd, NEW m, Calls(w, cs, es, pd, m), cs # <<>>
  PROVE  Calls(w, Tail(cs), es, pd, m)
<1> DEFINE r == Tail(cs)
<1>1. cs \in Seq(Call)
  BY DEF Calls
<1>2. /\ Len(cs) \in Nat \ {0} /\ DOMAIN cs = 1..Len(cs)
      /\ r \in Seq(Call) /\ DOMAIN r = 1..(Len(cs) - 1) /\ \A i \in DOMAIN r : r[i] = cs[i + 1]
  BY <1>1, FirstNews
<1> HIDE DEF r
<1>3. \A k \in DOMAIN r : k \in Nat /\ k + 1 \in DOMAIN cs /\ r[k] = cs[k + 1]
  BY <1>2
<1>4. ASSUME NEW j \in DOMAIN r, NEW k \in DOMAIN r, j < k, r[j].op = "event", r[k].op = "event"
      PROVE  r[j].id.n < r[k].id.n
  <2>1. j + 1 < k + 1
    BY <1>3, <1>4
  <2> QED BY <1>3, <1>4, <2>1 DEF Calls
<1>5. ASSUME NEW k \in DOMAIN r, r[k].op = "event"
      PROVE  /\ r[k].id.by = w /\ r[k].id.n <= m /\ (r[k].id.kind # "live" => r[k].id \in DOMAIN pd)
             /\ \A i \in DOMAIN es : es[i].id.n < r[k].id.n
  BY <1>3, <1>5 DEF Calls
<1>6. ASSUME NEW k \in DOMAIN r, r[k].op = "resync" PROVE 1 <= r[k].since /\ r[k].since < Len(es)
  BY <1>3, <1>6 DEF Calls
<1>7. Calls(w, r, es, pd, m)
  BY <1>2, <1>4, <1>5, <1>6 DEF Calls
<1> QED BY <1>7 DEF r

LEMMA HeardTaken ==
  ASSUME NEW cs, cs \in Seq(Call), NEW es, NEW pd, NEW m, NEW ms, Heard(ms, es, pd, cs, m), cs # <<>>
  PROVE  Heard(ms, es, pd, Tail(cs), m)
<1> DEFINE r == Tail(cs)
<1>1. /\ Len(cs) \in Nat \ {0} /\ DOMAIN cs = 1..Len(cs)
      /\ DOMAIN r = 1..(Len(cs) - 1) /\ \A i \in DOMAIN r : r[i] = cs[i + 1]
  BY FirstNews
<1> HIDE DEF r
<1>2. \A k \in DOMAIN r : k + 1 \in DOMAIN cs /\ r[k] = cs[k + 1]
  BY <1>1
<1>3. ASSUME NEW k \in DOMAIN ms PROVE Says(k, ms, es, pd, r)
  <2>1. Says(k, ms, es, pd, cs)
    BY DEF Heard
  <2> QED BY <1>2, <2>1 DEF Says
<1>4. Heard(ms, es, pd, r, m)
  BY <1>3 DEF Heard
<1> QED BY <1>4 DEF r

LEMMA HeardMore ==
  ASSUME NEW cs, NEW es, NEW pd, NEW m, NEW ms, Heard(ms, es, pd, cs, m), NEW a \in Answer,
         Says(Len(ms) + 1, Append(ms, a), es, pd, cs),
         Answers(a) => a.id.n <= m /\ \A k \in DOMAIN ms : Answers(ms[k]) => ms[k].id # a.id
  PROVE  Heard(Append(ms, a), es, pd, cs, m)
<1> DEFINE r == Append(ms, a)
<1>1. ms \in Seq(Answer)
  BY DEF Heard
<1>2. /\ Len(ms) \in Nat /\ DOMAIN ms = 1..Len(ms) /\ r \in Seq(Answer) /\ DOMAIN r = 1..(Len(ms) + 1)
      /\ r[Len(ms) + 1] = a /\ \A i \in 1..Len(ms) : r[i] = ms[i] /\ ms[i] \in Answer
  BY <1>1, AppendParts
<1>3. Says(Len(ms) + 1, r, es, pd, cs)
  OBVIOUS
<1> HIDE DEF r
<1>4. \A k \in DOMAIN r : (k \in DOMAIN ms /\ r[k] = ms[k]) \/ (k = Len(ms) + 1 /\ r[k] = a)
  BY <1>2
<1>5. \A k \in DOMAIN ms : k \in DOMAIN r /\ r[k] = ms[k]
  BY <1>2
<1>6. ASSUME NEW e, NEW k, Known(e, k, ms, es, pd) PROVE Known(e, k, r, es, pd)
  BY <1>5, <1>6 DEF Known
<1>7. ASSUME NEW k \in DOMAIN ms PROVE Says(k, r, es, pd, cs)
  <2>1. Says(k, ms, es, pd, cs) /\ r[k] = ms[k]
    BY <1>5 DEF Heard
  <2> QED BY <1>6, <2>1 DEF Says
<1>8. ASSUME NEW k \in DOMAIN r PROVE Says(k, r, es, pd, cs)
  BY <1>3, <1>4, <1>7
<1>9. ASSUME NEW k \in DOMAIN r, Answers(r[k]) PROVE r[k].id.n <= m
  BY <1>4, <1>9 DEF Heard
<1>10. ASSUME NEW j \in DOMAIN r, NEW k \in DOMAIN r, j < k, Answers(r[j]), Answers(r[k]) PROVE r[j].id # r[k].id
  <2>1. j \in DOMAIN ms /\ r[j] = ms[j]
    BY <1>2, <1>10
  <2>2. CASE k \in DOMAIN ms /\ r[k] = ms[k]
    BY <1>10, <2>1, <2>2 DEF Heard
  <2>3. CASE r[k] = a
    BY <1>10, <2>1, <2>3
  <2> QED BY <1>4, <2>2, <2>3
<1>11. Heard(r, es, pd, cs, m)
  BY <1>2, <1>8, <1>9, <1>10 DEF Heard
<1> QED BY <1>11 DEF r

LEMMA AgreesMore ==
  ASSUME NEW l, NEW pd, NEW es, NEW ms, ms \in Seq(Answer), Agrees(l, pd, es, ms), NEW a \in Answer
  PROVE  Agrees(l, pd, es, Append(ms, a))
<1> DEFINE r == Append(ms, a)
<1>1. \A x : InLog(x, ms) => InLog(x, r)
  BY InMore
<1> HIDE DEF r
<1>2. Agrees(l, pd, es, r)
  BY <1>1 DEF Agrees
<1> QED BY <1>2 DEF r

LEMMA WaitsMore ==
  ASSUME NEW pd, NEW cs, NEW ms, ms \in Seq(Answer), Waits(pd, cs, ms), NEW a \in Answer
  PROVE  Waits(pd, cs, Append(ms, a))
<1> DEFINE r == Append(ms, a)
<1>1. /\ Len(ms) \in Nat /\ DOMAIN ms = 1..Len(ms) /\ DOMAIN r = 1..(Len(ms) + 1)
      /\ \A i \in 1..Len(ms) : r[i] = ms[i]
  BY AppendParts
<1> HIDE DEF r
<1>2. \A k \in DOMAIN ms : k \in DOMAIN r /\ r[k] = ms[k]
  BY <1>1
<1>3. Waits(pd, cs, r)
  BY <1>2 DEF Waits
<1> QED BY <1>3 DEF r

LEMMA WaitsTaken ==
  ASSUME NEW pd, NEW cs, cs \in Seq(Call), cs # <<>>, NEW ms, ms \in Seq(Answer), Waits(pd, cs, ms), NEW a \in Answer,
         Head(cs).op = "event" => Answers(a) /\ a.id = Head(cs).id
  PROVE  Waits(pd, Tail(cs), Append(ms, a))
<1> DEFINE r == Append(ms, a)
           t == Tail(cs)
           h == Head(cs)
<1>1. /\ Len(ms) \in Nat /\ DOMAIN ms = 1..Len(ms) /\ DOMAIN r = 1..(Len(ms) + 1)
      /\ r[Len(ms) + 1] = a /\ \A i \in 1..Len(ms) : r[i] = ms[i]
  BY AppendParts
<1>2. /\ Len(cs) \in Nat \ {0} /\ DOMAIN cs = 1..Len(cs) /\ h = cs[1]
      /\ DOMAIN t = 1..(Len(cs) - 1) /\ \A i \in DOMAIN t : t[i] = cs[i + 1]
  BY FirstNews
<1> HIDE DEF r, t, h
<1>3. (\A k \in DOMAIN ms : k \in DOMAIN r /\ r[k] = ms[k]) /\ Len(ms) + 1 \in DOMAIN r
  BY <1>1
<1>4. ASSUME NEW id \in DOMAIN pd
      PROVE  \/ \E k \in DOMAIN t : t[k] = Asking(id)
             \/ \E k \in DOMAIN r : Answers(r[k]) /\ r[k].id = id
  <2>1. CASE \E k \in DOMAIN ms : Answers(ms[k]) /\ ms[k].id = id
    BY <1>3, <2>1
  <2>2. ASSUME NEW k \in DOMAIN cs, cs[k] = Asking(id), k = 1
        PROVE  \E i \in DOMAIN r : Answers(r[i]) /\ r[i].id = id
    <3>1. h.op = "event" /\ h.id = id
      BY <1>2, <2>2 DEF Asking
    <3> QED BY <1>1, <1>3, <3>1 DEF h
  <2>3. ASSUME NEW k \in DOMAIN cs, cs[k] = Asking(id), k # 1
        PROVE  \E i \in DOMAIN t : t[i] = Asking(id)
    <3>1. k - 1 \in DOMAIN t /\ (k - 1) + 1 = k
      BY <1>2, <2>3
    <3>2. t[k - 1] = cs[k]
      BY <1>2, <3>1
    <3> QED BY <2>3, <3>1, <3>2
  <2> QED BY <2>1, <2>2, <2>3 DEF Waits
<1>5. Waits(pd, t, r)
  BY <1>4 DEF Waits
<1> QED BY <1>5 DEF r, t

LEMMA TailIsKnown ==
  ASSUME NEW es, es \in Seq(Entry), Numbered(es), NEW n \in Nat
  PROVE  LET s == Selection(es, {e \in Entry : e.seq > n})
         IN s \in Seq(Entry) /\ \A i \in DOMAIN s : InLog(s[i], es)
<1> DEFINE s == Selection(es, {e \in Entry : e.seq > n})
           r == SubSeq(es, n + 1, Len(es))
<1>1. s = r
  BY SelectTail
<1>2. s \in Seq(Entry)
  BY SelectionSteps
<1>3. Len(es) \in Nat /\ DOMAIN es = 1..Len(es)
  OBVIOUS
<1> HIDE DEF s
<1>4. ASSUME NEW i \in DOMAIN r PROVE i \in Nat /\ n + i \in DOMAIN es /\ r[i] = es[n + i]
  <2>1. i \in Nat /\ 1 <= i /\ i <= Len(es) - n
    BY <1>3
  <2>2. r[i] = es[(n + 1) + i - 1] /\ (n + 1) + i - 1 = n + i
    BY <1>3, <2>1
  <2>3. n + i \in 1..Len(es)
    BY <1>3, <2>1
  <2> QED BY <1>3, <2>1, <2>2, <2>3
<1> HIDE DEF r
<1>6. \A i \in DOMAIN s : InLog(s[i], es)
  BY <1>1, <1>4 DEF InLog
<1> QED BY <1>2, <1>6 DEF s

\* An event of the log that still waits has its confirmation among the messages already.
LEMMA KnownNext ==
  ASSUME NEW l, NEW pd, NEW es, NEW ms, ms \in Seq(Answer), Agrees(l, pd, es, ms), NEW a \in Answer, NEW e, InLog(e, es)
  PROVE  Known(e, Len(ms) + 1, Append(ms, a), es, pd)
<1> DEFINE r == Append(ms, a)
<1>1. /\ Len(ms) \in Nat /\ DOMAIN ms = 1..Len(ms) /\ DOMAIN r = 1..(Len(ms) + 1)
      /\ \A i \in 1..Len(ms) : r[i] = ms[i]
  BY AppendParts
<1> HIDE DEF r
<1>2. \A k \in DOMAIN ms : k \in DOMAIN r /\ r[k] = ms[k] /\ k < Len(ms) + 1
  BY <1>1
<1>3. ASSUME Lasts(e), e.id \in DOMAIN pd
      PROVE  \E j \in DOMAIN r : j < Len(ms) + 1 /\ r[j] = Confirmation(e.id, e.seq)
  <2>1. InLog(Confirmation(e.id, e.seq), ms)
    BY <1>3 DEF Agrees, InLog
  <2> QED BY <1>2, <2>1 DEF InLog
<1>4. Known(e, Len(ms) + 1, r, es, pd)
  BY <1>3 DEF Known
<1> QED BY <1>4 DEF r

\* handleResync: the delta brings what follows.
LEMMA ResyncAnswered ==
  ASSUME NEW w, NEW l, NEW top, NEW pd, NEW es, NEW cs, NEW ms, NEW m, Sound(w, l, top, pd, es, cs, ms, m),
         cs # <<>>, Head(cs).op = "resync", NEW n \in Nat
  PROVE  Sound(w, l, top, pd, es, Tail(cs), Append(ms, Delta(Len(es), Selection(es, {e \in Entry : e.seq > n}))), m)
<1> DEFINE s == Selection(es, {e \in Entry : e.seq > n})
           a == Delta(Len(es), s)
           r == Append(ms, a)
<1>1. /\ Copied(l, top, pd, m) /\ Written(w, es, m) /\ Agrees(l, pd, es, ms)
      /\ Calls(w, cs, es, pd, m) /\ Heard(ms, es, pd, cs, m) /\ Waits(pd, cs, ms)
  BY DEF Sound
<1>2. es \in Seq(Entry) /\ Numbered(es) /\ cs \in Seq(Call) /\ ms \in Seq(Answer) /\ Len(es) \in Nat
  BY <1>1 DEF Written, Calls, Heard
<1>3. s \in Seq(Entry) /\ \A i \in DOMAIN s : InLog(s[i], es)
  BY <1>2, TailIsKnown
<1> HIDE DEF s
<1>4. a \in Answer /\ a.op = "joined" /\ a.events = s
  BY <1>2, <1>3, AnswerKinds
<1> HIDE DEF a
<1>5. r[Len(ms) + 1] = a
  BY <1>2, <1>4, AppendParts
<1>6. \A i \in DOMAIN s : Known(s[i], Len(ms) + 1, r, es, pd)
  BY <1>1, <1>2, <1>3, <1>4, KnownNext
<1>7. Says(Len(ms) + 1, r, es, pd, Tail(cs))
  BY <1>4, <1>5, <1>6 DEF Says
<1>8. Heard(ms, es, pd, Tail(cs), m)
  BY <1>1, <1>2, HeardTaken
<1>9. ~Answers(a)
  BY <1>4 DEF Answers
<1>10. Heard(r, es, pd, Tail(cs), m)
  BY <1>4, <1>7, <1>8, <1>9, HeardMore
<1>11. Calls(w, Tail(cs), es, pd, m)
  BY <1>1, CallsTaken
<1>12. Agrees(l, pd, es, r)
  BY <1>1, <1>2, <1>4, AgreesMore
<1>13. Waits(pd, Tail(cs), r)
  BY <1>1, <1>2, <1>4, WaitsTaken
<1>14. Sound(w, l, top, pd, es, Tail(cs), r, m)
  BY <1>1, <1>10, <1>11, <1>12, <1>13 DEF Sound
<1> QED BY <1>14 DEF r, a, s

\* The first call is an event that is not in the log and was not answered, and is not sent again.
LEMMA FirstCall ==
  ASSUME NEW w, NEW cs, NEW es, NEW pd, NEW m \in Nat, NEW ms, Calls(w, cs, es, pd, m), Heard(ms, es, pd, cs, m),
         es \in Seq(Entry), cs # <<>>, Head(cs).op = "event"
  PROVE  LET id == Head(cs).id
         IN /\ id \in Id /\ Head(cs) = Asking(id) /\ id.by = w /\ id.n <= m /\ (id.kind # "live" => id \in DOMAIN pd)
            /\ \A i \in DOMAIN es : es[i].id # id /\ es[i].id.n < id.n
            /\ \A k \in DOMAIN ms : Answers(ms[k]) => ms[k].id # id
            /\ \A k \in DOMAIN Tail(cs) : Tail(cs)[k].op = "event" => Tail(cs)[k].id # id /\ id.n < Tail(cs)[k].id.n
<1> DEFINE r == Tail(cs)
           h == Head(cs)
           id == h.id
<1>1. cs \in Seq(Call) /\ ms \in Seq(Answer)
  BY DEF Calls, Heard
<1>2. /\ Len(cs) \in Nat \ {0} /\ DOMAIN cs = 1..Len(cs) /\ h = cs[1] /\ h \in Call /\ 1 \in DOMAIN cs
      /\ DOMAIN r = 1..(Len(cs) - 1) /\ \A i \in DOMAIN r : r[i] = cs[i + 1]
  BY <1>1, FirstNews
<1>3. h.op = "event"
  OBVIOUS
<1> HIDE DEF r, h
<1>4. id \in Id /\ h = Asking(id) /\ id.n \in Nat
  BY <1>2, <1>3, CallKinds, IdParts
<1>5. /\ id.by = w /\ id.n <= m /\ (id.kind # "live" => id \in DOMAIN pd)
      /\ \A i \in DOMAIN es : es[i].id.n < id.n
  BY <1>2, <1>3 DEF Calls
<1> HIDE DEF id
<1>6. \A i \in DOMAIN es : es[i].id # id /\ es[i].id.n < id.n
  <2> TAKE i \in DOMAIN es
  <2>1. es[i].id.n < id.n
    BY <1>5
  <2>2. ~(id.n < id.n)
    BY <1>4
  <2> QED BY <2>1, <2>2
<1>7. ASSUME NEW k \in DOMAIN ms, Answers(ms[k]) PROVE ms[k].id # id
  <2>1. ms[k] \in Answer /\ Says(k, ms, es, pd, cs)
    BY <1>1, ElementOf DEF Heard
  <2>2. CASE ms[k].op = "ack"
    <3>1. InLog([seq |-> ms[k].seq, id |-> ms[k].id], es)
      BY <2>1, <2>2 DEF Says
    <3>2. PICK i \in DOMAIN es : es[i] = [seq |-> ms[k].seq, id |-> ms[k].id]
      BY <3>1 DEF InLog
    <3>3. es[i].id = ms[k].id
      BY <3>2
    <3> QED BY <1>6, <3>3
  <2>3. CASE ms[k].op = "reject"
    <3>1. \A j \in DOMAIN cs : cs[j].op = "event" => cs[j].id # ms[k].id
      BY <2>1, <2>3 DEF Says
    <3> QED BY <1>2, <1>3, <3>1 DEF id
  <2> QED BY <1>7, <2>2, <2>3 DEF Answers
<1>8. ASSUME NEW k \in DOMAIN r, r[k].op = "event" PROVE r[k].id # id /\ id.n < r[k].id.n
  <2>1. 1 < k + 1 /\ k + 1 \in DOMAIN cs /\ r[k] = cs[k + 1]
    BY <1>2
  <2>2. cs[1].id.n < cs[k + 1].id.n
    BY <1>2, <1>3, <1>8, <2>1 DEF Calls
  <2>3. id.n < r[k].id.n
    BY <1>2, <2>1, <2>2 DEF id
  <2>4. ~(id.n < id.n)
    BY <1>4
  <2> QED BY <2>3, <2>4
<1> QED BY <1>4, <1>5, <1>6, <1>7, <1>8 DEF id, h, r

\* A rejected event: the answer says that it will not be in the log.
LEMMA CallRefused ==
  ASSUME NEW w, NEW l, NEW top, NEW pd, NEW es, NEW cs, NEW ms, NEW m, Sound(w, l, top, pd, es, cs, ms, m),
         cs # <<>>, Head(cs).op = "event"
  PROVE  Sound(w, l, top, pd, es, Tail(cs), Append(ms, Refusal(Head(cs).id)), m)
<1> DEFINE id == Head(cs).id
           t == Tail(cs)
           a == Refusal(id)
           r == Append(ms, a)
<1>1. /\ Copied(l, top, pd, m) /\ Written(w, es, m) /\ Agrees(l, pd, es, ms)
      /\ Calls(w, cs, es, pd, m) /\ Heard(ms, es, pd, cs, m) /\ Waits(pd, cs, ms)
  BY DEF Sound
<1>2. es \in Seq(Entry) /\ cs \in Seq(Call) /\ ms \in Seq(Answer) /\ m \in Nat
  BY <1>1 DEF Copied, Written, Calls, Heard
<1>3. /\ id \in Id /\ id.n <= m /\ \A i \in DOMAIN es : es[i].id # id
      /\ \A k \in DOMAIN ms : Answers(ms[k]) => ms[k].id # id
      /\ \A k \in DOMAIN t : t[k].op = "event" => t[k].id # id
  BY <1>1, <1>2, FirstCall
<1>4. Heard(ms, es, pd, t, m) /\ Calls(w, t, es, pd, m)
  BY <1>1, <1>2, HeardTaken, CallsTaken
<1>5. Head(cs).id = id
  OBVIOUS
<1> HIDE DEF id
<1>6. a \in Answer /\ a.op = "reject" /\ a.id = id
  BY <1>3, AnswerKinds
<1> HIDE DEF a
<1>7. r[Len(ms) + 1] = a
  BY <1>2, <1>6, AppendParts
<1>8. Waits(pd, t, r)
  BY <1>1, <1>2, <1>5, <1>6, WaitsTaken DEF Answers
<1>9. Agrees(l, pd, es, r)
  BY <1>1, <1>2, <1>6, AgreesMore
<1> HIDE DEF t
<1>10. Says(Len(ms) + 1, r, es, pd, t)
  BY <1>3, <1>6, <1>7 DEF Says
<1>11. Heard(r, es, pd, t, m)
  BY <1>3, <1>4, <1>6, <1>10, HeardMore
<1>12. Sound(w, l, top, pd, es, t, r, m)
  BY <1>1, <1>4, <1>8, <1>9, <1>11 DEF Sound
<1> QED BY <1>12 DEF r, a, t, id

LEMMA LogGrows ==
  ASSUME NEW w, NEW es, NEW m \in Nat, Written(w, es, m), NEW e \in Entry, e.seq = Len(es) + 1,
         e.id.by = w, e.id.n <= m, \A i \in DOMAIN es : es[i].id.n < e.id.n
  PROVE  Written(w, Append(es, e), m)
<1> DEFINE r == Append(es, e)
<1>1. es \in Seq(Entry) /\ es # <<>> /\ Numbered(es) /\ InLog(First, es)
  BY DEF Written
<1>2. /\ Len(es) \in Nat /\ DOMAIN es = 1..Len(es) /\ r \in Seq(Entry) /\ r # <<>> /\ DOMAIN r = 1..(Len(es) + 1)
      /\ r[Len(es) + 1] = e /\ \A i \in 1..Len(es) : r[i] = es[i] /\ es[i] \in Entry
  BY <1>1, AppendParts
<1>3. Numbered(r) /\ InLog(First, r)
  BY <1>1, NumberedEnd, InMore
<1> HIDE DEF r
<1>4. \A k \in DOMAIN r : (k \in DOMAIN es /\ r[k] = es[k]) \/ r[k] = e
  BY <1>2
<1>5. ASSUME NEW i \in DOMAIN r, NEW j \in DOMAIN r, i < j PROVE r[i].id.n < r[j].id.n
  <2>1. i \in DOMAIN es /\ r[i] = es[i]
    BY <1>2, <1>5
  <2>2. CASE j \in DOMAIN es /\ r[j] = es[j]
    BY <1>5, <2>1, <2>2 DEF Written
  <2>3. CASE r[j] = e
    BY <2>1, <2>3
  <2> QED BY <1>4, <2>2, <2>3
<1>6. \A i \in DOMAIN r : r[i].id = Created \/ (r[i].id.by = w /\ r[i].id.n <= m)
  BY <1>4 DEF Written
<1>7. Written(w, r, m)
  BY <1>2, <1>3, <1>5, <1>6 DEF Written
<1> QED BY <1>7 DEF r

LEMMA CallsOfMore ==
  ASSUME NEW w, NEW cs, NEW es, es \in Seq(Entry), NEW pd, NEW m, Calls(w, cs, es, pd, m), NEW e \in Entry,
         \A k \in DOMAIN cs : cs[k].op = "event" => e.id.n < cs[k].id.n
  PROVE  Calls(w, cs, Append(es, e), pd, m)
<1> DEFINE r == Append(es, e)
<1>1. /\ Len(es) \in Nat /\ Len(r) = Len(es) + 1 /\ DOMAIN es = 1..Len(es) /\ DOMAIN r = 1..(Len(es) + 1)
      /\ r[Len(es) + 1] = e /\ \A i \in 1..Len(es) : r[i] = es[i]
  BY AppendParts
<1> HIDE DEF r
<1>2. \A i \in DOMAIN r : (i \in DOMAIN es /\ r[i] = es[i]) \/ r[i] = e
  BY <1>1
<1>3. ASSUME NEW k \in DOMAIN cs, cs[k].op = "event", NEW i \in DOMAIN r PROVE r[i].id.n < cs[k].id.n
  BY <1>2, <1>3 DEF Calls
<1>4. ASSUME NEW k \in DOMAIN cs, cs[k].op = "resync" PROVE 1 <= cs[k].since /\ cs[k].since < Len(r)
  <2>1. cs[k] \in Call /\ 1 <= cs[k].since /\ cs[k].since < Len(es)
    BY <1>4, ElementOf DEF Calls
  <2>2. cs[k].since \in Nat
    BY <1>4, <2>1, CallKinds
  <2> QED BY <1>1, <2>1, <2>2
<1>5. Calls(w, cs, r, pd, m)
  BY <1>3, <1>4 DEF Calls
<1> QED BY <1>5 DEF r

LEMMA HeardOfMore ==
  ASSUME NEW cs, NEW es, es \in Seq(Entry), NEW pd, NEW m, NEW ms, Heard(ms, es, pd, cs, m), NEW e \in Entry,
         \A k \in DOMAIN ms : Answers(ms[k]) => ms[k].id # e.id
  PROVE  Heard(ms, Append(es, e), pd, cs, m)
<1> DEFINE r == Append(es, e)
<1>1. /\ Len(es) \in Nat /\ DOMAIN es = 1..Len(es) /\ DOMAIN r = 1..(Len(es) + 1)
      /\ r[Len(es) + 1] = e /\ \A i \in 1..Len(es) : r[i] = es[i]
  BY AppendParts
<1>2. \A x : InLog(x, es) => InLog(x, r)
  BY InMore
<1> HIDE DEF r
<1>3. \A i \in DOMAIN r : (i \in DOMAIN es /\ r[i] = es[i]) \/ r[i] = e
  BY <1>1
<1>4. \A x, k : Known(x, k, ms, es, pd) => Known(x, k, ms, r, pd)
  BY <1>2 DEF Known
<1>5. ASSUME NEW k \in DOMAIN ms PROVE Says(k, ms, r, pd, cs)
  <2>1. Says(k, ms, es, pd, cs)
    BY DEF Heard
  <2>2. ms[k].op = "reject" => \A i \in DOMAIN r : r[i].id # ms[k].id
    BY <1>3, <2>1 DEF Says, Answers
  <2> QED BY <1>2, <1>4, <2>1, <2>2 DEF Says
<1>6. Heard(ms, r, pd, cs, m)
  BY <1>5 DEF Heard
<1> QED BY <1>6 DEF r

\* A new event of the log agrees with the copy, as its confirmation is sent.
LEMMA AgreesOfMore ==
  ASSUME NEW l, NEW pd, NEW es, es \in Seq(Entry), NEW ms, ms \in Seq(Answer), Agrees(l, pd, es, ms),
         NEW e \in Entry, Lasts(e) => e.id \in DOMAIN pd, e.id \in Id
  PROVE  Agrees(l, pd, Append(es, e), Append(ms, Confirmation(e.id, e.seq)))
<1> DEFINE r == Append(es, e)
           a == Confirmation(e.id, e.seq)
           t == Append(ms, a)
<1>1. /\ Len(es) \in Nat /\ DOMAIN es = 1..Len(es) /\ DOMAIN r = 1..(Len(es) + 1)
      /\ r[Len(es) + 1] = e /\ \A i \in 1..Len(es) : r[i] = es[i]
  BY AppendParts
<1>2. \A x : InLog(x, es) => InLog(x, r)
  BY InMore
<1>3. a \in Answer
  BY AnswerKinds, EntryParts
<1> HIDE DEF a
<1>4. InLog(a, t) /\ \A x : InLog(x, ms) => InLog(x, t)
  BY <1>3, InMore
<1> HIDE DEF r, t
<1>5. \A i \in DOMAIN r : (i \in DOMAIN es /\ r[i] = es[i]) \/ r[i] = e
  BY <1>1
<1>6. \A i \in DOMAIN l : Lasts(l[i]) => l[i].id \in DOMAIN pd \/ InLog(l[i], r)
  BY <1>2 DEF Agrees
<1>7. ASSUME NEW i \in DOMAIN r, Lasts(r[i])
      PROVE  IF r[i].id \in DOMAIN pd THEN InLog(Confirmation(r[i].id, r[i].seq), t) ELSE InLog(r[i], l)
  <2>1. CASE i \in DOMAIN es /\ r[i] = es[i]
    BY <1>4, <1>7, <2>1 DEF Agrees
  <2>2. CASE r[i] = e
    BY <1>4, <1>7, <2>2 DEF a
  <2> QED BY <1>5, <2>1, <2>2
<1>8. Agrees(l, pd, r, t)
  BY <1>6, <1>7 DEF Agrees
<1> QED BY <1>8 DEF r, t, a

\* A new event: the answer, and the event behind it.
LEMMA CallTaken ==
  ASSUME NEW w, NEW l, NEW top, NEW pd, NEW es, NEW cs, NEW ms, NEW m, Sound(w, l, top, pd, es, cs, ms, m),
         cs # <<>>, Head(cs).op = "event", NEW e, e = [seq |-> Len(es) + 1, id |-> Head(cs).id]
  PROVE  Sound(w, l, top, pd, Append(es, e), Tail(cs),
               Append(Append(ms, Confirmation(e.id, e.seq)), Announcement(e)), m)
<1> DEFINE id == Head(cs).id
           t == Tail(cs)
           r == Append(es, e)
           a == Confirmation(e.id, e.seq)
           b == Announcement(e)
           u == Append(ms, a)
           v == Append(u, b)
<1>1. /\ Copied(l, top, pd, m) /\ Written(w, es, m) /\ Agrees(l, pd, es, ms)
      /\ Calls(w, cs, es, pd, m) /\ Heard(ms, es, pd, cs, m) /\ Waits(pd, cs, ms)
  BY DEF Sound
<1>2. es \in Seq(Entry) /\ cs \in Seq(Call) /\ ms \in Seq(Answer) /\ m \in Nat /\ Len(es) + 1 \in Nat
  BY <1>1 DEF Copied, Written, Calls, Heard
<1>3. /\ id \in Id /\ id.by = w /\ id.n <= m /\ (id.kind # "live" => id \in DOMAIN pd)
      /\ \A i \in DOMAIN es : es[i].id # id /\ es[i].id.n < id.n
      /\ \A k \in DOMAIN ms : Answers(ms[k]) => ms[k].id # id
      /\ \A k \in DOMAIN t : t[k].op = "event" => t[k].id # id /\ id.n < t[k].id.n
  BY <1>1, <1>2, FirstCall
<1>4. Heard(ms, es, pd, t, m) /\ Calls(w, t, es, pd, m) /\ t \in Seq(Call)
  <2>1. Heard(ms, es, pd, t, m) /\ Calls(w, t, es, pd, m)
    BY <1>1, <1>2, HeardTaken, CallsTaken
  <2> QED BY <2>1 DEF Calls
<1>5. e.id = id /\ e.seq = Len(es) + 1 /\ e \in Entry /\ e = [seq |-> e.seq, id |-> e.id]
  BY <1>2, <1>3 DEF Entry
<1>6. Head(cs).id = id
  OBVIOUS
<1> HIDE DEF id
<1>7. a \in Answer /\ a.op = "ack" /\ a.id = id /\ a.seq = e.seq /\ a = Confirmation(e.id, e.seq)
  BY <1>2, <1>3, <1>5, AnswerKinds
<1>8. b \in Answer /\ b.op = "event" /\ b.event = e
  BY <1>5, AnswerKinds
<1>9. Agrees(l, pd, r, u)
  BY <1>1, <1>2, <1>3, <1>5, AgreesOfMore DEF Lasts
<1> HIDE DEF a, b
<1>10. Waits(pd, t, u)
  BY <1>1, <1>2, <1>6, <1>7, WaitsTaken DEF Answers
<1>11. /\ Len(ms) \in Nat /\ u \in Seq(Answer) /\ Len(u) = Len(ms) + 1 /\ u[Len(ms) + 1] = a
  BY <1>2, <1>7, AppendParts
<1>12. InLog(e, r)
  BY <1>2, <1>5, InMore
<1>13. Written(w, r, m)
  BY <1>1, <1>2, <1>3, <1>5, LogGrows
<1> HIDE DEF t
<1>14. Calls(w, t, r, pd, m)
  BY <1>2, <1>3, <1>4, <1>5, CallsOfMore
<1>15. Heard(ms, r, pd, t, m)
  BY <1>2, <1>3, <1>4, <1>5, HeardOfMore
<1> HIDE DEF u, r
<1>16. Says(Len(ms) + 1, u, r, pd, t)
  BY <1>3, <1>5, <1>7, <1>11, <1>12 DEF Says
<1>17. Heard(u, r, pd, t, m)
  <2>1. Says(Len(ms) + 1, Append(ms, a), r, pd, t)
    BY <1>16 DEF u
  <2>2. Heard(Append(ms, a), r, pd, t, m)
    BY <1>3, <1>7, <1>15, <2>1, HeardMore
  <2> QED BY <2>2 DEF u
<1>18. v[Len(u) + 1] = b
  BY <1>8, <1>11, AppendParts
<1>19. Known(e, Len(u) + 1, v, r, pd)
  BY <1>8, <1>9, <1>11, <1>12, KnownNext
<1>20. Says(Len(u) + 1, v, r, pd, t) /\ ~Answers(b)
  BY <1>8, <1>18, <1>19 DEF Says, Answers
<1>21. Heard(v, r, pd, t, m)
  BY <1>8, <1>17, <1>20, HeardMore
<1>22. Agrees(l, pd, r, v) /\ Waits(pd, t, v)
  BY <1>8, <1>9, <1>10, <1>11, AgreesMore, WaitsMore
<1>23. Sound(w, l, top, pd, r, t, v, m)
  BY <1>1, <1>13, <1>14, <1>21, <1>22 DEF Sound
<1> QED BY <1>23 DEF r, t, v, u, a, b

-----------------------------------------------------------------------------
(* The writer takes a message *)

\* The first message is taken; what it answers no longer waits, and nothing else stops waiting.
Settles(h, pd, pd2) ==
  /\ DOMAIN pd2 \subseteq DOMAIN pd
  /\ Answers(h) => h.id \notin DOMAIN pd2
  /\ \A id \in DOMAIN pd : id \in DOMAIN pd2 \/ (Answers(h) /\ h.id = id)

LEMMA LaterMessages ==
  ASSUME NEW ms, ms \in Seq(Answer), ms # <<>>
  PROVE  /\ 1 \in DOMAIN ms /\ Head(ms) = ms[1] /\ Tail(ms) \in Seq(Answer) /\ Head(ms) \in Answer
         /\ \A k \in DOMAIN Tail(ms) : k + 1 \in DOMAIN ms /\ Tail(ms)[k] = ms[k + 1] /\ 1 < k + 1 /\ k \in Nat
         /\ \A k \in DOMAIN ms : k # 1 => k - 1 \in DOMAIN Tail(ms) /\ Tail(ms)[k - 1] = ms[k] /\ k \in Nat
<1> DEFINE r == Tail(ms)
<1>1. /\ Len(ms) \in Nat \ {0} /\ DOMAIN ms = 1..Len(ms) /\ Head(ms) = ms[1] /\ 1 \in DOMAIN ms /\ Head(ms) \in Answer
      /\ r \in Seq(Answer) /\ DOMAIN r = 1..(Len(ms) - 1) /\ \A i \in DOMAIN r : r[i] = ms[i + 1]
  BY FirstNews
<1> HIDE DEF r
<1>2. \A k \in DOMAIN r : k + 1 \in DOMAIN ms /\ r[k] = ms[k + 1] /\ 1 < k + 1 /\ k \in Nat
  BY <1>1
<1>3. \A k \in DOMAIN ms : k # 1 => k - 1 \in DOMAIN r /\ r[k - 1] = ms[k] /\ k \in Nat
  <2> SUFFICES ASSUME NEW k \in DOMAIN ms, k # 1 PROVE k - 1 \in DOMAIN r /\ r[k - 1] = ms[k] /\ k \in Nat
    OBVIOUS
  <2>1. k \in Nat /\ k - 1 \in DOMAIN r /\ (k - 1) + 1 = k
    BY <1>1
  <2>2. r[k - 1] = ms[(k - 1) + 1]
    BY <1>1, <2>1
  <2> QED BY <2>1, <2>2
<1> QED BY <1>1, <1>2, <1>3 DEF r

LEMMA HeardOn ==
  ASSUME NEW ms, NEW es, NEW pd, NEW cs, NEW m, Heard(ms, es, pd, cs, m), ms # <<>>,
         NEW pd2, Settles(Head(ms), pd, pd2)
  PROVE  Heard(Tail(ms), es, pd2, cs, m)
<1> DEFINE r == Tail(ms)
           h == Head(ms)
<1>1. ms \in Seq(Answer)
  BY DEF Heard
<1>2. /\ 1 \in DOMAIN ms /\ h = ms[1] /\ r \in Seq(Answer)
      /\ \A k \in DOMAIN r : k + 1 \in DOMAIN ms /\ r[k] = ms[k + 1] /\ 1 < k + 1 /\ k \in Nat
      /\ \A k \in DOMAIN ms : k # 1 => k - 1 \in DOMAIN r /\ r[k - 1] = ms[k] /\ k \in Nat
  BY <1>1, LaterMessages
<1>3. Settles(h, pd, pd2)
  OBVIOUS
<1> HIDE DEF r, h
<1>4. ASSUME NEW e, NEW k \in Nat, Known(e, k + 1, ms, es, pd) PROVE Known(e, k, r, es, pd2)
  <2>1. ASSUME Lasts(e), e.id \in DOMAIN pd2
        PROVE  \E j \in DOMAIN r : j < k /\ r[j] = Confirmation(e.id, e.seq)
    <3>1. PICK j \in DOMAIN ms : j < k + 1 /\ ms[j] = Confirmation(e.id, e.seq)
      BY <1>3, <1>4, <2>1 DEF Known, Settles
    <3>2. ms[j].op = "ack" /\ ms[j].id = e.id
      BY <3>1 DEF Confirmation
    <3>3. j # 1
      BY <1>2, <1>3, <2>1, <3>2 DEF Settles, Answers
    <3>4. j - 1 \in DOMAIN r /\ r[j - 1] = ms[j] /\ j \in Nat
      BY <1>2, <3>3
    <3>5. j - 1 < k
      BY <3>1, <3>4
    <3> QED BY <3>1, <3>4, <3>5
  <2> QED BY <1>4, <2>1 DEF Known
<1>5. ASSUME NEW k \in DOMAIN r PROVE Says(k, r, es, pd2, cs)
  <2>1. Says(k + 1, ms, es, pd, cs) /\ r[k] = ms[k + 1] /\ k + 1 \in DOMAIN ms /\ k \in Nat
    BY <1>2 DEF Heard
  <2>2. ASSUME r[k].op = "ack"
        PROVE  InLog([seq |-> r[k].seq, id |-> r[k].id], es) /\ (r[k].id.kind # "live" => r[k].id \in DOMAIN pd2)
    <3>1. InLog([seq |-> r[k].seq, id |-> r[k].id], es) /\ (r[k].id.kind # "live" => r[k].id \in DOMAIN pd)
      BY <2>1, <2>2 DEF Says
    <3>2. Answers(h) => h.id # r[k].id
      <4> SUFFICES ASSUME Answers(h) PROVE h.id # r[k].id
        OBVIOUS
      <4>1. Answers(ms[k + 1]) /\ Answers(ms[1]) /\ 1 < k + 1
        BY <1>2, <2>1, <2>2 DEF Answers
      <4>2. ms[1].id # ms[k + 1].id
        BY <1>2, <2>1, <4>1 DEF Heard
      <4> QED BY <1>2, <2>1, <4>2
    <3> QED BY <1>3, <3>1, <3>2 DEF Settles
  <2>3. ASSUME r[k].op = "reject"
        PROVE  /\ \A i \in DOMAIN es : es[i].id # r[k].id
               /\ \A j \in DOMAIN cs : cs[j].op = "event" => cs[j].id # r[k].id
    BY <2>1, <2>3 DEF Says
  <2>4. ASSUME r[k].op = "event" PROVE Known(r[k].event, k, r, es, pd2)
    BY <1>4, <2>1, <2>4 DEF Says
  <2>5. ASSUME r[k].op = "joined" PROVE \A i \in DOMAIN r[k].events : Known(r[k].events[i], k, r, es, pd2)
    BY <1>4, <2>1, <2>5 DEF Says
  <2> QED BY <2>2, <2>3, <2>4, <2>5 DEF Says
<1>6. ASSUME NEW k \in DOMAIN r, Answers(r[k]) PROVE r[k].id.n <= m
  BY <1>2, <1>6 DEF Heard
<1>7. ASSUME NEW j \in DOMAIN r, NEW k \in DOMAIN r, j < k, Answers(r[j]), Answers(r[k]) PROVE r[j].id # r[k].id
  <2>1. j + 1 < k + 1
    BY <1>2, <1>7
  <2> QED BY <1>2, <1>7, <2>1 DEF Heard
<1>8. Heard(r, es, pd2, cs, m)
  BY <1>2, <1>5, <1>6, <1>7 DEF Heard
<1> QED BY <1>8 DEF r

LEMMA WaitsOver ==
  ASSUME NEW ms, ms \in Seq(Answer), ms # <<>>, NEW pd, NEW cs, Waits(pd, cs, ms),
         NEW pd2, Settles(Head(ms), pd, pd2)
  PROVE  Waits(pd2, cs, Tail(ms))
<1> DEFINE r == Tail(ms)
           h == Head(ms)
<1>1. h = ms[1] /\ \A k \in DOMAIN ms : k # 1 => k - 1 \in DOMAIN r /\ r[k - 1] = ms[k]
  BY LaterMessages
<1>2. Settles(h, pd, pd2)
  OBVIOUS
<1> HIDE DEF r, h
<1>3. ASSUME NEW id \in DOMAIN pd2
      PROVE  \/ \E k \in DOMAIN cs : cs[k] = Asking(id)
             \/ \E k \in DOMAIN r : Answers(r[k]) /\ r[k].id = id
  <2>1. id \in DOMAIN pd
    BY <1>2 DEF Settles
  <2>2. ASSUME NEW k \in DOMAIN ms, Answers(ms[k]), ms[k].id = id
        PROVE  \E j \in DOMAIN r : Answers(r[j]) /\ r[j].id = id
    <3>1. k # 1
      BY <1>1, <1>2, <2>2 DEF Settles
    <3> QED BY <1>1, <2>2, <3>1
  <2> QED BY <2>1, <2>2 DEF Waits
<1>4. Waits(pd2, cs, r)
  BY <1>3 DEF Waits
<1> QED BY <1>4 DEF r

LEMMA CallsOn ==
  ASSUME NEW w, NEW cs, NEW es, NEW pd, NEW m, Calls(w, cs, es, pd, m), NEW id,
         \A k \in DOMAIN cs : cs[k].op = "event" => cs[k].id # id,
         NEW pd2, \A x \in DOMAIN pd : x \in DOMAIN pd2 \/ x = id
  PROVE  Calls(w, cs, es, pd2, m)
BY DEF Calls

LEMMA MaxOfTwo ==
  ASSUME NEW a \in Nat, NEW b \in Nat
  PROVE  Max({a, b}) \in Nat /\ a <= Max({a, b}) /\ b <= Max({a, b})
<1> DEFINE S == {a, b}
           n == IF a <= b THEN b ELSE a
<1>1. S \subseteq Nat /\ S # {} /\ n \in Nat /\ (\A y \in S : y <= n) /\ a \in S /\ b \in S
  OBVIOUS
<1> HIDE DEF S, n
<1>2. Max(S) \in S /\ \A y \in S : y <= Max(S)
  BY <1>1, MaxOfBounded
<1>3. Max(S) \in Nat /\ a <= Max(S) /\ b <= Max(S)
  BY <1>1, <1>2
<1> QED BY <1>3 DEF S

\* The event at the remembered place gets the seq that the table gave it.
Settled(l, i, q, r) ==
  /\ r \in Seq(Entry) /\ DOMAIN r = DOMAIN l /\ i \in DOMAIN l
  /\ \A k \in DOMAIN l : k # i => r[k] = l[k]
  /\ r[i] = [seq |-> q, id |-> l[i].id]

LEMMA SettledParts ==
  ASSUME NEW l \in Seq(Entry), NEW i \in DOMAIN l, NEW q \in Nat
  PROVE  Settled(l, i, q, [l EXCEPT ![i].seq = q])
<1> DEFINE r == [l EXCEPT ![i].seq = q]
<1>1. Len(l) \in Nat /\ DOMAIN l = 1..Len(l) /\ l \in [1..Len(l) -> Entry] /\ l[i] \in Entry
  OBVIOUS
<1>2. l[i].id \in Id \cup {Created} /\ [l[i] EXCEPT !.seq = q] = [seq |-> q, id |-> l[i].id]
  BY <1>1 DEF Entry
<1>3. DOMAIN r = DOMAIN l /\ \A k \in DOMAIN l : r[k] = IF k = i THEN [l[i] EXCEPT !.seq = q] ELSE l[k]
  BY <1>1
<1>4. [seq |-> q, id |-> l[i].id] \in Entry
  BY <1>2 DEF Entry
<1>5. r = [k \in 1..Len(l) |-> IF k = i THEN [l[i] EXCEPT !.seq = q] ELSE l[k]]
  BY <1>1
<1> HIDE DEF r
<1>6. \A k \in DOMAIN l : r[k] \in Entry
  BY <1>1, <1>2, <1>3, <1>4
<1>7. r \in Seq(Entry)
  BY <1>1, <1>3, <1>5, <1>6
<1>8. Settled(l, i, q, r)
  BY <1>2, <1>3, <1>7 DEF Settled
<1> QED BY <1>8 DEF r

LEMMA CopySettles ==
  ASSUME NEW l, NEW top, NEW pd, NEW m, Copied(l, top, pd, m), NEW id \in DOMAIN pd, NEW q \in Nat,
         NEW r, Settled(l, pd[id], q, r), NEW top2 \in Nat, top <= top2, q <= top2
  PROVE  Copied(r, top2, [x \in DOMAIN pd \ {id} |-> pd[x]], m)
<1> DEFINE pd2 == [x \in DOMAIN pd \ {id} |-> pd[x]]
           i == pd[id]
<1>1. DOMAIN pd2 = DOMAIN pd \ {id} /\ \A x \in DOMAIN pd2 : pd2[x] = pd[x]
  OBVIOUS
<1>2. /\ r \in Seq(Entry) /\ DOMAIN r = DOMAIN l /\ i \in DOMAIN l
      /\ (\A k \in DOMAIN l : k # i => r[k] = l[k]) /\ r[i] = [seq |-> q, id |-> l[i].id]
  BY DEF Settled
<1> HIDE DEF pd2, i
<1>3. \A k \in DOMAIN l : r[k].id = l[k].id /\ (Lasts(r[k]) <=> Lasts(l[k]))
  <2>1. r[i].id = l[i].id /\ (Lasts(r[i]) <=> Lasts(l[i]))
    BY <1>2 DEF Lasts
  <2> QED BY <1>2, <2>1
<1>4. l \in Seq(Entry) /\ top \in Nat /\ m \in Nat /\ DOMAIN pd \subseteq Id /\ InOrder(l, m)
  BY DEF Copied
<1>5. \A x \in DOMAIN pd2 : x.kind # "live" /\ pd2[x] \in DOMAIN r /\ r[pd2[x]].id = x
  BY <1>1, <1>2, <1>3 DEF Copied
<1>6. ASSUME NEW k \in DOMAIN r PROVE r[k].seq <= top2
  <2>1. CASE k = i
    BY <1>2, <2>1
  <2>2. CASE k # i
    <3>1. l[k].seq \in Nat /\ l[k].seq <= top /\ r[k] = l[k]
      BY <1>2, <1>4, <2>2, ElementOf, IdParts DEF Copied
    <3> QED BY <1>4, <3>1
  <2> QED BY <2>1, <2>2
<1>7. InOrder(r, m)
  BY <1>2, <1>3, <1>4 DEF InOrder
<1>8. Copied(r, top2, pd2, m)
  BY <1>1, <1>2, <1>4, <1>5, <1>6, <1>7 DEF Copied
<1> QED BY <1>8 DEF pd2

\* What was confirmed is in the log and in the copy alike.
LEMMA SettledAgrees ==
  ASSUME NEW l, NEW top, NEW pd, NEW m, Copied(l, top, pd, m), NEW w, NEW es, Written(w, es, m),
         NEW ms, ms \in Seq(Answer), ms # <<>>, Agrees(l, pd, es, ms),
         NEW id \in DOMAIN pd, NEW q \in Nat, Head(ms).op = "ack", Head(ms).id = id,
         InLog([seq |-> q, id |-> id], es), NEW r, Settled(l, pd[id], q, r),
         NEW pd2, DOMAIN pd2 = DOMAIN pd \ {id}
  PROVE  Agrees(r, pd2, es, Tail(ms))
<1> DEFINE i == pd[id]
           t == Tail(ms)
           e == [seq |-> q, id |-> id]
<1>1. /\ r \in Seq(Entry) /\ DOMAIN r = DOMAIN l /\ i \in DOMAIN l
      /\ (\A k \in DOMAIN l : k # i => r[k] = l[k]) /\ r[i] = [seq |-> q, id |-> l[i].id]
  BY DEF Settled
<1>2. l \in Seq(Entry) /\ l[i].id = id /\ id.kind # "live" /\ id \in Id /\ InOrder(l, m)
  BY DEF Copied
<1>3. e.id = id /\ r[i] = e /\ Lasts(l[i]) /\ InLog(e, es)
  BY <1>1, <1>2 DEF Lasts
<1>4. ms[1].id = id /\ \A k \in DOMAIN ms : k # 1 => k - 1 \in DOMAIN t /\ t[k - 1] = ms[k]
  BY LaterMessages
<1> HIDE DEF i, t, e
<1>5. \A k \in DOMAIN l : Lasts(l[k]) /\ l[k].id = id => k = i
  BY <1>1, <1>2, <1>3, OneForNumber
<1>6. \A k \in DOMAIN es : es[k].id = id => es[k] = e
  <2>1. PICK j \in DOMAIN es : es[j] = e
    BY <1>3 DEF InLog
  <2>2. \A k \in DOMAIN es : es[k].id.n = es[j].id.n => k = j
    BY <2>1, OneInLog
  <2> QED BY <1>3, <2>1, <2>2
<1>7. ASSUME NEW k \in DOMAIN r, Lasts(r[k]) PROVE r[k].id \in DOMAIN pd2 \/ InLog(r[k], es)
  <2>1. CASE k = i
    BY <1>3, <2>1
  <2>2. CASE k # i
    <3>1. r[k] = l[k] /\ k \in DOMAIN l
      BY <1>1, <2>2
    <3>2. l[k].id # id
      BY <1>5, <1>7, <2>2, <3>1
    <3> QED BY <1>7, <3>1, <3>2 DEF Agrees
  <2> QED BY <2>1, <2>2
<1>8. ASSUME NEW k \in DOMAIN es, Lasts(es[k])
      PROVE  IF es[k].id \in DOMAIN pd2 THEN InLog(Confirmation(es[k].id, es[k].seq), t) ELSE InLog(es[k], r)
  <2>1. CASE es[k].id = id
    <3>1. es[k] = e
      BY <1>6, <2>1
    <3>2. InLog(e, r)
      BY <1>1, <1>3 DEF InLog
    <3> QED BY <2>1, <3>1, <3>2
  <2>2. CASE es[k].id # id /\ es[k].id \in DOMAIN pd
    <3>1. PICK j \in DOMAIN ms : ms[j] = Confirmation(es[k].id, es[k].seq)
      BY <1>8, <2>2 DEF Agrees, InLog
    <3>2. ms[j].id = es[k].id
      BY <3>1 DEF Confirmation
    <3>3. j # 1
      BY <1>4, <2>2, <3>2
    <3>4. InLog(Confirmation(es[k].id, es[k].seq), t)
      BY <1>4, <3>1, <3>3 DEF InLog
    <3> QED BY <2>2, <3>4
  <2>3. CASE es[k].id # id /\ es[k].id \notin DOMAIN pd
    <3>1. PICK j \in DOMAIN l : l[j] = es[k]
      BY <1>8, <2>3 DEF Agrees, InLog
    <3>2. j # i
      BY <1>2, <2>3, <3>1
    <3>3. r[j] = es[k] /\ j \in DOMAIN r
      BY <1>1, <3>1, <3>2
    <3> QED BY <2>3, <3>3 DEF InLog
  <2> QED BY <2>1, <2>2, <2>3
<1>9. Agrees(r, pd2, es, t)
  BY <1>7, <1>8 DEF Agrees
<1> QED BY <1>9 DEF t

\* What the copy is after the first message, an acknowledgement of id with the seq q.
AckedLog(l, pd, id, q) == IF id \in DOMAIN pd /\ pd[id] <= Len(l) THEN [l EXCEPT ![pd[id]].seq = q] ELSE l
AckedTop(l, top, new, q) == IF new = l THEN top ELSE Max({top, q})

LEMMA NothingAcked ==
  ASSUME NEW l, NEW top, NEW pd, NEW m, Copied(l, top, pd, m), NEW id, id \notin DOMAIN pd
  PROVE  Copied(l, top, [x \in DOMAIN pd \ {id} |-> pd[x]], m)
<1> DEFINE pd2 == [x \in DOMAIN pd \ {id} |-> pd[x]]
<1>1. DOMAIN pd2 = DOMAIN pd /\ \A x \in DOMAIN pd2 : pd2[x] = pd[x]
  OBVIOUS
<1> HIDE DEF pd2
<1>2. Copied(l, top, pd2, m)
  BY <1>1 DEF Copied
<1> QED BY <1>2 DEF pd2

\* A message that confirms nothing in the copy leaves the rest as it agreed.
LEMMA AgreesOn ==
  ASSUME NEW l, NEW pd, NEW es, NEW ms, ms \in Seq(Answer), ms # <<>>, Agrees(l, pd, es, ms),
         Head(ms).op = "ack" => Head(ms).id \notin DOMAIN pd,
         NEW pd2, DOMAIN pd2 = DOMAIN pd
  PROVE  Agrees(l, pd2, es, Tail(ms))
<1> DEFINE t == Tail(ms)
           h == Head(ms)
<1>1. h = ms[1] /\ \A k \in DOMAIN ms : k # 1 => k - 1 \in DOMAIN t /\ t[k - 1] = ms[k]
  BY LaterMessages
<1>2. h.op = "ack" => h.id \notin DOMAIN pd
  OBVIOUS
<1> HIDE DEF t, h
<1>3. ASSUME NEW k \in DOMAIN es, Lasts(es[k]), es[k].id \in DOMAIN pd2
      PROVE  InLog(Confirmation(es[k].id, es[k].seq), t)
  <2>1. PICK j \in DOMAIN ms : ms[j] = Confirmation(es[k].id, es[k].seq)
    BY <1>3 DEF Agrees, InLog
  <2>2. ms[j].id = es[k].id /\ ms[j].op = "ack"
    BY <2>1 DEF Confirmation
  <2>3. j # 1
    BY <1>1, <1>2, <1>3, <2>2
  <2> QED BY <1>1, <2>1, <2>3 DEF InLog
<1>4. Agrees(l, pd2, es, t)
  BY <1>3 DEF Agrees
<1> QED BY <1>4 DEF t

\* confirmPending.
LEMMA AckTaken ==
  ASSUME NEW w, NEW l, NEW top, NEW pd, NEW es, NEW cs, NEW ms, NEW m, Sound(w, l, top, pd, es, cs, ms, m),
         ms # <<>>, Head(ms).op = "ack"
  PROVE  LET id == Head(ms).id
             q == Head(ms).seq
             new == AckedLog(l, pd, id, q)
         IN Sound(w, new, AckedTop(l, top, new, q), [x \in DOMAIN pd \ {id} |-> pd[x]], es, cs, Tail(ms), m)
<1> DEFINE h == Head(ms)
           t == Tail(ms)
           id == h.id
           q == h.seq
           new == AckedLog(l, pd, id, q)
           top2 == AckedTop(l, top, new, q)
           pd2 == [x \in DOMAIN pd \ {id} |-> pd[x]]
<1>1. /\ Copied(l, top, pd, m) /\ Written(w, es, m) /\ Agrees(l, pd, es, ms)
      /\ Calls(w, cs, es, pd, m) /\ Heard(ms, es, pd, cs, m) /\ Waits(pd, cs, ms)
  BY DEF Sound
<1>2. es \in Seq(Entry) /\ cs \in Seq(Call) /\ ms \in Seq(Answer) /\ m \in Nat /\ l \in Seq(Entry) /\ top \in Nat
  BY <1>1 DEF Copied, Written, Calls, Heard
<1>3. 1 \in DOMAIN ms /\ h = ms[1] /\ h \in Answer /\ h.op = "ack"
  BY <1>2, LaterMessages
<1>4. Head(ms) = h /\ h.id = id
  OBVIOUS
<1>5. DOMAIN pd2 = DOMAIN pd \ {id}
  OBVIOUS
<1> HIDE DEF h, t
<1>6. id \in Id /\ q \in Nat
  BY <1>3, AnswerParts
<1>7. InLog([seq |-> q, id |-> id], es)
  <2>1. Says(1, ms, es, pd, cs)
    BY <1>1, <1>3 DEF Heard
  <2> QED BY <1>3, <2>1 DEF Says
<1> HIDE DEF id, q, pd2
<1>8. Settles(h, pd, pd2)
  BY <1>3, <1>4, <1>5 DEF Settles, Answers
<1>9. Heard(t, es, pd2, cs, m) /\ Waits(pd2, cs, t)
  BY <1>1, <1>2, <1>8, HeardOn, WaitsOver DEF h, t
<1>10. \A k \in DOMAIN cs : cs[k].op = "event" => cs[k].id # id
  <2> SUFFICES ASSUME NEW k \in DOMAIN cs, cs[k].op = "event", cs[k].id = id PROVE FALSE
    OBVIOUS
  <2>1. PICK i \in DOMAIN es : es[i] = [seq |-> q, id |-> id]
    BY <1>7 DEF InLog
  <2>2. es[i].id.n < cs[k].id.n /\ es[i].id = id
    BY <1>1, <2>1 DEF Calls
  <2>3. id.n \in Nat
    BY <1>6, IdParts
  <2> QED BY <2>2, <2>3
<1>11. Calls(w, cs, es, pd2, m)
  BY <1>1, <1>5, <1>10, CallsOn
<1>12. CASE id \in DOMAIN pd
  <2>1. pd[id] \in DOMAIN l /\ pd[id] <= Len(l)
    <3>1. pd[id] \in DOMAIN l
      BY <1>1, <1>12 DEF Copied
    <3> QED BY <1>2, <3>1
  <2>2. new = [l EXCEPT ![pd[id]].seq = q]
    BY <1>12, <2>1 DEF AckedLog
  <2> HIDE DEF new
  <2>3. Settled(l, pd[id], q, new)
    <3> DEFINE i == pd[id]
    <3>1. i \in DOMAIN l /\ new = [l EXCEPT ![i].seq = q]
      BY <2>1, <2>2
    <3> HIDE DEF i
    <3>2. Settled(l, i, q, [l EXCEPT ![i].seq = q])
      BY ONLY <1>2, <1>6, <3>1, SettledParts
    <3> QED BY <3>1, <3>2 DEF i
  <2>4. top2 \in Nat /\ top <= top2 /\ q <= top2
    <3>1. CASE new = l
      <4>1. l[pd[id]].seq = q
        BY <2>1, <2>3, <3>1 DEF Settled
      <4>2. q <= top
        BY <1>1, <2>1, <4>1 DEF Copied
      <4> QED BY <1>2, <3>1, <4>2 DEF AckedTop
    <3>2. CASE new # l
      <4>1. top2 = Max({top, q})
        BY <3>2 DEF AckedTop
      <4> QED BY <1>2, <1>6, <4>1, MaxOfTwo
    <3> QED BY <3>1, <3>2
  <2> HIDE DEF top2
  <2>5. Copied(new, top2, pd2, m)
    BY <1>1, <1>6, <1>12, <2>3, <2>4, CopySettles DEF pd2
  <2>6. Agrees(new, pd2, es, t)
    <3>1. Head(ms).op = "ack" /\ Head(ms).id = id
      BY <1>3, <1>4
    <3> QED BY <1>1, <1>2, <1>5, <1>6, <1>7, <1>12, <2>3, <3>1, SettledAgrees DEF t
  <2> QED BY <1>1, <1>9, <1>11, <2>5, <2>6 DEF Sound, h, t, id, q, new, top2, pd2
<1>13. CASE id \notin DOMAIN pd
  <2>1. new = l /\ top2 = top
    BY <1>13 DEF AckedLog, AckedTop
  <2> HIDE DEF new, top2
  <2>2. Copied(l, top, pd2, m)
    BY <1>1, <1>13, NothingAcked DEF pd2
  <2>3. DOMAIN pd2 = DOMAIN pd
    BY <1>5, <1>13
  <2>4. Head(ms).op = "ack" => Head(ms).id \notin DOMAIN pd
    BY <1>4, <1>13
  <2>5. Agrees(l, pd2, es, t)
    BY <1>1, <1>2, <2>3, <2>4, AgreesOn DEF t
  <2>6. Sound(w, new, top2, pd2, es, cs, t, m)
    BY <1>1, <1>9, <1>11, <2>1, <2>2, <2>5 DEF Sound
  <2> QED BY <2>6 DEF h, t, id, q, new, top2, pd2
<1> QED BY <1>12, <1>13

\* The event at place i is taken out.
Without(l, i, r) ==
  /\ r \in Seq(Entry)
  /\ \A k \in DOMAIN l : /\ k \in Nat
                         /\ k < i => k \in DOMAIN r /\ r[k] = l[k]
                         /\ k > i => k - 1 \in DOMAIN r /\ r[k - 1] = l[k]
  /\ \A k \in DOMAIN r : /\ k \in Nat
                         /\ k < i => k \in DOMAIN l /\ r[k] = l[k]
                         /\ k >= i => k + 1 \in DOMAIN l /\ r[k] = l[k + 1]

LEMMA WithoutParts ==
  ASSUME NEW l \in Seq(Entry), NEW i \in DOMAIN l
  PROVE  Without(l, i, RemoveAt(l, i))
<1> DEFINE a == SubSeq(l, 1, i - 1)
           b == SubSeq(l, i + 1, Len(l))
           r == a \o b
<1>1. Len(l) \in Nat /\ DOMAIN l = 1..Len(l) /\ i \in 1..Len(l)
  OBVIOUS
<1>2. /\ a \in Seq(Entry) /\ Len(a) = i - 1 /\ \A k \in 1..(i - 1) : a[k] = l[k]
  BY <1>1
<1>3. /\ b \in Seq(Entry) /\ Len(b) = Len(l) - i
  BY <1>1, AfterPart
<1>4. \A k \in 1..(Len(l) - i) : b[k] = l[i + k]
  <2> SUFFICES ASSUME NEW k \in 1..(Len(l) - i) PROVE b[k] = l[i + k]
    OBVIOUS
  <2>1. b[k] = l[(i + 1) + k - 1] /\ (i + 1) + k - 1 = i + k
    BY <1>1
  <2> QED BY <2>1
<1> HIDE DEF a, b
<1>5. /\ r \in Seq(Entry) /\ Len(r) = Len(l) - 1 /\ DOMAIN r = 1..(Len(l) - 1)
      /\ \A k \in 1..(i - 1) : r[k] = a[k]
      /\ \A k \in i..(Len(l) - 1) : r[k] = b[k - (i - 1)]
  <2>1. a \in Seq(Entry) /\ b \in Seq(Entry)
    BY <1>2, <1>3
  <2>2. /\ r \in Seq(Entry) /\ Len(r) = Len(a) + Len(b) /\ DOMAIN r = 1..Len(r) /\ Len(a) \in Nat
        /\ \A k \in 1..Len(r) : r[k] = IF k <= Len(a) THEN a[k] ELSE b[k - Len(a)]
    BY ONLY <2>1
  <2> HIDE DEF r
  <2>3. Len(r) = Len(l) - 1
    BY <1>1, <1>2, <1>3, <2>2
  <2>4. ASSUME NEW k \in 1..(i - 1) PROVE r[k] = a[k]
    <3>1. k \in 1..Len(r) /\ k <= Len(a)
      BY <1>1, <1>2, <2>3
    <3> QED BY <2>2, <3>1
  <2>5. ASSUME NEW k \in i..(Len(l) - 1) PROVE r[k] = b[k - (i - 1)]
    <3>1. k \in 1..Len(r) /\ ~(k <= Len(a))
      BY <1>1, <1>2, <2>3
    <3> QED BY <1>2, <2>2, <3>1
  <2> QED BY <2>2, <2>3, <2>4, <2>5
<1>6. RemoveAt(l, i) = r
  BY DEF RemoveAt, a, b
<1> HIDE DEF r
<1>7. ASSUME NEW k \in DOMAIN r
      PROVE  k \in Nat /\ (k < i => k \in DOMAIN l /\ r[k] = l[k]) /\ (k >= i => k + 1 \in DOMAIN l /\ r[k] = l[k + 1])
  <2>1. k \in Nat /\ k \in 1..(Len(l) - 1)
    BY <1>5
  <2>2. k < i => k \in DOMAIN l /\ r[k] = l[k]
    BY <1>1, <1>2, <1>5, <2>1
  <2>3. ASSUME k >= i PROVE k + 1 \in DOMAIN l /\ r[k] = l[k + 1]
    <3>1. k - (i - 1) \in 1..(Len(l) - i) /\ i + (k - (i - 1)) = k + 1 /\ k \in i..(Len(l) - 1) /\ k + 1 \in 1..Len(l)
      BY <1>1, <2>1, <2>3
    <3>2. r[k] = b[k - (i - 1)] /\ b[k - (i - 1)] = l[i + (k - (i - 1))]
      BY <1>4, <1>5, <3>1
    <3> QED BY <1>1, <3>1, <3>2
  <2> QED BY <2>1, <2>2, <2>3
<1>8. ASSUME NEW k \in DOMAIN l
      PROVE  k \in Nat /\ (k < i => k \in DOMAIN r /\ r[k] = l[k]) /\ (k > i => k - 1 \in DOMAIN r /\ r[k - 1] = l[k])
  <2>1. k \in Nat /\ k \in 1..Len(l)
    BY <1>1
  <2>2. ASSUME k < i PROVE k \in DOMAIN r /\ r[k] = l[k]
    <3>1. k \in DOMAIN r
      BY <1>1, <1>5, <2>1, <2>2
    <3> QED BY <1>7, <2>2, <3>1
  <2>3. ASSUME k > i PROVE k - 1 \in DOMAIN r /\ r[k - 1] = l[k]
    <3>1. k - 1 \in DOMAIN r /\ k - 1 >= i /\ (k - 1) + 1 = k
      BY <1>1, <1>5, <2>1, <2>3
    <3>2. r[k - 1] = l[(k - 1) + 1]
      BY <1>7, <3>1
    <3> QED BY <3>1, <3>2
  <2> QED BY <2>1, <2>2, <2>3
<1>9. Without(l, i, r)
  BY <1>5, <1>7, <1>8 DEF Without
<1> QED BY <1>6, <1>9

LEMMA HighestBounds ==
  ASSUME NEW l \in Seq(Entry), NEW top \in Nat, \A i \in DOMAIN l : l[i].seq <= top
  PROVE  HighestSeq(l) \in Nat /\ \A i \in DOMAIN l : l[i].seq <= HighestSeq(l)
<1> DEFINE S == {l[i].seq : i \in DOMAIN l} \cup {0}
<1>1. \A i \in DOMAIN l : l[i].seq \in Nat
  BY ElementOf, IdParts
<1>2. S \subseteq Nat /\ S # {} /\ (\A y \in S : y <= top) /\ \A i \in DOMAIN l : l[i].seq \in S
  BY <1>1
<1>3. HighestSeq(l) = Max(S)
  BY DEF HighestSeq
<1> HIDE DEF S
<1>4. Max(S) \in S /\ \A y \in S : y <= Max(S)
  BY <1>2, MaxOfBounded
<1> QED BY <1>2, <1>3, <1>4

\* rollbackPending and the copy without the event.
LEMMA CopyRollsBack ==
  ASSUME NEW l, NEW top, NEW pd, NEW m, Copied(l, top, pd, m), NEW id \in DOMAIN pd,
         NEW r, Without(l, pd[id], r)
  PROVE  Copied(r, HighestSeq(r), [x \in DOMAIN pd \ {id} |-> IF pd[x] > pd[id] THEN pd[x] - 1 ELSE pd[x]], m)
<1> DEFINE i == pd[id]
           pd2 == [x \in DOMAIN pd \ {id} |-> IF pd[x] > i THEN pd[x] - 1 ELSE pd[x]]
<1>1. DOMAIN pd2 = DOMAIN pd \ {id} /\ \A x \in DOMAIN pd2 : pd2[x] = IF pd[x] > i THEN pd[x] - 1 ELSE pd[x]
  OBVIOUS
<1>2. Without(l, i, r)
  OBVIOUS
<1>3. l \in Seq(Entry) /\ top \in Nat /\ m \in Nat /\ DOMAIN pd \subseteq Id /\ InOrder(l, m)
  BY DEF Copied
<1>4. i \in DOMAIN l /\ l[i].id = id /\ i \in Nat
  BY <1>3, ElementOf DEF Copied
<1> HIDE DEF pd2, i
<1>5. ASSUME NEW k \in DOMAIN r PROVE k \in Nat /\ \E j \in DOMAIN l : r[k] = l[j] /\ j = IF k < i THEN k ELSE k + 1
  <2>1. k \in Nat
    BY <1>2 DEF Without
  <2>2. CASE k < i
    BY <1>2, <2>1, <2>2 DEF Without
  <2>3. CASE ~(k < i)
    <3>1. k >= i
      BY <1>4, <2>1, <2>3
    <3> QED BY <1>2, <2>1, <2>3, <3>1 DEF Without
  <2> QED BY <2>2, <2>3
<1>6. r \in Seq(Entry) /\ \A k \in DOMAIN r : r[k].seq <= top
  BY <1>2, <1>5 DEF Without, Copied
<1>7. HighestSeq(r) \in Nat /\ \A k \in DOMAIN r : r[k].seq <= HighestSeq(r)
  BY <1>3, <1>6, HighestBounds
<1>8. ASSUME NEW x \in DOMAIN pd2 PROVE x.kind # "live" /\ pd2[x] \in DOMAIN r /\ r[pd2[x]].id = x
  <2>1. x \in DOMAIN pd /\ x # id
    BY <1>1
  <2>2. x.kind # "live" /\ pd[x] \in DOMAIN l /\ l[pd[x]].id = x
    BY <2>1 DEF Copied
  <2>3. pd[x] # i /\ pd[x] \in Nat
    BY <1>3, <1>4, <2>1, <2>2, ElementOf
  <2>4. CASE pd[x] > i
    BY <1>1, <1>2, <2>2, <2>4 DEF Without
  <2>5. CASE ~(pd[x] > i)
    <3>1. pd[x] < i
      BY <1>4, <2>3, <2>5
    <3> QED BY <1>1, <1>2, <2>2, <2>5, <3>1 DEF Without
  <2> QED BY <2>4, <2>5
<1>9. ASSUME NEW k \in DOMAIN r, Lasts(r[k]) PROVE r[k].id.n <= m
  BY <1>3, <1>5, <1>9 DEF InOrder
<1>10. ASSUME NEW j \in DOMAIN r, NEW k \in DOMAIN r, j < k, Lasts(r[j]), Lasts(r[k]) PROVE r[j].id.n < r[k].id.n
  <2>1. PICK a \in DOMAIN l : r[j] = l[a] /\ a = IF j < i THEN j ELSE j + 1
    BY <1>5
  <2>2. PICK b \in DOMAIN l : r[k] = l[b] /\ b = IF k < i THEN k ELSE k + 1
    BY <1>5
  <2>3. j \in Nat /\ k \in Nat
    BY <1>5
  <2>4. a < b
    BY <1>4, <1>10, <2>1, <2>2, <2>3
  <2> QED BY <1>3, <1>10, <2>1, <2>2, <2>4 DEF InOrder
<1>11. InOrder(r, m)
  BY <1>9, <1>10 DEF InOrder
<1>12. DOMAIN pd2 \subseteq Id
  BY <1>1, <1>3
<1>13. Copied(r, HighestSeq(r), pd2, m)
  BY <1>3, <1>6, <1>7, <1>8, <1>11, <1>12 DEF Copied
<1> QED BY <1>13 DEF pd2, i

LEMMA RolledBackAgrees ==
  ASSUME NEW l, NEW top, NEW pd, NEW m, Copied(l, top, pd, m), NEW es, NEW ms, ms \in Seq(Answer), ms # <<>>,
         Agrees(l, pd, es, ms), NEW id \in DOMAIN pd, Head(ms).op = "reject", \A k \in DOMAIN es : es[k].id # id,
         NEW r, Without(l, pd[id], r), NEW pd2, DOMAIN pd2 = DOMAIN pd \ {id}
  PROVE  Agrees(r, pd2, es, Tail(ms))
<1> DEFINE i == pd[id]
           t == Tail(ms)
<1>1. Without(l, i, r) /\ l \in Seq(Entry) /\ InOrder(l, m)
  BY DEF Copied
<1>2. i \in DOMAIN l /\ l[i].id = id /\ i \in Nat /\ Lasts(l[i]) /\ id \in Id
  BY <1>1, ElementOf DEF Copied, Lasts
<1>3. ms[1].op = "reject" /\ \A k \in DOMAIN ms : k # 1 => k - 1 \in DOMAIN t /\ t[k - 1] = ms[k]
  BY LaterMessages
<1> HIDE DEF i, t
<1>4. \A k \in DOMAIN l : Lasts(l[k]) /\ l[k].id = id => k = i
  BY <1>1, <1>2, OneForNumber
<1>5. ASSUME NEW k \in DOMAIN r, Lasts(r[k]) PROVE r[k].id \in DOMAIN pd2 \/ InLog(r[k], es)
  <2>1. k \in Nat
    BY <1>1 DEF Without
  <2>2. PICK j \in DOMAIN l : r[k] = l[j] /\ j # i
    <3>1. CASE k < i
      <4>1. k # i
        BY <1>2, <2>1, <3>1
      <4> QED BY <1>1, <3>1, <4>1 DEF Without
    <3>2. CASE ~(k < i)
      <4>1. k >= i /\ k + 1 # i
        BY <1>2, <2>1, <3>2
      <4> QED BY <1>1, <4>1 DEF Without
    <3> QED BY <3>1, <3>2
  <2>3. l[j].id # id
    BY <1>4, <1>5, <2>2
  <2> QED BY <1>5, <2>2, <2>3 DEF Agrees
<1>6. ASSUME NEW k \in DOMAIN es, Lasts(es[k])
      PROVE  IF es[k].id \in DOMAIN pd2 THEN InLog(Confirmation(es[k].id, es[k].seq), t) ELSE InLog(es[k], r)
  <2>1. CASE es[k].id \in DOMAIN pd
    <3>1. PICK j \in DOMAIN ms : ms[j] = Confirmation(es[k].id, es[k].seq)
      BY <1>6, <2>1 DEF Agrees, InLog
    <3>2. j # 1
      BY <1>3, <3>1 DEF Confirmation
    <3> QED BY <1>3, <2>1, <3>1, <3>2 DEF InLog
  <2>2. CASE es[k].id \notin DOMAIN pd
    <3>1. PICK j \in DOMAIN l : l[j] = es[k]
      BY <1>6, <2>2 DEF Agrees, InLog
    <3>2. j # i /\ j \in Nat
      BY <1>1, <1>2, <3>1, ElementOf
    <3>3. CASE j < i
      BY <1>1, <2>2, <3>1, <3>3 DEF Without, InLog
    <3>4. CASE ~(j < i)
      <4>1. j > i
        BY <1>2, <3>2, <3>4
      <4> QED BY <1>1, <2>2, <3>1, <4>1 DEF Without, InLog
    <3> QED BY <3>3, <3>4
  <2> QED BY <2>1, <2>2
<1>7. Agrees(r, pd2, es, t)
  BY <1>5, <1>6 DEF Agrees
<1> QED BY <1>7 DEF t

LEMMA MessageOver ==
  ASSUME NEW w, NEW l, NEW top, NEW pd, NEW es, NEW cs, NEW ms, NEW m, Sound(w, l, top, pd, es, cs, ms, m),
         ms # <<>>, Answers(Head(ms)) => Head(ms).id \notin DOMAIN pd
  PROVE  Sound(w, l, top, pd, es, cs, Tail(ms), m)
<1>1. /\ Copied(l, top, pd, m) /\ Written(w, es, m) /\ Agrees(l, pd, es, ms)
      /\ Calls(w, cs, es, pd, m) /\ Heard(ms, es, pd, cs, m) /\ Waits(pd, cs, ms)
  BY DEF Sound
<1>2. ms \in Seq(Answer)
  BY <1>1 DEF Heard
<1>3. Settles(Head(ms), pd, pd)
  BY DEF Settles
<1>4. Heard(Tail(ms), es, pd, cs, m) /\ Waits(pd, cs, Tail(ms))
  BY <1>1, <1>2, <1>3, HeardOn, WaitsOver
<1>5. Agrees(l, pd, es, Tail(ms))
  BY <1>1, <1>2, AgreesOn DEF Answers
<1> QED BY <1>1, <1>4, <1>5 DEF Sound

\* A rejected event leaves the copy.
LEMMA RejectTaken ==
  ASSUME NEW w, NEW l, NEW top, NEW pd, NEW es, NEW cs, NEW ms, NEW m, Sound(w, l, top, pd, es, cs, ms, m),
         ms # <<>>, Head(ms).op = "reject", NEW id, id = Head(ms).id, id \in DOMAIN pd
  PROVE  /\ pd[id] <= Len(l)
         /\ LET new == RemoveAt(l, pd[id])
                pd2 == [x \in DOMAIN pd \ {id} |-> IF pd[x] > pd[id] THEN pd[x] - 1 ELSE pd[x]]
            IN Sound(w, new, HighestSeq(new), pd2, es, cs, Tail(ms), m)
<1> DEFINE i == pd[id]
           new == RemoveAt(l, i)
           pd2 == [x \in DOMAIN pd \ {id} |-> IF pd[x] > pd[id] THEN pd[x] - 1 ELSE pd[x]]
           h == Head(ms)
           t == Tail(ms)
<1>1. /\ Copied(l, top, pd, m) /\ Written(w, es, m) /\ Agrees(l, pd, es, ms)
      /\ Calls(w, cs, es, pd, m) /\ Heard(ms, es, pd, cs, m) /\ Waits(pd, cs, ms)
  BY DEF Sound
<1>2. es \in Seq(Entry) /\ cs \in Seq(Call) /\ ms \in Seq(Answer) /\ m \in Nat /\ l \in Seq(Entry) /\ top \in Nat
  BY <1>1 DEF Copied, Written, Calls, Heard
<1>3. 1 \in DOMAIN ms /\ h = ms[1] /\ h \in Answer /\ h.op = "reject" /\ h.id = id
  BY <1>2, LaterMessages
<1>4. DOMAIN pd2 = DOMAIN pd \ {id}
  OBVIOUS
<1>5. i \in DOMAIN l /\ i <= Len(l)
  <2>1. i \in DOMAIN l
    BY <1>1 DEF Copied
  <2> QED BY <1>2, <2>1
<1> HIDE DEF h, t, pd2, i
<1>6. Without(l, i, new)
  BY <1>2, <1>5, WithoutParts
<1> HIDE DEF new
<1>7. /\ \A k \in DOMAIN es : es[k].id # id
      /\ \A j \in DOMAIN cs : cs[j].op = "event" => cs[j].id # id
  <2>1. Says(1, ms, es, pd, cs)
    BY <1>1, <1>3 DEF Heard
  <2> QED BY <1>3, <2>1 DEF Says
<1>8. Settles(h, pd, pd2)
  BY <1>3, <1>4 DEF Settles, Answers
<1>9. Heard(t, es, pd2, cs, m) /\ Waits(pd2, cs, t)
  BY <1>1, <1>2, <1>8, HeardOn, WaitsOver DEF h, t
<1>10. Calls(w, cs, es, pd2, m)
  BY <1>1, <1>4, <1>7, CallsOn
<1>11. Copied(new, HighestSeq(new), pd2, m)
  BY <1>1, <1>6, CopyRollsBack DEF i, pd2
<1>12. Agrees(new, pd2, es, t)
  BY <1>1, <1>2, <1>4, <1>6, <1>7, RolledBackAgrees DEF i, t
<1>13. Sound(w, new, HighestSeq(new), pd2, es, cs, t, m)
  BY <1>1, <1>9, <1>10, <1>11, <1>12 DEF Sound
<1> QED BY <1>5, <1>13 DEF i, new, pd2, t

-----------------------------------------------------------------------------
(* What the messages bring is only live input that the copy does not have *)

Gains(k, l, top, es) ==
  /\ k \in CopyOf /\ k.latest >= top
  /\ \A i \in DOMAIN l : i \in DOMAIN k.log /\ k.log[i] = l[i]
  /\ \A i \in DOMAIN k.log : k.log[i].seq <= k.latest /\ (i \in DOMAIN l \/ ~Lasts(k.log[i]))
  /\ k.gap => k.latest < Len(es)

Shown(e, top, es) == InLog(e, es) /\ (Lasts(e) => e.seq <= top)

LEMMA TakeGains ==
  ASSUME NEW k, NEW l, NEW top \in Nat, NEW es, es \in Seq(Entry), Numbered(es), l \in Seq(Entry), Gains(k, l, top, es),
         NEW e \in Entry, Shown(e, top, es)
  PROVE  Gains(TakeEvent(k, e), l, top, es)
<1> DEFINE r == Append(k.log, e)
<1>1. k \in CopyOf /\ k.log \in Seq(Entry) /\ k.latest \in Nat /\ k.gap \in BOOLEAN /\ e.seq \in Nat /\ k.latest >= top
  BY EntryParts DEF Gains, CopyOf
<1>2. TakeEvent(k, e) \in CopyOf
  BY <1>1, TakeParts
<1>3. CASE k.gap \/ e.seq <= k.latest
  <2>1. TakeEvent(k, e) = k
    BY <1>3 DEF TakeEvent
  <2> QED BY <2>1
<1>4. CASE ~(k.gap \/ e.seq <= k.latest) /\ e.seq # k.latest + 1
  <2>1. TakeEvent(k, e) = [k EXCEPT !.gap = TRUE]
    BY <1>4 DEF TakeEvent
  <2>2. TakeEvent(k, e).log = k.log /\ TakeEvent(k, e).latest = k.latest
    BY <1>1, <2>1 DEF CopyOf
  <2>3. k.latest < Len(es)
    <3>1. PICK i \in DOMAIN es : es[i] = e
      BY DEF Shown, InLog
    <3>2. e.seq = i /\ i <= Len(es) /\ i \in Nat /\ Len(es) \in Nat
      BY <3>1 DEF Numbered
    <3> QED BY <1>1, <1>4, <3>2
  <2> QED BY <1>1, <1>2, <2>2, <2>3 DEF Gains
<1>5. CASE ~(k.gap \/ e.seq <= k.latest) /\ e.seq = k.latest + 1
  <2>1. TakeEvent(k, e) = [k EXCEPT !.log = Append(@, e), !.latest = e.seq]
    BY <1>5 DEF TakeEvent
  <2>2. TakeEvent(k, e).log = r /\ TakeEvent(k, e).latest = e.seq /\ ~TakeEvent(k, e).gap
    BY <1>1, <1>5, <2>1 DEF CopyOf
  <2>3. ~Lasts(e)
    BY <1>1, <1>5 DEF Shown
  <2>4. /\ Len(k.log) \in Nat /\ DOMAIN k.log = 1..Len(k.log) /\ DOMAIN r = 1..(Len(k.log) + 1)
        /\ r[Len(k.log) + 1] = e /\ \A i \in 1..Len(k.log) : r[i] = k.log[i] /\ k.log[i] \in Entry
    BY <1>1, AppendParts
  <2> HIDE DEF r
  <2>5. \A i \in DOMAIN r : (i \in DOMAIN k.log /\ r[i] = k.log[i]) \/ r[i] = e
    BY <2>4
  <2>6. \A i \in DOMAIN l : i \in DOMAIN r /\ r[i] = l[i]
    BY <2>4 DEF Gains
  <2>7. ASSUME NEW i \in DOMAIN r PROVE r[i].seq <= e.seq /\ (i \in DOMAIN l \/ ~Lasts(r[i]))
    <3>1. CASE i \in DOMAIN k.log /\ r[i] = k.log[i]
      <4>1. k.log[i].seq \in Nat /\ k.log[i].seq <= k.latest /\ (i \in DOMAIN l \/ ~Lasts(k.log[i]))
        BY <2>4, <3>1, EntryParts DEF Gains
      <4>2. k.log[i].seq <= e.seq
        BY <1>1, <1>5, <4>1
      <4> QED BY <3>1, <4>1, <4>2
    <3>2. CASE r[i] = e
      BY <1>1, <2>3, <3>2
    <3> QED BY <2>5, <3>1, <3>2
  <2>8. e.seq >= top
    BY <1>1, <1>5
  <2> QED BY <1>2, <2>2, <2>6, <2>7, <2>8 DEF Gains
<1> QED BY <1>3, <1>4, <1>5

LEMMA ApplyGains ==
  ASSUME NEW k, NEW l, NEW top \in Nat, NEW es, es \in Seq(Entry), Numbered(es), l \in Seq(Entry), Gains(k, l, top, es)
  PROVE  \A s \in Seq(Entry) : (\A i \in DOMAIN s : Shown(s[i], top, es)) => Gains(ApplyEvents(k, s), l, top, es)
<1> DEFINE Q == {s \in Seq(Entry) : (\A i \in DOMAIN s : Shown(s[i], top, es)) => Gains(ApplyEvents(k, s), l, top, es)}
<1>1. k \in CopyOf
  BY DEF Gains
<1>2. <<>> \in Q
  <2>1. <<>> \in Seq(Entry) /\ ApplyEvents(k, <<>>) = k
    BY <1>1, ApplySteps
  <2> QED BY <2>1
<1>3. ASSUME NEW s \in Seq(Entry), NEW e \in Entry, s \in Q PROVE Append(s, e) \in Q
  <2> DEFINE r == Append(s, e)
  <2>1. /\ r \in Seq(Entry) /\ Len(s) \in Nat /\ DOMAIN s = 1..Len(s) /\ DOMAIN r = 1..(Len(s) + 1)
        /\ r[Len(s) + 1] = e /\ \A i \in 1..Len(s) : r[i] = s[i]
    BY AppendParts
  <2>2. ApplyEvents(k, r) = TakeEvent(ApplyEvents(k, s), e)
    BY <1>1, ApplySteps
  <2> HIDE DEF r
  <2>3. ASSUME \A i \in DOMAIN r : Shown(r[i], top, es)
        PROVE  Gains(ApplyEvents(k, r), l, top, es)
    <3>1. Shown(e, top, es) /\ \A i \in DOMAIN s : Shown(s[i], top, es)
      <4>1. Len(s) + 1 \in DOMAIN r /\ \A i \in DOMAIN s : i \in DOMAIN r /\ r[i] = s[i]
        BY <2>1
      <4> QED BY <2>1, <2>3, <4>1
    <3>2. PICK k2 : k2 = ApplyEvents(k, s)
      OBVIOUS
    <3>3. Gains(k2, l, top, es)
      BY <1>3, <3>1, <3>2
    <3>4. Gains(TakeEvent(k2, e), l, top, es)
      BY <3>1, <3>3, TakeGains
    <3> QED BY <2>2, <3>2, <3>4
  <2> QED BY <2>1, <2>3 DEF r
<1> HIDE DEF Q
<1>4. Seq(Entry) \subseteq Q
  BY <1>2, <1>3, SequencesBySteps
<1> QED BY <1>4 DEF Q

LEMMA KnownIsShown ==
  ASSUME NEW l, NEW top, NEW pd, NEW m, Copied(l, top, pd, m), NEW es, NEW ms, ms \in Seq(Answer),
         Agrees(l, pd, es, ms), NEW e, Known(e, 1, ms, es, pd)
  PROVE  Shown(e, top, es)
<1>1. InLog(e, es)
  BY DEF Known
<1>2. ASSUME Lasts(e) PROVE e.seq <= top
  <2>1. e.id \notin DOMAIN pd
    <3> SUFFICES ASSUME e.id \in DOMAIN pd PROVE FALSE
      OBVIOUS
    <3>1. PICK j \in DOMAIN ms : j < 1
      BY <1>2 DEF Known
    <3>2. j \in Nat /\ j >= 1
      BY ElementOf
    <3> QED BY <3>1, <3>2
  <2>2. InLog(e, l)
    BY <1>1, <1>2, <2>1 DEF Agrees, InLog
  <2> QED BY <2>2 DEF InLog, Copied
<1> QED BY <1>1, <1>2 DEF Shown

LEMMA FirstIsShown ==
  ASSUME NEW l, NEW top, NEW pd, NEW m, Copied(l, top, pd, m), NEW w, NEW es, NEW ms, Written(w, es, m),
         Agrees(l, pd, es, ms)
  PROVE  1 <= top
<1>1. PICK i \in DOMAIN es : es[i] = First
  BY DEF Written, InLog
<1>2. First.id = Created /\ First.seq = 1 /\ Lasts(First)
  BY IdParts DEF First
<1>3. First.id \notin DOMAIN pd
  BY <1>2, CreatedIsNoId DEF Copied
<1>4. InLog(First, l)
  BY <1>1, <1>2, <1>3 DEF Agrees
<1> QED BY <1>2, <1>4 DEF InLog, Copied

\* The copy with what a message brought.
LEMMA CopyGains ==
  ASSUME NEW l, NEW top, NEW pd, NEW m, Copied(l, top, pd, m), NEW es, NEW t, Gains(t, l, top, es),
         NEW top2 \in Nat, t.latest <= top2
  PROVE  Copied(t.log, top2, pd, m)
<1>1. t.log \in Seq(Entry) /\ t.latest \in Nat
  BY DEF Gains, CopyOf
<1>2. \A i \in DOMAIN l : i \in DOMAIN t.log /\ t.log[i] = l[i]
  BY DEF Gains
<1>3. ASSUME NEW i \in DOMAIN t.log PROVE t.log[i].seq <= top2
  <2>1. t.log[i].seq \in Nat /\ t.log[i].seq <= t.latest
    BY <1>1, ElementOf, IdParts DEF Gains
  <2> QED BY <1>1, <2>1
<1>4. \A i \in DOMAIN t.log : Lasts(t.log[i]) => i \in DOMAIN l /\ t.log[i] = l[i]
  BY <1>2 DEF Gains
<1>5. InOrder(t.log, m)
  BY <1>4 DEF Copied, InOrder
<1>6. \A id \in DOMAIN pd : id.kind # "live" /\ pd[id] \in DOMAIN t.log /\ t.log[pd[id]].id = id
  BY <1>2 DEF Copied
<1> QED BY <1>1, <1>3, <1>5, <1>6 DEF Copied

LEMMA AgreesAfter ==
  ASSUME NEW l, NEW top, NEW pd, NEW es, NEW ms, Agrees(l, pd, es, ms), NEW t, Gains(t, l, top, es)
  PROVE  Agrees(t.log, pd, es, ms)
<1>1. \A i \in DOMAIN l : i \in DOMAIN t.log /\ t.log[i] = l[i]
  BY DEF Gains
<1>2. \A i \in DOMAIN t.log : Lasts(t.log[i]) => i \in DOMAIN l /\ t.log[i] = l[i]
  BY <1>1 DEF Gains
<1>3. \A x : InLog(x, l) => InLog(x, t.log)
  BY <1>1 DEF InLog
<1> QED BY <1>2, <1>3 DEF Agrees

LEMMA ResyncSent ==
  ASSUME NEW w, NEW l, NEW top, NEW pd, NEW es, NEW cs, NEW ms, NEW m, Sound(w, l, top, pd, es, cs, ms, m),
         NEW n \in Nat, 1 <= n, n < Len(es)
  PROVE  Sound(w, l, top, pd, es, Append(cs, Resync(n)), ms, m)
<1> DEFINE a == Resync(n)
           r == Append(cs, a)
<1>1. /\ Copied(l, top, pd, m) /\ Written(w, es, m) /\ Agrees(l, pd, es, ms)
      /\ Calls(w, cs, es, pd, m) /\ Heard(ms, es, pd, cs, m) /\ Waits(pd, cs, ms)
  BY DEF Sound
<1>2. cs \in Seq(Call)
  BY <1>1 DEF Calls
<1>3. a \in Call /\ a.op = "resync" /\ a.since = n
  BY CallKinds
<1> HIDE DEF a
<1>4. /\ Len(cs) \in Nat /\ DOMAIN cs = 1..Len(cs) /\ r \in Seq(Call) /\ DOMAIN r = 1..(Len(cs) + 1)
      /\ r[Len(cs) + 1] = a /\ \A i \in 1..Len(cs) : r[i] = cs[i]
  BY <1>2, <1>3, AppendParts
<1> HIDE DEF r
<1>5. (\A k \in DOMAIN r : (k \in DOMAIN cs /\ r[k] = cs[k]) \/ r[k] = a) /\ \A k \in DOMAIN cs : k \in DOMAIN r /\ r[k] = cs[k]
  BY <1>4
<1>6. Calls(w, r, es, pd, m)
  <2>1. ASSUME NEW k \in DOMAIN r, r[k].op = "event"
        PROVE  /\ r[k].id.by = w /\ r[k].id.n <= m /\ (r[k].id.kind # "live" => r[k].id \in DOMAIN pd)
               /\ \A i \in DOMAIN es : es[i].id.n < r[k].id.n
    BY <1>1, <1>3, <1>5, <2>1 DEF Calls
  <2>2. ASSUME NEW k \in DOMAIN r, r[k].op = "resync" PROVE 1 <= r[k].since /\ r[k].since < Len(es)
    BY <1>1, <1>3, <1>5, <2>2 DEF Calls
  <2>3. ASSUME NEW j \in DOMAIN r, NEW k \in DOMAIN r, j < k, r[j].op = "event", r[k].op = "event"
        PROVE  r[j].id.n < r[k].id.n
    BY <1>1, <1>3, <1>5, <2>3 DEF Calls
  <2> QED BY <1>4, <2>1, <2>2, <2>3 DEF Calls
<1>7. Heard(ms, es, pd, r, m)
  <2>1. ASSUME NEW k \in DOMAIN ms PROVE Says(k, ms, es, pd, r)
    <3>1. Says(k, ms, es, pd, cs)
      BY <1>1 DEF Heard
    <3> QED BY <1>3, <1>5, <3>1 DEF Says
  <2> QED BY <1>1, <2>1 DEF Heard
<1>8. Waits(pd, r, ms)
  BY <1>1, <1>5 DEF Waits
<1>9. Sound(w, l, top, pd, es, r, ms, m)
  BY <1>1, <1>6, <1>7, <1>8 DEF Sound
<1> QED BY <1>9 DEF r, a

\* handleJoined with a delta, and an event of the room.
LEMMA NewsTaken ==
  ASSUME NEW w, NEW l, NEW top, NEW pd, NEW es, NEW cs, NEW ms, NEW m, Sound(w, l, top, pd, es, cs, ms, m),
         ms # <<>>, ~Answers(Head(ms)), NEW s \in Seq(Entry), \A i \in DOMAIN s : Known(s[i], 1, ms, es, pd),
         NEW k, k = [log |-> l, latest |-> top, gap |-> FALSE], NEW t, t = ApplyEvents(k, s),
         NEW top2 \in Nat, t.latest <= top2
  PROVE  Sound(w, t.log, top2, pd, es, cs \o ResyncFrom(t), Tail(ms), m)
<1>1. /\ Copied(l, top, pd, m) /\ Written(w, es, m) /\ Agrees(l, pd, es, ms)
      /\ Calls(w, cs, es, pd, m) /\ Heard(ms, es, pd, cs, m) /\ Waits(pd, cs, ms)
  BY DEF Sound
<1>2. es \in Seq(Entry) /\ Numbered(es) /\ cs \in Seq(Call) /\ ms \in Seq(Answer) /\ l \in Seq(Entry) /\ top \in Nat
  BY <1>1 DEF Copied, Written, Calls, Heard
<1>3. \A i \in DOMAIN s : Shown(s[i], top, es)
  BY <1>1, <1>2, KnownIsShown
<1>4. Gains(k, l, top, es)
  <2>1. k \in CopyOf /\ k.log = l /\ k.latest = top /\ ~k.gap
    BY <1>2 DEF CopyOf
  <2>2. \A i \in DOMAIN l : l[i].seq <= top
    BY <1>1 DEF Copied
  <2> QED BY <1>2, <2>1, <2>2 DEF Gains
<1>5. Gains(t, l, top, es)
  BY <1>2, <1>3, <1>4, ApplyGains
<1>6. Sound(w, l, top, pd, es, cs, Tail(ms), m)
  BY MessageOver
<1>7. Copied(t.log, top2, pd, m)
  BY <1>1, <1>5, CopyGains
<1>8. Agrees(t.log, pd, es, Tail(ms))
  BY <1>5, <1>6, AgreesAfter DEF Sound
<1>9. Sound(w, t.log, top2, pd, es, cs, Tail(ms), m)
  BY <1>6, <1>7, <1>8 DEF Sound
<1>10. CASE t.gap
  <2>1. t.latest \in Nat /\ t.latest < Len(es) /\ t.latest >= top
    BY <1>5, <1>10 DEF Gains, CopyOf
  <2>2. 1 <= t.latest
    <3>1. 1 <= top
      BY <1>1, FirstIsShown
    <3> QED BY <1>2, <2>1, <3>1
  <2> DEFINE n == t.latest
  <2>3. n \in Nat /\ 1 <= n /\ n < Len(es)
    BY <2>1, <2>2
  <2>4. ResyncFrom(t) = <<Resync(n)>>
    BY <1>10 DEF ResyncFrom, Resync
  <2> HIDE DEF n
  <2>5. Resync(n) \in Call
    BY <2>3, CallKinds
  <2>6. cs \o ResyncFrom(t) = Append(cs, Resync(n))
    <3> DEFINE a == Resync(n)
    <3>1. a \in Call
      BY <2>5
    <3> HIDE DEF a
    <3>2. cs \o <<a>> = Append(cs, a)
      BY <1>2, <3>1
    <3> QED BY <2>4, <3>2 DEF a
  <2>7. Sound(w, t.log, top2, pd, es, Append(cs, Resync(n)), Tail(ms), m)
    BY <1>9, <2>3, ResyncSent
  <2> QED BY <2>6, <2>7
<1>11. CASE ~t.gap
  <2>1. ResyncFrom(t) = <<>>
    BY <1>11 DEF ResyncFrom
  <2>2. cs \o <<>> = cs
    BY <1>2
  <2> QED BY <1>9, <2>1, <2>2
<1> QED BY <1>10, <1>11

-----------------------------------------------------------------------------
(* Lists in the order of the numbers, with the same events, are the same *)

Ordered(s) == \A i, j \in DOMAIN s : i < j /\ Lasts(s[i]) /\ Lasts(s[j]) => s[i].id.n < s[j].id.n
SameLasting(a, b) ==
  /\ \A i \in DOMAIN a : Lasts(a[i]) => InLog(a[i], b)
  /\ \A i \in DOMAIN b : Lasts(b[i]) => InLog(b[i], a)

\* What follows the n-th event and does not last does not count.
LEMMA RestDoesNotLast ==
  ASSUME NEW b \in Seq(Entry), NEW n \in 0..Len(b), \A i \in DOMAIN b : n < i => ~Lasts(b[i])
  PROVE  Persisted(b) = Persisted(UpTo(b, n))
<1> DEFINE T == {k \in Nat : n + k <= Len(b) => Persisted(UpTo(b, n + k)) = Persisted(UpTo(b, n))}
<1>1. Len(b) \in Nat /\ n \in Nat /\ DOMAIN b = 1..Len(b)
  OBVIOUS
<1>2. 0 \in T
  OBVIOUS
<1>3. ASSUME NEW k \in Nat, k \in T PROVE k + 1 \in T
  <2>1. ASSUME n + (k + 1) <= Len(b) PROVE Persisted(UpTo(b, n + (k + 1))) = Persisted(UpTo(b, n))
    <3>1. n + k \in 0..(Len(b) - 1) /\ (n + k) + 1 = n + (k + 1) /\ n < (n + k) + 1 /\ (n + k) + 1 \in DOMAIN b /\ n + k \in 0..Len(b)
      BY <1>1, <2>1
    <3> DEFINE j == n + k
               e == b[j + 1]
               s == UpTo(b, j)
    <3>2. e \in Entry /\ UpTo(b, j + 1) = Append(s, e) /\ s \in Seq(Entry)
      BY <3>1, UpToSteps
    <3>3. ~Lasts(e)
      BY <3>1
    <3> HIDE DEF e, s
    <3>4. e \notin Lasting
      BY <3>3 DEF Lasting, Lasts
    <3>5. Persisted(Append(s, e)) = Persisted(s)
      BY <3>2, <3>4, PersistedSteps
    <3>6. Persisted(s) = Persisted(UpTo(b, n))
      BY <1>1, <1>3, <3>1 DEF s
    <3> QED BY <3>1, <3>2, <3>5, <3>6
  <2> QED BY <2>1
<1> HIDE DEF T
<1>4. Nat \subseteq T
  BY <1>2, <1>3, NaturalsBySteps
<1>5. Len(b) - n \in Nat /\ n + (Len(b) - n) = Len(b)
  BY <1>1
<1>6. Persisted(UpTo(b, Len(b))) = Persisted(UpTo(b, n))
  BY <1>1, <1>4, <1>5 DEF T
<1> QED BY <1>6, UpToSteps

LEMMA SameIsEqual ==
  ASSUME NEW a \in Seq(Entry), NEW b \in Seq(Entry), Ordered(a), Ordered(b), SameLasting(a, b)
  PROVE  Persisted(a) = Persisted(b)
<1> DEFINE Q == {s \in Seq(Entry) : \A r \in Seq(Entry) :
                   Ordered(s) /\ Ordered(r) /\ SameLasting(s, r) => Persisted(s) = Persisted(r)}
<1>1. <<>> \in Q
  <2>1. ASSUME NEW r \in Seq(Entry), SameLasting(<<>>, r) PROVE Persisted(<<>>) = Persisted(r)
    <3>1. \A i \in DOMAIN r : ~Lasts(r[i])
      BY <2>1 DEF SameLasting, InLog
    <3>2. 0 \in 0..Len(r)
      OBVIOUS
    <3>3. Persisted(r) = Persisted(UpTo(r, 0))
      BY <3>1, <3>2, RestDoesNotLast
    <3> QED BY <3>3, UpToSteps
  <2> QED BY <2>1
<1>2. ASSUME NEW s \in Seq(Entry), NEW e \in Entry, s \in Q PROVE Append(s, e) \in Q
  <2> DEFINE t == Append(s, e)
  <2>1. /\ t \in Seq(Entry) /\ Len(s) \in Nat /\ DOMAIN s = 1..Len(s) /\ DOMAIN t = 1..(Len(s) + 1)
        /\ t[Len(s) + 1] = e /\ \A i \in 1..Len(s) : t[i] = s[i]
    BY AppendParts
  <2>2. Persisted(t) = IF e \in Lasting THEN Append(Persisted(s), e) ELSE Persisted(s)
    BY PersistedSteps
  <2> HIDE DEF t
  <2>3. /\ \A i \in DOMAIN t : (i \in DOMAIN s /\ t[i] = s[i]) \/ (i = Len(s) + 1 /\ t[i] = e)
        /\ \A i \in DOMAIN s : i \in DOMAIN t /\ t[i] = s[i] /\ i < Len(s) + 1
        /\ Len(s) + 1 \in DOMAIN t
    BY <2>1
  <2>4. ASSUME NEW r \in Seq(Entry), Ordered(t), Ordered(r), SameLasting(t, r) PROVE Persisted(t) = Persisted(r)
    <3>1. Ordered(s)
      BY <2>3, <2>4 DEF Ordered
    <3>2. CASE ~Lasts(e)
      <4>1. SameLasting(s, r)
        <5>1. \A i \in DOMAIN s : Lasts(s[i]) => InLog(s[i], r)
          BY <2>3, <2>4 DEF SameLasting
        <5>2. ASSUME NEW i \in DOMAIN r, Lasts(r[i]) PROVE InLog(r[i], s)
          <6>1. PICK j \in DOMAIN t : t[j] = r[i]
            BY <2>4, <5>2 DEF SameLasting, InLog
          <6>2. j \in DOMAIN s /\ s[j] = r[i]
            BY <2>3, <3>2, <5>2, <6>1
          <6> QED BY <6>2 DEF InLog
        <5> QED BY <5>1, <5>2 DEF SameLasting
      <4>2. Persisted(s) = Persisted(r)
        BY <1>2, <2>4, <3>1, <4>1
      <4>3. e \notin Lasting
        BY <3>2 DEF Lasting, Lasts
      <4> QED BY <2>2, <4>2, <4>3
    <3>3. CASE Lasts(e)
      <4>1. InLog(e, r)
        BY <2>1, <2>3, <2>4, <3>3 DEF SameLasting
      <4>2. PICK n \in DOMAIN r : r[n] = e
        BY <4>1 DEF InLog
      <4>3. n \in Nat /\ n >= 1 /\ n <= Len(r) /\ Len(r) \in Nat /\ DOMAIN r = 1..Len(r) /\ e.id.n \in Nat
        BY IdParts
      <4>4. ASSUME NEW i \in DOMAIN r, n < i PROVE ~Lasts(r[i])
        <5> SUFFICES ASSUME Lasts(r[i]) PROVE FALSE
          OBVIOUS
        <5>1. e.id.n < r[i].id.n
          BY <2>4, <3>3, <4>2, <4>4 DEF Ordered
        <5>2. PICK j \in DOMAIN t : t[j] = r[i]
          BY <2>4 DEF SameLasting, InLog
        <5>3. t[j].id.n \in Nat
          BY <2>1, ElementOf, IdParts
        <5>4. CASE t[j] = e
          BY <4>3, <5>1, <5>2, <5>4
        <5>5. CASE j \in DOMAIN s
          <6>1. t[j].id.n < t[Len(s) + 1].id.n
            BY <2>1, <2>3, <2>4, <3>3, <5>2, <5>5 DEF Ordered
          <6> QED BY <2>1, <4>3, <5>1, <5>2, <5>3, <6>1
        <5> QED BY <2>3, <5>4, <5>5
      <4>5. Persisted(r) = Persisted(UpTo(r, n))
        BY <4>3, <4>4, RestDoesNotLast
      <4> DEFINE k == n - 1
                 u == UpTo(r, k)
      <4>6. k \in 0..(Len(r) - 1) /\ k + 1 = n /\ k \in 0..Len(r) /\ k \in Nat
        BY <4>3
      <4> HIDE DEF k
      <4>7. u \in Seq(Entry) /\ UpTo(r, n) = Append(u, e)
        BY <4>2, <4>6, UpToSteps
      <4>8. DOMAIN u = 1..k /\ \A i \in 1..k : u[i] = r[i]
        BY <4>3, <4>6 DEF UpTo
      <4> HIDE DEF u
      <4>9. \A i \in DOMAIN u : i \in DOMAIN r /\ u[i] = r[i] /\ i < n /\ i \in Nat
        BY <4>3, <4>6, <4>8
      <4>10. \A i \in DOMAIN r : i < n => i \in DOMAIN u
        BY <4>3, <4>6, <4>8
      <4>11. Ordered(u)
        BY <2>4, <4>9 DEF Ordered
      <4>12. SameLasting(s, u)
        <5>1. ASSUME NEW i \in DOMAIN s, Lasts(s[i]) PROVE InLog(s[i], u)
          <6>1. s[i].id.n < e.id.n
            BY <2>1, <2>3, <2>4, <3>3, <5>1 DEF Ordered
          <6>2. PICK j \in DOMAIN r : r[j] = s[i]
            BY <2>3, <2>4, <5>1 DEF SameLasting, InLog
          <6>3. j < n
            <7>1. j \in Nat /\ s[i].id.n \in Nat
              BY <6>2, ElementOf, IdParts
            <7>2. CASE j = n
              BY <4>2, <4>3, <6>1, <6>2, <7>1, <7>2
            <7>3. CASE n < j
              <8>1. e.id.n < r[j].id.n
                BY <2>4, <3>3, <4>2, <5>1, <6>2, <7>3 DEF Ordered
              <8> QED BY <4>3, <6>1, <6>2, <7>1, <8>1
            <7> QED BY <4>3, <7>1, <7>2, <7>3
          <6> QED BY <4>9, <4>10, <6>2, <6>3 DEF InLog
        <5>2. ASSUME NEW i \in DOMAIN u, Lasts(u[i]) PROVE InLog(u[i], s)
          <6>1. i \in DOMAIN r /\ u[i] = r[i] /\ i < n
            BY <4>9
          <6>2. r[i].id.n < e.id.n
            BY <2>4, <3>3, <4>2, <5>2, <6>1 DEF Ordered
          <6>3. PICK j \in DOMAIN t : t[j] = r[i]
            BY <2>4, <5>2, <6>1 DEF SameLasting, InLog
          <6>4. t[j] # e
            BY <4>3, <6>2, <6>3
          <6>5. j \in DOMAIN s /\ s[j] = u[i]
            BY <2>3, <6>1, <6>3, <6>4
          <6> QED BY <6>5 DEF InLog
        <5> QED BY <5>1, <5>2 DEF SameLasting
      <4>13. Persisted(s) = Persisted(u)
        BY <1>2, <3>1, <4>7, <4>11, <4>12
      <4>14. e \in Lasting
        BY <3>3 DEF Lasting, Lasts
      <4>15. Persisted(Append(u, e)) = Append(Persisted(u), e)
        BY <4>7, <4>14, PersistedSteps
      <4> QED BY <2>2, <4>5, <4>7, <4>13, <4>14, <4>15
    <3> QED BY <3>2, <3>3
  <2> QED BY <2>1, <2>4 DEF t
<1> HIDE DEF Q
<1>3. Seq(Entry) \subseteq Q
  BY <1>1, <1>2, SequencesBySteps
<1> QED BY <1>3 DEF Q

\* When nothing is on its way any more, the copy is the log.
LEMMA SoundIsSame ==
  ASSUME NEW w, NEW l, NEW top, NEW pd, NEW es, NEW m, Sound(w, l, top, pd, es, <<>>, <<>>, m)
  PROVE  Persisted(l) = Persisted(es)
<1>1. Copied(l, top, pd, m) /\ Written(w, es, m) /\ Agrees(l, pd, es, <<>>) /\ Waits(pd, <<>>, <<>>)
  BY DEF Sound
<1>2. DOMAIN pd = {}
  BY <1>1 DEF Waits
<1>3. l \in Seq(Entry) /\ es \in Seq(Entry) /\ Ordered(l) /\ Ordered(es)
  BY <1>1 DEF Copied, Written, InOrder, Ordered
<1>4. SameLasting(l, es)
  BY <1>1, <1>2 DEF Agrees, SameLasting
<1> QED BY <1>3, <1>4, SameIsEqual

-----------------------------------------------------------------------------
(* The steps of the writer's store *)

\* Before the writer is told the log there is nothing in it.
Away(w) ==
  /\ ~joined[w] /\ ~mounted[w] /\ log[w] = <<>> /\ latest[w] = 0 /\ DOMAIN pending[w] = {} /\ made[w] = 0
  /\ events = <<First>>
  /\ \/ ~online[w] /\ toServer[w] = <<>> /\ toClient[w] = <<>>
     \/ online[w] /\ toServer[w] = <<[op |-> "join", since |-> 0]>> /\ toClient[w] = <<>>
     \/ online[w] /\ w \in room /\ toServer[w] = <<>> /\ toClient[w] = <<JoinPayload(0)>>

Plays(w) ==
  /\ joined[w] /\ online[w] /\ mounted[w] /\ w \in room
  /\ Sound(w, log[w], latest[w], pending[w], events, toServer[w], toClient[w], made[w])

WriterInv(w) ==
  /\ queue[w] = <<>> /\ peeked[w] = {} /\ awaiting[w] = {}
  /\ Away(w) \/ Plays(w)

\* The variables of a client that a display does not need.
Counted ==
  /\ DOMAIN pending = Client /\ DOMAIN mounted = Client
  /\ made \in [Client -> Nat] /\ drops \in [Client -> Nat] /\ reloads \in [Client -> Nat]

SameCounts(w) ==
  /\ pending'[w] = pending[w] /\ mounted'[w] = mounted[w] /\ made'[w] = made[w]

LEMMA WriterKept ==
  ASSUME NEW w, WriterInv(w), SameView(w), SameCounts(w), events' = events
  PROVE  WriterInv(w)'
<1>1. JoinPayload(0)' = JoinPayload(0)
  BY DEF JoinPayload
<1>2. CASE Away(w)
  BY <1>1, <1>2 DEF WriterInv, SameView, SameCounts, Away
<1>3. CASE Plays(w)
  BY <1>3 DEF WriterInv, SameView, SameCounts, Plays
<1> QED BY <1>2, <1>3 DEF WriterInv

LEMMA OthersLeaveCounts ==
  ASSUME Counted, NEW w \in Client, NEW c \in Client, c # w,
         \/ Connect(c) \/ Drop(c) \/ Reload(c) \/ ShowOffline(c) \/ Uses(c) \/ Receives(c) \/ Flushes(c)
         \/ ServerAnswers(c)
  PROVE  SameCounts(w)
<1>1. CASE Connect(c)
  BY <1>1 DEF Counted, SameCounts, Connect, copyVars
<1>2. CASE Drop(c)
  BY <1>2 DEF Counted, SameCounts, Drop, copyVars
<1>3. CASE Reload(c)
  BY <1>3 DEF Counted, SameCounts, Reload
<1>4. CASE ShowOffline(c)
  BY <1>4 DEF Counted, SameCounts, ShowOffline, copyVars
<1>5. CASE Uses(c)
  <2>1. CASE MakeEvent(c)
    BY <2>1 DEF Counted, SameCounts, MakeEvent, linkVars
  <2>2. CASE MakeLive(c)
    BY <2>2 DEF Counted, SameCounts, MakeLive, copyVars, linkVars
  <2> QED BY <1>5, <2>1, <2>2 DEF Uses
<1>6. CASE Receives(c)
  <2>1. CASE ReceiveJoined(c)
    BY <2>1 DEF Counted, SameCounts, ReceiveJoined
  <2>2. CASE ReceiveEvent(c)
    BY <2>2 DEF Counted, SameCounts, ReceiveEvent, linkVars
  <2>3. CASE ReceiveAck(c)
    BY <2>3 DEF Counted, SameCounts, ReceiveAck, linkVars
  <2>4. CASE ReceiveReject(c)
    BY <2>4 DEF Counted, SameCounts, ReceiveReject, linkVars
  <2>5. CASE ReceiveError(c)
    BY <2>5 DEF Counted, SameCounts, ReceiveError, copyVars
  <2> QED BY <1>6, <2>1, <2>2, <2>3, <2>4, <2>5 DEF Receives
<1>7. CASE Flushes(c)
  BY <1>7 DEF Counted, SameCounts, Flushes, FlushNext, FlushAnswered, FlushTimeout, copyVars, linkVars
<1>8. CASE ServerAnswers(c)
  BY <1>8 DEF Counted, SameCounts, ServerAnswers, copyVars, linkVars
<1> QED BY <1>1, <1>2, <1>3, <1>4, <1>5, <1>6, <1>7, <1>8

LEMMA CountsStay == Counted /\ [StoreNext]_storeVars => Counted'
<1> SUFFICES ASSUME Counted, [StoreNext]_storeVars PROVE Counted'
  OBVIOUS
<1>1. CASE UNCHANGED storeVars
  BY <1>1 DEF storeVars, serverVars, copyVars, linkVars, queueVars, boundVars, Counted
<1>2. ASSUME NEW c \in Client, Connect(c) \/ Drop(c) \/ Reload(c) \/ ShowOffline(c) PROVE Counted'
  <2>1. CASE Connect(c)
    BY <2>1 DEF Counted, Connect, copyVars, boundVars
  <2>2. CASE Drop(c)
    <3>1. drops' \in [Client -> Nat]
      BY <2>2 DEF Counted, Drop
    <3> QED BY <2>2, <3>1 DEF Counted, Drop, copyVars
  <2>3. CASE Reload(c)
    <3>1. reloads' \in [Client -> Nat]
      BY <2>3 DEF Counted, Reload
    <3> QED BY <2>3, <3>1 DEF Counted, Reload
  <2>4. CASE ShowOffline(c)
    BY <2>4 DEF Counted, ShowOffline, copyVars, boundVars
  <2> QED BY <1>2, <2>1, <2>2, <2>3, <2>4
<1>3. ASSUME NEW c \in Client, Uses(c) PROVE Counted'
  <2>1. CASE MakeEvent(c)
    <3>1. made' = [made EXCEPT ![c] = @ + 1] /\ DOMAIN pending' = DOMAIN pending /\ UNCHANGED <<mounted, drops, reloads>>
      BY <2>1 DEF MakeEvent, linkVars, boundVars
    <3>2. made' \in [Client -> Nat]
      BY <3>1 DEF Counted
    <3> QED BY <3>1, <3>2 DEF Counted
  <2>2. CASE MakeLive(c)
    <3>1. made' = [made EXCEPT ![c] = @ + 1] /\ UNCHANGED <<pending, mounted, drops, reloads>>
      BY <2>2 DEF MakeLive, copyVars, linkVars, boundVars
    <3>2. made' \in [Client -> Nat]
      BY <3>1 DEF Counted
    <3> QED BY <3>1, <3>2 DEF Counted
  <2> QED BY <1>3, <2>1, <2>2 DEF Uses
<1>4. ASSUME NEW c \in Client, Receives(c) PROVE Counted'
  <2>1. CASE ReceiveJoined(c)
    BY <2>1 DEF Counted, ReceiveJoined, boundVars
  <2>2. CASE ReceiveEvent(c)
    BY <2>2 DEF Counted, ReceiveEvent, linkVars, boundVars
  <2>3. CASE ReceiveAck(c)
    BY <2>3 DEF Counted, ReceiveAck, linkVars, boundVars
  <2>4. CASE ReceiveReject(c)
    BY <2>4 DEF Counted, ReceiveReject, linkVars, boundVars
  <2>5. CASE ReceiveError(c)
    BY <2>5 DEF Counted, ReceiveError, copyVars, boundVars
  <2> QED BY <1>4, <2>1, <2>2, <2>3, <2>4, <2>5 DEF Receives
<1>5. ASSUME NEW c \in Client, Flushes(c) PROVE Counted'
  BY <1>5 DEF Counted, Flushes, FlushNext, FlushAnswered, FlushTimeout, copyVars, linkVars, boundVars
<1>6. ASSUME NEW c \in Client, ServerAnswers(c) PROVE Counted'
  BY <1>6 DEF Counted, ServerAnswers, copyVars, linkVars, boundVars
<1>7. CASE ServerLost
  BY <1>7 DEF Counted, ServerLost, copyVars, boundVars
<1> QED BY <1>1, <1>2, <1>3, <1>4, <1>5, <1>6, <1>7 DEF StoreNext

LEMMA WriterConnects ==
  ASSUME Wired, NEW w \in Client, WriterInv(w), Connect(w)
  PROVE  WriterInv(w)'
<1>1. ~online[w] /\ Away(w) /\ log[w] = <<>> /\ toServer[w] = <<>> /\ toClient[w] = <<>>
  BY DEF Connect, WriterInv, Plays, Away
<1>2. HighestSeq(log[w]) = 0
  <2>1. Tops(<<>>, 0) /\ <<>> \in Seq(Entry)
    BY DEF Tops
  <2>2. HighestSeq(<<>>) = 0
    BY <2>1, TopIsHighest
  <2> QED BY <1>1, <2>2
<1>3. toServer'[w] = <<[op |-> "join", since |-> 0]>>
  BY <1>1, <1>2 DEF Connect, Wired
<1>4. /\ UNCHANGED <<events, room, toClient, joined, mounted, log, latest, pending, queue, peeked, awaiting, made>>
      /\ online'[w]
  BY DEF Connect, Wired, ServerState, memory, copyVars, queueVars
<1>5. Away(w)'
  BY <1>1, <1>3, <1>4 DEF Away
<1> QED BY <1>4, <1>5 DEF WriterInv

LEMMA WriterMakesEvent ==
  ASSUME Wired, Counted, NEW w \in Client, WriterInv(w), MakeEvent(w), late' = {}
  PROVE  WriterInv(w)'
<1>1. PICK kind \in Makes[w] \ {"live"} :
        LET id == [by |-> w, n |-> made[w] + 1, kind |-> kind]
            new == Append(log[w], [seq |-> latest[w] + 1, id |-> id])
        IN /\ mounted[w] /\ made[w] < MaxEvents
           /\ made' = [made EXCEPT ![w] = @ + 1]
           /\ log' = [log EXCEPT ![w] = new]
           /\ latest' = [latest EXCEPT ![w] = @ + 1]
           /\ pending' = [pending EXCEPT ![w] = [x \in DOMAIN @ \cup {id} |-> IF x = id THEN Len(new) ELSE @[x]]]
           /\ \/ IsOnline(w) /\ Emit(w, id) /\ UNCHANGED <<queue, late, saved>>
              \/ /\ ~IsOnline(w) /\ w \in Dealer
                 /\ queue' = [queue EXCEPT ![w] = Append(@, id)]
                 /\ late' = IF joined[w] THEN late \cup {id} ELSE late
                 /\ saved' = [saved EXCEPT ![w] = Persisted(new)]
                 /\ UNCHANGED serverVars
           /\ UNCHANGED <<linkVars, flushing, peeked, awaiting, boundVars>>
  BY DEF MakeEvent
<1> DEFINE id == [by |-> w, n |-> made[w] + 1, kind |-> kind]
           e == [seq |-> latest[w] + 1, id |-> id]
           pd == pending[w]
           pd2 == [x \in DOMAIN pd \cup {id} |-> IF x = id THEN Len(Append(log[w], e)) ELSE pd[x]]
<1>2. Plays(w) /\ made[w] \in Nat
  BY <1>1 DEF WriterInv, Away, Counted
<1>3. IsOnline(w)
  <2>1. joined[w]
    BY <1>2 DEF Plays
  <2> QED BY <1>1, <2>1
<1>4. made[w] < MaxEvents /\ id.by = w /\ id.n = made[w] + 1 /\ id.kind = kind
  BY <1>1
<1>5. id \in Id /\ kind # "live"
  <2>1. kind \in Kind /\ kind # "live"
    BY StoreAssumption
  <2>2. made[w] + 1 \in 1..MaxEvents
    BY <1>2, <1>4, BoundAssumption
  <2> QED BY <2>1, <2>2 DEF Id
<1>6. /\ made'[w] = made[w] + 1 /\ log'[w] = Append(log[w], e) /\ latest'[w] = latest[w] + 1 /\ pending'[w] = pd2
      /\ UNCHANGED <<joined, online, mounted, peeked, awaiting, queue>>
  BY <1>1, <1>3 DEF Wired, Counted, linkVars
<1>7. Emit(w, id)
  BY <1>1, <1>3
<1>8. toServer'[w] = Append(toServer[w], Asking(id)) /\ UNCHANGED <<events, room, toClient>>
  BY <1>7 DEF Emit, Wired, Asking, ServerState, memory
<1>9. Sound(w, log[w], latest[w], pd, events, toServer[w], toClient[w], made[w])
  BY <1>2 DEF Plays
<1> HIDE DEF id
<1>10. Sound(w, Append(log[w], e), latest[w] + 1, pd2, events, Append(toServer[w], Asking(id)), toClient[w], made[w] + 1)
  BY <1>4, <1>5, <1>9, OwnShown
<1> HIDE DEF e, pd2
<1>11. Plays(w)'
  BY <1>2, <1>6, <1>8, <1>10 DEF Plays
<1> QED BY <1>6, <1>11 DEF WriterInv

LEMMA WriterMakesLive ==
  ASSUME Wired, Counted, NEW w \in Client, WriterInv(w), MakeLive(w)
  PROVE  WriterInv(w)'
<1> DEFINE id == [by |-> w, n |-> made[w] + 1, kind |-> "live"]
<1>1. /\ Plays(w) /\ made[w] \in Nat /\ made[w] < MaxEvents
      /\ made'[w] = made[w] + 1 /\ Emit(w, id)
      /\ UNCHANGED <<joined, online, mounted, peeked, awaiting, queue, log, latest, pending>>
  BY DEF WriterInv, Away, Counted, MakeLive, copyVars, linkVars, queueVars
<1>2. id \in Id /\ id.by = w /\ id.n = made[w] + 1 /\ id.kind = "live"
  <2>1. made[w] + 1 \in 1..MaxEvents /\ "live" \in Kind
    BY <1>1, BoundAssumption DEF Kind
  <2> QED BY <2>1 DEF Id
<1> HIDE DEF id
<1>3. toServer'[w] = Append(toServer[w], Asking(id)) /\ UNCHANGED <<events, room, toClient>>
  BY <1>1 DEF Emit, Wired, Asking, ServerState, memory
<1>4. Sound(w, log[w], latest[w], pending[w], events, toServer[w], toClient[w], made[w])
  BY <1>1 DEF Plays
<1>5. Sound(w, log[w], latest[w], pending[w], events, Append(toServer[w], Asking(id)), toClient[w], made[w] + 1)
  BY <1>2, <1>4, OwnInput
<1>6. Plays(w)'
  BY <1>1, <1>3, <1>5 DEF Plays
<1> QED BY <1>1, <1>6 DEF WriterInv

\* What the writer hears while it plays.
LEMMA HeardFirst ==
  ASSUME NEW w, NEW l, NEW top, NEW pd, NEW es, NEW cs, NEW ms, NEW m, Sound(w, l, top, pd, es, cs, ms, m), ms # <<>>
  PROVE  LET h == Head(ms)
         IN /\ h \in Answer
            /\ h.op = "event" => h.event \in Entry /\ Known(h.event, 1, ms, es, pd)
            /\ h.op = "joined" => /\ ~h.replace /\ h.seq \in Nat /\ h.events \in Seq(Entry)
                                  /\ \A i \in DOMAIN h.events : Known(h.events[i], 1, ms, es, pd)
<1> DEFINE h == Head(ms)
<1>1. Heard(ms, es, pd, cs, m)
  BY DEF Sound
<1>2. ms \in Seq(Answer)
  BY <1>1 DEF Heard
<1>3. 1 \in DOMAIN ms /\ h = ms[1] /\ h \in Answer
  BY <1>2, LaterMessages
<1> HIDE DEF h
<1>4. Says(1, ms, es, pd, cs)
  BY <1>1, <1>3 DEF Heard
<1>5. h.op = "event" => h.event \in Entry
  BY <1>3, AnswerParts
<1>6. h.op = "joined" => ~h.replace /\ h.seq \in Nat /\ h.events \in Seq(Entry)
  BY <1>3, AnswerParts
<1>7. h.op = "event" => Known(h.event, 1, ms, es, pd)
  BY <1>3, <1>4 DEF Says
<1>8. h.op = "joined" => \A i \in DOMAIN h.events : Known(h.events[i], 1, ms, es, pd)
  BY <1>3, <1>4 DEF Says
<1> QED BY <1>3, <1>5, <1>6, <1>7, <1>8 DEF h

\* The first joined message: the log of a table where nobody has done anything.
LEMMA StartTaken ==
  ASSUME NEW es, es = <<First>>, NEW t, t = ApplyEvents(EmptyCopy, es), NEW w, NEW pd, DOMAIN pd = {}
  PROVE  t.latest = 1 /\ ResyncFrom(t) = <<>> /\ Sound(w, t.log, 1, pd, es, <<>>, <<>>, 0)
<1>1. First \in Entry /\ First.seq = 1 /\ First.id = Created /\ Lasts(First) /\ Created.n = 0
  BY IdParts DEF First
<1>2. <<>> \in Seq(Entry) /\ es = Append(<<>>, First) /\ es \in Seq(Entry) /\ es # <<>> /\ Len(es) = 1 /\ DOMAIN es = {1} /\ es[1] = First
  <2> DEFINE f == First
  <2>1. f \in Entry /\ es = <<f>>
    BY <1>1
  <2> HIDE DEF f
  <2>2. <<>> \in Seq(Entry) /\ <<f>> = Append(<<>>, f) /\ <<f>> \in Seq(Entry) /\ <<f>> # <<>> /\ Len(<<f>>) = 1
    BY <2>1
  <2>3. DOMAIN <<f>> = {1} /\ <<f>>[1] = f
    OBVIOUS
  <2> QED BY <2>1, <2>2, <2>3 DEF f
<1>3. EmptyCopy \in CopyOf /\ EmptyCopy.log = <<>> /\ EmptyCopy.latest = 0 /\ ~EmptyCopy.gap
  <2>1. GoodCopy(EmptyCopy, es) /\ EmptyCopy.latest = 0
    BY <1>2, NoneIsGood
  <2>2. EmptyCopy.log = <<>>
    BY DEF EmptyCopy
  <2> QED BY <2>1, <2>2 DEF GoodCopy
<1>4. ApplyEvents(EmptyCopy, <<>>) = EmptyCopy /\ ApplyEvents(EmptyCopy, Append(<<>>, First)) = TakeEvent(EmptyCopy, First)
  <2>1. ApplyEvents(EmptyCopy, <<>>) = EmptyCopy
    BY <1>3, ApplySteps
  <2>2. ApplyEvents(EmptyCopy, Append(<<>>, First)) = TakeEvent(ApplyEvents(EmptyCopy, <<>>), First)
    BY <1>1, <1>2, <1>3, ApplySteps
  <2> QED BY <2>1, <2>2
<1>5. t = TakeEvent(EmptyCopy, First)
  BY <1>2, <1>4
<1>6. t = [EmptyCopy EXCEPT !.log = Append(@, First), !.latest = First.seq]
  BY <1>1, <1>3, <1>5 DEF TakeEvent
<1>7. t.log = es /\ t.latest = 1 /\ ~t.gap
  BY <1>1, <1>2, <1>3, <1>6 DEF EmptyCopy
<1>8. Copied(es, 1, pd, 0)
  BY <1>1, <1>2 DEF Copied, InOrder
<1>9. Numbered(es) /\ InLog(First, es)
  BY <1>1, <1>2 DEF Numbered, InLog
<1>10. Written(w, es, 0)
  BY <1>1, <1>2, <1>9 DEF Written
<1>11. Agrees(es, pd, es, <<>>)
  BY <1>2, <1>9 DEF Agrees
<1>12. Calls(w, <<>>, es, pd, 0) /\ Heard(<<>>, es, pd, <<>>, 0) /\ Waits(pd, <<>>, <<>>)
  BY DEF Calls, Heard, Waits
<1> QED BY <1>7, <1>8, <1>10, <1>11, <1>12 DEF Sound, ResyncFrom

LEMMA WriterIsTold ==
  ASSUME Wired, Counted, NEW w \in Client, WriterInv(w), ReceiveJoined(w)
  PROVE  WriterInv(w)'
<1> DEFINE h == Head(toClient[w])
           k == IF h.replace THEN EmptyCopy ELSE Copy(w)
           t == ApplyEvents(k, h.events)
           top2 == Max({t.latest, h.seq})
<1>1. toClient[w] # <<>> /\ h.op = "joined"
  BY DEF ReceiveJoined, Take, Message
<1>2. /\ log'[w] = t.log /\ latest'[w] = top2
      /\ toClient'[w] = Tail(toClient[w]) /\ toServer'[w] = toServer[w] \o ResyncFrom(t)
      /\ UNCHANGED <<events, room, pending, online, queue, awaiting, made>>
      /\ joined'[w] /\ peeked'[w] \in {peeked[w], Peek(queue[w])}
  BY DEF Wired, ReceiveJoined, StartFlush, Take, Answering, ServerState, memory
<1>3. mounted'[w]
  BY DEF Counted, ReceiveJoined
<1>4. peeked'[w] = {} /\ queue'[w] = <<>> /\ awaiting'[w] = {}
  BY <1>2 DEF WriterInv, Peek
<1>5. CASE Away(w)
  <2>1. /\ online[w] /\ w \in room /\ toServer[w] = <<>> /\ toClient[w] = <<JoinPayload(0)>>
        /\ events = <<First>> /\ DOMAIN pending[w] = {} /\ made[w] = 0
    BY <1>1, <1>5 DEF Away
  <2>2. h.replace /\ h.events = events /\ h.seq = 1
    <3>1. LastSeq(events) = 1 /\ events[1].seq = 1
      BY <2>1 DEF LastSeq, First
    <3>2. JoinPayload(0) = [op |-> "joined", replace |-> TRUE, events |-> events, seq |-> 1]
      BY <3>1 DEF JoinPayload
    <3> QED BY <2>1, <3>2
  <2>3. t = ApplyEvents(EmptyCopy, events)
    BY <2>2
  <2>4. Tail(toClient[w]) = <<>>
    BY <2>1
  <2> HIDE DEF h, k, t, top2
  <2>5. t.latest = 1 /\ ResyncFrom(t) = <<>> /\ Sound(w, t.log, 1, pending[w], events, <<>>, <<>>, 0)
    BY <2>1, <2>3, StartTaken
  <2>6. top2 = 1
    <3>1. top2 = Max({1, 1})
      BY <2>2, <2>5 DEF top2
    <3> DEFINE S == {1, 1}
    <3>2. S \subseteq Nat /\ S # {} /\ (\A y \in S : y <= 1) /\ \A y \in S : y = 1
      OBVIOUS
    <3> HIDE DEF S
    <3>3. Max(S) \in S
      BY <3>2, MaxOfBounded
    <3> QED BY <3>1, <3>2, <3>3 DEF S
  <2>7. toServer'[w] = <<>>
    <3>1. <<>> \o <<>> = <<>>
      OBVIOUS
    <3> QED BY <1>2, <2>1, <2>5, <3>1
  <2>8. Sound(w, log'[w], latest'[w], pending'[w], events', toServer'[w], toClient'[w], made'[w])
    BY <1>2, <2>1, <2>4, <2>5, <2>6, <2>7
  <2>9. Plays(w)'
    BY <1>2, <1>3, <2>1, <2>8 DEF Plays
  <2> QED BY <1>4, <2>9 DEF WriterInv
<1>6. CASE Plays(w)
  <2> DEFINE s == h.events
             l == log[w]
             pd == pending[w]
             cs == toServer[w]
             ms == toClient[w]
  <2>1. Sound(w, l, latest[w], pd, events, cs, ms, made[w]) /\ ms # <<>>
    BY <1>1, <1>6 DEF Plays
  <2>2. Head(ms) = h
    OBVIOUS
  <2> HIDE DEF h, l, pd, cs, ms
  <2>3. ~h.replace /\ h.seq \in Nat /\ s \in Seq(Entry) /\ \A i \in DOMAIN s : Known(s[i], 1, ms, events, pd)
    BY <1>1, <2>1, <2>2, HeardFirst
  <2>4. k = [log |-> l, latest |-> latest[w], gap |-> FALSE]
    BY <2>3 DEF Copy, l
  <2>5. t = ApplyEvents(k, s) /\ top2 = Max({t.latest, h.seq})
    OBVIOUS
  <2> HIDE DEF k, s, t, top2
  <2>6. l \in Seq(Entry) /\ latest[w] \in Nat
    BY <2>1 DEF Sound, Copied
  <2>7. k \in CopyOf
    BY <2>4, <2>6 DEF CopyOf
  <2>8. t.latest \in Nat
    BY <2>3, <2>5, <2>7, ApplySteps DEF CopyOf
  <2>9. top2 \in Nat /\ t.latest <= top2
    <3> DEFINE n == t.latest
               q == h.seq
    <3>1. n \in Nat /\ q \in Nat /\ top2 = Max({n, q})
      BY <2>3, <2>5, <2>8
    <3> HIDE DEF n, q
    <3>2. top2 \in Nat /\ n <= top2
      BY <3>1, MaxOfTwo
    <3> QED BY <3>2 DEF n
  <2>10. ~Answers(Head(ms))
    BY <1>1, <2>2 DEF Answers
  <2>11. Sound(w, t.log, top2, pd, events, cs \o ResyncFrom(t), Tail(ms), made[w])
    BY <2>1, <2>3, <2>4, <2>5, <2>9, <2>10, NewsTaken
  <2>12. Plays(w)'
    BY <1>2, <1>3, <1>6, <2>11 DEF Plays, pd, cs, ms
  <2> QED BY <1>4, <2>12 DEF WriterInv
<1> QED BY <1>5, <1>6 DEF WriterInv

LEMMA WriterHearsEvent ==
  ASSUME Wired, NEW w \in Client, WriterInv(w), ReceiveEvent(w)
  PROVE  WriterInv(w)'
<1> DEFINE h == Head(toClient[w])
           k == Copy(w)
           s == <<h.event>>
           t == ApplyEvents(k, s)
           l == log[w]
           pd == pending[w]
           cs == toServer[w]
           ms == toClient[w]
<1>1. ms # <<>> /\ h.op = "event" /\ Head(ms) = h
  BY DEF ReceiveEvent, Take, Message
<1>2. /\ log'[w] = t.log /\ latest'[w] = t.latest
      /\ toClient'[w] = Tail(ms) /\ toServer'[w] = cs \o ResyncFrom(t)
      /\ UNCHANGED <<events, room, pending, joined, online, mounted, queue, peeked, awaiting, made>>
  BY DEF Wired, ReceiveEvent, Take, Answering, ServerState, memory, linkVars, queueVars
<1>3. Plays(w)
  <2>1. ASSUME Away(w) PROVE FALSE
    <3>1. toClient[w] = <<JoinPayload(0)>>
      BY <1>1, <2>1 DEF Away
    <3>2. JoinPayload(0).op = "joined"
      BY DEF JoinPayload
    <3> QED BY <1>1, <3>1, <3>2
  <2> QED BY <2>1 DEF WriterInv
<1>4. Sound(w, l, latest[w], pd, events, cs, ms, made[w])
  BY <1>3 DEF Plays
<1>5. k = [log |-> l, latest |-> latest[w], gap |-> FALSE]
  BY DEF Copy
<1> HIDE DEF h, l, pd, cs, ms, k, t
<1>6. h.event \in Entry /\ Known(h.event, 1, ms, events, pd)
  BY <1>1, <1>4, HeardFirst
<1>7. s \in Seq(Entry) /\ \A i \in DOMAIN s : Known(s[i], 1, ms, events, pd)
  <2> DEFINE e == h.event
  <2>1. e \in Entry /\ Known(e, 1, ms, events, pd)
    BY <1>6
  <2> HIDE DEF e
  <2>2. <<e>> \in Seq(Entry) /\ \A i \in DOMAIN <<e>> : <<e>>[i] = e
    BY <2>1
  <2> QED BY <2>1, <2>2 DEF e
<1>8. l \in Seq(Entry) /\ latest[w] \in Nat
  BY <1>4 DEF Sound, Copied
<1>9. k \in CopyOf
  BY <1>5, <1>8 DEF CopyOf
<1>10. t = ApplyEvents(k, s)
  BY DEF t
<1> HIDE DEF s
<1>11. t.latest \in Nat /\ t.latest <= t.latest
  BY <1>7, <1>9, <1>10, ApplySteps DEF CopyOf
<1>12. ~Answers(Head(ms))
  BY <1>1 DEF Answers
<1> DEFINE top2 == t.latest
<1>13. top2 \in Nat /\ t.latest <= top2
  BY <1>11
<1> HIDE DEF top2
<1>14. Sound(w, t.log, top2, pd, events, cs \o ResyncFrom(t), Tail(ms), made[w])
  BY <1>1, <1>4, <1>5, <1>7, <1>10, <1>12, <1>13, NewsTaken
<1>15. Plays(w)'
  BY <1>2, <1>3, <1>14 DEF Plays, pd, cs, ms, top2
<1> QED BY <1>2, <1>15 DEF WriterInv

LEMMA WriterIsAcked ==
  ASSUME Wired, Counted, NEW w \in Client, WriterInv(w), ReceiveAck(w)
  PROVE  WriterInv(w)'
<1> DEFINE h == Head(toClient[w])
           l == log[w]
           pd == pending[w]
           ms == toClient[w]
           new == AckedLog(l, pd, h.id, h.seq)
           top2 == AckedTop(l, latest[w], new, h.seq)
           pd2 == [x \in DOMAIN pd \ {h.id} |-> pd[x]]
<1>1. ms # <<>> /\ Head(ms).op = "ack"
  BY DEF ReceiveAck, Take, Message
<1>2. /\ log'[w] = new /\ latest'[w] = top2 /\ pending'[w] = pd2
      /\ toClient'[w] = Tail(ms) /\ toServer'[w] = toServer[w] \o <<>>
      /\ UNCHANGED <<events, room, joined, online, mounted, queue, peeked, awaiting, made>>
  BY DEF Wired, Counted, ReceiveAck, Take, Answering, ServerState, memory, linkVars, queueVars, Confirmed, Forget,
         AckedLog, AckedTop
<1>3. Plays(w)
  <2>1. ASSUME Away(w) PROVE FALSE
    <3>1. toClient[w] = <<JoinPayload(0)>>
      BY <1>1, <2>1 DEF Away
    <3>2. JoinPayload(0).op = "joined"
      BY DEF JoinPayload
    <3> QED BY <1>1, <3>1, <3>2
  <2> QED BY <2>1 DEF WriterInv
<1>4. Sound(w, l, latest[w], pd, events, toServer[w], ms, made[w])
  BY <1>3 DEF Plays
<1>5. toServer'[w] = toServer[w]
  <2>1. toServer[w] \in Seq(Call)
    BY <1>4 DEF Sound, Calls
  <2> DEFINE cs == toServer[w]
             S == Call
  <2>2. cs \in Seq(S)
    BY <2>1
  <2> HIDE DEF cs, S
  <2>3. cs \o <<>> = cs
    BY <2>2
  <2> QED BY <1>2, <2>3 DEF cs
<1>6. Sound(w, new, top2, pd2, events, toServer[w], Tail(ms), made[w])
  <2> HIDE DEF l, pd, ms
  <2> QED BY <1>1, <1>4, AckTaken DEF ms
<1> HIDE DEF new, top2, pd2
<1>7. Plays(w)'
  BY <1>2, <1>3, <1>5, <1>6 DEF Plays
<1> QED BY <1>2, <1>7 DEF WriterInv

LEMMA WriterIsRejected ==
  ASSUME Wired, Counted, NEW w \in Client, WriterInv(w), ReceiveReject(w)
  PROVE  WriterInv(w)'
<1> DEFINE id == Head(toClient[w]).id
           l == log[w]
           pd == pending[w]
           ms == toClient[w]
           new == RemoveAt(l, pd[id])
           pd2 == [x \in DOMAIN pd \ {id} |-> IF pd[x] > pd[id] THEN pd[x] - 1 ELSE pd[x]]
<1>1. ms # <<>> /\ Head(ms).op = "reject" /\ id = Head(ms).id
  BY DEF ReceiveReject, Take, Message
<1>2. /\ toClient'[w] = Tail(ms) /\ toServer'[w] = toServer[w] \o <<>>
      /\ UNCHANGED <<events, room, joined, online, mounted, queue, peeked, awaiting, made>>
  BY DEF Wired, ReceiveReject, Take, Answering, ServerState, memory, linkVars, queueVars
<1>3. Plays(w)
  <2>1. ASSUME Away(w) PROVE FALSE
    <3>1. toClient[w] = <<JoinPayload(0)>>
      BY <1>1, <2>1 DEF Away
    <3>2. JoinPayload(0).op = "joined"
      BY DEF JoinPayload
    <3> QED BY <1>1, <3>1, <3>2
  <2> QED BY <2>1 DEF WriterInv
<1>4. Sound(w, l, latest[w], pd, events, toServer[w], ms, made[w])
  BY <1>3 DEF Plays
<1>5. toServer'[w] = toServer[w]
  <2>1. toServer[w] \in Seq(Call)
    BY <1>4 DEF Sound, Calls
  <2> DEFINE cs == toServer[w]
             S == Call
  <2>2. cs \in Seq(S)
    BY <2>1
  <2> HIDE DEF cs, S
  <2>3. cs \o <<>> = cs
    BY <2>2
  <2> QED BY <1>2, <2>3 DEF cs
<1>6. CASE id \notin DOMAIN pd
  <2>1. UNCHANGED <<log, latest, pending>>
    BY <1>6 DEF ReceiveReject
  <2>2. Sound(w, l, latest[w], pd, events, toServer[w], Tail(ms), made[w])
    <3> HIDE DEF l, pd, ms
    <3> QED BY <1>1, <1>4, <1>6, MessageOver
  <2>3. Plays(w)'
    BY <1>2, <1>3, <1>5, <2>1, <2>2 DEF Plays
  <2> QED BY <1>2, <2>3 DEF WriterInv
<1>7. CASE id \in DOMAIN pd
  <2>1. /\ log' = [log EXCEPT ![w] = IF pd[id] <= Len(@) THEN RemoveAt(@, pd[id]) ELSE @]
        /\ latest' = [latest EXCEPT ![w] = HighestSeq(log'[w])]
        /\ pending' = [pending EXCEPT ![w] = RolledBack(w, id)]
    BY <1>7 DEF ReceiveReject
  <2>2. pd[id] <= Len(l) /\ Sound(w, new, HighestSeq(new), pd2, events, toServer[w], Tail(ms), made[w])
    <3> HIDE DEF l, pd, ms, id
    <3> QED BY <1>1, <1>4, <1>7, RejectTaken
  <2>3. log'[w] = new
    BY <2>1, <2>2 DEF Wired
  <2>4. latest'[w] = HighestSeq(new) /\ pending'[w] = pd2
    BY <2>1, <2>3 DEF Wired, Counted, RolledBack
  <2> HIDE DEF new, pd2
  <2>5. Plays(w)'
    BY <1>2, <1>3, <1>5, <2>2, <2>3, <2>4 DEF Plays
  <2> QED BY <1>2, <2>5 DEF WriterInv
<1> QED BY <1>6, <1>7

\* What the server does with the first message of the writer.
ServerPart == UNCHANGED <<copyVars, linkVars, queueVars, made, boundVars>>

LEMMA WriterIsAdmitted ==
  ASSUME Wired, NEW w \in Client, WriterInv(w), HandleJoin(w), ServerPart
  PROVE  WriterInv(w)'
<1>1. toServer[w] # <<>> /\ Head(toServer[w]).op = "join"
  BY DEF HandleJoin, Incoming
<1>2. ~Plays(w)
  <2> SUFFICES ASSUME Plays(w) PROVE FALSE
    OBVIOUS
  <2> DEFINE cs == toServer[w]
             S == Call
  <2>1. cs \in Seq(S) /\ cs # <<>> /\ Head(cs).op = "join"
    BY <1>1 DEF Plays, Sound, Calls
  <2> HIDE DEF cs, S
  <2>2. Head(cs) \in S
    BY <2>1
  <2> QED BY <2>1, <2>2, CallKinds DEF S
<1>3. Away(w) /\ online[w] /\ toServer[w] = <<[op |-> "join", since |-> 0]>> /\ toClient[w] = <<>>
  BY <1>1, <1>2 DEF WriterInv, Away
<1>4. Head(toServer[w]).since = 0 /\ Tail(toServer[w]) = <<>> /\ events = <<First>>
  BY <1>3 DEF Away
<1>5. ~SessionEnded
  BY <1>4, IdParts DEF SessionEnded, First
<1>6. /\ toServer'[w] = <<>> /\ toClient'[w] = Append(<<>>, JoinPayload(0)) /\ w \in room'
      /\ UNCHANGED <<events, joined, online, mounted, log, latest, pending, queue, peeked, awaiting, made>>
  BY <1>3, <1>4, <1>5 DEF ServerPart, HandleJoin, Consume, Reply, Wired, memory, copyVars, linkVars, queueVars
<1>7. Append(<<>>, JoinPayload(0)) = <<JoinPayload(0)>> /\ JoinPayload(0)' = JoinPayload(0)
  <2> DEFINE p == JoinPayload(0)
  <2>1. JoinPayload(0)' = JoinPayload(0)
    BY <1>6 DEF JoinPayload
  <2> HIDE DEF p
  <2>2. Append(<<>>, p) = <<p>>
    OBVIOUS
  <2> QED BY <2>1, <2>2 DEF p
<1>8. Away(w)'
  BY <1>3, <1>6, <1>7 DEF Away
<1> QED BY <1>6, <1>8 DEF WriterInv

\* While the writer is away it has sent nothing but the join.
LEMMA WriterPlays ==
  ASSUME NEW w \in Client, WriterInv(w), NEW op, op # "join", Incoming(w, op)
  PROVE  /\ Plays(w) /\ toServer[w] # <<>> /\ Head(toServer[w]).op = op /\ w \in room
         /\ Sound(w, log[w], latest[w], pending[w], events, toServer[w], toClient[w], made[w])
<1>1. ~Away(w)
  <2> SUFFICES ASSUME Away(w) PROVE FALSE
    OBVIOUS
  <2>1. toServer[w] = <<[op |-> "join", since |-> 0]>>
    BY DEF Away, Incoming
  <2> QED BY <2>1 DEF Incoming
<1> QED BY <1>1 DEF WriterInv, Plays, Incoming

LEMMA WriterIsResynced ==
  ASSUME LogInv, Numbered(events), Wired, NEW w \in Client, WriterInv(w), HandleResync(w), ServerPart
  PROVE  WriterInv(w)'
<1> DEFINE cs == toServer[w]
           ms == toClient[w]
           n == Head(cs).since
           s == Selection(events, {e \in Entry : e.seq > n})
<1>1. Incoming(w, "resync")
  BY DEF HandleResync
<1>2. /\ Plays(w) /\ cs # <<>> /\ Head(cs).op = "resync" /\ w \in room
      /\ Sound(w, log[w], latest[w], pending[w], events, cs, ms, made[w])
  BY <1>1, WriterPlays
<1>3. /\ toServer'[w] = Tail(cs) /\ toClient'[w] = Append(ms, JoinPayload(n))
      /\ UNCHANGED <<events, room, joined, online, mounted, log, latest, pending, queue, peeked, awaiting, made>>
  BY <1>2 DEF ServerPart, HandleResync, Consume, Reply, Wired, memory, copyVars, linkVars, queueVars
<1>4. Calls(w, cs, events, pending[w], made[w])
  BY <1>2 DEF Sound
<1> HIDE DEF cs, ms
<1>5. n \in Nat /\ 1 <= n /\ n < Len(events)
  <2> DEFINE S == Call
  <2>1. cs \in Seq(S) /\ cs # <<>>
    BY <1>2, <1>4 DEF Calls
  <2> HIDE DEF S
  <2>2. 1 \in DOMAIN cs /\ Head(cs) = cs[1] /\ Head(cs) \in S
    BY <2>1
  <2>3. n \in Nat
    BY <1>2, <2>2, CallKinds DEF S
  <2> QED BY <1>2, <1>4, <2>2, <2>3 DEF Calls
<1> HIDE DEF n
<1>6. LastSeq(events) = Len(events) /\ events[1].seq = 1 /\ Len(events) \in Nat
  BY NumberedEnd DEF LogInv, Shapes
<1>7. ~(n >= LastSeq(events) \/ n < events[1].seq)
  BY <1>5, <1>6
<1>8. JoinPayload(n) = Delta(Len(events), s)
  BY <1>6, <1>7 DEF JoinPayload, Delta
<1>9. Sound(w, log[w], latest[w], pending[w], events, Tail(cs), Append(ms, Delta(Len(events), s)), made[w])
  BY <1>2, <1>5, ResyncAnswered
<1> HIDE DEF s
<1>10. Plays(w)'
  BY <1>2, <1>3, <1>8, <1>9 DEF Plays
<1> QED BY <1>3, <1>10 DEF WriterInv

LEMMA WriterIsRefused ==
  ASSUME Wired, NEW w \in Client, WriterInv(w), HandleEventRefused(w), ServerPart
  PROVE  WriterInv(w)'
<1> DEFINE cs == toServer[w]
           ms == toClient[w]
<1>1. Incoming(w, "event")
  BY DEF HandleEventRefused
<1>2. /\ Plays(w) /\ cs # <<>> /\ Head(cs).op = "event" /\ w \in room
      /\ Sound(w, log[w], latest[w], pending[w], events, cs, ms, made[w])
  BY <1>1, WriterPlays
<1>3. /\ toServer'[w] = Tail(cs) /\ toClient'[w] = Append(ms, Refusal(Head(cs).id))
      /\ UNCHANGED <<events, room, joined, online, mounted, log, latest, pending, queue, peeked, awaiting, made>>
  BY <1>2 DEF ServerPart, HandleEventRefused, Consume, Reply, Wired, memory, copyVars, linkVars, queueVars, Refusal
<1> HIDE DEF cs, ms
<1>4. Sound(w, log[w], latest[w], pending[w], events, Tail(cs), Append(ms, Refusal(Head(cs).id)), made[w])
  BY <1>2, CallRefused
<1>5. Plays(w)'
  BY <1>2, <1>3, <1>4 DEF Plays
<1> QED BY <1>3, <1>5 DEF WriterInv

LEMMA WriterRepeatsNothing ==
  ASSUME LogInv, Counted, NEW w \in Client, WriterInv(w)
  PROVE  ~HandleEventDuplicate(w)
<1> SUFFICES ASSUME HandleEventDuplicate(w) PROVE FALSE
  OBVIOUS
<1>1. PICK id \in Id : Accepts(w, id) /\ ~IsNew(id)
  BY DEF HandleEventDuplicate
<1>2. Incoming(w, "event") /\ id = Head(toServer[w]).id
  BY <1>1 DEF Accepts
<1>3. /\ toServer[w] # <<>> /\ Head(toServer[w]).op = "event"
      /\ Sound(w, log[w], latest[w], pending[w], events, toServer[w], toClient[w], made[w])
  BY <1>2, WriterPlays
<1>4. \E i \in DOMAIN events : events[i].id = id
  <2>1. PICK i \in DOMAIN events : events[i] = [seq |-> clientIds[id], id |-> id]
    BY <1>1 DEF IsNew, LogInv, IdsAnswered
  <2> QED BY <2>1
<1>5. made[w] \in Nat /\ events \in Seq(Entry)
  BY DEF Counted, LogInv, Shapes
<1>6. \A i \in DOMAIN events : events[i].id # Head(toServer[w]).id
  BY <1>3, <1>5, FirstCall DEF Sound
<1> QED BY <1>2, <1>4, <1>6

LEMMA WriterIsTaken ==
  ASSUME LogInv, Numbered(events), Wired, NEW w \in Client, WriterInv(w), HandleEventNew(w), ServerPart
  PROVE  WriterInv(w)'
<1>1. PICK id \in Id : Accepts(w, id) /\ Consume(w) /\ AppendEvent(id) /\ Broadcast(w, EventFor(id)) /\ room' = room
  BY DEF HandleEventNew
<1> DEFINE cs == toServer[w]
           ms == toClient[w]
           e == EventFor(id)
           a == Confirmation(e.id, e.seq)
           b == Announcement(e)
<1>2. Incoming(w, "event") /\ id = Head(cs).id
  BY <1>1 DEF Accepts
<1>3. /\ Plays(w) /\ cs # <<>> /\ Head(cs).op = "event" /\ w \in room
      /\ Sound(w, log[w], latest[w], pending[w], events, cs, ms, made[w])
  BY <1>2, WriterPlays
<1>4. LastSeq(events) = Len(events)
  BY NumberedEnd DEF LogInv, Shapes
<1>5. e = [seq |-> Len(events) + 1, id |-> Head(cs).id]
  BY <1>2, <1>4 DEF EventFor, NextSeq
<1>6. events' = Append(events, e) /\ toServer'[w] = Tail(cs) /\ UNCHANGED room
  BY <1>1 DEF AppendEvent, Consume, Wired
<1>7. toClient'[w] = Append(Append(ms, a), b)
  <2>1. toClient'[w] = ms \o <<a>> \o <<b>>
    BY <1>1, <1>3 DEF Broadcast, Confirmation, Announcement
  <2>2. ms \in Seq(Answer) /\ a \in Answer /\ b \in Answer
    <3>1. ms \in Seq(Answer)
      BY <1>3 DEF Sound, Heard
    <3>2. e \in Entry /\ e.id \in Id /\ e.seq \in Nat
      <4>1. Len(events) + 1 \in Nat
        BY DEF LogInv, Shapes
      <4> QED BY <1>2, <1>5, <4>1 DEF Entry
    <3> HIDE DEF e
    <3> QED BY <3>1, <3>2, AnswerKinds
  <2> DEFINE S == Answer
  <2>3. ms \in Seq(S) /\ a \in S /\ b \in S
    BY <2>2
  <2> HIDE DEF S, ms, a, b
  <2>4. Append(ms, a) \in Seq(S) /\ ms \o <<a>> = Append(ms, a)
    BY ONLY <2>3
  <2> DEFINE u == Append(ms, a)
  <2>5. u \in Seq(S) /\ ms \o <<a>> = u
    BY <2>4
  <2> HIDE DEF u
  <2>6. u \o <<b>> = Append(u, b)
    BY ONLY <2>3, <2>5
  <2> QED BY <2>1, <2>5, <2>6 DEF u
<1>8. UNCHANGED <<joined, online, mounted, log, latest, pending, queue, peeked, awaiting, made>>
  BY DEF ServerPart, copyVars, linkVars, queueVars
<1> HIDE DEF cs, ms, e
<1>9. Sound(w, log[w], latest[w], pending[w], Append(events, e), Tail(cs), Append(Append(ms, a), b), made[w])
  BY <1>3, <1>5, CallTaken
<1> HIDE DEF a, b
<1>10. Plays(w)'
  BY <1>3, <1>6, <1>7, <1>8, <1>9 DEF Plays
<1> QED BY <1>8, <1>10 DEF WriterInv

\* A flush that finds nothing ends.
LEMMA WriterEndsFlush ==
  ASSUME Wired, Counted, NEW w \in Client, WriterInv(w), Flushes(w)
  PROVE  WriterInv(w)'
<1>1. FlushNext(w)
  BY DEF Flushes, FlushAnswered, FlushTimeout, Answered, WriterInv
<1>2. EndFlush(w) /\ UNCHANGED <<serverVars, queue, awaiting, copyVars, linkVars, made>>
  BY <1>1 DEF FlushNext, WriterInv
<1>3. peeked'[w] = {} /\ UNCHANGED <<events, room, toServer, toClient, queue, awaiting, log, latest, pending,
                                     online, joined, mounted, made>>
  BY <1>2 DEF EndFlush, Wired, serverVars, memory, copyVars, linkVars
<1>4. JoinPayload(0)' = JoinPayload(0)
  BY <1>3 DEF JoinPayload
<1>5. Away(w) => Away(w)'
  BY <1>3, <1>4 DEF Away
<1>6. Plays(w) => Plays(w)'
  BY <1>3 DEF Plays
<1> QED BY <1>3, <1>5, <1>6 DEF WriterInv

\* Nothing tells the writer off, and its page waits for the log.
LEMMA WriterIsCalm ==
  ASSUME NEW w \in Client, WriterInv(w)
  PROVE  ~ReceiveError(w) /\ ~ShowOffline(w)
<1>1. ~ReceiveError(w)
  <2> SUFFICES ASSUME ReceiveError(w) PROVE FALSE
    OBVIOUS
  <2>1. toClient[w] # <<>> /\ Head(toClient[w]).op = "error"
    BY DEF ReceiveError, Take, Message
  <2>2. CASE Away(w)
    <3>1. toClient[w] = <<JoinPayload(0)>>
      BY <2>1, <2>2 DEF Away
    <3>2. JoinPayload(0).op = "joined"
      BY DEF JoinPayload
    <3> QED BY <2>1, <3>1, <3>2
  <2>3. CASE Plays(w)
    <3>1. toClient[w] \in Seq(Answer)
      BY <2>3 DEF Plays, Sound, Heard
    <3> QED BY <2>1, <3>1, LaterMessages, AnswerParts
  <2> QED BY <2>2, <2>3 DEF WriterInv
<1>2. ~ShowOffline(w)
  BY DEF ShowOffline, WriterInv, Away, Plays
<1> QED BY <1>1, <1>2

\* An event that was queued although the writer was connected is not forgotten.
LEMMA LateStays == [StoreNext]_storeVars /\ late' = {} => late = {}
<1> SUFFICES ASSUME [StoreNext]_storeVars PROVE late \subseteq late'
  OBVIOUS
<1>1. CASE UNCHANGED storeVars
  BY <1>1 DEF storeVars, queueVars
<1>2. ASSUME NEW c \in Client, MakeEvent(c) PROVE late \subseteq late'
  BY <1>2 DEF MakeEvent
<1>3. ASSUME NEW c \in Client, \/ Connect(c) \/ Drop(c) \/ Reload(c) \/ ShowOffline(c) \/ MakeLive(c)
                               \/ Receives(c) \/ Flushes(c) \/ ServerAnswers(c)
      PROVE  late' = late
  BY <1>3 DEF Connect, Drop, Reload, ShowOffline, MakeLive, Receives, ReceiveJoined, ReceiveEvent, ReceiveAck,
              ReceiveReject, ReceiveError, Flushes, FlushNext, FlushAnswered, FlushTimeout, ServerAnswers, queueVars
<1>4. CASE ServerLost
  BY <1>4 DEF ServerLost, queueVars
<1> QED BY <1>1, <1>2, <1>3, <1>4 DEF StoreNext, Uses

\* A connection that was lost, or a page that was loaded again, stays counted.
LEMMA LossesStay ==
  ASSUME Counted, [StoreNext]_storeVars, NEW w \in Client, drops'[w] + reloads'[w] = 0
  PROVE  drops[w] + reloads[w] = 0 /\ ~Drop(w) /\ ~Reload(w)
<1>1. drops[w] \in Nat /\ reloads[w] \in Nat
  BY DEF Counted
<1>2. drops'[w] \in Nat /\ reloads'[w] \in Nat
  <2>1. Counted'
    BY CountsStay
  <2> QED BY <2>1 DEF Counted
<1>3. drops'[w] = 0 /\ reloads'[w] = 0
  BY <1>2
<1>4. \/ UNCHANGED <<drops, reloads>>
      \/ \E c \in Client : \/ drops' = [drops EXCEPT ![c] = @ + 1] /\ reloads' = reloads
                           \/ reloads' = [reloads EXCEPT ![c] = @ + 1] /\ drops' = drops
  <2>1. CASE UNCHANGED storeVars
    BY <2>1 DEF storeVars, boundVars
  <2>2. ASSUME NEW c \in Client, \/ Connect(c) \/ ShowOffline(c) \/ Uses(c) \/ Receives(c) \/ Flushes(c)
                                 \/ ServerAnswers(c)
        PROVE  UNCHANGED <<drops, reloads>>
    BY <2>2 DEF Connect, ShowOffline, Uses, MakeEvent, MakeLive, Receives, ReceiveJoined, ReceiveEvent, ReceiveAck,
                ReceiveReject, ReceiveError, Flushes, FlushNext, FlushAnswered, FlushTimeout, ServerAnswers, boundVars
  <2>3. CASE ServerLost
    BY <2>3 DEF ServerLost, boundVars
  <2>4. ASSUME NEW c \in Client, Drop(c)
        PROVE  drops' = [drops EXCEPT ![c] = @ + 1] /\ reloads' = reloads
    BY <2>4 DEF Drop
  <2>5. ASSUME NEW c \in Client, Reload(c)
        PROVE  reloads' = [reloads EXCEPT ![c] = @ + 1] /\ drops' = drops
    BY <2>5 DEF Reload
  <2> QED BY <2>1, <2>2, <2>3, <2>4, <2>5 DEF StoreNext
<1>5. drops[w] = 0 /\ reloads[w] = 0
  <2>1. CASE UNCHANGED <<drops, reloads>>
    BY <1>3, <2>1
  <2>2. ASSUME NEW c \in Client, drops' = [drops EXCEPT ![c] = @ + 1] /\ reloads' = reloads
        PROVE  drops[w] = 0 /\ reloads[w] = 0
    BY <1>1, <1>3, <2>2 DEF Counted
  <2>3. ASSUME NEW c \in Client, reloads' = [reloads EXCEPT ![c] = @ + 1] /\ drops' = drops
        PROVE  drops[w] = 0 /\ reloads[w] = 0
    BY <1>1, <1>3, <2>3 DEF Counted
  <2> QED BY <1>4, <2>1, <2>2, <2>3
<1>6. ~Drop(w)
  BY <1>1, <1>3 DEF Drop, Counted
<1>7. ~Reload(w)
  BY <1>1, <1>3 DEF Reload, Counted
<1> QED BY <1>5, <1>6, <1>7

\* The writer is the only client that is not a display.
Alone(w) == w \in Client /\ Client \ Display = {w}

LEMMA WriterStep ==
  ASSUME LogInv, ShowingInv, Counted, NEW w, Alone(w), WriterInv(w), [StoreNext]_storeVars, restarts' = 0,
         late' = {}, drops'[w] + reloads'[w] = 0
  PROVE  WriterInv(w)'
<1>1. /\ w \in Client /\ Numbered(events) /\ Wired /\ restarts \in Nat
      /\ \A c \in Client : c # w => c \in Display
      /\ \A d \in Display : DisplayInv(d)
  BY DEF LogInv, Shapes, ShowingInv, Alone
<1>2. CASE UNCHANGED storeVars
  <2>1. SameView(w) /\ SameCounts(w) /\ events' = events
    BY <1>2 DEF storeVars, serverVars, memory, copyVars, linkVars, queueVars, SameView, SameCounts
  <2> QED BY <2>1, WriterKept
<1>3. ~ServerLost
  BY <1>1 DEF ServerLost, Restart, CrashAfterSave, LoseProcess
<1>4. ASSUME NEW c \in Client, c # w,
             \/ Connect(c) \/ Drop(c) \/ Reload(c) \/ ShowOffline(c) \/ Uses(c) \/ Receives(c) \/ Flushes(c)
             \/ ServerAnswers(c)
      PROVE  WriterInv(w)'
  <2>1. c \in Display /\ DisplayInv(c)
    BY <1>1, <1>4
  <2>2. ~HandleEventNew(c)
    BY <2>1, DisplayIsQuiet
  <2>3. SameView(w) /\ events' = events
    BY <1>1, <1>4, <2>2, OthersLeave
  <2>4. SameCounts(w)
    BY <1>1, <1>4, OthersLeaveCounts
  <2> QED BY <2>3, <2>4, WriterKept
<1>5. CASE Connect(w) \/ Drop(w) \/ Reload(w) \/ ShowOffline(w)
  BY <1>1, <1>5, WriterConnects, WriterIsCalm, LossesStay
<1>6. CASE Uses(w)
  BY <1>1, <1>6, WriterMakesEvent, WriterMakesLive DEF Uses
<1>7. CASE Receives(w) \/ Flushes(w)
  <2>1. \/ ReceiveJoined(w) \/ ReceiveEvent(w) \/ ReceiveAck(w) \/ ReceiveReject(w) \/ Flushes(w)
    BY <1>1, <1>7, WriterIsCalm DEF Receives
  <2> QED BY <1>1, <2>1, WriterIsTold, WriterHearsEvent, WriterIsAcked, WriterIsRejected, WriterEndsFlush
<1>8. CASE ServerAnswers(w)
  <2>1. ServerPart /\ (HandleJoin(w) \/ HandleResync(w) \/ HandleEventRefused(w) \/ HandleEventNew(w))
    BY <1>1, <1>8, WriterRepeatsNothing DEF ServerAnswers, ServerHandles, ServerPart
  <2> QED BY <1>1, <2>1, WriterIsAdmitted, WriterIsResynced, WriterIsRefused, WriterIsTaken
<1> QED BY <1>2, <1>3, <1>4, <1>5, <1>6, <1>7, <1>8 DEF StoreNext

LEMMA WriterStarts ==
  ASSUME StoreInit, NEW w \in Client
  PROVE  Counted /\ WriterInv(w)
<1>1. events = <<First>> /\ toServer[w] = <<>> /\ toClient[w] = <<>>
  BY DEF StoreInit, ServerInit, First
<1>2. Away(w)
  BY <1>1 DEF StoreInit, Away
<1>3. WriterInv(w)
  BY <1>2 DEF StoreInit, WriterInv
<1>4. Counted
  <2>1. made \in [Client -> Nat] /\ drops \in [Client -> Nat] /\ reloads \in [Client -> Nat]
    BY DEF StoreInit
  <2> QED BY <2>1 DEF StoreInit, Counted
<1> QED BY <1>3, <1>4

\* While the process lives, the writer keeps its connection and its page and queues nothing.
WritingInv(w) == Counted /\ (restarts = 0 /\ late = {} /\ drops[w] + reloads[w] = 0 => WriterInv(w))

LEMMA WritingStep ==
  ASSUME NEW w, Alone(w)
  PROVE  LogInv /\ (restarts = 0 => ShowingInv) /\ WritingInv(w) /\ [StoreNext]_storeVars => WritingInv(w)'
<1> SUFFICES ASSUME LogInv, restarts = 0 => ShowingInv, WritingInv(w), [StoreNext]_storeVars
             PROVE  WritingInv(w)'
  OBVIOUS
<1>1. Counted /\ Counted' /\ w \in Client
  BY CountsStay DEF WritingInv, Alone
<1>2. ASSUME restarts' = 0, late' = {}, drops'[w] + reloads'[w] = 0
      PROVE  WriterInv(w)'
  <2>1. restarts = 0
    <3>1. restarts \in Nat /\ (ServerStep \/ UNCHANGED ServerState)
      BY StoreStepsAreServerSteps DEF LogInv, Shapes
    <3>2. ~Restart /\ \A c \in Client : ~CrashAfterSave(c)
      BY <1>2, <3>1 DEF Restart, CrashAfterSave, LoseProcess
    <3>3. restarts' = restarts
      BY <3>1, <3>2 DEF ServerState, ServerStep, ServerHandles, HandleJoin, HandleResync, HandleEventRefused,
                        HandleEventDuplicate, HandleEventNew, Disconnect
    <3> QED BY <1>2, <3>3
  <2>2. late = {} /\ drops[w] + reloads[w] = 0
    BY <1>1, <1>2, LossesStay, LateStays
  <2>3. WriterInv(w)
    BY <2>1, <2>2 DEF WritingInv
  <2> QED BY <1>1, <1>2, <2>1, <2>3, WriterStep
<1> QED BY <1>1, <1>2 DEF WritingInv

\* Once nothing is on its way the copies are the log.
LEMMA WritingShows ==
  ASSUME NEW w, Alone(w), LogInv, ShowingInv, WritingInv(w), restarts = 0
  PROVE  QuietAgree
<1> SUFFICES ASSUME late = {}, \A x \in Client \ Display : drops[x] + reloads[x] = 0, NEW c \in Client, Quiet(c)
             PROVE  Persisted(log[c]) = Persisted(events)
  BY DEF QuietAgree
<1>1. CASE c \in Display
  BY <1>1, ShowingShows
<1>2. CASE c \notin Display
  <2>1. c = w /\ drops[w] + reloads[w] = 0
    BY <1>2 DEF Alone
  <2>2. WriterInv(w)
    BY <2>1 DEF WritingInv
  <2>3. Plays(w) /\ toServer[w] = <<>> /\ toClient[w] = <<>>
    BY <2>1, <2>2 DEF Quiet, WriterInv, Away
  <2>4. Sound(w, log[w], latest[w], pending[w], events, <<>>, <<>>, made[w])
    BY <2>3 DEF Plays
  <2> DEFINE l == log[w]
             top == latest[w]
             pd == pending[w]
             es == events
             m == made[w]
  <2>5. Sound(w, l, top, pd, es, <<>>, <<>>, m)
    BY <2>4
  <2> HIDE DEF l, top, pd, es, m
  <2>6. Persisted(l) = Persisted(es)
    BY <2>5, SoundIsSame
  <2> QED BY <2>1, <2>6 DEF l, es
<1> QED BY <1>1, <1>2

\* "Every device computes identical state": while the process lives, the copies of a writer
\* that keeps its connection and queues nothing while a flush is under way, guesses a seq for
\* what it makes and is told the right one, and of all displays are the log once nothing is on its way.  The copies of two writers may differ
\* (a guess of one is the seq of the other), so the hypothesis is that there is one.
THEOREM OneWriterAgrees ==
  ASSUME NEW w, Alone(w)
  PROVE  StoreSpec => [](restarts = 0 => QuietAgree)
<1>1. StoreInit => WritingInv(w)
  BY WriterStarts DEF WritingInv, Alone
<1>2. LogInv /\ (restarts = 0 => ShowingInv) /\ WritingInv(w) => (restarts = 0 => QuietAgree)
  BY WritingShows
<1>3. LogInv /\ (restarts = 0 => ShowingInv) /\ WritingInv(w) /\ [StoreNext]_storeVars => WritingInv(w)'
  BY WritingStep
<1> QED BY <1>1, <1>2, <1>3, ShowingAlways, PTL DEF StoreSpec

=============================================================================
