------------------------------ MODULE SeatsProofs ------------------------------
(***************************************************************************)
(* Proofs about who sits at a table, for any number of pages, sockets,      *)
(* players, tokens, connections, takeovers and faults.  The table's room:   *)
(* one dealer, nobody admitted twice, and pages that know, once they have   *)
(* heard everything, whether they have the seat and who waits.  A phone's   *)
(* way to its seat: the token it was last given stays with it, and it plays *)
(* for the seat that this token opens.                                      *)
(***************************************************************************)
EXTENDS TableRoom, PlayerDoor, SequenceTheorems, TLAPS

-----------------------------------------------------------------------------
(* The dealer's seat.  OneDealer is inductive: a socket that sits down sends    *)
(* away the only one that could write.                                          *)

\* A socket that sits down is the only one that may write.
LEMMA SittingIsAlone ==
  ASSUME NEW s \in Socket, HandleJoin(s), OneDealer
  PROVE  OneDealer'
<1>1. CASE UNCHANGED seat
  BY <1>1 DEF seat, OneDealer, MayWrite
<1>2. CASE /\ demoted' = DemotedBySitting(s)
           /\ dealers' = dealers \cup {s} /\ active' = s
  <2> SUFFICES ASSUME NEW x \in Socket, MayWrite(x)', x # s
               PROVE  FALSE
    BY <1>2 DEF OneDealer
  <2>1. x \in dealers /\ x \notin demoted
    BY <1>2, RoomAssumption DEF MayWrite, DemotedBySitting
  <2>2. active = x
    BY <2>1 DEF OneDealer, MayWrite
  <2>3. x \in DemotedBySitting(s)
    BY <2>2, RoomAssumption DEF DemotedBySitting
  <2> QED BY <1>2, <2>3 DEF MayWrite
<1> QED BY <1>1, <1>2 DEF HandleJoin

\* A socket that leaves takes nobody else's permission away, and gives none.
LEMMA LeavingKeepsOne ==
  ASSUME NEW s \in Socket, Leaves(s), OneDealer
  PROVE  OneDealer'
<1> SUFFICES ASSUME NEW x \in Socket, MayWrite(x)'
             PROVE  active' = x
  BY DEF OneDealer
<1>1. x # s /\ MayWrite(x)
  BY DEF MayWrite, Leaves
<1>2. active = x
  BY <1>1 DEF OneDealer
<1> QED BY <1>1, <1>2 DEF Leaves

\* OneDealer holds at first and after every step.
LEMMA SeatStep == OneDealer /\ [RoomNext]_roomVars => OneDealer'
<1> SUFFICES ASSUME OneDealer, [RoomNext]_roomVars
             PROVE  OneDealer'
  OBVIOUS
<1>0. CASE UNCHANGED seat
  BY <1>0 DEF seat, OneDealer, MayWrite
<1>1. CASE UNCHANGED roomVars
  BY <1>0, <1>1 DEF roomVars
<1>2. ASSUME NEW s \in Socket, HandleJoin(s)
      PROVE  OneDealer'
  BY <1>2, SittingIsAlone
<1>3. ASSUME NEW s \in Socket, NoticeLeft(s)
      PROVE  OneDealer'
  BY <1>3, LeavingKeepsOne DEF NoticeLeft
<1>4. ASSUME NEW s \in Socket, HandleResync(s) \/ HandleAdmit(s) \/ HandleEvent(s)
      PROVE  OneDealer'
  BY <1>0, <1>4 DEF HandleResync, HandleAdmit, HandleEvent, seat, OneDealer, MayWrite
<1>5. ASSUME NEW p \in Player, \/ PostJoin(p) \/ PhoneHides(p) \/ PhoneShows(p)
                               \/ PhoneJoins(p) \/ PhoneLeaves(p) \/ Reissue(p)
      PROVE  OneDealer'
  BY <1>0, <1>5 DEF PostJoin, PhoneHides, PhoneShows, PhoneJoins, PhoneLeaves, Reissue
<1>6. ASSUME NEW d \in Page, \/ Connects(d) \/ Disconnects(d) \/ Hears(d) \/ MeetsGap(d) \/ TapTakeover(d)
                             \/ TapAdmit(d) \/ TapRemove(d) \/ TapEnd(d)
      PROVE  OneDealer'
  BY <1>0, <1>6 DEF Connects, Disconnects, Hears, MeetsGap, TapTakeover, TapAdmit, TapRemove, TapEnd
<1>7. ASSUME ProcessEnds
      PROVE  OneDealer'
  BY <1>7 DEF ProcessEnds, OneDealer, MayWrite
<1>8. CASE Restart \/ (\E p \in Player : CrashInJoin(p) \/ CrashInAdmit(p))
  BY <1>7, <1>8 DEF Restart, CrashInJoin, CrashInAdmit
<1> QED BY <1>1, <1>2, <1>3, <1>4, <1>5, <1>6, <1>8 DEF RoomNext

\* However the dealer's pages come, go and take over, and whenever the process ends, at
\* most one socket may write, and it is the one the service holds for the dealer.
THEOREM OneDealerAlways == RoomSpec => []OneDealer
<1>1. RoomInit => OneDealer
  BY DEF RoomInit, OneDealer, MayWrite
<1> QED BY <1>1, SeatStep, PTL DEF RoomSpec

-----------------------------------------------------------------------------
(* The register.  AdmittedOnce says what a player's row and events are; that an  *)
(* admission makes the first PLAYER_JOINED needs to be known of those who are     *)
(* not on the log: they have none.                                                *)

\* The rows, the players of the log and the number of their PLAYER_JOINED.
RegisterType ==
  /\ rows \in [Player -> {"none", "pending", "in", "declined"}]
  /\ status \in [Player -> {"none", "active", "away", "removed"}]
  /\ joins \in [Player -> Nat]

\* Whoever is on the log is in the register, by one event; nobody else has any.
RegisterInv ==
  /\ RegisterType
  /\ \A p \in Player : IF OnLog(p) THEN rows[p] = "in" /\ joins[p] = 1 ELSE joins[p] = 0

\* One player comes to the log who was not on it, and the row says so.
LEMMA JoiningKeepsRegister ==
  ASSUME RegisterInv, NEW p, p \in Player => rows[p] \in {"none", "pending"},
         PlayerJoined(p), rows' = [rows EXCEPT ![p] = "in"]
  PROVE  RegisterInv'
<1>1. RegisterType'
  <2>1. \A q \in Player : q = p => joins[p] + 1 \in Nat
    BY DEF RegisterInv, RegisterType
  <2>2. joins' \in [Player -> Nat]
    BY <2>1 DEF RegisterInv, RegisterType, PlayerJoined
  <2>3. /\ rows' \in [Player -> {"none", "pending", "in", "declined"}]
        /\ status' \in [Player -> {"none", "active", "away", "removed"}]
    BY DEF RegisterInv, RegisterType, PlayerJoined
  <2> QED BY <2>2, <2>3 DEF RegisterType
<1>2. ASSUME NEW q \in Player
      PROVE  (IF OnLog(q) THEN rows[q] = "in" /\ joins[q] = 1 ELSE joins[q] = 0)'
  <2>1. CASE q = p
    <3>1. ~OnLog(p) /\ joins[p] = 0
      BY <2>1 DEF RegisterInv
    <3> QED BY <2>1, <3>1 DEF RegisterInv, RegisterType, PlayerJoined, OnLog
  <2>2. CASE q # p
    BY <2>2 DEF RegisterInv, RegisterType, PlayerJoined, OnLog
  <2> QED BY <2>1, <2>2
<1> QED BY <1>1, <1>2 DEF RegisterInv

\* The row of one player who is not on the log becomes another one.
LEMMA RowKeepsRegister ==
  ASSUME RegisterInv, NEW p, p \in Player => rows[p] \in {"none", "pending"},
         NEW r \in {"pending", "in", "declined"}, rows' = [rows EXCEPT ![p] = r], UNCHANGED <<status, joins>>
  PROVE  RegisterInv'
<1>1. RegisterType'
  BY DEF RegisterInv, RegisterType
<1>2. ASSUME NEW q \in Player
      PROVE  (IF OnLog(q) THEN rows[q] = "in" /\ joins[q] = 1 ELSE joins[q] = 0)'
  BY DEF RegisterInv, RegisterType, OnLog
<1> QED BY <1>1, <1>2 DEF RegisterInv

\* Players of the log change, and stay on it; the others stay off it.
LEMMA StatusKeepsRegister ==
  ASSUME RegisterInv, UNCHANGED <<rows, joins>>,
         status' \in [Player -> {"none", "active", "away", "removed"}],
         \A q \in Player : OnLog(q) <=> OnLog(q)'
  PROVE  RegisterInv'
<1>1. RegisterType'
  BY DEF RegisterInv, RegisterType
<1>2. ASSUME NEW q \in Player
      PROVE  (IF OnLog(q) THEN rows[q] = "in" /\ joins[q] = 1 ELSE joins[q] = 0)'
  <2>1. rows'[q] = rows[q] /\ joins'[q] = joins[q] /\ (OnLog(q) <=> OnLog(q)')
    OBVIOUS
  <2>2. IF OnLog(q) THEN rows[q] = "in" /\ joins[q] = 1 ELSE joins[q] = 0
    BY DEF RegisterInv
  <2> QED BY <2>1, <2>2
<1> QED BY <1>1, <1>2 DEF RegisterInv

\* A phone's patch leaves whoever is not on the log where they are.
LEMMA PatchKeepsRegister ==
  ASSUME RegisterInv, NEW p \in Player, NEW s \in {"active", "away"},
         Patched(p, s) \/ UNCHANGED status, UNCHANGED <<rows, joins>>
  PROVE  RegisterInv'
<1>1. status' \in [Player -> {"none", "active", "away", "removed"}]
  BY DEF RegisterInv, RegisterType, Patched
<1>2. \A q \in Player : OnLog(q) <=> OnLog(q)'
  BY DEF RegisterInv, RegisterType, Patched, OnLog
<1> QED BY <1>1, <1>2, StatusKeepsRegister

\* RegisterInv holds after every step.
LEMMA RegisterStep == RegisterInv /\ [RoomNext]_roomVars => RegisterInv'
<1> SUFFICES ASSUME RegisterInv, [RoomNext]_roomVars
             PROVE  RegisterInv'
  OBVIOUS
<1>0. CASE UNCHANGED <<rows, status, joins>>
  BY <1>0 DEF RegisterInv, RegisterType, OnLog
<1>1. CASE UNCHANGED roomVars
  BY <1>0, <1>1 DEF roomVars, register
<1>2. ASSUME NEW s \in Socket, HandleJoin(s) \/ HandleResync(s) \/ NoticeLeft(s)
      PROVE  RegisterInv'
  BY <1>0, <1>2 DEF HandleJoin, HandleResync, NoticeLeft, register
<1>3. ASSUME NEW s \in Socket, HandleAdmit(s)
      PROVE  RegisterInv'
  <2> DEFINE p == Head(toServer[s]).player
  <2>1. CASE UNCHANGED register
    BY <1>0, <2>1 DEF register
  <2>2. CASE /\ Admissible(p) /\ rows' = [rows EXCEPT ![p] = "in"] /\ PlayerJoined(p)
    <3> HIDE DEF p
    <3> QED BY <2>2, JoiningKeepsRegister DEF Admissible
  <2>3. CASE /\ Admissible(p) /\ rows' = [rows EXCEPT ![p] = "declined"] /\ UNCHANGED <<status, joins>>
    <3> HIDE DEF p
    <3> QED BY <2>3, RowKeepsRegister DEF Admissible
  <2> QED BY <1>3, <2>1, <2>2, <2>3 DEF HandleAdmit
<1>4. ASSUME NEW s \in Socket, HandleEvent(s)
      PROVE  RegisterInv'
  <2> DEFINE m == Head(toServer[s])
  <2>1. CASE UNCHANGED status
    BY <1>0, <1>4, <2>1 DEF HandleEvent
  <2>2. CASE status' = [p \in Player |-> IF p = m.player /\ OnLog(p) THEN "removed" ELSE status[p]]
    <3> HIDE DEF m
    <3>1. status' \in [Player -> {"none", "active", "away", "removed"}]
      BY <2>2 DEF RegisterInv, RegisterType
    <3>2. \A q \in Player : OnLog(q) <=> OnLog(q)'
      BY <2>2 DEF RegisterInv, RegisterType, OnLog
    <3> QED BY <1>4, <3>1, <3>2, StatusKeepsRegister DEF HandleEvent
  <2> QED BY <1>4, <2>1, <2>2 DEF HandleEvent
<1>5. ASSUME NEW p \in Player, PostJoin(p)
      PROVE  RegisterInv'
  <2>1. CASE rows' = [rows EXCEPT ![p] = "pending"] /\ UNCHANGED <<status, joins>>
    BY <1>5, <2>1, RowKeepsRegister DEF PostJoin
  <2>2. CASE rows' = [rows EXCEPT ![p] = "in"] /\ PlayerJoined(p)
    BY <1>5, <2>2, JoiningKeepsRegister DEF PostJoin
  <2> QED BY <1>5, <2>1, <2>2 DEF PostJoin
<1>6. ASSUME NEW p \in Player, PhoneHides(p) \/ PhoneShows(p)
      PROVE  RegisterInv'
  BY <1>6, PatchKeepsRegister DEF PhoneHides, PhoneShows
<1>7. ASSUME NEW p \in Player, PhoneJoins(p) \/ PhoneLeaves(p) \/ Reissue(p)
      PROVE  RegisterInv'
  BY <1>0, <1>7 DEF PhoneJoins, PhoneLeaves, Reissue, register
<1>8. ASSUME NEW p \in Player, CrashInJoin(p) \/ CrashInAdmit(p)
      PROVE  RegisterInv'
  <2>1. CASE CrashInJoin(p)
    <3>1. PICK r \in {"pending", "in"} : rows' = [rows EXCEPT ![p] = r]
      BY <2>1 DEF CrashInJoin
    <3> QED BY <2>1, <3>1, RowKeepsRegister DEF CrashInJoin
  <2>2. CASE CrashInAdmit(p)
    <3>1. rows[p] = "pending"
      BY <2>2 DEF CrashInAdmit, Admissible
    <3> QED BY <2>2, <3>1, RowKeepsRegister DEF CrashInAdmit, CrashAfterRow
  <2> QED BY <1>8, <2>1, <2>2
<1>9. ASSUME NEW d \in Page, \/ Connects(d) \/ Disconnects(d) \/ Hears(d) \/ MeetsGap(d) \/ TapTakeover(d)
                             \/ TapAdmit(d) \/ TapRemove(d) \/ TapEnd(d)
      PROVE  RegisterInv'
  BY <1>0, <1>9 DEF Connects, Disconnects, Hears, MeetsGap, TapTakeover, TapAdmit, TapRemove, TapEnd, register
<1>10. CASE Restart
  BY <1>0, <1>10 DEF Restart, register
<1> QED BY <1>1, <1>2, <1>3, <1>4, <1>5, <1>6, <1>7, <1>8, <1>9, <1>10 DEF RoomNext

\* A second tap, a second dealer, or an end of the process between the row and its
\* event: no player comes to the log twice, and nobody on it is still asked about.
THEOREM AdmittedOnceAlways == RoomSpec => []AdmittedOnce
<1>1. RoomInit => RegisterInv
  BY DEF RoomInit, RegisterInv, RegisterType, OnLog
<1>2. RegisterInv => AdmittedOnce
  BY DEF RegisterInv, AdmittedOnce
<1> QED BY <1>1, <1>2, RegisterStep, PTL DEF RoomSpec
-----------------------------------------------------------------------------
(* What a page knows of the seat and of those who wait.  A page learns it from    *)
(* messages, so the invariant says what the messages on their way will make of    *)
(* it: the last one that speaks of the seat tells the truth about the seat, unless *)
(* it answers the resync of a demoted socket, the last one with a list has the     *)
(* list, and a page nothing is on its way to has heard it already.                 *)

Message == [op: {"refused", "over", "demoted", "resynced", "reject"}] \cup [op: {"joined", "pending"}, list: SUBSET Player]

Ask == [op: {"join"}, takeover: BOOLEAN] \cup [op: {"admit"}, player: Player, accept: BOOLEAN]
             \cup [op: {"event"}, player: Player \cup {NoSocket}] \cup [op: {"resync"}]

\* What a page keeps.
PageState == [sock: Socket \cup {NoSocket}, joined: BOOLEAN, readOnly: BOOLEAN,
              shows: {"shell", "card", "over"}, list: SUBSET Player]
USE DEF PageState

\* The sockets, the channels and the pages.
WireType ==
  /\ up \in [Socket -> {"unused", "open", "dead", "closed"}]
  /\ toServer \in [Socket -> Seq(Ask)] /\ toPage \in [Socket -> Seq(Message)]
  /\ dealers \subseteq Socket /\ active \in dealers \cup {NoSocket}
  /\ pages \in [Page -> PageState]
  /\ unsent \in [Page -> Seq(Ask)]

JoinedOps == {"joined", "resynced"}
SeatOps == {"joined", "resynced", "refused", "over", "demoted"}
ListOps == {"joined", "pending"}

None(q, ops) == \A i \in DOMAIN q : q[i].op \notin ops
LastOf(q, ops, i) ==
  /\ i \in DOMAIN q /\ q[i].op \in ops
  /\ \A j \in DOMAIN q : i < j => q[j].op \notin ops

\* A page has a connection of its own, and a socket that was never used has no past.
OwnSockets ==
  /\ \A d \in Page : pages[d].sock # NoSocket => up[pages[d].sock] = "open"
  /\ \A d, e \in Page : d # e /\ pages[d].sock # NoSocket => pages[d].sock # pages[e].sock
  /\ \A s \in Socket : up[s] = "unused" => toPage[s] = <<>> /\ s \notin dealers

\* The last message about the seat.
SeatTold(s) == \A i \in DOMAIN toPage[s] : LastOf(toPage[s], SeatOps, i) =>
  /\ toPage[s][i].op = "joined" => active = s
  /\ toPage[s][i].op = "resynced" => active = s \/ s \in misled
  /\ toPage[s][i].op \in {"refused", "demoted"} => active # s

\* A page to which no such message comes, and from which no join.
SeatKnown(d) == LET s == pages[d].sock IN
  None(toPage[s], SeatOps) /\ None(toServer[s], {"join"}) =>
    \/ pages[d].shows = "over"
    \/ pages[d].joined /\ ~pages[d].readOnly /\ (active = s \/ s \in misled)
    \/ ~(pages[d].joined /\ ~pages[d].readOnly) /\ active # s

\* The last list that is on its way, or the one the page has.
ListTold(s) == \A i \in DOMAIN toPage[s] : LastOf(toPage[s], ListOps, i) => toPage[s][i].list = Pending
ListKnown(d) == None(toPage[pages[d].sock], ListOps) => pages[d].list = Pending

\* Only a socket that has joined is told that it has.
JoinedIsDealer(d) == LET s == pages[d].sock IN
  pages[d].joined \/ ~None(toPage[s], JoinedOps) => s \in dealers

PageInv(d) == LET s == pages[d].sock IN
  s # NoSocket => /\ SeatTold(s) /\ SeatKnown(d)
                  /\ JoinedIsDealer(d)
                  /\ s \in dealers => ListTold(s) /\ ListKnown(d)

PagesInv == WireType /\ OwnSockets /\ \A d \in Page : PageInv(d)

\* A channel that has one more message: it is the last one, or the last one stays.
LEMMA NewIsThere ==
  ASSUME NEW q \in Seq(Message), NEW m \in Message, NEW r, r = Append(q, m), NEW ops, m.op \in ops
  PROVE  ~None(r, ops)
<1>1. /\ DOMAIN q = 1..Len(q) /\ Len(q) \in Nat /\ DOMAIN r = 1..(Len(q) + 1) /\ r[Len(q) + 1] = m
  OBVIOUS
<1> QED BY <1>1 DEF None

LEMMA NewIsNone ==
  ASSUME NEW q \in Seq(Message), NEW m \in Message, NEW r, r = Append(q, m), NEW ops, m.op \notin ops
  PROVE  None(r, ops) <=> None(q, ops)
<1>1. /\ DOMAIN q = 1..Len(q) /\ Len(q) \in Nat /\ DOMAIN r = 1..(Len(q) + 1)
      /\ r[Len(q) + 1] = m /\ \A j \in DOMAIN q : r[j] = q[j]
  OBVIOUS
<1> QED BY <1>1 DEF None

LEMMA NewIsNotLast ==
  ASSUME NEW q \in Seq(Message), NEW m \in Message, NEW r, r = Append(q, m), NEW ops, m.op \notin ops,
         NEW i, LastOf(r, ops, i)
  PROVE  LastOf(q, ops, i) /\ r[i] = q[i]
<1>1. /\ DOMAIN q = 1..Len(q) /\ Len(q) \in Nat /\ DOMAIN r = 1..(Len(q) + 1)
      /\ r[Len(q) + 1] = m /\ \A j \in DOMAIN q : r[j] = q[j]
  OBVIOUS
<1> QED BY <1>1 DEF LastOf

\* ... and of one whose first message has been read.
LEMMA ReadLast ==
  ASSUME NEW q \in Seq(Message), q # <<>>, NEW r, r = Tail(q), NEW ops, NEW i, LastOf(r, ops, i)
  PROVE  i + 1 \in DOMAIN q /\ LastOf(q, ops, i + 1) /\ r[i] = q[i + 1]
<1>1. /\ DOMAIN q = 1..Len(q) /\ Len(q) \in Nat \ {0} /\ DOMAIN r = 1..(Len(q) - 1)
      /\ \A j \in DOMAIN r : r[j] = q[j + 1]
  OBVIOUS
<1>2. i \in DOMAIN r /\ i \in Nat /\ i + 1 \in DOMAIN q /\ q[i + 1].op \in ops /\ r[i] = q[i + 1]
  BY <1>1 DEF LastOf
<1>3. ASSUME NEW j \in DOMAIN q, i + 1 < j
      PROVE  q[j].op \notin ops
  <2>1. j - 1 \in DOMAIN r /\ i < j - 1 /\ r[j - 1] = q[j]
    BY <1>1, <1>2, <1>3
  <2> QED BY <2>1 DEF LastOf
<1> QED BY <1>2, <1>3 DEF LastOf

LEMMA ReadNone ==
  ASSUME NEW S, NEW q \in Seq(S), q # <<>>, NEW r, r = Tail(q), NEW ops, None(r, ops)
  PROVE  IF Head(q).op \in ops THEN LastOf(q, ops, 1) ELSE None(q, ops)
<1>1. /\ DOMAIN q = 1..Len(q) /\ Len(q) \in Nat \ {0} /\ DOMAIN r = 1..(Len(q) - 1)
      /\ \A j \in DOMAIN r : r[j] = q[j + 1]
  OBVIOUS
<1>2. Head(q) = q[1]
  OBVIOUS
<1>3. ASSUME NEW j \in DOMAIN q, 1 < j
      PROVE  q[j].op \notin ops
  <2>1. j - 1 \in DOMAIN r /\ r[j - 1] = q[j]
    BY <1>1, <1>3
  <2> QED BY <2>1 DEF None
<1> QED BY <1>1, <1>2, <1>3 DEF LastOf, None

\* A step that a page neither takes nor hears of.
LEMMA PageQuiet ==
  ASSUME NEW d \in Page, PageInv(d), pages'[d] = pages[d],
         pages[d].sock # NoSocket =>
           /\ toPage'[pages[d].sock] = toPage[pages[d].sock]
           /\ None(toServer'[pages[d].sock], {"join"}) => None(toServer[pages[d].sock], {"join"})
           /\ active' = pages[d].sock <=> active = pages[d].sock
           /\ pages[d].sock \in dealers' <=> pages[d].sock \in dealers
           /\ pages[d].sock \in misled => pages[d].sock \in misled'
           /\ Pending' = Pending
  PROVE  PageInv(d)'
<1> SUFFICES ASSUME pages[d].sock # NoSocket
             PROVE  PageInv(d)'
  BY DEF PageInv
<1>1. SeatTold(pages[d].sock) /\ SeatKnown(d) /\ JoinedIsDealer(d)
  BY DEF PageInv
<1>2. SeatTold(pages[d].sock)'
  BY <1>1 DEF SeatTold
<1>3. SeatKnown(d)'
  BY <1>1 DEF SeatKnown
<1>4. JoinedIsDealer(d)'
  BY <1>1 DEF JoinedIsDealer
<1>5. (pages[d].sock \in dealers => ListTold(pages[d].sock) /\ ListKnown(d))'
  BY DEF PageInv, ListTold, ListKnown
<1> QED BY <1>2, <1>3, <1>4, <1>5 DEF PageInv

\* The list changes, and the room is told.
LEMMA RoomIsTold ==
  ASSUME PagesInv, UNCHANGED <<up, seat, pages>>, InRoom(ListMessage(Pending')),
         \A s \in Socket : None(toServer'[s], {"join"}) => None(toServer[s], {"join"}),
         NEW d \in Page
  PROVE  PageInv(d)'
<1> DEFINE s == pages[d].sock
<1>0. PageInv(d) /\ WireType /\ OwnSockets
  BY DEF PagesInv
<1> SUFFICES ASSUME s # NoSocket
             PROVE  PageInv(d)'
  BY DEF PageInv
<1>1. s \in Socket /\ up[s] = "open" /\ toPage[s] \in Seq(Message)
  BY <1>0 DEF WireType, OwnSockets
<1>2. PICK m \in Message : m = ListMessage(Pending')
  BY DEF ListMessage, Message, Pending
<1>3. m.op = "pending" /\ m.list = Pending' /\ m \in Message
  BY <1>2 DEF ListMessage
<1>4. pages' = pages /\ active' = active /\ dealers' = dealers /\ misled' = misled
  BY DEF seat
<1>5. toPage' = [x \in Socket |-> IF x \in {y \in dealers : up[y] = "open"} THEN Append(toPage[x], m) ELSE toPage[x]]
  BY <1>2 DEF InRoom, Told
<1>6. SeatTold(s) /\ SeatKnown(d) /\ JoinedIsDealer(d)
  BY <1>0 DEF PageInv
<1>7. CASE s \in dealers
  <2>1. PICK q : q = toPage[s]
    OBVIOUS
  <2>2. q \in Seq(Message)
    BY <1>1, <2>1
  <2>3. PICK r : r = Append(q, m)
    OBVIOUS
  <2>4. m.op \notin SeatOps /\ m.op \notin JoinedOps /\ m.op \in ListOps
    BY <1>3 DEF SeatOps, JoinedOps, ListOps
  <2>5. (None(r, SeatOps) <=> None(q, SeatOps)) /\ (None(r, JoinedOps) <=> None(q, JoinedOps)) /\ ~None(r, ListOps)
    BY <2>2, <2>3, <2>4, NewIsNone, NewIsThere
  <2>6. \A i : LastOf(r, SeatOps, i) => LastOf(q, SeatOps, i) /\ r[i] = q[i]
    BY <2>2, <2>3, <2>4, NewIsNotLast
  <2>7. ASSUME NEW i, LastOf(r, ListOps, i)
        PROVE  r[i] = m
    <3>1. DOMAIN r = 1..(Len(q) + 1) /\ Len(q) \in Nat /\ r[Len(q) + 1] = m
      BY <1>3, <2>2, <2>3
    <3> QED BY <2>4, <2>7, <3>1 DEF LastOf
  <2>8. toPage'[s] = r
    BY <1>1, <1>5, <1>7, <2>1, <2>3
  <2>9. SeatTold(s)'
    BY <1>4, <1>6, <2>1, <2>6, <2>8 DEF SeatTold, LastOf
  <2>10. SeatKnown(d)'
    BY <1>1, <1>4, <1>6, <2>1, <2>5, <2>8 DEF SeatKnown
  <2>11. JoinedIsDealer(d)'
    BY <1>4, <1>6, <2>1, <2>5, <2>8 DEF JoinedIsDealer
  <2>12. ListTold(s)' /\ ListKnown(d)'
    BY <1>3, <1>4, <2>5, <2>7, <2>8 DEF ListTold, ListKnown
  <2> QED BY <1>4, <2>9, <2>10, <2>11, <2>12 DEF PageInv
<1>8. CASE s \notin dealers
  <2>1. toPage'[s] = toPage[s]
    BY <1>1, <1>5, <1>8
  <2>2. SeatTold(s)'
    BY <1>4, <1>6, <2>1 DEF SeatTold
  <2>3. SeatKnown(d)'
    BY <1>1, <1>4, <1>6, <2>1 DEF SeatKnown
  <2>4. JoinedIsDealer(d)'
    BY <1>4, <1>6, <2>1 DEF JoinedIsDealer
  <2> QED BY <1>4, <1>8, <2>2, <2>3, <2>4 DEF PageInv
<1> QED BY <1>7, <1>8

\* A page's socket is answered about the seat, or is told that it has lost it.
LEMMA SeatIsTold ==
  ASSUME PagesInv, NEW d \in Page, pages[d].sock # NoSocket, pages'[d] = pages[d],
         NEW m \in Message, m.op \in SeatOps, toPage'[pages[d].sock] = Append(toPage[pages[d].sock], m),
         m.op = "joined" => active' = pages[d].sock /\ pages[d].sock \in dealers' /\ m.list = Pending,
         m.op = "resynced" => pages[d].sock \in dealers /\ (active' = pages[d].sock \/ pages[d].sock \in misled'),
         m.op \in {"refused", "demoted"} => active' # pages[d].sock,
         pages[d].sock \in dealers => pages[d].sock \in dealers',
         m.op # "joined" => (pages[d].sock \in dealers' => pages[d].sock \in dealers),
         Pending' = Pending
  PROVE  PageInv(d)'
<1> DEFINE s == pages[d].sock
<1>1. PageInv(d) /\ s \in Socket /\ toPage[s] \in Seq(Message)
  BY DEF PagesInv, WireType
<1>2. JoinedIsDealer(d) /\ (s \in dealers => ListTold(s) /\ ListKnown(d))
  BY <1>1 DEF PageInv
<1>3. PICK q : q = toPage[s]
  OBVIOUS
<1>4. PICK r : r = toPage'[s]
  OBVIOUS
<1>5. q \in Seq(Message) /\ r = Append(q, m)
  BY <1>1, <1>3, <1>4
<1>6. DOMAIN r = 1..(Len(q) + 1) /\ DOMAIN q = 1..Len(q) /\ Len(q) \in Nat /\ r[Len(q) + 1] = m
      /\ \A i \in DOMAIN q : r[i] = q[i]
  BY <1>5
<1>7. \A i \in DOMAIN r : LastOf(r, SeatOps, i) => r[i] = m
  BY <1>6 DEF LastOf
<1>8. ~None(r, SeatOps)
  BY <1>6 DEF None
<1>9. SeatTold(s)'
  BY <1>4, <1>7 DEF SeatTold
<1>10. SeatKnown(d)'
  BY <1>4, <1>8 DEF SeatKnown
<1>11. JoinedIsDealer(d)'
  <2>1. m.op \notin JoinedOps => (~None(r, JoinedOps) => ~None(q, JoinedOps))
    BY <1>6 DEF None
  <2>2. m.op \in JoinedOps => s \in dealers'
    BY DEF JoinedOps
  <2> QED BY <1>2, <1>3, <1>4, <2>1, <2>2 DEF JoinedIsDealer
<1>12. ASSUME s \in dealers'
       PROVE  ListTold(s)' /\ ListKnown(d)'
  <2>1. CASE m.op = "joined"
    <3>1. \A i \in DOMAIN r : LastOf(r, ListOps, i) => r[i] = m
      BY <1>6, <2>1 DEF LastOf, ListOps
    <3>2. ~None(r, ListOps)
      BY <1>6, <2>1 DEF None, ListOps
    <3> QED BY <1>4, <2>1, <3>1, <3>2 DEF ListTold, ListKnown
  <2>2. CASE m.op # "joined"
    <3>1. ListTold(s) /\ ListKnown(d) /\ m.op \notin ListOps
      BY <1>2, <1>12, <2>2 DEF SeatOps, ListOps
    <3>2. \A i \in DOMAIN r : LastOf(r, ListOps, i) => i \in DOMAIN q /\ LastOf(q, ListOps, i) /\ r[i] = q[i]
      BY <1>6, <3>1 DEF LastOf
    <3>3. None(r, ListOps) => None(q, ListOps)
      BY <1>6 DEF None
    <3>4. ListTold(s)'
      BY <1>3, <1>4, <3>1, <3>2 DEF ListTold
    <3> QED BY <1>3, <1>4, <3>1, <3>3, <3>4 DEF ListKnown
  <2> QED BY <2>1, <2>2
<1> QED BY <1>9, <1>10, <1>11, <1>12 DEF PageInv

\* A page hears the next message.
LEMMA PageHears ==
  ASSUME PagesInv, NEW d \in Page, Hears(d)
  PROVE  PageInv(d)'
<1> DEFINE s == pages[d].sock
<1>1. /\ PageInv(d) /\ s \in Socket /\ s # NoSocket /\ toPage[s] \in Seq(Message) /\ toPage[s] # <<>>
      /\ toPage' = [toPage EXCEPT ![s] = Tail(@)] /\ toPage \in [Socket -> Seq(Message)]
  BY DEF PagesInv, WireType, Hears
<1>2. SeatTold(s) /\ SeatKnown(d) /\ JoinedIsDealer(d) /\ (s \in dealers => ListTold(s) /\ ListKnown(d))
  BY <1>1 DEF PageInv
<1>3. UNCHANGED <<toServer, active, dealers, misled, Pending>>
  BY DEF Hears, seat, register, Pending
<1>4. PICK q : q = toPage[s]
  OBVIOUS
<1>5. PICK r : r = toPage'[s]
  OBVIOUS
<1>6. q \in Seq(Message) /\ q # <<>> /\ r = Tail(q)
  BY <1>1, <1>4, <1>5
<1>7. PICK m : m = Head(q)
  OBVIOUS
<1>8. /\ DOMAIN q = 1..Len(q) /\ Len(q) \in Nat \ {0} /\ DOMAIN r = 1..(Len(q) - 1)
      /\ q[1] = m /\ m \in Message /\ \A i \in DOMAIN r : r[i] = q[i + 1]
  BY <1>6, <1>7
<1>9. /\ m.op \in {"joined", "resynced", "refused", "over", "demoted", "pending", "reject"}
      /\ pages' = [pages EXCEPT ![d] =
          CASE m.op = "joined" -> [@ EXCEPT !.joined = TRUE, !.readOnly = FALSE, !.list = m.list]
            [] m.op = "refused" -> [@ EXCEPT !.joined = FALSE, !.shows = "card"]
            [] m.op = "over" -> [@ EXCEPT !.joined = FALSE, !.shows = "over"]
            [] m.op = "demoted" -> [@ EXCEPT !.readOnly = TRUE]
            [] m.op = "resynced" -> [@ EXCEPT !.joined = TRUE, !.readOnly = FALSE]
            [] m.op = "pending" -> [@ EXCEPT !.list = m.list]
            [] m.op = "reject" -> @]
  BY <1>4, <1>7, <1>8 DEF Hears, Message
<1>10. /\ pages \in [Page -> PageState]
  BY DEF PagesInv, WireType
<1>11. /\ m.op = "joined" => /\ pages'[d].joined = TRUE /\ pages'[d].readOnly = FALSE
                             /\ pages'[d].list = m.list /\ pages'[d].shows = pages[d].shows
       /\ m.op = "refused" => pages'[d].joined = FALSE /\ pages'[d].list = pages[d].list
       /\ m.op = "over" => pages'[d].joined = FALSE /\ pages'[d].shows = "over" /\ pages'[d].list = pages[d].list
       /\ m.op = "demoted" => /\ pages'[d].readOnly = TRUE /\ pages'[d].joined = pages[d].joined
                              /\ pages'[d].list = pages[d].list
       /\ m.op = "resynced" => /\ pages'[d].joined = TRUE /\ pages'[d].readOnly = FALSE
                               /\ pages'[d].list = pages[d].list
       /\ m.op = "pending" => /\ pages'[d].joined = pages[d].joined /\ pages'[d].readOnly = pages[d].readOnly
                              /\ pages'[d].shows = pages[d].shows /\ pages'[d].list = m.list
       /\ m.op = "reject" => pages'[d] = pages[d]
       /\ pages'[d].sock = s
  BY <1>9, <1>10
<1>12. ASSUME NEW ops, NEW i \in DOMAIN r, LastOf(r, ops, i)
       PROVE  i + 1 \in DOMAIN q /\ LastOf(q, ops, i + 1) /\ r[i] = q[i + 1]
  BY <1>6, <1>12, ReadLast
<1>13. ASSUME NEW ops, None(r, ops)
       PROVE  IF m.op \in ops THEN LastOf(q, ops, 1) ELSE None(q, ops)
  BY <1>6, <1>7, <1>13, ReadNone
<1>14. SeatTold(s)'
  <2>1. \A i \in DOMAIN q : LastOf(q, SeatOps, i) => /\ q[i].op = "joined" => active = s
                                                     /\ q[i].op = "resynced" => active = s \/ s \in misled
                                                     /\ q[i].op \in {"refused", "demoted"} => active # s
    BY <1>2, <1>4 DEF SeatTold
  <2> SUFFICES ASSUME NEW i \in DOMAIN r, LastOf(r, SeatOps, i)
               PROVE  /\ r[i].op = "joined" => active = s
                      /\ r[i].op = "resynced" => active = s \/ s \in misled
                      /\ r[i].op \in {"refused", "demoted"} => active # s
    BY <1>3, <1>5, <1>11 DEF SeatTold
  <2> QED BY <1>12, <2>1
<1>15. SeatKnown(d)'
  <2> SUFFICES ASSUME None(r, SeatOps), None(toServer[s], {"join"})
               PROVE  \/ pages'[d].shows = "over"
                      \/ pages'[d].joined /\ ~pages'[d].readOnly /\ (active = s \/ s \in misled)
                      \/ ~(pages'[d].joined /\ ~pages'[d].readOnly) /\ active # s
    BY <1>3, <1>5, <1>11 DEF SeatKnown
  <2>1. CASE m.op \in {"pending", "reject"}
    <3>1. None(q, SeatOps)
      BY <1>13, <2>1 DEF SeatOps
    <3>2. \/ pages[d].shows = "over"
          \/ pages[d].joined /\ ~pages[d].readOnly /\ (active = s \/ s \in misled)
          \/ ~(pages[d].joined /\ ~pages[d].readOnly) /\ active # s
      BY <1>2, <1>4, <3>1 DEF SeatKnown
    <3> QED BY <1>11, <2>1, <3>2
  <2>2. CASE m.op \notin {"pending", "reject"}
    <3>1. LastOf(q, SeatOps, 1)
      BY <1>9, <1>13, <2>2 DEF SeatOps
    <3>2. /\ m.op = "joined" => active = s
          /\ m.op = "resynced" => active = s \/ s \in misled
          /\ m.op \in {"refused", "demoted"} => active # s
      BY <1>2, <1>4, <1>8, <3>1 DEF SeatTold
    <3> QED BY <1>9, <1>11, <2>2, <3>2
  <2> QED BY <2>1, <2>2
<1>16. JoinedIsDealer(d)'
  <2>1. ~None(r, JoinedOps) => ~None(q, JoinedOps)
    BY <1>8 DEF None
  <2>2. m.op \in JoinedOps => ~None(q, JoinedOps)
    BY <1>8 DEF None
  <2>3. m.op \notin JoinedOps => (pages'[d].joined => pages[d].joined)
    BY <1>9, <1>11 DEF JoinedOps
  <2> QED BY <1>2, <1>3, <1>4, <1>5, <1>11, <2>1, <2>2, <2>3 DEF JoinedIsDealer
<1>17. ASSUME s \in dealers
       PROVE  ListTold(s)' /\ ListKnown(d)'
  <2>1. \A i \in DOMAIN q : LastOf(q, ListOps, i) => q[i].list = Pending
    BY <1>2, <1>4, <1>17 DEF ListTold
  <2>2. ListTold(s)'
    <3> SUFFICES ASSUME NEW i \in DOMAIN r, LastOf(r, ListOps, i)
                 PROVE  r[i].list = Pending
      BY <1>3, <1>5, <1>11 DEF ListTold
    <3>1. i + 1 \in DOMAIN q /\ LastOf(q, ListOps, i + 1) /\ r[i] = q[i + 1]
      BY <1>12
    <3>2. q[i + 1].list = Pending
      BY <2>1, <3>1
    <3> QED BY <3>1, <3>2
  <2>3. ASSUME None(r, ListOps)
        PROVE  pages'[d].list = Pending
    <3>1. CASE m.op \in ListOps
      <4>1. LastOf(q, ListOps, 1)
        BY <1>13, <2>3, <3>1
      <4>2. m.list = Pending
        BY <1>8, <2>1, <4>1
      <4> QED BY <1>11, <3>1, <4>2 DEF ListOps
    <3>2. CASE m.op \notin ListOps
      <4>1. None(q, ListOps)
        BY <1>13, <2>3, <3>2
      <4> QED BY <1>2, <1>4, <1>9, <1>11, <1>17, <3>2, <4>1 DEF ListKnown, ListOps
    <3> QED BY <3>1, <3>2
  <2>4. ListKnown(d)'
    BY <1>3, <1>5, <1>11, <2>3 DEF ListKnown
  <2> QED BY <2>2, <2>4
<1> QED BY <1>3, <1>11, <1>14, <1>15, <1>16, <1>17 DEF PageInv

-----------------------------------------------------------------------------
(* Every step keeps it. *)

\* The end of the process takes every socket.
LEMMA EndTakesSockets ==
  ASSUME PagesInv, ProcessEnds
  PROVE  PagesInv'
<1>1. \A d \in Page : pages'[d].sock = NoSocket
  BY DEF ProcessEnds, PagesInv, WireType
<1>2. OwnSockets'
  <2>1. \A s \in Socket : up'[s] = "unused" => toPage'[s] = <<>> /\ s \notin dealers'
    BY DEF ProcessEnds
  <2> QED BY <1>1, <2>1 DEF OwnSockets
<1>3. \A d \in Page : PageInv(d)'
  BY <1>1 DEF PageInv
<1>4. WireType'
  <2>3. up' \in [Socket -> {"unused", "open", "dead", "closed"}]
    BY DEF ProcessEnds, PagesInv, WireType
  <2>6. <<>> \in Seq(Ask) /\ <<>> \in Seq(Message)
    OBVIOUS
  <2>1. toServer' \in [Socket -> Seq(Ask)] /\ toPage' \in [Socket -> Seq(Message)]
    BY <2>6 DEF ProcessEnds
  <2>4. dealers' \subseteq Socket /\ active' \in dealers' \cup {NoSocket}
    BY DEF ProcessEnds
  <2>5. unsent' \in [Page -> Seq(Ask)]
    BY DEF ProcessEnds, PagesInv, WireType
  <2>2. pages' \in [Page -> PageState]
    BY DEF ProcessEnds, PagesInv, WireType
  <2> QED BY <2>1, <2>2, <2>3, <2>4, <2>5 DEF WireType
<1> QED BY <1>2, <1>3, <1>4 DEF PagesInv

\* The service reads a message: one less comes from that socket.
LEMMA ReadKeeps ==
  ASSUME PagesInv, NEW s \in Socket, NEW op, Incoming(s, op)
  PROVE  /\ toServer' \in [Socket -> Seq(Ask)]
         /\ Head(toServer[s]) \in Ask /\ Head(toServer[s]).op = op
         /\ op # "join" => \A x \in Socket : None(toServer'[x], {"join"}) => None(toServer[x], {"join"})
<1>1. /\ toServer \in [Socket -> Seq(Ask)] /\ toServer[s] # <<>> /\ Head(toServer[s]).op = op
      /\ toServer' = [toServer EXCEPT ![s] = Tail(@)]
  BY DEF Incoming, PagesInv, WireType
<1>2. toServer[s] \in Seq(Ask)
  BY <1>1
<1>3. Tail(toServer[s]) \in Seq(Ask) /\ Head(toServer[s]) \in Ask
  BY <1>1, <1>2
<1>4. ASSUME op # "join", NEW x \in Socket, None(toServer'[x], {"join"})
      PROVE  None(toServer[x], {"join"})
  <2>1. CASE x # s
    BY <1>1, <1>4, <2>1
  <2>2. CASE x = s
    <3>1. PICK q : q = toServer[s]
      OBVIOUS
    <3>2. PICK r : r = Tail(q)
      OBVIOUS
    <3>3. q \in Seq(Ask) /\ q # <<>> /\ Head(q).op \notin {"join"}
      BY <1>1, <1>2, <1>4, <3>1
    <3>4. toServer'[x] = r
      BY <1>1, <2>2, <3>1, <3>2
    <3>5. None(r, {"join"})
      BY <1>4, <3>4
    <3>6. None(q, {"join"})
      BY <3>2, <3>3, <3>5, ReadNone
    <3> QED BY <2>2, <3>1, <3>6
  <2> QED BY <2>1, <2>2
<1> QED BY <1>1, <1>3, <1>4

\* Who is told is told a message.
LEMMA ToldKeeps ==
  ASSUME NEW channel \in [Socket -> Seq(Message)], NEW who, NEW m \in Message
  PROVE  /\ Told(channel, who, m) \in [Socket -> Seq(Message)]
         /\ \A s \in Socket : Told(channel, who, m)[s] = IF s \in who THEN Append(channel[s], m) ELSE channel[s]
BY DEF Told

\* A join is answered, and the seat may change hands.
LEMMA JoinKeepsPages ==
  ASSUME PagesInv, NEW x \in Socket, HandleJoin(x), NEW d \in Page
  PROVE  PageInv(d)'
<1> DEFINE s == pages[d].sock
<1>0. WireType /\ OwnSockets /\ PageInv(d)
  BY DEF PagesInv
<1>1. up[x] \in {"open", "dead"}
  BY DEF HandleJoin, Incoming
<1>2. UNCHANGED <<up, pages, unsent, Pending>>
  BY DEF HandleJoin, register, Pending
<1>3. s # x => toServer'[s] = toServer[s]
  BY <1>0 DEF HandleJoin, Incoming, WireType
<1>4. toPage \in [Socket -> Seq(Message)] /\ dealers \subseteq Socket /\ active \in dealers \cup {NoSocket}
  BY <1>0 DEF WireType
<1>5. s = NoSocket => PageInv(d)'
  BY <1>2 DEF PageInv
<1>6. s # NoSocket => s \in Socket
  BY <1>0 DEF WireType
<1>7. ASSUME NEW m \in Message, m.op \in {"over", "refused"}, m.op = "refused" => active # x,
             toPage' = [toPage EXCEPT ![x] = Append(@, m)], UNCHANGED seat
      PROVE  PageInv(d)'
  <2>2. UNCHANGED <<active, dealers, misled>>
    BY <1>7 DEF seat
  <2>3. CASE s = x /\ s # NoSocket
    <3>1. toPage'[s] = Append(toPage[s], m)
      BY <1>4, <1>6, <1>7, <2>3
    <3>2. m.op \in SeatOps /\ m.op \notin JoinedOps /\ m.op # "demoted"
      BY <1>7 DEF SeatOps, JoinedOps
    <3> QED BY <1>2, <1>7, <2>2, <2>3, <3>1, <3>2, SeatIsTold DEF JoinedOps
  <2>4. CASE s # x /\ s # NoSocket
    <3>1. toPage'[s] = toPage[s]
      BY <1>4, <1>6, <1>7, <2>4
    <3> QED BY <1>0, <1>2, <1>3, <2>2, <2>4, <3>1, PageQuiet
  <2> QED BY <1>5, <2>3, <2>4
<1>8. ASSUME active' = x, dealers' = dealers \cup {x}, misled' = misled \ {x},
             toPage' = Told(Told(toPage, {active} \ {x, NoSocket}, [op |-> "demoted"]), {x}, JoinedMessage)
      PROVE  PageInv(d)'
  <2>1. PICK m \in Message : m = JoinedMessage
    BY DEF JoinedMessage, Message, Pending
  <2>2. m.op = "joined" /\ m.list = Pending
    BY <2>1 DEF JoinedMessage
  <2>3. PICK n \in Message : n = [op |-> "demoted"]
    BY DEF Message
  <2>4. n.op = "demoted"
    BY <2>3
  <2>5. PICK first : first = Told(toPage, {active} \ {x, NoSocket}, n)
    OBVIOUS
  <2>6. /\ first \in [Socket -> Seq(Message)]
        /\ \A y \in Socket : first[y] = IF y \in {active} \ {x, NoSocket} THEN Append(toPage[y], n) ELSE toPage[y]
    BY <1>4, <2>3, <2>5, ToldKeeps
  <2>7. toPage' = Told(first, {x}, m)
    BY <1>8, <2>1, <2>3, <2>5
  <2>8. \A y \in Socket : toPage'[y] = IF y \in {x} THEN Append(first[y], m) ELSE first[y]
    BY <2>1, <2>6, <2>7, ToldKeeps
  <2>9. CASE s = x /\ s # NoSocket
    <3>1. toPage'[s] = Append(toPage[s], m)
      BY <1>6, <2>6, <2>8, <2>9
    <3>2. m.op \in SeatOps
      BY <2>2 DEF SeatOps
    <3> QED BY <1>2, <1>8, <2>2, <2>8, <2>9, <3>1, <3>2, SeatIsTold DEF JoinedOps
  <2>10. CASE s # x /\ s = active /\ s # NoSocket
    <3>1. toPage'[s] = Append(toPage[s], n)
      BY <1>6, <2>6, <2>8, <2>10
    <3>2. n.op \in SeatOps /\ n.op # "joined"
      BY <2>4 DEF SeatOps
    <3> QED BY <1>2, <1>8, <2>4, <2>8, <2>10, <3>1, <3>2, SeatIsTold DEF JoinedOps
  <2>11. CASE s # x /\ s # active /\ s # NoSocket
    <3>1. toPage'[s] = toPage[s]
      BY <1>6, <2>6, <2>8, <2>11
    <3> QED BY <1>0, <1>2, <1>3, <1>8, <2>8, <2>11, <3>1, PageQuiet
  <2> QED BY <1>5, <2>9, <2>10, <2>11
<1>9. CASE ended /\ toPage' = [toPage EXCEPT ![x] = Append(@, [op |-> "over"])] /\ UNCHANGED seat
  <2>1. PICK m \in Message : m = [op |-> "over"]
    BY DEF Message
  <2> QED BY <1>1, <1>7, <1>9, <2>1
<1>10. CASE /\ ~MaySit(x, Head(toServer[x]).takeover)
            /\ toPage' = [toPage EXCEPT ![x] = Append(@, [op |-> "refused"])] /\ UNCHANGED seat
  <2>1. PICK m \in Message : m = [op |-> "refused"]
    BY DEF Message
  <2>2. active # x
    BY <1>10 DEF MaySit
  <2> QED BY <1>1, <1>7, <1>10, <2>1, <2>2
<1> QED BY <1>1, <1>8, <1>9, <1>10 DEF HandleJoin

LEMMA JoinKeeps ==
  ASSUME PagesInv, NEW x \in Socket, HandleJoin(x)
  PROVE  PagesInv'
<1>1. WireType /\ OwnSockets
  BY DEF PagesInv
<1>2. \A d \in Page : PageInv(d)'
  BY JoinKeepsPages
<1>3. UNCHANGED <<up, pages, unsent>> /\ up[x] \in {"open", "dead"}
  BY DEF HandleJoin, Incoming
<1>4. \A y \in Socket \ {x, active} : toPage'[y] = toPage[y]
  BY <1>1 DEF HandleJoin, Told, WireType
<1>5. UNCHANGED <<dealers, active>> \/ (dealers' = dealers \cup {x} /\ active' = x)
  BY DEF HandleJoin, seat
<1>6. OwnSockets'
  <2>1. ASSUME NEW y \in Socket, up'[y] = "unused"
        PROVE  toPage'[y] = <<>> /\ y \notin dealers'
    <3>1. toPage[y] = <<>> /\ y \notin dealers /\ y # x
      BY <1>1, <1>3, <2>1 DEF OwnSockets
    <3>2. y # active
      BY <1>1, <3>1, RoomAssumption DEF WireType
    <3> QED BY <1>4, <1>5, <3>1, <3>2
  <2> QED BY <1>1, <1>3, <2>1 DEF OwnSockets
<1>7. WireType'
  <2>1. toServer' \in [Socket -> Seq(Ask)]
    BY ReadKeeps DEF HandleJoin
  <2>2. toPage' \in [Socket -> Seq(Message)]
    <3>1. /\ toPage \in [Socket -> Seq(Message)] /\ [op |-> "over"] \in Message /\ [op |-> "refused"] \in Message
          /\ [op |-> "demoted"] \in Message /\ JoinedMessage \in Message
      BY <1>1 DEF WireType, Message, JoinedMessage, Pending
    <3>2. \A m \in Message : [toPage EXCEPT ![x] = Append(@, m)] \in [Socket -> Seq(Message)]
      BY <3>1
    <3>4. PICK first : first = Told(toPage, {active} \ {x, NoSocket}, [op |-> "demoted"])
      OBVIOUS
    <3>5. first \in [Socket -> Seq(Message)]
      BY <3>1, <3>4, ToldKeeps
    <3>3. Told(first, {x}, JoinedMessage) \in [Socket -> Seq(Message)]
      BY <3>1, <3>5, ToldKeeps
    <3> QED BY <3>1, <3>2, <3>3, <3>4 DEF HandleJoin
  <2>3. dealers' \subseteq Socket /\ active' \in dealers' \cup {NoSocket}
    BY <1>1, <1>5 DEF WireType
  <2> QED BY <1>1, <1>3, <2>1, <2>2, <2>3 DEF WireType
<1> QED BY <1>2, <1>6, <1>7 DEF PagesInv

\* A step that changes no socket, no channel but those to the service, and no page.
LEMMA ServiceKeeps ==
  ASSUME PagesInv, UNCHANGED <<up, toPage, dealers, active, misled, pages, unsent, Pending>>,
         toServer' \in [Socket -> Seq(Ask)],
         \A s \in Socket : None(toServer'[s], {"join"}) => None(toServer[s], {"join"})
  PROVE  PagesInv'
<1>1. ASSUME NEW d \in Page
      PROVE  PageInv(d)'
  <2>1. PageInv(d) /\ (pages[d].sock # NoSocket => pages[d].sock \in Socket)
    BY DEF PagesInv, WireType
  <2> QED BY <2>1, PageQuiet
<1>2. OwnSockets'
  BY DEF PagesInv, OwnSockets
<1>3. WireType'
  BY DEF PagesInv, WireType
<1> QED BY <1>1, <1>2, <1>3 DEF PagesInv

\* The room is told the list, and nothing else happens to sockets and pages.
LEMMA ListKeeps ==
  ASSUME PagesInv, UNCHANGED <<up, seat, pages, unsent>>, InRoom(ListMessage(Pending')),
         toServer' \in [Socket -> Seq(Ask)],
         \A s \in Socket : None(toServer'[s], {"join"}) => None(toServer[s], {"join"})
  PROVE  PagesInv'
<1>1. \A d \in Page : PageInv(d)'
  BY RoomIsTold
<1>2. PICK m \in Message : m = ListMessage(Pending')
  BY DEF ListMessage, Message, Pending
<1>3. PICK next : next = Told(toPage, {s \in dealers : up[s] = "open"}, m)
  OBVIOUS
<1>4. toPage \in [Socket -> Seq(Message)]
  BY DEF PagesInv, WireType
<1>5. /\ next \in [Socket -> Seq(Message)]
      /\ \A s \in Socket : next[s] = IF s \in {y \in dealers : up[y] = "open"} THEN Append(toPage[s], m) ELSE toPage[s]
  BY <1>2, <1>3, <1>4, ToldKeeps
<1>6. toPage' = next
  BY <1>2, <1>3 DEF InRoom
<1>7. OwnSockets'
  <2>1. \A s \in Socket : up[s] = "unused" => toPage'[s] = <<>> /\ s \notin dealers
    BY <1>5, <1>6 DEF PagesInv, OwnSockets
  <2> QED BY <2>1 DEF PagesInv, OwnSockets, seat
<1>8. WireType'
  BY <1>5, <1>6 DEF PagesInv, WireType, seat
<1> QED BY <1>1, <1>7, <1>8 DEF PagesInv

\* What a page sends is kept until it is connected, or is on its way.
LEMMA EmitKeeps ==
  ASSUME PagesInv, NEW d \in Page, NEW m \in Ask, Emits(d, m)
  PROVE  /\ toServer' \in [Socket -> Seq(Ask)] /\ unsent' \in [Page -> Seq(Ask)]
         /\ \A s \in Socket : None(toServer'[s], {"join"}) => None(toServer[s], {"join"})
         /\ \A s \in Socket : s # pages[d].sock => toServer'[s] = toServer[s]
         /\ m.op = "join" /\ pages[d].sock # NoSocket => ~None(toServer'[pages[d].sock], {"join"})
<1>1. toServer \in [Socket -> Seq(Ask)] /\ unsent \in [Page -> Seq(Ask)] /\ pages[d].sock \in Socket \cup {NoSocket}
  BY DEF PagesInv, WireType
<1>2. CASE pages[d].sock = NoSocket
  <2>1. unsent' = [unsent EXCEPT ![d] = Append(@, m)] /\ toServer' = toServer
    BY <1>2 DEF Emits
  <2> QED BY <1>1, <1>2, <2>1
<1>3. CASE pages[d].sock # NoSocket
  <2>1. PICK s \in Socket : s = pages[d].sock
    BY <1>1, <1>3
  <2>2. toServer' = [toServer EXCEPT ![s] = Append(@, m)] /\ unsent' = unsent
    BY <1>3, <2>1 DEF Emits
  <2>3. PICK q \in Seq(Ask) : q = toServer[s]
    BY <1>1
  <2>10. q \in Seq(Ask)
    BY <2>3
  <2>11. Append(q, m) \in Seq(Ask)
    BY <2>10
  <2>4. PICK r \in Seq(Ask) : r = Append(q, m)
    BY <2>11
  <2>5. toServer'[s] = r /\ \A x \in Socket : x # s => toServer'[x] = toServer[x]
    BY <1>1, <2>2, <2>3, <2>4
  <2>6. DOMAIN r = 1..(Len(q) + 1) /\ DOMAIN q = 1..Len(q) /\ Len(q) \in Nat /\ r[Len(q) + 1] = m
        /\ \A i \in DOMAIN q : r[i] = q[i]
    BY <2>3, <2>4
  <2>7. None(r, {"join"}) => None(q, {"join"})
    BY <2>6 DEF None
  <2>8. m.op = "join" => ~None(r, {"join"})
    BY <2>6 DEF None
  <2>9. toServer' \in [Socket -> Seq(Ask)]
    BY <1>1, <2>2
  <2> QED BY <1>1, <2>1, <2>2, <2>3, <2>5, <2>7, <2>8, <2>9
<1> QED BY <1>2, <1>3

\* The dealer taps something that is sent, or the page asks for what it missed.
LEMMA TapKeeps ==
  ASSUME PagesInv, NEW d \in Page, TapAdmit(d) \/ TapRemove(d) \/ TapEnd(d) \/ MeetsGap(d)
  PROVE  PagesInv'
<1>1. PICK m \in Ask : Emits(d, m)
  <2>1. CASE TapAdmit(d)
    <3>1. PICK p \in pages[d].list, accept \in BOOLEAN : Emits(d, [op |-> "admit", player |-> p, accept |-> accept])
      BY <2>1 DEF TapAdmit
    <3>2. p \in Player
      BY DEF PagesInv, WireType
    <3> QED BY <3>1, <3>2 DEF Ask
  <2>2. CASE TapRemove(d)
    BY <2>2 DEF TapRemove, AtTable, Ask
  <2>3. CASE TapEnd(d)
    BY <2>3 DEF TapEnd, Ask
  <2>4. CASE MeetsGap(d)
    BY <2>4 DEF MeetsGap, Ask
  <2> QED BY <2>1, <2>2, <2>3, <2>4
<1>2. UNCHANGED <<up, toPage, dealers, active, misled, pages, Pending>>
  BY DEF TapAdmit, TapRemove, TapEnd, MeetsGap, seat, register, Pending
<1>3. /\ toServer' \in [Socket -> Seq(Ask)] /\ unsent' \in [Page -> Seq(Ask)]
      /\ \A s \in Socket : None(toServer'[s], {"join"}) => None(toServer[s], {"join"})
  BY <1>1, EmitKeeps
<1>4. ASSUME NEW e \in Page
      PROVE  PageInv(e)'
  <2>1. PageInv(e) /\ (pages[e].sock # NoSocket => pages[e].sock \in Socket)
    BY DEF PagesInv, WireType
  <2> QED BY <1>2, <1>3, <2>1, PageQuiet
<1>5. OwnSockets' /\ WireType'
  BY <1>2, <1>3 DEF PagesInv, OwnSockets, WireType
<1> QED BY <1>4, <1>5 DEF PagesInv

\* The dealer takes the seat over.
LEMMA TakeoverKeeps ==
  ASSUME PagesInv, NEW d \in Page, TapTakeover(d)
  PROVE  PagesInv'
<1> DEFINE s == pages[d].sock
<1>1. PICK m \in Ask : m.op = "join" /\ Emits(d, m)
  BY DEF TapTakeover, Ask
<1>2. /\ UNCHANGED <<up, toPage, dealers, active, misled, Pending>>
      /\ pages' = [pages EXCEPT ![d].shows = "shell", ![d].readOnly = FALSE, ![d].joined = FALSE]
  BY DEF TapTakeover, seat, register, Pending
<1>3. /\ toServer' \in [Socket -> Seq(Ask)] /\ unsent' \in [Page -> Seq(Ask)]
      /\ \A x \in Socket : None(toServer'[x], {"join"}) => None(toServer[x], {"join"})
      /\ s # NoSocket => ~None(toServer'[s], {"join"})
  BY <1>1, EmitKeeps
<1>4. /\ pages' \in [Page -> PageState]
      /\ \A e \in Page : pages'[e].sock = pages[e].sock /\ pages'[e].list = pages[e].list
      /\ \A e \in Page : e # d => pages'[e] = pages[e]
      /\ ~pages'[d].joined
  <2>1. pages \in [Page -> PageState]
    BY DEF PagesInv, WireType
  <2>2. /\ pages'[d] = [pages[d] EXCEPT !.shows = "shell", !.readOnly = FALSE, !.joined = FALSE]
        /\ \A e \in Page : e # d => pages'[e] = pages[e]
        /\ DOMAIN pages' = Page /\ pages' = [e \in Page |-> pages'[e]]
    BY <1>2, <2>1
  <2>3. pages'[d] \in PageState
    BY <2>1, <2>2
  <2>4. \A e \in Page : pages'[e] \in PageState
    BY <2>1, <2>2, <2>3
  <2>7. pages[d] \in PageState
    BY <2>1
  <2>8. pages'[d].sock = pages[d].sock /\ pages'[d].list = pages[d].list
    BY <2>2, <2>7
  <2>5. \A e \in Page : pages'[e].sock = pages[e].sock /\ pages'[e].list = pages[e].list
    BY <2>2, <2>8
  <2>6. ~pages'[d].joined
    BY <2>1, <2>2
  <2> QED BY <2>2, <2>4, <2>5, <2>6
<1>5. ASSUME NEW e \in Page, e # d
      PROVE  PageInv(e)'
  <2>1. PageInv(e) /\ (pages[e].sock # NoSocket => pages[e].sock \in Socket)
    BY DEF PagesInv, WireType
  <2> QED BY <1>2, <1>3, <1>4, <1>5, <2>1, PageQuiet
<1>6. PageInv(d)'
  <2> SUFFICES ASSUME s # NoSocket
               PROVE  PageInv(d)'
    BY <1>4 DEF PageInv
  <2>1. SeatTold(s) /\ JoinedIsDealer(d) /\ (s \in dealers => ListTold(s) /\ ListKnown(d))
    BY DEF PagesInv, PageInv
  <2>2. SeatTold(s)'
    BY <1>2, <1>4, <2>1 DEF SeatTold
  <2>3. SeatKnown(d)'
    BY <1>3, <1>4 DEF SeatKnown
  <2>4. JoinedIsDealer(d)'
    BY <1>2, <1>4, <2>1 DEF JoinedIsDealer
  <2>5. (s \in dealers => ListTold(s) /\ ListKnown(d))'
    BY <1>2, <1>4, <2>1 DEF ListTold, ListKnown
  <2> QED BY <1>4, <2>2, <2>3, <2>4, <2>5 DEF PageInv
<1>7. OwnSockets'
  BY <1>2, <1>4 DEF PagesInv, OwnSockets
<1>8. WireType'
  BY <1>2, <1>3, <1>4 DEF PagesInv, WireType
<1> QED BY <1>5, <1>6, <1>7, <1>8 DEF PagesInv

\* A page opens a connection, and what it kept is sent before its join.
LEMMA ConnectKeeps ==
  ASSUME PagesInv, NEW d \in Page, Connects(d)
  PROVE  PagesInv'
<1>1. PICK s \in Socket :
        /\ up[s] = "unused" /\ pages[d].sock = NoSocket
        /\ up' = [up EXCEPT ![s] = "open"]
        /\ pages' = [pages EXCEPT ![d].sock = s, ![d].joined = FALSE]
        /\ toServer' = [toServer EXCEPT ![s] = unsent[d] \o <<[op |-> "join", takeover |-> FALSE]>>]
        /\ unsent' = [unsent EXCEPT ![d] = <<>>]
  BY DEF Connects
<1>2. UNCHANGED <<toPage, dealers, active, misled, Pending>>
  BY DEF Connects, seat, register, Pending
<1>3. WireType /\ OwnSockets
  BY DEF PagesInv
<1>4. toPage[s] = <<>> /\ s \notin dealers
  BY <1>1, <1>3 DEF OwnSockets
<1>5. s # NoSocket /\ active # s
  BY <1>3, <1>4, RoomAssumption DEF WireType
<1>6. \A e \in Page : pages[e].sock # s
  BY <1>1, <1>3, <1>5 DEF OwnSockets
<1>7. pages \in [Page -> PageState]
  BY <1>3 DEF WireType
<1>8. /\ pages'[d] = [pages[d] EXCEPT !.sock = s, !.joined = FALSE]
      /\ \A e \in Page : e # d => pages'[e] = pages[e]
      /\ DOMAIN pages' = Page /\ pages' = [e \in Page |-> pages'[e]]
  BY <1>1, <1>7
<1>9. pages[d] \in PageState
  BY <1>7
<1>10. pages'[d].sock = s
  BY <1>8, <1>9
<1>11. ~pages'[d].joined
  BY <1>8, <1>9
<1>12. pages'[d] \in PageState
  BY <1>8, <1>9
<1>13. PICK q \in Seq(Ask) : q = unsent[d]
  BY <1>3 DEF WireType
<1>14. PICK m \in Ask : m = [op |-> "join", takeover |-> FALSE]
  BY DEF Ask
<1>15. q \o <<m>> \in Seq(Ask) /\ ~None(q \o <<m>>, {"join"})
  <2>1. q \in Seq(Ask) /\ <<m>> \in Seq(Ask)
    BY <1>13, <1>14
  <2>2. m.op = "join"
    BY <1>14
  <2>3. q \o <<m>> \in Seq(Ask) /\ Len(q) + 1 \in DOMAIN (q \o <<m>>) /\ (q \o <<m>>)[Len(q) + 1] = m
    BY <2>1
  <2> QED BY <2>2, <2>3 DEF None
<1>16. /\ toServer' \in [Socket -> Seq(Ask)] /\ toServer'[s] = q \o <<m>>
       /\ \A x \in Socket : x # s => toServer'[x] = toServer[x]
  BY <1>1, <1>3, <1>13, <1>14, <1>15 DEF WireType
<1>17. ASSUME NEW e \in Page
       PROVE  PageInv(e)'
  <2>1. CASE e # d
    <3>1. PageInv(e) /\ (pages[e].sock # NoSocket => pages[e].sock \in Socket) /\ pages'[e] = pages[e]
      BY <1>7, <1>8, <2>1 DEF PagesInv
    <3> QED BY <1>2, <1>6, <1>16, <3>1, PageQuiet
  <2>2. CASE e = d
    <3>1. toPage'[s] = <<>> /\ s \notin dealers'
      BY <1>2, <1>4
    <3>2. SeatTold(s)' /\ (None(toPage[s], JoinedOps))'
      BY <3>1 DEF SeatTold, None
    <3>3. SeatKnown(d)'
      BY <1>10, <1>15, <1>16 DEF SeatKnown
    <3>4. JoinedIsDealer(d)'
      BY <1>10, <1>11, <3>2 DEF JoinedIsDealer
    <3> QED BY <1>10, <2>2, <3>1, <3>2, <3>3, <3>4 DEF PageInv
  <2> QED BY <2>1, <2>2
<1>18. OwnSockets'
  <2>1. \A e \in Page : pages'[e].sock # NoSocket => up'[pages'[e].sock] = "open"
    <3> SUFFICES ASSUME NEW e \in Page, pages'[e].sock # NoSocket
                 PROVE  up'[pages'[e].sock] = "open"
      OBVIOUS
    <3>1. CASE e = d
      BY <1>1, <1>3, <1>10, <3>1 DEF WireType
    <3>2. CASE e # d
      <4>1. pages'[e] = pages[e] /\ pages[e].sock \in Socket /\ pages[e].sock # s
        BY <1>6, <1>7, <1>8, <3>2
      <4> QED BY <1>1, <1>3, <4>1 DEF OwnSockets, WireType
    <3> QED BY <3>1, <3>2
  <2>2. \A e, f \in Page : e # f /\ pages'[e].sock # NoSocket => pages'[e].sock # pages'[f].sock
    <3> SUFFICES ASSUME NEW e \in Page, NEW f \in Page, e # f, pages'[e].sock # NoSocket
                 PROVE  pages'[e].sock # pages'[f].sock
      OBVIOUS
    <3>1. CASE e = d
      BY <1>6, <1>8, <1>10, <3>1
    <3>2. CASE f = d
      BY <1>6, <1>8, <1>10, <3>2
    <3>3. CASE e # d /\ f # d
      BY <1>3, <1>8, <3>3 DEF OwnSockets
    <3> QED BY <3>1, <3>2, <3>3
  <2>3. \A x \in Socket : up'[x] = "unused" => toPage'[x] = <<>> /\ x \notin dealers'
    BY <1>1, <1>2, <1>3 DEF OwnSockets, WireType
  <2> QED BY <2>1, <2>2, <2>3 DEF OwnSockets
<1>19. WireType'
  <2>1. up' \in [Socket -> {"unused", "open", "dead", "closed"}]
    BY <1>1, <1>3 DEF WireType
  <2>2. unsent' \in [Page -> Seq(Ask)]
    <3>1. <<>> \in Seq(Ask)
      OBVIOUS
    <3> QED BY <1>1, <1>3, <3>1 DEF WireType
  <2>3. pages' \in [Page -> PageState]
    BY <1>7, <1>8, <1>12
  <2>4. toPage' \in [Socket -> Seq(Message)] /\ dealers' \subseteq Socket /\ active' \in dealers' \cup {NoSocket}
    BY <1>2, <1>3 DEF WireType
  <2> QED BY <1>16, <2>1, <2>2, <2>3, <2>4 DEF WireType
<1> QED BY <1>17, <1>18, <1>19 DEF PagesInv

\* The network fails, or the page is loaded again.
LEMMA DisconnectKeeps ==
  ASSUME PagesInv, NEW d \in Page, Disconnects(d)
  PROVE  PagesInv'
<1>1. PICK s \in Socket : s = pages[d].sock /\ s # NoSocket
  BY DEF Disconnects, PagesInv, WireType
<1>2. /\ up' = [up EXCEPT ![s] = "dead"] /\ toPage' = [toPage EXCEPT ![s] = <<>>]
      /\ \/ pages' = [pages EXCEPT ![d].sock = NoSocket, ![d].joined = FALSE]
         \/ pages' = [pages EXCEPT ![d] = NewPage]
      /\ UNCHANGED <<toServer, dealers, active, misled, unsent, Pending>>
  BY <1>1 DEF Disconnects, seat, register, Pending
<1>3. WireType /\ OwnSockets
  BY DEF PagesInv
<1>4. pages[d] \in PageState
  BY <1>3 DEF WireType
<1>5. /\ pages'[d] = [pages[d] EXCEPT !.sock = NoSocket, !.joined = FALSE] \/ pages'[d] = NewPage
      /\ \A e \in Page : e # d => pages'[e] = pages[e]
      /\ DOMAIN pages' = Page /\ pages' = [e \in Page |-> pages'[e]]
  <2>1. pages = [e \in Page |-> pages[e]]
    BY <1>3 DEF WireType
  <2>2. CASE pages' = [pages EXCEPT ![d].sock = NoSocket, ![d].joined = FALSE]
    BY <2>1, <2>2
  <2>3. CASE pages' = [pages EXCEPT ![d] = NewPage]
    BY <2>1, <2>3
  <2> QED BY <1>2, <2>2, <2>3
<1>6. pages'[d].sock = NoSocket
  <2>1. CASE pages'[d] = [pages[d] EXCEPT !.sock = NoSocket, !.joined = FALSE]
    BY <1>4, <2>1
  <2>2. CASE pages'[d] = NewPage
    BY <2>2 DEF NewPage
  <2> QED BY <1>5, <2>1, <2>2
<1>7. pages'[d] \in PageState
  <2>1. NewPage \in PageState
    BY DEF NewPage
  <2>2. [pages[d] EXCEPT !.sock = NoSocket, !.joined = FALSE]
          \in PageState
    BY <1>4
  <2> QED BY <1>5, <2>1, <2>2
<1>8. \A e \in Page : e # d => pages[e].sock # s
  BY <1>1, <1>3 DEF OwnSockets
<1>9. ASSUME NEW e \in Page
      PROVE  PageInv(e)'
  <2>1. CASE e = d
    BY <1>6, <2>1 DEF PageInv
  <2>2. CASE e # d
    <3>1. PageInv(e) /\ (pages[e].sock # NoSocket => pages[e].sock \in Socket) /\ pages'[e] = pages[e]
      BY <1>3, <1>5, <2>2 DEF PagesInv, WireType
    <3>2. pages[e].sock # NoSocket => toPage'[pages[e].sock] = toPage[pages[e].sock]
      BY <1>2, <1>3, <1>8, <2>2, <3>1 DEF WireType
    <3> QED BY <1>2, <3>1, <3>2, PageQuiet
  <2> QED BY <2>1, <2>2
<1>10. OwnSockets'
  <2>1. \A e \in Page : pages'[e].sock # NoSocket => up'[pages'[e].sock] = "open"
    <3> SUFFICES ASSUME NEW e \in Page, pages'[e].sock # NoSocket
                 PROVE  up'[pages'[e].sock] = "open"
      OBVIOUS
    <3>1. e # d /\ pages'[e] = pages[e]
      BY <1>5, <1>6
    <3>2. pages[e].sock \in Socket /\ pages[e].sock # s /\ up[pages[e].sock] = "open"
      BY <1>3, <1>8, <3>1 DEF OwnSockets, WireType
    <3> QED BY <1>2, <1>3, <3>1, <3>2 DEF WireType
  <2>2. \A e, f \in Page : e # f /\ pages'[e].sock # NoSocket => pages'[e].sock # pages'[f].sock
    BY <1>3, <1>5, <1>6 DEF OwnSockets
  <2>3. \A x \in Socket : up'[x] = "unused" => toPage'[x] = <<>> /\ x \notin dealers'
    BY <1>2, <1>3 DEF OwnSockets, WireType
  <2> QED BY <2>1, <2>2, <2>3 DEF OwnSockets
<1>11. WireType'
  <2>1. up' \in [Socket -> {"unused", "open", "dead", "closed"}]
    BY <1>2, <1>3 DEF WireType
  <2>2. toPage' \in [Socket -> Seq(Message)]
    <3>1. <<>> \in Seq(Message)
      OBVIOUS
    <3> QED BY <1>2, <1>3, <3>1 DEF WireType
  <2>3. pages' \in [Page -> PageState]
    BY <1>3, <1>5, <1>7 DEF WireType
  <2> QED BY <1>2, <1>3, <2>1, <2>2, <2>3 DEF WireType
<1> QED BY <1>9, <1>10, <1>11 DEF PagesInv

\* A page hears a message, and the others do not.
LEMMA HearKeeps ==
  ASSUME PagesInv, NEW d \in Page, Hears(d)
  PROVE  PagesInv'
<1>1. PICK s \in Socket : s = pages[d].sock /\ s # NoSocket
  BY DEF Hears, PagesInv, WireType
<1>2. WireType /\ OwnSockets
  BY DEF PagesInv
<1>3. toPage[s] \in Seq(Message) /\ toPage[s] # <<>> /\ toPage' = [toPage EXCEPT ![s] = Tail(@)]
  BY <1>1, <1>2 DEF Hears, WireType
<1>4. UNCHANGED <<up, toServer, dealers, active, misled, unsent, Pending>>
  BY DEF Hears, seat, register, Pending
<1>5. PICK m \in Message : m = Head(toPage[s])
  BY <1>3
<1>6. pages[d] \in PageState
  BY <1>2 DEF WireType
<1>7. m.op \in {"joined", "resynced", "refused", "over", "demoted", "pending", "reject"}
      /\ (m.op \in {"joined", "pending"} => m.list \subseteq Player)
  BY DEF Message
<1>8. /\ pages'[d] =
          CASE m.op = "joined" -> [pages[d] EXCEPT !.joined = TRUE, !.readOnly = FALSE, !.list = m.list]
            [] m.op = "refused" -> [pages[d] EXCEPT !.joined = FALSE, !.shows = "card"]
            [] m.op = "over" -> [pages[d] EXCEPT !.joined = FALSE, !.shows = "over"]
            [] m.op = "demoted" -> [pages[d] EXCEPT !.readOnly = TRUE]
            [] m.op = "resynced" -> [pages[d] EXCEPT !.joined = TRUE, !.readOnly = FALSE]
            [] m.op = "pending" -> [pages[d] EXCEPT !.list = m.list]
            [] m.op = "reject" -> pages[d]
      /\ \A e \in Page : e # d => pages'[e] = pages[e]
      /\ DOMAIN pages' = Page /\ pages' = [e \in Page |-> pages'[e]]
  <2>1. pages = [e \in Page |-> pages[e]]
    BY <1>2 DEF WireType
  <2>2. pages' = [pages EXCEPT ![d] =
          CASE m.op = "joined" -> [@ EXCEPT !.joined = TRUE, !.readOnly = FALSE, !.list = m.list]
            [] m.op = "refused" -> [@ EXCEPT !.joined = FALSE, !.shows = "card"]
            [] m.op = "over" -> [@ EXCEPT !.joined = FALSE, !.shows = "over"]
            [] m.op = "demoted" -> [@ EXCEPT !.readOnly = TRUE]
            [] m.op = "resynced" -> [@ EXCEPT !.joined = TRUE, !.readOnly = FALSE]
            [] m.op = "pending" -> [@ EXCEPT !.list = m.list]
            [] m.op = "reject" -> @]
    BY <1>1, <1>5 DEF Hears
  <2>3. PICK c : c =
          CASE m.op = "joined" -> [pages[d] EXCEPT !.joined = TRUE, !.readOnly = FALSE, !.list = m.list]
            [] m.op = "refused" -> [pages[d] EXCEPT !.joined = FALSE, !.shows = "card"]
            [] m.op = "over" -> [pages[d] EXCEPT !.joined = FALSE, !.shows = "over"]
            [] m.op = "demoted" -> [pages[d] EXCEPT !.readOnly = TRUE]
            [] m.op = "resynced" -> [pages[d] EXCEPT !.joined = TRUE, !.readOnly = FALSE]
            [] m.op = "pending" -> [pages[d] EXCEPT !.list = m.list]
            [] m.op = "reject" -> pages[d]
    OBVIOUS
  <2>4. pages' = [pages EXCEPT ![d] = c]
    BY <2>2, <2>3
  <2>5. /\ pages'[d] = c /\ \A e \in Page : e # d => pages'[e] = pages[e]
        /\ DOMAIN pages' = Page /\ pages' = [e \in Page |-> pages'[e]]
    BY <2>1, <2>4
  <2> QED BY <2>3, <2>5
<1>9. pages'[d] \in PageState
      /\ pages'[d].sock = s
  <2>1. CASE m.op = "joined"
    BY <1>1, <1>6, <1>7, <1>8, <2>1
  <2>2. CASE m.op = "refused"
    BY <1>1, <1>6, <1>7, <1>8, <2>2
  <2>3. CASE m.op = "over"
    BY <1>1, <1>6, <1>7, <1>8, <2>3
  <2>4. CASE m.op = "demoted"
    BY <1>1, <1>6, <1>7, <1>8, <2>4
  <2>5. CASE m.op = "pending"
    BY <1>1, <1>6, <1>7, <1>8, <2>5
  <2>6. CASE m.op = "resynced"
    BY <1>1, <1>6, <1>7, <1>8, <2>6
  <2>7. CASE m.op = "reject"
    BY <1>1, <1>6, <1>7, <1>8, <2>7
  <2> QED BY <1>7, <2>1, <2>2, <2>3, <2>4, <2>5, <2>6, <2>7
<1>10. \A e \in Page : e # d => pages[e].sock # s
  BY <1>1, <1>2 DEF OwnSockets
<1>11. ASSUME NEW e \in Page
       PROVE  PageInv(e)'
  <2>1. CASE e = d
    BY <2>1, PageHears
  <2>2. CASE e # d
    <3>1. PageInv(e) /\ (pages[e].sock # NoSocket => pages[e].sock \in Socket) /\ pages'[e] = pages[e]
      BY <1>2, <1>8, <2>2 DEF PagesInv, WireType
    <3>2. pages[e].sock # NoSocket => toPage'[pages[e].sock] = toPage[pages[e].sock]
      BY <1>2, <1>3, <1>10, <2>2, <3>1 DEF WireType
    <3> QED BY <1>4, <3>1, <3>2, PageQuiet
  <2> QED BY <2>1, <2>2
<1>12. OwnSockets'
  <2>1. \A e \in Page : pages'[e].sock = pages[e].sock
    BY <1>1, <1>8, <1>9
  <2>2. \A x \in Socket : toPage[x] = <<>> => toPage'[x] = <<>>
    BY <1>2, <1>3 DEF WireType
  <2> QED BY <1>2, <1>4, <2>1, <2>2 DEF OwnSockets
<1>13. WireType'
  <2>1. Tail(toPage[s]) \in Seq(Message)
    BY <1>3
  <2>2. toPage' \in [Socket -> Seq(Message)]
    BY <1>2, <1>3, <2>1 DEF WireType
  <2>3. pages' \in [Page -> PageState]
    BY <1>2, <1>8, <1>9 DEF WireType
  <2> QED BY <1>2, <1>4, <2>2, <2>3 DEF WireType
<1> QED BY <1>11, <1>12, <1>13 DEF PagesInv

\* A page's event is rejected: nothing it knows of the seat or the list changes.
LEMMA RejectIsTold ==
  ASSUME PagesInv, NEW d \in Page, pages[d].sock # NoSocket, UNCHANGED <<active, dealers, misled, pages, Pending>>,
         NEW m \in Message, m.op = "reject", toPage'[pages[d].sock] = Append(toPage[pages[d].sock], m),
         None(toServer'[pages[d].sock], {"join"}) => None(toServer[pages[d].sock], {"join"})
  PROVE  PageInv(d)'
<1> DEFINE s == pages[d].sock
<1>1. PageInv(d) /\ s \in Socket /\ toPage[s] \in Seq(Message)
  BY DEF PagesInv, WireType
<1>2. SeatTold(s) /\ SeatKnown(d) /\ JoinedIsDealer(d) /\ (s \in dealers => ListTold(s) /\ ListKnown(d))
  BY <1>1 DEF PageInv
<1>3. PICK q : q = toPage[s]
  OBVIOUS
<1>4. PICK r : r = toPage'[s]
  OBVIOUS
<1>5. q \in Seq(Message) /\ r = Append(q, m)
  BY <1>1, <1>3, <1>4
<1>6. m.op \notin SeatOps /\ m.op \notin JoinedOps /\ m.op \notin ListOps
  BY DEF SeatOps, JoinedOps, ListOps
<1>7. /\ None(r, SeatOps) <=> None(q, SeatOps)
      /\ None(r, JoinedOps) <=> None(q, JoinedOps)
      /\ None(r, ListOps) <=> None(q, ListOps)
  BY <1>5, <1>6, NewIsNone
<1>8. \A i : LastOf(r, SeatOps, i) => LastOf(q, SeatOps, i) /\ r[i] = q[i]
  BY <1>5, <1>6, NewIsNotLast
<1>9. \A i : LastOf(r, ListOps, i) => LastOf(q, ListOps, i) /\ r[i] = q[i]
  BY <1>5, <1>6, NewIsNotLast
<1>10. SeatTold(s)'
  <2>1. \A i \in DOMAIN q : LastOf(q, SeatOps, i) => /\ q[i].op = "joined" => active = s
                                                     /\ q[i].op = "resynced" => active = s \/ s \in misled
                                                     /\ q[i].op \in {"refused", "demoted"} => active # s
    BY <1>2, <1>3 DEF SeatTold
  <2>2. ASSUME NEW i \in DOMAIN r, LastOf(r, SeatOps, i)
        PROVE  /\ r[i].op = "joined" => active = s
               /\ r[i].op = "resynced" => active = s \/ s \in misled
               /\ r[i].op \in {"refused", "demoted"} => active # s
    <3>1. LastOf(q, SeatOps, i) /\ r[i] = q[i]
      BY <1>8, <2>2
    <3>2. i \in DOMAIN q
      BY <3>1 DEF LastOf
    <3> QED BY <2>1, <3>1, <3>2
  <2> QED BY <1>4, <2>2 DEF SeatTold
<1>11. SeatKnown(d)'
  BY <1>2, <1>3, <1>4, <1>7 DEF SeatKnown
<1>12. JoinedIsDealer(d)'
  BY <1>2, <1>3, <1>4, <1>7 DEF JoinedIsDealer
<1>13. (s \in dealers => ListTold(s) /\ ListKnown(d))'
  <2>1. ASSUME ListTold(s)
        PROVE  ListTold(s)'
    <3>1. \A i \in DOMAIN q : LastOf(q, ListOps, i) => q[i].list = Pending
      BY <1>3, <2>1 DEF ListTold
    <3>2. ASSUME NEW i \in DOMAIN r, LastOf(r, ListOps, i)
          PROVE  r[i].list = Pending
      <4>1. LastOf(q, ListOps, i) /\ r[i] = q[i]
        BY <1>9, <3>2
      <4>2. i \in DOMAIN q
        BY <4>1 DEF LastOf
      <4> QED BY <3>1, <4>1, <4>2
    <3> QED BY <1>4, <3>2 DEF ListTold
  <2>2. ListKnown(d) => ListKnown(d)'
    BY <1>3, <1>4, <1>7 DEF ListKnown
  <2> QED BY <1>2, <2>1, <2>2
<1> QED BY <1>10, <1>11, <1>12, <1>13 DEF PageInv

\* A socket is answered that its event is rejected, or as one who joins.
LEMMA AnswerKeeps ==
  ASSUME PagesInv, NEW x \in Socket, up[x] # "unused", NEW m \in Message, m.op \in {"reject", "resynced"},
         m.op = "resynced" => x \in dealers /\ (active = x \/ x \in misled'),
         m.op = "reject" => misled' = misled,
         misled \subseteq misled',
         toPage' = [toPage EXCEPT ![x] = Append(@, m)],
         UNCHANGED <<up, dealers, active, pages, unsent, Pending>>,
         toServer' \in [Socket -> Seq(Ask)],
         \A s \in Socket : None(toServer'[s], {"join"}) => None(toServer[s], {"join"})
  PROVE  PagesInv'
<1>1. WireType /\ OwnSockets
  BY DEF PagesInv
<1>2. toPage \in [Socket -> Seq(Message)]
  BY <1>1 DEF WireType
<1>3. ASSUME NEW d \in Page
      PROVE  PageInv(d)'
  <2>1. PageInv(d) /\ (pages[d].sock # NoSocket => pages[d].sock \in Socket)
    BY <1>1 DEF PagesInv, WireType
  <2>2. CASE pages[d].sock # x
    <3>1. pages[d].sock # NoSocket => toPage'[pages[d].sock] = toPage[pages[d].sock]
      BY <1>2, <2>1, <2>2
    <3> QED BY <2>1, <2>2, <3>1, PageQuiet
  <2>3. CASE pages[d].sock = x
    <3>1. x # NoSocket /\ toPage'[x] = Append(toPage[x], m)
      BY <1>2, RoomAssumption
    <3>2. CASE m.op = "reject"
      BY <2>3, <3>1, <3>2, RejectIsTold
    <3>3. CASE m.op = "resynced"
      <4>1. m.op \in SeatOps
        BY <3>3 DEF SeatOps
      <4> QED BY <2>3, <3>1, <3>3, <4>1, SeatIsTold
    <3> QED BY <3>2, <3>3
  <2> QED BY <2>2, <2>3
<1>4. OwnSockets'
  <2>1. \A y \in Socket : up[y] = "unused" => toPage'[y] = <<>> /\ y \notin dealers
    BY <1>1, <1>2 DEF OwnSockets
  <2> QED BY <1>1, <2>1 DEF OwnSockets
<1>5. WireType'
  <2>1. \A q \in Seq(Message) : Append(q, m) \in Seq(Message)
    OBVIOUS
  <2>2. toPage' \in [Socket -> Seq(Message)]
    BY <1>2, <2>1
  <2> QED BY <1>1, <2>2 DEF WireType
<1> QED BY <1>3, <1>4, <1>5 DEF PagesInv

\* A page asked for what it missed.
LEMMA ResyncKeeps ==
  ASSUME PagesInv, OneDealer, NEW s \in Socket, HandleResync(s)
  PROVE  PagesInv'
<1>1. UNCHANGED <<up, dealers, active, pages, unsent, Pending>> /\ up[s] # "unused"
  BY DEF HandleResync, Incoming, register, Pending
<1>2. /\ toServer' \in [Socket -> Seq(Ask)]
      /\ \A x \in Socket : None(toServer'[x], {"join"}) => None(toServer[x], {"join"})
  BY ReadKeeps DEF HandleResync
<1>3. CASE s \notin dealers
  <2>1. UNCHANGED <<toPage, misled>>
    BY <1>3 DEF HandleResync
  <2> QED BY <1>1, <1>2, <2>1, ServiceKeeps
<1>4. CASE s \in dealers
  <2>1. PICK m \in Message : m = [op |-> "resynced"]
    BY DEF Message
  <2>2. m.op = "resynced" /\ toPage' = [toPage EXCEPT ![s] = Append(@, m)]
    BY <1>4, <2>1 DEF HandleResync
  <2>3. misled \subseteq misled' /\ (active = s \/ s \in misled')
    BY <1>4 DEF HandleResync, OneDealer, MayWrite
  <2> QED BY <1>1, <1>2, <1>4, <2>2, <2>3, AnswerKeeps
<1> QED BY <1>3, <1>4

\* A dealer's event is taken, or rejected.
LEMMA EventKeeps ==
  ASSUME PagesInv, NEW s \in Socket, HandleEvent(s)
  PROVE  PagesInv'
<1>1. UNCHANGED <<up, dealers, active, misled, pages, unsent, Pending>> /\ up[s] # "unused"
  BY DEF HandleEvent, Incoming, seat, Pending
<1>2. /\ toServer' \in [Socket -> Seq(Ask)]
      /\ \A x \in Socket : None(toServer'[x], {"join"}) => None(toServer[x], {"join"})
  <2>1. Incoming(s, "event")
    BY DEF HandleEvent
  <2> QED BY <2>1, ReadKeeps
<1>3. CASE UNCHANGED toPage
  BY <1>1, <1>2, <1>3, ServiceKeeps
<1>4. CASE toPage' = [toPage EXCEPT ![s] = Append(@, [op |-> "reject"])]
  <2>1. PICK m \in Message : m = [op |-> "reject"]
    BY DEF Message
  <2>2. m.op = "reject" /\ toPage' = [toPage EXCEPT ![s] = Append(@, m)]
    BY <1>4, <2>1
  <2> QED BY <1>1, <1>2, <2>2, AnswerKeeps
<1> QED BY <1>3, <1>4 DEF HandleEvent

\* The service notices that a connection is gone: no page has it.
LEMMA LeavingKeepsPages ==
  ASSUME PagesInv, NEW x \in Socket, NoticeLeft(x)
  PROVE  PagesInv'
<1>1. /\ up[x] = "dead" /\ up' = [up EXCEPT ![x] = "closed"] /\ toServer' = [toServer EXCEPT ![x] = <<>>]
      /\ dealers' = dealers \ {x} /\ active' = IF active = x THEN NoSocket ELSE active
      /\ UNCHANGED <<toPage, misled, pages, unsent, Pending>>
  BY DEF NoticeLeft, Leaves, register, Pending
<1>2. WireType /\ OwnSockets
  BY DEF PagesInv
<1>3. \A d \in Page : pages[d].sock # NoSocket => pages[d].sock \in Socket /\ pages[d].sock # x
  BY <1>1, <1>2 DEF OwnSockets, WireType
<1>4. ASSUME NEW d \in Page
      PROVE  PageInv(d)'
  <2>1. PageInv(d)
    BY DEF PagesInv
  <2>2. pages[d].sock # NoSocket => toServer'[pages[d].sock] = toServer[pages[d].sock]
    BY <1>1, <1>2, <1>3 DEF WireType
  <2> QED BY <1>1, <1>3, <2>1, <2>2, PageQuiet
<1>5. OwnSockets'
  <2>1. \A d \in Page : pages'[d].sock # NoSocket => up'[pages'[d].sock] = "open"
    BY <1>1, <1>2, <1>3 DEF OwnSockets, WireType
  <2>2. \A y \in Socket : up'[y] = "unused" => up[y] = "unused"
    BY <1>1, <1>2 DEF WireType
  <2> QED BY <1>1, <1>2, <2>1, <2>2 DEF OwnSockets
<1>6. WireType'
  <2>1. up' \in [Socket -> {"unused", "open", "dead", "closed"}]
    BY <1>1, <1>2 DEF WireType
  <2>2. toServer' \in [Socket -> Seq(Ask)]
    <3>1. <<>> \in Seq(Ask)
      OBVIOUS
    <3> QED BY <1>1, <1>2, <3>1 DEF WireType
  <2>3. dealers' \subseteq Socket /\ active' \in dealers' \cup {NoSocket}
    BY <1>1, <1>2 DEF WireType
  <2> QED BY <1>1, <1>2, <2>1, <2>2, <2>3 DEF WireType
<1> QED BY <1>4, <1>5, <1>6 DEF PagesInv

\* Somebody asks to join: the list grows, or nobody waits.
LEMMA PostKeepsPages ==
  ASSUME PagesInv, RegisterType, NEW p \in Player, PostJoin(p)
  PROVE  PagesInv'
<1>1. UNCHANGED <<up, toServer, seat, pages, unsent>>
  BY DEF PostJoin, devices
<1>2. toServer \in [Socket -> Seq(Ask)]
  BY DEF PagesInv, WireType
<1>3. rows[p] = "none" /\ rows \in [Player -> {"none", "pending", "in", "declined"}]
  BY DEF PostJoin, RegisterType
<1>4. CASE rows' = [rows EXCEPT ![p] = "pending"] /\ InRoom(ListMessage(Pending \cup {p}))
  <2>1. Pending' = Pending \cup {p}
    BY <1>3, <1>4 DEF Pending
  <2> QED BY <1>1, <1>2, <1>4, <2>1, ListKeeps
<1>5. CASE rows' = [rows EXCEPT ![p] = "in"] /\ UNCHANGED toPage
  <2>1. Pending' = Pending
    BY <1>3, <1>5 DEF Pending
  <2>2. UNCHANGED <<up, toPage, dealers, active, misled, pages, unsent, Pending>>
    BY <1>1, <1>5, <2>1 DEF seat
  <2> QED BY <1>1, <1>2, <2>2, ServiceKeeps
<1> QED BY <1>4, <1>5 DEF PostJoin

\* The dealer admits or declines: the list shrinks, or nothing happens.
LEMMA AdmitKeepsPages ==
  ASSUME PagesInv, RegisterType, NEW s \in Socket, HandleAdmit(s)
  PROVE  PagesInv'
<1>1. UNCHANGED <<up, seat, pages, unsent>>
  BY DEF HandleAdmit
<1>2. /\ toServer' \in [Socket -> Seq(Ask)]
      /\ \A x \in Socket : None(toServer'[x], {"join"}) => None(toServer[x], {"join"})
  BY ReadKeeps DEF HandleAdmit
<1>3. CASE UNCHANGED <<toPage, register, phones>>
  <2>1. UNCHANGED <<up, toPage, dealers, active, misled, pages, unsent, Pending>>
    BY <1>1, <1>3 DEF seat, register, Pending
  <2> QED BY <1>2, <2>1, ServiceKeeps
<1>4. CASE ~UNCHANGED <<toPage, register, phones>>
  <2> DEFINE p == Head(toServer[s]).player
             a == IF Head(toServer[s]).accept THEN "in" ELSE "declined"
  <2>1. /\ rows' = [rows EXCEPT ![p] = a] /\ InRoom(ListMessage(Pending \ {p}))
        /\ a \in {"in", "declined"}
    BY <1>4, Zenon DEF HandleAdmit
  <2>2. Pending' = Pending \ {p}
    BY <2>1 DEF Pending, RegisterType
  <2> QED BY <1>1, <1>2, <2>1, <2>2, ListKeeps
<1> QED BY <1>3, <1>4

\* PagesInv holds at first and after every step.
LEMMA PagesStart == RoomInit => PagesInv
<1> SUFFICES ASSUME RoomInit PROVE PagesInv
  OBVIOUS
<1>1. \A d \in Page : pages[d].sock = NoSocket
  BY DEF RoomInit, NewPage
<1>2. OwnSockets /\ \A d \in Page : PageInv(d)
  BY <1>1 DEF RoomInit, OwnSockets, PageInv
<1>3. WireType
  <2>1. <<>> \in Seq(Ask) /\ <<>> \in Seq(Message)
    OBVIOUS
  <2>2. NewPage \in PageState
    BY DEF NewPage
  <2>3. pages \in [Page -> PageState]
    BY <2>2 DEF RoomInit
  <2>4. toServer \in [Socket -> Seq(Ask)] /\ toPage \in [Socket -> Seq(Message)] /\ unsent \in [Page -> Seq(Ask)]
    BY <2>1 DEF RoomInit
  <2>5. up \in [Socket -> {"unused", "open", "dead", "closed"}] /\ dealers \subseteq Socket
        /\ active \in dealers \cup {NoSocket}
    BY DEF RoomInit
  <2> QED BY <2>3, <2>4, <2>5 DEF WireType
<1> QED BY <1>2, <1>3 DEF PagesInv

LEMMA PagesStep == PagesInv /\ RegisterInv /\ OneDealer /\ [RoomNext]_roomVars => PagesInv'
<1> SUFFICES ASSUME PagesInv, RegisterInv, OneDealer, [RoomNext]_roomVars
             PROVE  PagesInv'
  OBVIOUS
<1>0. CASE UNCHANGED <<wire, seat, rows, pages, unsent>>
  <2>1. UNCHANGED <<up, toPage, dealers, active, misled, pages, unsent, Pending>> /\ toServer' = toServer
    BY <1>0 DEF wire, seat, Pending
  <2>2. toServer' \in [Socket -> Seq(Ask)]
    BY <2>1 DEF PagesInv, WireType
  <2> QED BY <2>1, <2>2, ServiceKeeps
<1>1. CASE UNCHANGED roomVars
  BY <1>0, <1>1 DEF roomVars, register
<1>2. ASSUME NEW s \in Socket, HandleJoin(s) \/ NoticeLeft(s)
      PROVE  PagesInv'
  BY <1>2, JoinKeeps, LeavingKeepsPages
<1>3. ASSUME NEW s \in Socket, HandleAdmit(s)
      PROVE  PagesInv'
  BY <1>3, AdmitKeepsPages DEF RegisterInv
<1>4. ASSUME NEW s \in Socket, HandleEvent(s) \/ HandleResync(s)
      PROVE  PagesInv'
  BY <1>4, EventKeeps, ResyncKeeps
<1>5. ASSUME NEW p \in Player, PostJoin(p)
      PROVE  PagesInv'
  BY <1>5, PostKeepsPages DEF RegisterInv
<1>6. ASSUME NEW p \in Player, PhoneHides(p) \/ PhoneShows(p) \/ PhoneJoins(p) \/ PhoneLeaves(p) \/ Reissue(p)
      PROVE  PagesInv'
  BY <1>0, <1>6 DEF PhoneHides, PhoneShows, PhoneJoins, PhoneLeaves, Reissue, register
<1>7. ASSUME NEW d \in Page, Connects(d) \/ Disconnects(d) \/ Hears(d)
      PROVE  PagesInv'
  BY <1>7, ConnectKeeps, DisconnectKeeps, HearKeeps
<1>8. ASSUME NEW d \in Page, MeetsGap(d) \/ TapTakeover(d) \/ TapAdmit(d) \/ TapRemove(d) \/ TapEnd(d)
      PROVE  PagesInv'
  BY <1>8, TakeoverKeeps, TapKeeps
<1>9. CASE Restart \/ (\E p \in Player : CrashInJoin(p) \/ CrashInAdmit(p))
  BY <1>9, EndTakesSockets DEF Restart, CrashInJoin, CrashInAdmit
<1> QED BY <1>1, <1>2, <1>3, <1>4, <1>5, <1>6, <1>7, <1>8, <1>9 DEF RoomNext

\* Whatever is on its way between the service and the pages, the last word about the seat
\* and the last list tell the truth, except the "joined" that answers a demoted socket's
\* resync, and a page that has heard them knows what they say.
THEOREM PagesInvariant == RoomSpec => [](PagesInv /\ RegisterInv /\ OneDealer)
<1>1. RoomInit => RegisterInv /\ OneDealer
  BY DEF RoomInit, RegisterInv, RegisterType, OnLog, OneDealer, MayWrite
<1> QED BY <1>1, PagesStart, PagesStep, RegisterStep, SeatStep, PTL DEF RoomSpec

\* Nothing is on its way to or from a page that has settled.
LEMMA SettledIsQuiet ==
  ASSUME NEW d \in Page, Settled(d)
  PROVE  /\ pages[d].sock # NoSocket
         /\ \A ops : None(toPage[pages[d].sock], ops) /\ None(toServer[pages[d].sock], ops)
BY DEF Settled, None

\* However dealers join, take over, lose their connection, miss events and come back, a page
\* to which nothing is on its way has its buttons if it has the seat; and it has the seat if
\* it has its buttons, unless it asked for what it had missed while it was demoted.
THEOREM DealerAlwaysKnows == RoomSpec => []DealerKnows
<1>1. PagesInv => DealerKnows
  <2> SUFFICES ASSUME PagesInv, NEW d \in Page, Settled(d), pages[d].shows # "over"
               PROVE  /\ active = pages[d].sock => pages[d].joined /\ ~pages[d].readOnly
                      /\ pages[d].joined /\ ~pages[d].readOnly => active = pages[d].sock \/ pages[d].sock \in misled
    BY DEF DealerKnows
  <2>1. SeatKnown(d)
    BY SettledIsQuiet DEF PagesInv, PageInv
  <2> QED BY <2>1, SettledIsQuiet DEF SeatKnown
<1> QED BY <1>1, PagesInvariant, PTL

\* ... and shows the people who wait, whoever asked, was admitted or declined meanwhile.
THEOREM PendingAlwaysShown == RoomSpec => []PendingShown
<1>1. PagesInv => PendingShown
  <2> SUFFICES ASSUME PagesInv, NEW d \in Page, Settled(d), pages[d].joined
               PROVE  pages[d].list = Pending
    BY DEF PendingShown
  <2>1. pages[d].sock \in dealers
    BY SettledIsQuiet DEF PagesInv, PageInv, JoinedIsDealer
  <2>2. ListKnown(d)
    BY <2>1, SettledIsQuiet DEF PagesInv, PageInv
  <2> QED BY <2>2, SettledIsQuiet DEF ListKnown
<1> QED BY <1>1, PagesInvariant, PTL

-----------------------------------------------------------------------------
(* The phone *)

Row == {"none", "pending", "in", "gone"}
Token == [player: 0..MaxJoins, n: Nat]
Answer == {"joined", "bad_token", "closed"}
DoorMessage == [op: Answer \cup {"event", "declined", "cut"}, active: BOOLEAN]
Connection == {"down", "asks", "up", "closed"}
Store == [token: Token, asked: BOOLEAN, via: {"boot", "join"}, ready: BOOLEAN,
          conn: Connection, sits: BOOLEAN, inbox: Seq(DoorMessage)]

DoorShape ==
  /\ place \in [Joiners -> Row] /\ issued \in [Joiners -> Nat] /\ made \in 0..MaxJoins
  /\ stored \in Token /\ given \in Token /\ query \in Token
  /\ stores \in Seq(Store) /\ shown \in Nat /\ usurped \in BOOLEAN

\* A token is worth something to the rows pl and is.
Opens(t, pl, is) == t.player # 0 /\ pl[t.player] \in {"pending", "in"} /\ is[t.player] = t.n

\* It was issued, though it may be worth nothing any more.
WasIssued(t, pl, is) ==
  t = NoPass \/ (t.player \in Joiners /\ pl[t.player] # "none" /\ t.n <= is[t.player])

\* What a connection has heard is about the token it asked with; and until the page has
\* heard the answer to its join, the answer is what comes first.
Sound(s, pl, is) ==
  /\ s.token # NoPass /\ WasIssued(s.token, pl, is)
  /\ s.conn # "up" => s.inbox = <<>> /\ ~s.sits
  /\ s.conn = "up" /\ ~s.ready => s.inbox # <<>> /\ Head(s.inbox).op \in Answer
  /\ \A k \in DOMAIN s.inbox : s.inbox[k].op = "bad_token" => ~Opens(s.token, pl, is)

\* Rows change one way: a token that is worth nothing never opens a seat again.
RowsGrow(pl, is, pl2, is2) ==
  \A p \in Joiners :
    /\ is[p] <= is2[p]
    /\ pl[p] # "none" => pl2[p] # "none"
    /\ pl[p] = "gone" => pl2[p] = "gone"

RowsSound ==
  /\ \A p \in Joiners : issued[p] >= 1 /\ (issued[p] > 1 => place[p] # "none")
  /\ made # 0 => place[made] # "none"
  /\ post = "taken" => made # 0

TokensSound ==
  /\ stored \in {NoPass, given}
  /\ WasIssued(given, place, issued) /\ WasIssued(query, place, issued)

DoorSettled(ss) == \A i \in DOMAIN ss : ss[i].conn # "closed" => ss[i].ready

AllSound(ss, pl, is) == \A i \in DOMAIN ss : Sound(ss[i], pl, is)

TokenKept == Opens(given, place, issued) /\ ~usurped => stored = given

PlaysForStored ==
  phase \in {"pending", "playing"} /\ DoorSettled(stores)
    => shown \in DOMAIN stores /\ stores[shown].token = stored

\* The strengthening.
DoorInv ==
  /\ DoorShape /\ RowsSound /\ TokensSound
  /\ AllSound(stores, place, issued)
  /\ TokenKept /\ PlaysForStored

-----------------------------------------------------------------------------
(* Lemmas *)

LEMMA NoPassFacts == NoPass \in Token /\ NoPass.player = 0
BY DoorAssumption DEF NoPass, Token

\* What was issued and is worth nothing stays so, and what was issued stays issued.
LEMMA WorthNothingStays ==
  ASSUME NEW pl \in [Joiners -> Row], NEW is \in [Joiners -> Nat],
         NEW pl2 \in [Joiners -> Row], NEW is2 \in [Joiners -> Nat], RowsGrow(pl, is, pl2, is2),
         NEW t \in Token, WasIssued(t, pl, is)
  PROVE  /\ WasIssued(t, pl2, is2)
         /\ ~Opens(t, pl, is) => ~Opens(t, pl2, is2)
<1>1. CASE t = NoPass
  BY <1>1, NoPassFacts DEF WasIssued, Opens
<1>2. CASE t # NoPass
  <2> DEFINE p == t.player
  <2>1. p \in Joiners /\ t.n \in Nat /\ pl[p] # "none" /\ t.n <= is[p] /\ is[p] \in Nat /\ is2[p] \in Nat /\ pl[p] \in Row
    BY <1>2 DEF WasIssued, Token
  <2>2. is[p] <= is2[p] /\ pl2[p] # "none" /\ (pl[p] = "gone" => pl2[p] = "gone")
    BY <2>1 DEF RowsGrow
  <2>3. WasIssued(t, pl2, is2)
    BY <2>1, <2>2 DEF WasIssued
  <2>4. ASSUME ~Opens(t, pl, is) PROVE ~Opens(t, pl2, is2)
    <3>1. p # 0
      BY <2>1, DoorAssumption DEF Joiners
    <3>2. pl[p] = "gone" \/ is[p] # t.n
      BY <2>1, <2>4, <3>1 DEF Opens, Row
    <3>3. pl2[p] = "gone" \/ is2[p] # t.n
      BY <2>1, <2>2, <3>2
    <3> QED BY <3>3 DEF Opens
  <2> QED BY <2>3, <2>4
<1> QED BY <1>1, <1>2

LEMMA SoundStays ==
  ASSUME NEW pl \in [Joiners -> Row], NEW is \in [Joiners -> Nat],
         NEW pl2 \in [Joiners -> Row], NEW is2 \in [Joiners -> Nat], RowsGrow(pl, is, pl2, is2),
         NEW s \in Store, Sound(s, pl, is)
  PROVE  Sound(s, pl2, is2)
<1>1. s.token \in Token /\ WasIssued(s.token, pl, is)
  BY DEF Store, Sound
<1>2. WasIssued(s.token, pl2, is2) /\ (~Opens(s.token, pl, is) => ~Opens(s.token, pl2, is2))
  BY <1>1, WorthNothingStays
<1> QED BY <1>2 DEF Sound

\* The rows do not change: nothing is lost.
LEMMA SameRowsGrow ==
  ASSUME NEW pl \in [Joiners -> Row], NEW is \in [Joiners -> Nat]
  PROVE  RowsGrow(pl, is, pl, is)
BY DEF RowsGrow

\* One connection is replaced.
LEMMA Replaced ==
  ASSUME NEW ss \in Seq(Store), NEW i \in DOMAIN ss, NEW s \in Store
  PROVE  /\ [ss EXCEPT ![i] = s] \in Seq(Store)
         /\ DOMAIN [ss EXCEPT ![i] = s] = DOMAIN ss
         /\ [ss EXCEPT ![i] = s][i] = s
         /\ \A j \in DOMAIN ss : j # i => [ss EXCEPT ![i] = s][j] = ss[j]
OBVIOUS

\* A new connection comes last, sound if its token was issued, and the page waits for it.
LEMMA Connected ==
  ASSUME NEW ss \in Seq(Store), NEW pl, NEW is, AllSound(ss, pl, is),
         NEW t \in Token, t # NoPass, WasIssued(t, pl, is), NEW a \in BOOLEAN, NEW v \in {"boot", "join"}
  PROVE  /\ Append(ss, NewStore(t, a, v)) \in Seq(Store)
         /\ AllSound(Append(ss, NewStore(t, a, v)), pl, is)
         /\ ~DoorSettled(Append(ss, NewStore(t, a, v)))
<1> DEFINE s == NewStore(t, a, v)  new == Append(ss, s)
<1>1. s \in Store
  BY DEF NewStore, Store, Connection
<1>2. Sound(s, pl, is)
  BY DEF NewStore, Sound
<1>3. s.conn = "down" /\ s.ready = FALSE
  BY DEF NewStore
<1> HIDE DEF s
<1>4. new \in Seq(Store) /\ Len(new) = Len(ss) + 1 /\ DOMAIN new = 1..Len(new) /\ Len(ss) \in Nat
  BY <1>1
<1>5. new[Len(new)] = s /\ \A i \in DOMAIN new : i # Len(new) => i \in DOMAIN ss /\ new[i] = ss[i]
  BY <1>1, <1>4
<1> HIDE DEF new
<1>6. AllSound(new, pl, is)
  BY <1>2, <1>5 DEF AllSound
<1>7. Len(new) \in DOMAIN new
  BY <1>4
<1>8. ~DoorSettled(new)
  BY <1>3, <1>5, <1>7 DEF DoorSettled
<1> QED BY <1>4, <1>6, <1>8 DEF new, s

-----------------------------------------------------------------------------
(* The strengthening is inductive *)

LEMMA DoorInvInit == DoorInit => DoorInv
<1> SUFFICES ASSUME DoorInit PROVE DoorInv
  OBVIOUS
<1>1. stores = <<>> /\ DOMAIN stores = {} /\ stores \in Seq(Store)
  BY DEF DoorInit
<1>2. DoorShape
  <2>1. place \in [Joiners -> Row] /\ issued \in [Joiners -> Nat]
    BY DEF DoorInit, Row
  <2>2. made = 0 /\ shown = 0 /\ 0 \in 0..MaxJoins
    BY DoorAssumption DEF DoorInit
  <2>3. stored \in Token /\ given \in Token /\ query \in Token
    BY NoPassFacts DEF DoorInit
  <2>4. usurped \in BOOLEAN
    BY DEF DoorInit
  <2> QED BY <1>1, <2>1, <2>2, <2>3, <2>4 DEF DoorShape
<1>3. RowsSound /\ TokensSound
  BY DEF DoorInit, RowsSound, TokensSound, WasIssued
<1>4. AllSound(stores, place, issued)
  BY <1>1 DEF AllSound
<1>5. TokenKept /\ PlaysForStored
  BY DEF DoorInit, TokenKept, PlaysForStored
<1> QED BY <1>2, <1>3, <1>4, <1>5 DEF DoorInv

\* What the page does by itself, without a new connection.
LEMMA PageAloneKeeps ==
  ASSUME DoorInv,
         LookupFails \/ LookupClosed \/ TapJoin \/ PostFails \/ TapRetry \/ ModeChanges
  PROVE  DoorInv'
<1>1. /\ UNCHANGED <<place, issued, made, query, stored, shown, stores, given, usurped>>
      /\ phase' = phase \/ phase' \in {"error", "loading"}
      /\ post' = post \/ post' \in {"posting", "idle"}
  BY DEF LookupFails, LookupClosed, TapJoin, PostFails, TapRetry, ModeChanges, placeRows, look, Fails
<1>2. DoorShape' /\ TokensSound' /\ AllSound(stores, place, issued)' /\ TokenKept'
  BY <1>1 DEF DoorInv, DoorShape, TokensSound, AllSound, TokenKept
<1>3. RowsSound'
  BY <1>1 DEF DoorInv, RowsSound
<1>4. PlaysForStored'
  BY <1>1 DEF DoorInv, PlaysForStored
<1> QED BY <1>2, <1>3, <1>4 DEF DoorInv

\* A page that is opened anew has no connection, and keeps what the browser stores.
LEMMA FreshPageKeeps ==
  ASSUME DoorInv, Reload \/ OpenLink
  PROVE  DoorInv'
<1>1. /\ UNCHANGED <<place, issued, made, stored, given, usurped>>
      /\ phase' = "loading" /\ post' = "idle" /\ shown' = 0 /\ stores' = <<>>
  BY DEF Reload, OpenLink, FreshPage, placeRows
<1>2. stores' \in Seq(Store) /\ DOMAIN stores' = {}
  BY <1>1
<1>3. query' \in Token /\ WasIssued(query', place, issued)
  <2>1. CASE Reload
    BY <2>1, NoPassFacts DEF Reload, DoorInv, DoorShape, TokensSound, WasIssued
  <2>2. CASE OpenLink
    <3>1. PICK p \in Joiners, n \in 2..MaxIssues : n <= issued[p] /\ query' = [player |-> p, n |-> n]
      BY <2>2 DEF OpenLink
    <3>2. p \in 0..MaxJoins /\ n \in Nat /\ issued[p] \in Nat
      BY DoorAssumption DEF Joiners, DoorInv, DoorShape
    <3>3. issued[p] > 1 /\ place[p] # "none"
      BY <3>1, <3>2 DEF DoorInv, RowsSound
    <3>4. query' \in Token /\ query'.player = p /\ query'.n = n
      BY <3>1, <3>2 DEF Token
    <3> QED BY <3>1, <3>3, <3>4 DEF WasIssued
  <2> QED BY <2>1, <2>2
<1>4. DoorShape'
  BY <1>1, <1>2, <1>3 DEF DoorInv, DoorShape
<1>5. RowsSound' /\ TokensSound' /\ TokenKept' /\ PlaysForStored'
  BY <1>1, <1>3 DEF DoorInv, RowsSound, TokensSound, TokenKept, PlaysForStored
<1>6. AllSound(stores, place, issued)'
  BY <1>2 DEF AllSound
<1> QED BY <1>4, <1>5, <1>6 DEF DoorInv

\* A connection is made with a token that was issued.
LEMMA PhoneConnects ==
  ASSUME DoorInv, NEW t \in Token, t # NoPass, WasIssued(t, place, issued),
         NEW a \in BOOLEAN, NEW v \in {"boot", "join"}, ConnectWith(t, a, v),
         UNCHANGED <<place, issued, made, query, shown>>,
         post' \in {post, "waiting"}
  PROVE  DoorInv'
<1>1. /\ stored' = t /\ given' = t /\ usurped' = FALSE
      /\ stores' = Append(stores, NewStore(t, a, v))
  BY DEF ConnectWith, Saves
<1>2. AllSound(stores, place, issued) /\ stores \in Seq(Store)
  BY DEF DoorInv, DoorShape
<1>3. /\ stores' \in Seq(Store) /\ AllSound(stores', place, issued) /\ ~DoorSettled(stores')
  BY <1>1, <1>2, Connected
<1>4. DoorShape'
  BY <1>1, <1>3 DEF DoorInv, DoorShape
<1>5. RowsSound' /\ TokensSound' /\ TokenKept'
  BY <1>1 DEF DoorInv, RowsSound, TokensSound, TokenKept
<1>6. AllSound(stores, place, issued)'
  BY <1>3 DEF AllSound
<1>7. PlaysForStored'
  BY <1>3 DEF PlaysForStored, DoorSettled
<1> QED BY <1>4, <1>5, <1>6, <1>7 DEF DoorInv

LEMMA LookupOpenKeeps == ASSUME DoorInv, LookupOpen PROVE DoorInv'
<1>1. UNCHANGED <<place, issued, made, query, shown, post>>
  BY DEF LookupOpen, placeRows
<1>2. CASE query # NoPass /\ ConnectWith(query, FALSE, "boot")
  <2>1. query \in Token /\ WasIssued(query, place, issued)
    BY DEF DoorInv, DoorShape, TokensSound
  <2> QED BY <1>1, <1>2, <2>1, PhoneConnects
<1>3. CASE stored # NoPass /\ ConnectWith(stored, FALSE, "boot")
  <2>1. stored \in Token /\ WasIssued(stored, place, issued)
    BY <1>3 DEF DoorInv, DoorShape, TokensSound
  <2> QED BY <1>1, <1>3, <2>1, PhoneConnects
<1>4. CASE phase' = "join" /\ UNCHANGED <<stored, stores, given, usurped>>
  <2>1. DoorShape' /\ RowsSound' /\ TokensSound' /\ TokenKept' /\ PlaysForStored'
    BY <1>1, <1>4 DEF DoorInv, DoorShape, RowsSound, TokensSound, TokenKept, PlaysForStored
  <2>2. AllSound(stores, place, issued)'
    BY <1>1, <1>4 DEF DoorInv, AllSound
  <2> QED BY <2>1, <2>2 DEF DoorInv
<1> QED BY <1>2, <1>3, <1>4 DEF LookupOpen

LEMMA PostHeardKeeps == ASSUME DoorInv, PostHeard PROVE DoorInv'
<1> DEFINE t == [player |-> made, n |-> 1]
<1>1. PICK a \in BOOLEAN : ConnectWith(t, a, "join")
  BY DEF PostHeard
<1>2. UNCHANGED <<place, issued, made, query, shown>> /\ post = "taken" /\ post' = "waiting"
  BY DEF PostHeard, placeRows, look
<1>3. made \in Joiners /\ place[made] # "none" /\ issued[made] >= 1
  BY <1>2, DoorAssumption DEF DoorInv, DoorShape, RowsSound, Joiners
<1>4. t \in Token /\ t.player = made /\ t.n = 1
  BY <1>3 DEF DoorInv, DoorShape, Token
<1>5. t # NoPass
  BY <1>3, <1>4, NoPassFacts, DoorAssumption DEF Joiners
<1>6. WasIssued(t, place, issued)
  BY <1>3, <1>4 DEF WasIssued
<1> HIDE DEF t
<1> QED BY <1>1, <1>2, <1>4, <1>5, <1>6, PhoneConnects

-----------------------------------------------------------------------------
(* Connections that change *)

\* A connection with another state, place at the service and messages.
With(s, c, b, q) == [s EXCEPT !.conn = c, !.sits = b, !.inbox = q]

LEMMA WithFacts ==
  ASSUME NEW s \in Store, NEW c \in Connection, NEW b \in BOOLEAN, NEW q \in Seq(DoorMessage)
  PROVE  /\ With(s, c, b, q) \in Store
         /\ With(s, c, b, q).token = s.token /\ With(s, c, b, q).ready = s.ready
         /\ With(s, c, b, q).conn = c /\ With(s, c, b, q).sits = b /\ With(s, c, b, q).inbox = q
BY DEF With, Store

LEMMA ConnectionFields ==
  ASSUME NEW s \in Store
  PROVE  /\ s.token \in Token /\ s.conn \in Connection /\ s.sits \in BOOLEAN
         /\ s.ready \in BOOLEAN /\ s.inbox \in Seq(DoorMessage) /\ s.asked \in BOOLEAN
BY DEF Store

LEMMA Appended ==
  ASSUME NEW q \in Seq(DoorMessage), NEW m \in DoorMessage
  PROVE  /\ Append(q, m) \in Seq(DoorMessage) /\ Append(q, m) # <<>>
         /\ q # <<>> => Head(Append(q, m)) = Head(q)
         /\ q = <<>> => Head(Append(q, m)) = m
         /\ \A k \in DOMAIN Append(q, m) : Append(q, m)[k] = m \/ (k \in DOMAIN q /\ Append(q, m)[k] = q[k])
<1>1. Append(q, m) \in Seq(DoorMessage) /\ Append(q, m) # <<>>
  <2>1. Append(q, m) \in Seq(DoorMessage) /\ Len(Append(q, m)) = Len(q) + 1 /\ Len(q) \in Nat
    OBVIOUS
  <2>2. Len(Append(q, m)) # 0
    BY <2>1
  <2>3. Len(<<>>) = 0
    OBVIOUS
  <2> QED BY <2>1, <2>2, <2>3, Zenon
<1>2. \A k \in 1..Len(q) + 1 : Append(q, m)[k] = IF k = Len(q) + 1 THEN m ELSE q[k]
  OBVIOUS
<1>3. DOMAIN Append(q, m) = 1..Len(q) + 1 /\ DOMAIN q = 1..Len(q) /\ Len(q) \in Nat
  OBVIOUS
<1>4. q # <<>> => Head(Append(q, m)) = Head(q)
  OBVIOUS
<1>5. q = <<>> => Head(Append(q, m)) = m
  OBVIOUS
<1>6. \A k \in DOMAIN Append(q, m) : Append(q, m)[k] = m \/ (k \in DOMAIN q /\ Append(q, m)[k] = q[k])
  BY <1>2, <1>3
<1> QED BY <1>1, <1>4, <1>5, <1>6

LEMMA Shortened ==
  ASSUME NEW q \in Seq(DoorMessage), q # <<>>
  PROVE  /\ Tail(q) \in Seq(DoorMessage) /\ Head(q) \in DoorMessage /\ 1 \in DOMAIN q /\ q[1] = Head(q)
         /\ \A k \in DOMAIN Tail(q) : k + 1 \in DOMAIN q /\ Tail(q)[k] = q[k + 1]
OBVIOUS

\* A message that answers no join is sound, and leaves what comes first.
LEMMA ToldIsSound ==
  ASSUME NEW pl, NEW is, NEW s \in Store, Sound(s, pl, is), s.sits,
         NEW m \in DoorMessage, m.op # "bad_token", NEW b \in BOOLEAN
  PROVE  Sound(With(s, s.conn, b, Append(s.inbox, m)), pl, is)
<1> DEFINE q == Append(s.inbox, m)  new == With(s, s.conn, b, q)
<1>1. s.inbox \in Seq(DoorMessage) /\ s.conn \in Connection /\ s.conn = "up"
  BY ConnectionFields DEF Sound
<1>2. /\ q \in Seq(DoorMessage) /\ q # <<>> /\ (s.inbox # <<>> => Head(q) = Head(s.inbox))
      /\ \A k \in DOMAIN q : q[k] = m \/ (k \in DOMAIN s.inbox /\ q[k] = s.inbox[k])
  BY <1>1, Appended
<1> HIDE DEF q
<1>3. new.token = s.token /\ new.ready = s.ready /\ new.conn = s.conn /\ new.sits = b /\ new.inbox = q
  BY <1>1, <1>2, WithFacts
<1> HIDE DEF new
<1>4. \A k \in DOMAIN q : q[k].op = "bad_token" => ~Opens(s.token, pl, is)
  BY <1>2 DEF Sound
<1>5. ~s.ready => Head(q).op \in Answer
  BY <1>1, <1>2 DEF Sound
<1>6. Sound(new, pl, is)
  BY <1>1, <1>2, <1>3, <1>4, <1>5 DEF Sound
<1> QED BY <1>6 DEF new, q

\* A connection without messages, which is not up.
LEMMA SilentIsSound ==
  ASSUME NEW pl, NEW is, NEW s \in Store, Sound(s, pl, is), NEW c \in Connection \ {"up"}
  PROVE  Sound(With(s, c, FALSE, <<>>), pl, is)
<1> DEFINE new == With(s, c, FALSE, <<>>)
<1>0. <<>> \in Seq(DoorMessage) /\ c \in Connection /\ c # "up"
  OBVIOUS
<1>1. new.token = s.token /\ new.conn = c /\ ~new.sits /\ new.inbox = <<>>
  BY <1>0 DEF With, Store
<1> HIDE DEF new
<1>2. \A k \in DOMAIN new.inbox : FALSE
  BY <1>1
<1>3. Sound(new, pl, is)
  BY <1>1, <1>2 DEF Sound
<1> QED BY <1>3 DEF new

\* Every connection of a page may change, if it keeps its token and is sound again, and
\* those that the page waits for stay: what the page stores and shows stays right.
LEMMA ConnectionsKeep ==
  ASSUME DoorInv,
         UNCHANGED <<place, issued, made, query, stored, given, usurped, shown, phase, post>>,
         stores' \in Seq(Store), DOMAIN stores' = DOMAIN stores,
         \A i \in DOMAIN stores : Sound(stores'[i], place, issued) /\ stores'[i].token = stores[i].token,
         DoorSettled(stores') => DoorSettled(stores)
  PROVE  DoorInv'
<1>1. DoorShape' /\ RowsSound' /\ TokensSound' /\ TokenKept'
  BY DEF DoorInv, DoorShape, RowsSound, TokensSound, TokenKept
<1>2. AllSound(stores, place, issued)'
  BY DEF AllSound
<1>3. PlaysForStored'
  <2>1. ASSUME phase \in {"pending", "playing"}, DoorSettled(stores')
        PROVE  shown \in DOMAIN stores' /\ stores'[shown].token = stored
    BY <2>1 DEF DoorInv, PlaysForStored
  <2> QED BY <2>1 DEF PlaysForStored, DoorSettled
<1> QED BY <1>1, <1>2, <1>3 DEF DoorInv

\* The same for one connection.
LEMMA OneChanges ==
  ASSUME DoorInv, NEW i \in DOMAIN stores, NEW s \in Store,
         stores' = [stores EXCEPT ![i] = s],
         Sound(s, place, issued), s.token = stores[i].token,
         s.conn = "closed" \/ s.ready => stores[i].conn = "closed" \/ stores[i].ready,
         UNCHANGED <<place, issued, made, query, stored, given, usurped, shown, phase, post>>
  PROVE  DoorInv'
<1>1. stores \in Seq(Store) /\ AllSound(stores, place, issued)
  BY DEF DoorInv, DoorShape
<1>2. /\ stores' \in Seq(Store) /\ DOMAIN stores' = DOMAIN stores /\ stores'[i] = s
      /\ \A j \in DOMAIN stores : j # i => stores'[j] = stores[j]
  BY <1>1, Replaced
<1>3. \A j \in DOMAIN stores : Sound(stores'[j], place, issued) /\ stores'[j].token = stores[j].token
  BY <1>1, <1>2 DEF AllSound
<1>4. DoorSettled(stores') => DoorSettled(stores)
  BY <1>2 DEF DoorSettled
<1> QED BY <1>2, <1>3, <1>4, ConnectionsKeep

\* A connection whose message has been read, when the page no longer waits for it.
LEMMA HeardIsSound ==
  ASSUME NEW pl, NEW is, NEW s \in Store, Sound(s, pl, is), s.inbox # <<>>,
         NEW s2, s2.token = s.token, s2.conn = s.conn, s2.sits = s.sits, s2.inbox = Tail(s.inbox), s2.ready
  PROVE  Sound(s2, pl, is)
<1>1. s.inbox \in Seq(DoorMessage) /\ s.conn = "up"
  BY ConnectionFields DEF Sound
<1>2. \A k \in DOMAIN Tail(s.inbox) : k + 1 \in DOMAIN s.inbox /\ Tail(s.inbox)[k] = s.inbox[k + 1]
  BY <1>1, Shortened
<1>3. \A k \in DOMAIN s2.inbox : s2.inbox[k].op = "bad_token" => ~Opens(s2.token, pl, is)
  BY <1>2 DEF Sound
<1> QED BY <1>1, <1>3 DEF Sound

\* What a message says of a connection that has it.
LEMMA MessageFacts ==
  ASSUME DoorInv, NEW i, NEW op, HasMessage(i, op)
  PROVE  /\ i \in DOMAIN stores /\ stores[i] \in Store /\ Sound(stores[i], place, issued)
         /\ stores[i].inbox \in Seq(DoorMessage) /\ stores[i].inbox # <<>> /\ stores[i].conn = "up"
         /\ op \notin Answer => stores[i].ready
         /\ op = "bad_token" => ~Opens(stores[i].token, place, issued)
<1>1. i \in DOMAIN stores /\ stores[i].inbox # <<>> /\ Head(stores[i].inbox).op = op
  BY DEF HasMessage, Live
<1>2. stores[i] \in Store /\ Sound(stores[i], place, issued)
  BY <1>1 DEF DoorInv, DoorShape, AllSound
<1>3. stores[i].inbox \in Seq(DoorMessage) /\ stores[i].conn = "up"
  BY <1>1, <1>2, ConnectionFields DEF Sound
<1>4. op \notin Answer => stores[i].ready
  BY <1>1, <1>2, <1>3 DEF Sound
<1>5. 1 \in DOMAIN stores[i].inbox /\ stores[i].inbox[1] = Head(stores[i].inbox)
  BY <1>1, <1>3, Shortened
<1>6. op = "bad_token" => ~Opens(stores[i].token, place, issued)
  BY <1>1, <1>2, <1>5 DEF Sound
<1> QED BY <1>1, <1>2, <1>3, <1>4, <1>6

\* The connection after a message was read, still as ready as it was.
LEMMA HeardKeeps ==
  ASSUME DoorInv, NEW i, NEW op, HasMessage(i, op), stores[i].ready, stores' = Heard(i)
  PROVE  /\ stores' \in Seq(Store) /\ DOMAIN stores' = DOMAIN stores
         /\ \A j \in DOMAIN stores : Sound(stores'[j], place, issued) /\ stores'[j].token = stores[j].token
         /\ DoorSettled(stores') => DoorSettled(stores)
<1>1. /\ i \in DOMAIN stores /\ stores[i] \in Store /\ Sound(stores[i], place, issued)
      /\ stores[i].inbox \in Seq(DoorMessage) /\ stores[i].inbox # <<>>
  BY MessageFacts
<1>2. Tail(stores[i].inbox) \in Seq(DoorMessage)
  BY <1>1, Shortened
<1>3. PICK s : s = [stores[i] EXCEPT !.inbox = Tail(@)]
  OBVIOUS
<1>4. /\ s \in Store /\ s.token = stores[i].token /\ s.conn = stores[i].conn /\ s.sits = stores[i].sits
      /\ s.inbox = Tail(stores[i].inbox) /\ s.ready = stores[i].ready
  BY <1>1, <1>2, <1>3 DEF Store
<1>5. Sound(s, place, issued)
  BY <1>1, <1>4, HeardIsSound
<1>6. stores' = [stores EXCEPT ![i] = s] /\ stores \in Seq(Store) /\ AllSound(stores, place, issued)
  BY <1>1, <1>3 DEF Heard, DoorInv, DoorShape
<1>7. /\ stores' \in Seq(Store) /\ DOMAIN stores' = DOMAIN stores /\ stores'[i] = s
      /\ \A j \in DOMAIN stores : j # i => stores'[j] = stores[j]
  BY <1>1, <1>4, <1>6, Replaced
<1>8. \A j \in DOMAIN stores : Sound(stores'[j], place, issued) /\ stores'[j].token = stores[j].token
  BY <1>4, <1>5, <1>6, <1>7 DEF AllSound
<1>9. DoorSettled(stores') => DoorSettled(stores)
  BY <1>7 DEF DoorSettled
<1> QED BY <1>7, <1>8, <1>9

\* A connection that the page gives up.
LEMMA ClosedKeeps ==
  ASSUME DoorInv, NEW i \in DOMAIN stores, stores' = Closed(i)
  PROVE  /\ stores' \in Seq(Store) /\ DOMAIN stores' = DOMAIN stores
         /\ \A j \in DOMAIN stores : Sound(stores'[j], place, issued) /\ stores'[j].token = stores[j].token
         /\ stores[i].ready => (DoorSettled(stores') => DoorSettled(stores))
<1>1. /\ stores[i] \in Store /\ Sound(stores[i], place, issued)
      /\ stores \in Seq(Store) /\ AllSound(stores, place, issued)
  BY DEF DoorInv, DoorShape, AllSound
<1>2. PICK s : s = With(stores[i], "closed", FALSE, <<>>)
  OBVIOUS
<1>3. Sound(s, place, issued)
  BY <1>1, <1>2, SilentIsSound DEF Connection
<1>4. <<>> \in Seq(DoorMessage) /\ "closed" \in Connection
  BY DEF Connection
<1>5. s \in Store /\ s.token = stores[i].token
  BY <1>1, <1>2, <1>4, WithFacts
<1>6. stores' = [stores EXCEPT ![i] = s]
  BY <1>2 DEF Closed, With
<1>7. /\ stores' \in Seq(Store) /\ DOMAIN stores' = DOMAIN stores /\ stores'[i] = s
      /\ \A j \in DOMAIN stores : j # i => stores'[j] = stores[j]
  BY <1>1, <1>5, <1>6, Replaced
<1>8. \A j \in DOMAIN stores : Sound(stores'[j], place, issued) /\ stores'[j].token = stores[j].token
  BY <1>1, <1>3, <1>5, <1>7 DEF AllSound
<1>9. stores[i].ready => (DoorSettled(stores') => DoorSettled(stores))
  BY <1>7 DEF DoorSettled
<1> QED BY <1>7, <1>8, <1>9

-----------------------------------------------------------------------------
(* The page hears *)

\* The page goes to the table over a connection that is sound.
LEMMA EntersKeeps ==
  ASSUME DoorInv, NEW i \in DOMAIN stores, NEW acts, NEW now, Enters(i, acts, now),
         NEW s \in Store, [now EXCEPT ![i].ready = TRUE] = [stores EXCEPT ![i] = s],
         Sound(s, place, issued), s.token = stores[i].token,
         UNCHANGED <<place, issued, made, query>>
  PROVE  DoorInv'
<1>1. stores \in Seq(Store) /\ AllSound(stores, place, issued) /\ stores[i] \in Store
  BY DEF DoorInv, DoorShape
<1>2. /\ stored' = stores[i].token /\ given' = stores[i].token /\ usurped' = FALSE /\ shown' = i
      /\ stores' = [stores EXCEPT ![i] = s]
  BY DEF Enters, Saves
<1>3. post' = post \/ post' = "idle"
  BY DEF Enters, IdleAfter
<1>4. /\ stores' \in Seq(Store) /\ DOMAIN stores' = DOMAIN stores /\ stores'[i] = s
      /\ \A j \in DOMAIN stores : j # i => stores'[j] = stores[j]
  BY <1>1, <1>2, Replaced
<1>5. i \in Nat /\ stores[i].token \in Token /\ WasIssued(stores[i].token, place, issued)
  BY <1>1, ConnectionFields DEF AllSound, Sound
<1>6. DoorShape'
  BY <1>2, <1>4, <1>5 DEF DoorInv, DoorShape
<1>7. RowsSound' /\ TokensSound' /\ TokenKept'
  BY <1>2, <1>3, <1>5 DEF DoorInv, RowsSound, TokensSound, TokenKept
<1>8. AllSound(stores, place, issued)'
  BY <1>1, <1>4 DEF AllSound
<1>9. PlaysForStored'
  BY <1>2, <1>4 DEF PlaysForStored
<1> QED BY <1>6, <1>7, <1>8, <1>9 DEF DoorInv

LEMMA HearsJoinedKeeps == ASSUME DoorInv, NEW i, HearsJoined(i) PROVE DoorInv'
<1>1. HasMessage(i, "joined") /\ UNCHANGED <<place, issued, made, query>>
  BY DEF HearsJoined, placeRows, look
<1>2. /\ i \in DOMAIN stores /\ stores[i] \in Store /\ Sound(stores[i], place, issued)
      /\ stores[i].inbox \in Seq(DoorMessage) /\ stores[i].inbox # <<>>
  BY <1>1, MessageFacts
<1>3. CASE ~stores[i].ready /\ Enters(i, Head(stores[i].inbox).active, Heard(i))
  <2>1. PICK s : s = [stores[i] EXCEPT !.inbox = Tail(@), !.ready = TRUE]
    OBVIOUS
  <2>2. Tail(stores[i].inbox) \in Seq(DoorMessage)
    BY <1>2, Shortened
  <2>3. /\ s \in Store /\ s.token = stores[i].token /\ s.conn = stores[i].conn /\ s.sits = stores[i].sits
        /\ s.inbox = Tail(stores[i].inbox) /\ s.ready
    BY <1>2, <2>1, <2>2 DEF Store
  <2>4. Sound(s, place, issued)
    BY <1>2, <2>3, HeardIsSound
  <2>5. [Heard(i) EXCEPT ![i].ready = TRUE] = [stores EXCEPT ![i] = s]
    BY <1>2, <2>1 DEF Heard, DoorInv, DoorShape
  <2> QED BY <1>1, <1>2, <1>3, <2>3, <2>4, <2>5, EntersKeeps
<1>4. CASE /\ stores[i].ready /\ stores' = Heard(i)
           /\ phase' = IF phase = "pending" /\ shown = i /\ Head(stores[i].inbox).active THEN "playing" ELSE phase
           /\ UNCHANGED <<error, post, stored, shown, given, usurped>>
  <2>1. /\ stores' \in Seq(Store) /\ DOMAIN stores' = DOMAIN stores
        /\ \A j \in DOMAIN stores : Sound(stores'[j], place, issued) /\ stores'[j].token = stores[j].token
        /\ DoorSettled(stores') => DoorSettled(stores)
    BY <1>1, <1>4, HeardKeeps
  <2>2. phase' = phase \/ (phase = "pending" /\ phase' = "playing")
    BY <1>4
  <2>3. DoorShape' /\ RowsSound' /\ TokensSound' /\ TokenKept'
    BY <1>1, <1>4, <2>1 DEF DoorInv, DoorShape, RowsSound, TokensSound, TokenKept
  <2>4. AllSound(stores, place, issued)'
    BY <1>1, <2>1 DEF AllSound
  <2>5. PlaysForStored'
    BY <1>4, <2>1, <2>2 DEF DoorInv, PlaysForStored, DoorSettled
  <2> QED BY <2>3, <2>4, <2>5 DEF DoorInv
<1> QED BY <1>3, <1>4 DEF HearsJoined

LEMMA HearsEventKeeps == ASSUME DoorInv, NEW i, HearsEvent(i) PROVE DoorInv'
<1>1. /\ HasMessage(i, "event") /\ stores' = Heard(i)
      /\ UNCHANGED <<place, issued, made, query, stored, given, usurped, shown, post>>
      /\ phase' = phase \/ (phase = "pending" /\ phase' = "playing")
  BY DEF HearsEvent, placeRows, look
<1>2. stores[i].ready
  BY <1>1, MessageFacts DEF Answer
<1>3. /\ stores' \in Seq(Store) /\ DOMAIN stores' = DOMAIN stores
      /\ \A j \in DOMAIN stores : Sound(stores'[j], place, issued) /\ stores'[j].token = stores[j].token
      /\ DoorSettled(stores') => DoorSettled(stores)
  BY <1>1, <1>2, HeardKeeps
<1>4. DoorShape' /\ RowsSound' /\ TokensSound' /\ TokenKept'
  BY <1>1, <1>3 DEF DoorInv, DoorShape, RowsSound, TokensSound, TokenKept
<1>5. AllSound(stores, place, issued)'
  BY <1>1, <1>3 DEF AllSound
<1>6. PlaysForStored'
  BY <1>1, <1>3 DEF DoorInv, PlaysForStored, DoorSettled
<1> QED BY <1>4, <1>5, <1>6 DEF DoorInv

\* What a page at the table no longer needs to answer for: it shows the form or an error.
LEMMA AwayFromTable ==
  ASSUME DoorInv, UNCHANGED <<place, issued, made, query, given>>,
         post' \in {post, "idle"}, phase' \in {"join", "error"}, shown' \in {0, shown},
         stores' \in Seq(Store), DOMAIN stores' = DOMAIN stores,
         \A j \in DOMAIN stores : Sound(stores'[j], place, issued) /\ stores'[j].token = stores[j].token,
         stored' \in {stored, NoPass}, usurped' \in BOOLEAN, TokenKept'
  PROVE  DoorInv'
<1>1. DoorShape'
  BY NoPassFacts DEF DoorInv, DoorShape
<1>2. RowsSound' /\ TokensSound'
  BY DEF DoorInv, RowsSound, TokensSound
<1>3. AllSound(stores, place, issued)'
  BY DEF AllSound
<1>4. PlaysForStored'
  BY DEF PlaysForStored
<1> QED BY <1>1, <1>2, <1>3, <1>4 DEF DoorInv

LEMMA HearsErrorKeeps ==
  ASSUME DoorInv, NEW i, NEW op \in {"bad_token", "closed"}, HearsError(i, op) PROVE DoorInv'
<1>1. /\ HasMessage(i, op) /\ UNCHANGED <<place, issued, made, query, given>>
      /\ post' = post \/ post' = "idle"
  BY DEF HearsError, placeRows, look, IdleAfter
<1>2. /\ i \in DOMAIN stores
      /\ op = "bad_token" => ~Opens(stores[i].token, place, issued)
  BY <1>1, MessageFacts
<1>3. /\ stores' \in Seq(Store) /\ DOMAIN stores' = DOMAIN stores
      /\ \A j \in DOMAIN stores : Sound(stores'[j], place, issued) /\ stores'[j].token = stores[j].token
  <2>1. CASE stores[i].ready
    BY <1>1, <2>1, HeardKeeps DEF HearsError
  <2>2. CASE ~stores[i].ready
    BY <1>2, <2>2, ClosedKeeps DEF HearsError
  <2> QED BY <2>1, <2>2
<1>4. CASE op = "bad_token"
  <2>1. /\ usurped' = (usurped \/ stored \notin {NoPass, stores[i].token})
        /\ stored' = NoPass /\ shown' = 0 /\ phase' = "join"
    BY <1>4 DEF HearsError, Forgets
  <2>2. ASSUME Opens(given, place, issued), ~usurped' PROVE FALSE
    <3>1. ~usurped /\ stored \in {NoPass, stores[i].token}
      BY <2>1, <2>2
    <3>2. stored = given
      BY <2>2, <3>1 DEF DoorInv, TokenKept
    <3>3. ~Opens(NoPass, place, issued)
      BY NoPassFacts DEF Opens
    <3> QED BY <1>2, <1>4, <2>2, <3>1, <3>2, <3>3
  <2>3. TokenKept'
    BY <1>1, <2>2 DEF TokenKept
  <2>4. usurped' \in BOOLEAN
    BY <2>1
  <2> QED BY <1>1, <1>3, <2>1, <2>3, <2>4, AwayFromTable
<1>5. CASE op # "bad_token"
  <2>1. phase' = "error" /\ UNCHANGED <<stored, shown, usurped>>
    BY <1>5 DEF HearsError, Forgets, Fails
  <2>2. TokenKept' /\ usurped' \in BOOLEAN
    BY <1>1, <2>1 DEF DoorInv, DoorShape, TokenKept
  <2> QED BY <1>1, <1>3, <2>1, <2>2, AwayFromTable
<1> QED BY <1>4, <1>5

LEMMA HearsDeclinedKeeps == ASSUME DoorInv, NEW i, HearsDeclined(i) PROVE DoorInv'
<1>1. /\ HasMessage(i, "declined") /\ UNCHANGED <<place, issued, made, query, stored, given, usurped, post>>
  BY DEF HearsDeclined, placeRows, look
<1>2. i \in DOMAIN stores /\ stores[i].ready
  BY <1>1, MessageFacts DEF Answer
<1>3. CASE shown = i
  <2>1. phase' = "error" /\ shown' = 0 /\ stores' = Closed(i)
    BY <1>3 DEF HearsDeclined, Fails
  <2>2. /\ stores' \in Seq(Store) /\ DOMAIN stores' = DOMAIN stores
        /\ \A j \in DOMAIN stores : Sound(stores'[j], place, issued) /\ stores'[j].token = stores[j].token
    BY <1>2, <2>1, ClosedKeeps
  <2>3. TokenKept' /\ usurped' \in BOOLEAN
    BY <1>1 DEF DoorInv, DoorShape, TokenKept
  <2> QED BY <1>1, <2>1, <2>2, <2>3, AwayFromTable
<1>4. CASE shown # i
  <2>1. stores' = Heard(i) /\ UNCHANGED <<phase, shown>>
    BY <1>4 DEF HearsDeclined
  <2>2. /\ stores' \in Seq(Store) /\ DOMAIN stores' = DOMAIN stores
        /\ \A j \in DOMAIN stores : Sound(stores'[j], place, issued) /\ stores'[j].token = stores[j].token
        /\ DoorSettled(stores') => DoorSettled(stores)
    BY <1>1, <1>2, <2>1, HeardKeeps
  <2> QED BY <1>1, <2>1, <2>2, ConnectionsKeep
<1> QED BY <1>3, <1>4

LEMMA HearsCutKeeps == ASSUME DoorInv, NEW i, HearsCut(i) PROVE DoorInv'
<1>1. /\ HasMessage(i, "cut") /\ stores' = Closed(i)
      /\ UNCHANGED <<place, issued, made, query, stored, given, usurped, shown, phase, post>>
  BY DEF HearsCut, placeRows, look
<1>2. i \in DOMAIN stores /\ stores[i].ready
  BY <1>1, MessageFacts DEF Answer
<1>3. /\ stores' \in Seq(Store) /\ DOMAIN stores' = DOMAIN stores
      /\ \A j \in DOMAIN stores : Sound(stores'[j], place, issued) /\ stores'[j].token = stores[j].token
      /\ DoorSettled(stores') => DoorSettled(stores)
  BY <1>1, <1>2, ClosedKeeps
<1> QED BY <1>1, <1>3, ConnectionsKeep

LEMMA WaitTimesOutKeeps == ASSUME DoorInv, NEW i, WaitTimesOut(i) PROVE DoorInv'
<1>1. i \in DOMAIN stores /\ Enters(i, FALSE, stores) /\ UNCHANGED <<place, issued, made, query>>
  BY DEF WaitTimesOut, Live, placeRows, look
<1>2. stores[i] \in Store /\ Sound(stores[i], place, issued) /\ stores \in Seq(Store)
  BY <1>1 DEF DoorInv, DoorShape, AllSound
<1>3. PICK s : s = [stores[i] EXCEPT !.ready = TRUE]
  OBVIOUS
<1>4. /\ s \in Store /\ s.token = stores[i].token /\ s.conn = stores[i].conn
      /\ s.inbox = stores[i].inbox /\ s.ready /\ (s.sits => stores[i].sits)
  BY <1>2, <1>3 DEF Store
<1>5. Sound(s, place, issued)
  BY <1>2, <1>4 DEF Sound
<1>6. [stores EXCEPT ![i].ready = TRUE] = [stores EXCEPT ![i] = s]
  BY <1>1, <1>2, <1>3
<1> QED BY <1>1, <1>4, <1>5, <1>6, EntersKeeps

-----------------------------------------------------------------------------
(* The network and the service *)

LEMMA SocketConnectsKeeps == ASSUME DoorInv, NEW i, SocketConnects(i) PROVE DoorInv'
<1>1. /\ i \in DOMAIN stores /\ stores[i].conn = "down"
      /\ stores' = [stores EXCEPT ![i].conn = "asks"]
      /\ UNCHANGED <<place, issued, made, query, stored, given, usurped, shown, phase, post>>
  BY DEF SocketConnects, Live, placeRows, look
<1>2. stores[i] \in Store /\ Sound(stores[i], place, issued)
  BY <1>1 DEF DoorInv, DoorShape, AllSound
<1>3. PICK s : s = [stores[i] EXCEPT !.conn = "asks"]
  OBVIOUS
<1>4. /\ s \in Store /\ s.token = stores[i].token /\ s.conn = "asks"
      /\ s.inbox = stores[i].inbox /\ s.ready = stores[i].ready /\ s.sits = stores[i].sits
  BY <1>2, <1>3 DEF Store, Connection
<1>5. Sound(s, place, issued)
  BY <1>1, <1>2, <1>4 DEF Sound
<1>6. stores' = [stores EXCEPT ![i] = s]
  BY <1>1, <1>3
<1> QED BY <1>1, <1>4, <1>5, <1>6, OneChanges

LEMMA ServiceAnswersKeeps == ASSUME DoorInv, NEW i, ServiceAnswers(i) PROVE DoorInv'
<1> DEFINE t == stores[i].token
           op == IF ~playersOn THEN "closed" ELSE IF Verified(t) THEN "joined" ELSE "bad_token"
<1>1. /\ i \in DOMAIN stores /\ stores[i].conn = "asks"
      /\ UNCHANGED <<place, issued, made, query, stored, given, usurped, shown, phase, post>>
  BY DEF ServiceAnswers, Live, placeRows, look
<1>2. stores[i] \in Store /\ Sound(stores[i], place, issued)
  BY <1>1 DEF DoorInv, DoorShape, AllSound
<1>3. stores[i].inbox = <<>> /\ stores[i].conn # "closed"
  BY <1>1, <1>2 DEF Sound
<1>5. PICK m : m = [op |-> op, active |-> Verified(t) /\ place[t.player] = "in"]
  OBVIOUS
<1>6. m.op = op /\ op \in Answer
  BY <1>5 DEF Answer
<1>7. m \in DoorMessage
  <2>1. (Verified(t) /\ place[t.player] = "in") \in BOOLEAN
    OBVIOUS
  <2> QED BY <1>5, <1>6, <2>1 DEF DoorMessage
<1>8. op = "bad_token" => ~Opens(t, place, issued)
  BY DEF Verified, Opens
<1>9. PICK q \in Seq(DoorMessage) : q = Append(stores[i].inbox, m)
  BY <1>2, <1>7, ConnectionFields, Appended
<1>10. /\ q # <<>> /\ Head(q) = m /\ \A k \in DOMAIN q : q[k] = m
  <2>1. stores[i].inbox \in Seq(DoorMessage) /\ DOMAIN stores[i].inbox = {}
    BY <1>2, <1>3, ConnectionFields
  <2> QED BY <1>3, <1>7, <1>9, <2>1, Appended
<1>11. PICK b : b = (op = "joined")
  OBVIOUS
<1>12. PICK s : s = With(stores[i], "up", b, q)
  OBVIOUS
<1>13. /\ s \in Store /\ s.token = t /\ s.ready = stores[i].ready
       /\ s.conn = "up" /\ s.inbox = q
  <2>1. b \in BOOLEAN
    BY <1>11
  <2>2. "up" \in Connection
    BY DEF Connection
  <2> HIDE DEF op
  <2> QED BY <1>2, <1>12, <2>1, <2>2, WithFacts
<1>16. stores' = [stores EXCEPT ![i] = s]
  <2>1. s = Answered(stores[i], op, m)
    <3> HIDE DEF op
    <3> QED BY <1>9, <1>11, <1>12, Zenon DEF With, Answered
  <2>2. stores' = [stores EXCEPT ![i] = Answered(stores[i], op, m)]
    BY <1>5 DEF ServiceAnswers
  <2> HIDE DEF op
  <2> QED BY <2>1, <2>2, Zenon
<1>14. Sound(s, place, issued)
  <2>1. s.token # NoPass /\ WasIssued(s.token, place, issued)
    BY <1>2, <1>13 DEF Sound
  <2> HIDE DEF op, t
  <2>2. \A k \in DOMAIN s.inbox : s.inbox[k].op = "bad_token" => ~Opens(s.token, place, issued)
    BY <1>6, <1>8, <1>10, <1>13
  <2>3. s.inbox # <<>> /\ Head(s.inbox).op \in Answer
    BY <1>6, <1>10, <1>13
  <2> QED BY <1>13, <2>1, <2>2, <2>3 DEF Sound
<1> HIDE DEF t, op
<1>15. s.token = stores[i].token /\ (s.conn = "closed" \/ s.ready => stores[i].ready)
  BY <1>13 DEF t
<1> QED BY <1>1, <1>13, <1>14, <1>15, <1>16, OneChanges

LEMMA NetworkFailsKeeps == ASSUME DoorInv, NetworkFails PROVE DoorInv'
<1>1. /\ UNCHANGED <<place, issued, made, query, stored, given, usurped, shown, phase, post>>
      /\ stores' = [i \in DOMAIN stores |->
           IF stores[i].conn \in {"asks", "up"}
             THEN [stores[i] EXCEPT !.conn = "down", !.sits = FALSE, !.inbox = <<>>] ELSE stores[i]]
  BY DEF NetworkFails, placeRows, look
<1>2. /\ stores \in Seq(Store) /\ AllSound(stores, place, issued)
      /\ \A i \in DOMAIN stores : stores[i] \in Store
  BY DEF DoorInv, DoorShape
<1>3. DOMAIN stores' = DOMAIN stores
  BY <1>1
<1>4. ASSUME NEW i \in DOMAIN stores
      PROVE  /\ stores'[i] \in Store /\ Sound(stores'[i], place, issued)
             /\ stores'[i].token = stores[i].token /\ stores'[i].ready = stores[i].ready
             /\ stores'[i].conn = "closed" => stores[i].conn = "closed"
  <2>1. stores[i] \in Store /\ Sound(stores[i], place, issued)
    BY <1>2 DEF AllSound
  <2>2. CASE stores[i].conn \in {"asks", "up"}
    <3>1. stores'[i] = With(stores[i], "down", FALSE, <<>>)
      BY <1>1, <2>2 DEF With
    <3>2. Sound(With(stores[i], "down", FALSE, <<>>), place, issued)
      BY <2>1, SilentIsSound DEF Connection
    <3>3. <<>> \in Seq(DoorMessage) /\ "down" \in Connection /\ FALSE \in BOOLEAN
      BY DEF Connection
    <3>4. /\ With(stores[i], "down", FALSE, <<>>) \in Store
          /\ With(stores[i], "down", FALSE, <<>>).token = stores[i].token
          /\ With(stores[i], "down", FALSE, <<>>).ready = stores[i].ready
          /\ With(stores[i], "down", FALSE, <<>>).conn = "down"
      BY <2>1, <3>3 DEF With, Store
    <3>5. stores'[i].conn # "closed" /\ stores[i].conn # "closed"
      BY <2>2, <3>1, <3>4
    <3>6. /\ stores'[i] \in Store /\ stores'[i].token = stores[i].token /\ stores'[i].ready = stores[i].ready
      BY <3>1, <3>4
    <3>7. Sound(stores'[i], place, issued)
      BY <3>1, <3>2
    <3> QED BY <3>5, <3>6, <3>7
  <2>3. CASE stores[i].conn \notin {"asks", "up"}
    <3>1. stores'[i] = stores[i]
      BY <1>1, <2>3
    <3> QED BY <2>1, <3>1
  <2> QED BY <2>2, <2>3
<1>5. stores' \in Seq(Store)
  <2>1. PICK n \in Nat : DOMAIN stores = 1..n
    BY <1>2
  <2>2. stores' = [i \in 1..n |-> stores'[i]] /\ \A i \in 1..n : stores'[i] \in Store
    BY <1>1, <1>4, <2>1
  <2>3. stores' \in [1..n -> Store]
    BY <2>2
  <2> QED BY <2>1, <2>3, SeqDef
<1>6. DoorSettled(stores') => DoorSettled(stores)
  BY <1>3, <1>4 DEF DoorSettled
<1> QED BY <1>1, <1>3, <1>4, <1>5, <1>6, ConnectionsKeep

-----------------------------------------------------------------------------
(* The rows of the players *)

\* The rows grow, and the connections are sound for the rows as they were.
LEMMA RowsKeep ==
  ASSUME DoorInv, place' \in [Joiners -> Row], issued' \in [Joiners -> Nat], made' \in 0..MaxJoins,
         RowsGrow(place, issued, place', issued'), RowsSound',
         UNCHANGED <<query, stored, given, usurped, shown, phase>>,
         stores' \in Seq(Store), DOMAIN stores' = DOMAIN stores,
         \A i \in DOMAIN stores : Sound(stores'[i], place, issued) /\ stores'[i].token = stores[i].token,
         DoorSettled(stores') => DoorSettled(stores)
  PROVE  DoorInv'
<1>1. PICK pl2 \in [Joiners -> Row], is2 \in [Joiners -> Nat] : pl2 = place' /\ is2 = issued'
  OBVIOUS
<1>2. PICK ss \in Seq(Store) : ss = stores'
  OBVIOUS
<1>3. place \in [Joiners -> Row] /\ issued \in [Joiners -> Nat] /\ RowsGrow(place, issued, pl2, is2)
  BY <1>1 DEF DoorInv, DoorShape
<1>4. \A i \in DOMAIN ss : ss[i] \in Store /\ Sound(ss[i], place, issued)
  BY <1>2
<1>5. \A i \in DOMAIN ss : Sound(ss[i], pl2, is2)
  BY <1>3, <1>4, SoundStays
<1>6. AllSound(stores, place, issued)'
  BY <1>1, <1>2, <1>5 DEF AllSound
<1>7. DoorShape'
  BY DEF DoorInv, DoorShape
<1>8. /\ given \in Token /\ query \in Token /\ WasIssued(given, place, issued) /\ WasIssued(query, place, issued)
  BY DEF DoorInv, DoorShape, TokensSound
<1>9. /\ WasIssued(given, pl2, is2) /\ WasIssued(query, pl2, is2)
      /\ ~Opens(given, place, issued) => ~Opens(given, pl2, is2)
  BY <1>3, <1>8, WorthNothingStays
<1>10. TokensSound'
  BY <1>1, <1>9 DEF DoorInv, TokensSound
<1>11. TokenKept'
  BY <1>1, <1>9 DEF DoorInv, TokenKept
<1>12. PlaysForStored'
  <2>1. ASSUME phase \in {"pending", "playing"}, DoorSettled(stores')
        PROVE  shown \in DOMAIN stores' /\ stores'[shown].token = stored
    BY <2>1 DEF DoorInv, PlaysForStored
  <2> QED BY <2>1 DEF PlaysForStored, DoorSettled
<1> QED BY <1>6, <1>7, <1>10, <1>11, <1>12 DEF DoorInv

\* A function on the same indices whose values are connections is a sequence of connections.
LEMMA SeqOfStores ==
  ASSUME NEW ss \in Seq(Store), NEW tt, tt = [i \in DOMAIN ss |-> tt[i]], \A i \in DOMAIN ss : tt[i] \in Store
  PROVE  tt \in Seq(Store)
<1>1. PICK n \in Nat : DOMAIN ss = 1..n
  OBVIOUS
<1>2. tt \in [1..n -> Store]
  BY <1>1
<1> QED BY <1>1, <1>2, SeqDef

\* What the service tells a player leaves the page's connections sound.
LEMMA TellingKeeps ==
  ASSUME DoorInv, NEW p, NEW m \in DoorMessage, m.op # "bad_token", NEW b \in BOOLEAN, TellsPlayer(p, m, b)
  PROVE  /\ stores' \in Seq(Store) /\ DOMAIN stores' = DOMAIN stores
         /\ \A i \in DOMAIN stores : Sound(stores'[i], place, issued) /\ stores'[i].token = stores[i].token
         /\ DoorSettled(stores') => DoorSettled(stores)
<1> DEFINE told(i) == With(stores[i], stores[i].conn, b, Append(stores[i].inbox, m))
<1>1. /\ stores \in Seq(Store) /\ AllSound(stores, place, issued)
      /\ \A i \in DOMAIN stores : stores[i] \in Store
  BY DEF DoorInv, DoorShape
<1>2. stores' = [i \in DOMAIN stores |->
         IF stores[i].token.player = p /\ stores[i].sits
           THEN [stores[i] EXCEPT !.sits = b, !.inbox = Append(@, m)] ELSE stores[i]]
  BY DEF TellsPlayer
<1>3. DOMAIN stores' = DOMAIN stores
  BY <1>2
<1>4. ASSUME NEW i \in DOMAIN stores
      PROVE  /\ stores'[i] \in Store /\ Sound(stores'[i], place, issued)
             /\ stores'[i].token = stores[i].token /\ stores'[i].ready = stores[i].ready
             /\ stores'[i].conn = stores[i].conn
  <2>1. stores[i] \in Store /\ Sound(stores[i], place, issued)
    BY <1>1 DEF AllSound
  <2>2. CASE stores[i].token.player = p /\ stores[i].sits
    <3>1. stores'[i] = [stores[i] EXCEPT !.sits = b, !.inbox = Append(stores[i].inbox, m)]
      BY <1>2, <2>2
    <3>2. PICK q \in Seq(DoorMessage) : q = Append(stores[i].inbox, m)
      BY <2>1, ConnectionFields, Appended
    <3>3. stores'[i] = With(stores[i], stores[i].conn, b, q)
      BY <2>1, <3>1, <3>2 DEF With, Store
    <3>4. Sound(told(i), place, issued)
      BY <2>1, <2>2, ToldIsSound
    <3>5. told(i) = stores'[i]
      BY <3>2, <3>3, Zenon
    <3>6. stores[i].conn \in Connection
      BY <2>1, ConnectionFields
    <3>7. /\ With(stores[i], stores[i].conn, b, q) \in Store
          /\ With(stores[i], stores[i].conn, b, q).token = stores[i].token
          /\ With(stores[i], stores[i].conn, b, q).ready = stores[i].ready
          /\ With(stores[i], stores[i].conn, b, q).conn = stores[i].conn
      BY <2>1, <3>6, WithFacts
    <3> HIDE DEF told
    <3>8. Sound(stores'[i], place, issued)
      BY <3>4, <3>5
    <3> QED BY <3>3, <3>7, <3>8
  <2>3. CASE ~(stores[i].token.player = p /\ stores[i].sits)
    <3>1. stores'[i] = stores[i]
      BY <1>2, <2>3
    <3> QED BY <2>1, <3>1
  <2> QED BY <2>2, <2>3
<1>5. stores' \in Seq(Store)
  <2>1. PICK tt : tt = stores'
    OBVIOUS
  <2>2. tt = [i \in DOMAIN stores |-> tt[i]] /\ \A i \in DOMAIN stores : tt[i] \in Store
    BY <1>2, <1>4, <2>1
  <2>3. tt \in Seq(Store)
    BY <1>1, <2>2, SeqOfStores
  <2> QED BY <2>1, <2>3
<1>6. DoorSettled(stores') => DoorSettled(stores)
  BY <1>3, <1>4 DEF DoorSettled
<1> QED BY <1>3, <1>4, <1>5, <1>6

LEMMA PostTakenKeeps == ASSUME DoorInv, PostTaken PROVE DoorInv'
<1>1. PICK p \in Joiners, a \in BOOLEAN :
        IsNext(p) /\ made' = p /\ place' = [place EXCEPT ![p] = IF a THEN "pending" ELSE "in"]
  BY DEF PostTaken
<1>2. UNCHANGED <<issued, query, stored, given, usurped, shown, phase, stores>> /\ post' = "taken"
  BY DEF PostTaken, look
<1>3. place \in [Joiners -> Row] /\ issued \in [Joiners -> Nat] /\ place[p] = "none"
  BY <1>1 DEF DoorInv, DoorShape, IsNext
<1>4. /\ place' \in [Joiners -> Row] /\ place'[p] \in {"pending", "in"}
      /\ \A q \in Joiners : q # p => place'[q] = place[q]
  BY <1>1, <1>3 DEF Row
<1>5. made' \in 0..MaxJoins /\ made' # 0
  BY <1>1, DoorAssumption DEF Joiners
<1>6. RowsGrow(place, issued, place', issued')
  BY <1>2, <1>3, <1>4 DEF RowsGrow
<1>7. RowsSound'
  BY <1>1, <1>2, <1>3, <1>4, <1>5 DEF DoorInv, RowsSound
<1>8. stores' \in Seq(Store) /\ \A i \in DOMAIN stores : Sound(stores'[i], place, issued)
  BY <1>2 DEF DoorInv, DoorShape, AllSound
<1> QED BY <1>2, <1>3, <1>4, <1>5, <1>6, <1>7, <1>8, RowsKeep

LEMMA DealerAnswersKeeps == ASSUME DoorInv, NEW p \in Joiners, DealerAnswers(p) PROVE DoorInv'
<1>1. UNCHANGED <<issued, made, query, stored, given, usurped, shown, phase, post>> /\ place[p] = "pending"
  BY DEF DealerAnswers, look
<1>2. place \in [Joiners -> Row] /\ issued \in [Joiners -> Nat] /\ made \in 0..MaxJoins
  BY DEF DoorInv, DoorShape
<1>3. /\ place' \in [Joiners -> Row] /\ place'[p] \in {"in", "gone"}
      /\ \A q \in Joiners : q # p => place'[q] = place[q]
  BY <1>2 DEF DealerAnswers, Row
<1>4. RowsGrow(place, issued, place', issued')
  BY <1>1, <1>2, <1>3 DEF RowsGrow
<1>5. RowsSound'
  BY <1>1, <1>2, <1>3, DoorAssumption DEF DoorInv, RowsSound, Joiners
<1>6. /\ stores' \in Seq(Store) /\ DOMAIN stores' = DOMAIN stores
      /\ \A i \in DOMAIN stores : Sound(stores'[i], place, issued) /\ stores'[i].token = stores[i].token
      /\ DoorSettled(stores') => DoorSettled(stores)
  <2>1. PICK m1 \in DoorMessage : m1 = [op |-> "event", active |-> TRUE]
    BY DEF DoorMessage
  <2>2. PICK m2 \in DoorMessage : m2 = [op |-> "declined", active |-> FALSE]
    BY DEF DoorMessage
  <2>3. m1.op # "bad_token" /\ m2.op # "bad_token"
    BY <2>1, <2>2
  <2>4. TellsPlayer(p, m1, TRUE) \/ TellsPlayer(p, m2, FALSE)
    BY <2>1, <2>2 DEF DealerAnswers
  <2> QED BY <2>3, <2>4, TellingKeeps
<1> QED BY <1>1, <1>2, <1>3, <1>4, <1>5, <1>6, RowsKeep

LEMMA ReissuesKeeps == ASSUME DoorInv, NEW p \in Joiners, Reissues(p) PROVE DoorInv'
<1>1. UNCHANGED <<place, made, query, stored, given, usurped, shown, phase, post>> /\ place[p] = "in"
  BY DEF Reissues, look
<1>2. place \in [Joiners -> Row] /\ issued \in [Joiners -> Nat] /\ made \in 0..MaxJoins
  BY DEF DoorInv, DoorShape
<1>3. /\ issued' \in [Joiners -> Nat] /\ issued'[p] = issued[p] + 1
      /\ \A q \in Joiners : q # p => issued'[q] = issued[q]
  BY <1>2 DEF Reissues
<1>4. RowsGrow(place, issued, place', issued')
  BY <1>1, <1>2, <1>3 DEF RowsGrow
<1>5. RowsSound'
  BY <1>1, <1>2, <1>3 DEF DoorInv, RowsSound
<1>6. /\ stores' \in Seq(Store) /\ DOMAIN stores' = DOMAIN stores
      /\ \A i \in DOMAIN stores : Sound(stores'[i], place, issued) /\ stores'[i].token = stores[i].token
      /\ DoorSettled(stores') => DoorSettled(stores)
  <2>1. PICK m \in DoorMessage : m = [op |-> "cut", active |-> FALSE]
    BY DEF DoorMessage
  <2>2. m.op # "bad_token" /\ TellsPlayer(p, m, FALSE)
    BY <2>1 DEF Reissues
  <2> QED BY <2>2, TellingKeeps
<1> QED BY <1>1, <1>2, <1>3, <1>4, <1>5, <1>6, RowsKeep

-----------------------------------------------------------------------------
(* The theorems *)

LEMMA DoorInvNext == ASSUME DoorInv, [DoorNext]_doorVars PROVE DoorInv'
<1>1. CASE UNCHANGED doorVars
  <2>1. UNCHANGED <<place, issued, made, query, stored, given, usurped, shown, stores, phase, post>>
    BY <1>1 DEF doorVars
  <2>2. DoorShape' /\ RowsSound' /\ TokensSound' /\ TokenKept' /\ PlaysForStored'
    BY <2>1 DEF DoorInv, DoorShape, RowsSound, TokensSound, TokenKept, PlaysForStored
  <2>3. AllSound(stores, place, issued)'
    BY <2>1 DEF DoorInv, AllSound
  <2> QED BY <2>2, <2>3 DEF DoorInv
<1>2. CASE LookupFails \/ LookupClosed \/ TapJoin \/ PostFails \/ TapRetry \/ ModeChanges
  BY <1>2, PageAloneKeeps
<1>3. CASE Reload \/ OpenLink
  BY <1>3, FreshPageKeeps
<1>4. CASE LookupOpen
  BY <1>4, LookupOpenKeeps
<1>5. CASE PostHeard
  BY <1>5, PostHeardKeeps
<1>6. CASE PostTaken
  BY <1>6, PostTakenKeeps
<1>7. CASE NetworkFails
  BY <1>7, NetworkFailsKeeps
<1>8. ASSUME NEW p \in Joiners, DealerAnswers(p) \/ Reissues(p) PROVE DoorInv'
  BY <1>8, DealerAnswersKeeps, ReissuesKeeps
<1>9. ASSUME NEW i \in Live, SocketConnects(i) \/ ServiceAnswers(i) \/ WaitTimesOut(i) PROVE DoorInv'
  BY <1>9, SocketConnectsKeeps, ServiceAnswersKeeps, WaitTimesOutKeeps
<1>10. ASSUME NEW i \in Live, HearsJoined(i) \/ HearsEvent(i) \/ HearsDeclined(i) \/ HearsCut(i) PROVE DoorInv'
  BY <1>10, HearsJoinedKeeps, HearsEventKeeps, HearsDeclinedKeeps, HearsCutKeeps
<1>11. ASSUME NEW i \in Live, NEW op \in {"bad_token", "closed"}, HearsError(i, op) PROVE DoorInv'
  BY <1>11, HearsErrorKeeps
<1> QED BY <1>1, <1>2, <1>3, <1>4, <1>5, <1>6, <1>7, <1>8, <1>9, <1>10, <1>11 DEF DoorNext

\* The strengthening holds in every reachable state of the door.
THEOREM DoorInvariant == DoorSpec => []DoorInv
<1>1. DoorInit => DoorInv
  BY DoorInvInit
<1>2. DoorInv /\ [DoorNext]_doorVars => DoorInv'
  BY DoorInvNext
<1> QED BY <1>1, <1>2, PTL DEF DoorSpec

\* The token a phone was last given stays with it while the service takes it, unless the
\* connection of an earlier seat threw it away; and a page at the table that waits for no
\* connection acts with the token that is stored (PlayPage.tsx, player-token.ts).
THEOREM SeatAlwaysKept == DoorSpec => []SeatKept
<1>1. DoorInv => SeatKept
  <2> SUFFICES ASSUME DoorInv PROVE SeatKept
    OBVIOUS
  <2>1. Verified(given) /\ ~usurped => stored = given
    BY DEF DoorInv, TokenKept, Verified, Opens
  <2>2. ASSUME phase \in {"pending", "playing"}, \A i \in Live : stores[i].ready
        PROVE  shown # 0 /\ stores[shown].token = stored
    <3>1. DoorSettled(stores)
      BY <2>2 DEF DoorSettled, Live
    <3>2. shown \in DOMAIN stores /\ stores[shown].token = stored
      BY <2>2, <3>1 DEF DoorInv, PlaysForStored
    <3>3. stores \in Seq(Store)
      BY DEF DoorInv, DoorShape
    <3> QED BY <3>2, <3>3
  <2> QED BY <2>1, <2>2 DEF SeatKept
<1> QED BY <1>1, DoorInvariant, PTL
===============================================================================
