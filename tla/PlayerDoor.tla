------------------------------ MODULE PlayerDoor -------------------------------
(***************************************************************************)
(* How one phone comes to its seat at a table of the service: the page     *)
(* /play/<code> with the token its browser keeps, a personal link, the     *)
(* form with a name, the dealer's answer, errors with a second try, and    *)
(* connections that break, are cut by the service or come too late.        *)
(* A page never closes the connection of an earlier seat that it has left. *)
(***************************************************************************)
EXTENDS Integers, Sequences, FiniteSets

CONSTANTS
  MaxJoins,   \* bound: players made for this phone
  MaxIssues,  \* bound: tokens of one player
  MaxStores,  \* bound: connections that one page opens
  MaxTurns    \* bound: faults, reloads, second tries and changes of the table's mode

ASSUME DoorAssumption == MaxJoins \in Nat /\ MaxIssues \in Nat /\ MaxStores \in Nat /\ MaxTurns \in Nat

VARIABLES
  place,    \* row of each player: "none", "pending", "in", or "gone" when it was declined
  issued,   \* number of the token whose hash the row has
  playersOn,\* playerMode of the table, and enablePlayerMode
  phase,    \* of the page: "loading", "join", "pending", "playing" or "error"
  error,    \* errorCode: "none", "lookup", "closed" (PLAYERS_DISABLED, NOT_FOUND) or "declined"
  lookup,   \* the request for the table's data is under way
  made,     \* player of the form's last request that was taken, 0 before
  post,     \* of the form: "idle", "posting", "taken" (the answer is on its way) or "waiting"
  query,    \* token of the personal link, kept by the route when the address loses it
  stripped,
  stored,   \* casino-lord:player-token:<code>
  shown,    \* index of the store in the page's state, 0 if null
  stores,   \* connections this page has made, in order
  given,    \* history: the token this browser was last given
  usurped,  \* history: it was thrown away for a connection with another token
  turns

doorVars ==
  <<place, issued, made, playersOn, phase, error, lookup, post, query, stripped, stored, shown, stores, given, usurped, turns>>
placeRows == <<place, issued, made>>
look == <<query, stripped, lookup>>

NoPass == [player |-> 0, n |-> 0]

\* verifyPlayerToken
Verified(t) == t.player # 0 /\ place[t.player] \in {"pending", "in"} /\ issued[t.player] = t.n

NewStore(t, asked, via) ==
  [token |-> t, asked |-> asked, via |-> via, ready |-> FALSE, conn |-> "down", sits |-> FALSE, inbox |-> <<>>]

Joiners == 1..MaxJoins
IsNext(p) == place[p] = "none" /\ \A q \in 1..(p - 1) : place[q] # "none"

FreshPage ==
  /\ phase' = "loading" /\ error' = "none" /\ lookup' = TRUE /\ post' = "idle"
  /\ shown' = 0 /\ stores' = <<>>

DoorInit ==
  /\ place = [p \in Joiners |-> "none"] /\ issued = [p \in Joiners |-> 1] /\ made = 0 /\ playersOn = TRUE
  /\ phase = "loading" /\ error = "none" /\ lookup = TRUE /\ post = "idle"
  /\ query = NoPass /\ stripped = TRUE /\ stored = NoPass /\ shown = 0 /\ stores = <<>>
  /\ given = NoPass /\ usurped = FALSE /\ turns = 0

Turn == turns < MaxTurns /\ turns' = turns + 1

-----------------------------------------------------------------------------
(* The page comes to a connection *)

\* savePlayerToken
Saves(t) == stored' = t /\ given' = t /\ usurped' = FALSE

ConnectWith(t, asked, via) ==
  /\ Len(stores) < MaxStores
  /\ Saves(t)
  /\ stores' = Append(stores, NewStore(t, asked, via))

Fails(code) == phase' = "error" /\ error' = code

\* The bootstrap: the table is looked up, then the link's token or the stored one is tried.
LookupFails ==
  /\ lookup /\ lookup' = FALSE /\ Turn
  /\ Fails("lookup")
  /\ UNCHANGED <<placeRows, playersOn, post, query, stripped, stored, shown, stores, given, usurped>>

LookupClosed ==
  /\ lookup /\ lookup' = FALSE /\ ~playersOn
  /\ Fails("closed")
  /\ UNCHANGED <<placeRows, playersOn, post, query, stripped, stored, shown, stores, given, usurped, turns>>

LookupOpen ==
  /\ lookup /\ lookup' = FALSE /\ playersOn
  /\ \/ query # NoPass /\ stripped' = TRUE /\ ConnectWith(query, FALSE, "boot") /\ UNCHANGED phase
     \/ query = NoPass /\ stored # NoPass /\ ConnectWith(stored, FALSE, "boot") /\ UNCHANGED <<stripped, phase>>
     \/ /\ query = NoPass /\ stored = NoPass /\ phase' = "join"
        /\ UNCHANGED <<stripped, stored, stores, given, usurped>>
  /\ UNCHANGED <<placeRows, playersOn, error, post, query, shown, turns>>

\* handleJoin.  The service may refuse, or its answer may be lost though the player is made.
TapJoin ==
  /\ phase = "join" /\ post = "idle" /\ post' = "posting"
  /\ UNCHANGED <<placeRows, playersOn, phase, error, look, stored, shown, stores, given, usurped, turns>>

PostTaken ==
  /\ post = "posting" /\ playersOn
  /\ post' = "taken"
  /\ \E p \in Joiners, approval \in BOOLEAN :
       /\ IsNext(p) /\ made' = p
       /\ place' = [place EXCEPT ![p] = IF approval THEN "pending" ELSE "in"]
  /\ UNCHANGED <<issued, playersOn, phase, error, look, stored, shown, stores, given, usurped, turns>>

PostFails ==
  /\ post \in {"posting", "taken"} /\ post' = "idle" /\ Turn
  /\ UNCHANGED <<placeRows, playersOn, phase, error, look, stored, shown, stores, given, usurped>>

PostHeard ==
  /\ post = "taken" /\ post' = "waiting"
  /\ \E asked \in BOOLEAN :
       /\ asked \/ place[made] = "in"
       /\ ConnectWith([player |-> made, n |-> 1], asked, "join")
  /\ UNCHANGED <<placeRows, playersOn, phase, error, look, shown, turns>>

\* Errors with "Try again" among their actions.
Retriable == {"lookup", "declined"}

\* "Try again", and the address opened anew
TapRetry ==
  /\ phase = "error" /\ error \in Retriable /\ Turn
  /\ phase' = "loading" /\ error' = "none" /\ lookup' = TRUE
  /\ UNCHANGED <<placeRows, playersOn, post, query, stripped, stored, shown, stores, given, usurped>>

Reload ==
  /\ Turn /\ FreshPage
  /\ query' = IF stripped THEN NoPass ELSE query
  /\ UNCHANGED <<placeRows, playersOn, stripped, stored, given, usurped>>

OpenLink == \E p \in Joiners, n \in 2..MaxIssues :
  /\ Turn /\ n <= issued[p] /\ FreshPage
  /\ query' = [player |-> p, n |-> n] /\ stripped' = FALSE
  /\ UNCHANGED <<placeRows, playersOn, stored, given, usurped>>

-----------------------------------------------------------------------------
(* A connection of the page, and the service *)

Live == {i \in DOMAIN stores : stores[i].conn # "closed"}

\* The client connects, again and again, and asks to join with the token of its store.
SocketConnects(i) ==
  /\ i \in Live /\ stores[i].conn = "down"
  /\ stores' = [stores EXCEPT ![i].conn = "asks"]
  /\ UNCHANGED <<placeRows, playersOn, phase, error, look, post, stored, shown, given, usurped, turns>>

\* handleJoin of the service, for a player
Answered(s, op, m) == [s EXCEPT !.conn = "up", !.sits = (op = "joined"), !.inbox = Append(@, m)]

ServiceAnswers(i) ==
  /\ i \in Live /\ stores[i].conn = "asks"
  /\ LET t == stores[i].token
         op == IF ~playersOn THEN "closed" ELSE IF Verified(t) THEN "joined" ELSE "bad_token"
     IN stores' = [stores EXCEPT ![i] =
          Answered(stores[i], op, [op |-> op, active |-> Verified(t) /\ place[t.player] = "in"])]
  /\ UNCHANGED <<placeRows, playersOn, phase, error, look, post, stored, shown, given, usurped, turns>>

\* What the service sends to the sockets of one player.
TellsPlayer(p, m, keeps) ==
  stores' = [i \in DOMAIN stores |->
    IF stores[i].token.player = p /\ stores[i].sits
      THEN [stores[i] EXCEPT !.sits = keeps, !.inbox = Append(@, m)] ELSE stores[i]]

\* The dealer answers who waits; the register row of a declined player is deleted.
DealerAnswers(p) ==
  /\ place[p] = "pending"
  /\ \/ /\ place' = [place EXCEPT ![p] = "in"]
        /\ TellsPlayer(p, [op |-> "event", active |-> TRUE], TRUE)
     \/ /\ place' = [place EXCEPT ![p] = "gone"]
        /\ TellsPlayer(p, [op |-> "declined", active |-> FALSE], FALSE)
  /\ UNCHANGED <<issued, made, playersOn, phase, error, look, post, stored, shown, given, usurped, turns>>

\* reissue: the old token is worth nothing, and its sockets are disconnected by the service.
Reissues(p) ==
  /\ place[p] = "in" /\ issued[p] < MaxIssues
  /\ issued' = [issued EXCEPT ![p] = @ + 1]
  /\ TellsPlayer(p, [op |-> "cut", active |-> FALSE], FALSE)
  /\ UNCHANGED <<place, made, playersOn, phase, error, look, post, stored, shown, given, usurped, turns>>

ModeChanges ==
  /\ Turn /\ playersOn' = ~playersOn
  /\ UNCHANGED <<placeRows, phase, error, look, post, stored, shown, stores, given, usurped>>

\* The phone's network fails, for all its connections; the client will connect again
\* unless it was the service that cut the connection.
NetworkFails ==
  /\ Turn /\ \E i \in Live : stores[i].conn \in {"asks", "up"}
  /\ stores' = [i \in DOMAIN stores |->
       IF stores[i].conn \in {"asks", "up"}
         THEN [stores[i] EXCEPT !.conn = "down", !.sits = FALSE, !.inbox = <<>>] ELSE stores[i]]
  /\ UNCHANGED <<placeRows, playersOn, phase, error, look, post, stored, shown, given, usurped>>

-----------------------------------------------------------------------------
(* The page hears *)

Closed(i) == [stores EXCEPT ![i] = [@ EXCEPT !.conn = "closed", !.sits = FALSE, !.inbox = <<>>]]
Heard(i) == [stores EXCEPT ![i].inbox = Tail(@)]
IdleAfter(i) == IF stores[i].via = "join" /\ ~stores[i].ready THEN "idle" ELSE post

\* The end of connectPlayer, when its wait is over.
Enters(i, active, now) ==
  /\ Saves(stores[i].token)
  /\ shown' = i
  /\ phase' = IF stores[i].asked /\ ~active THEN "pending" ELSE "playing"
  /\ post' = IdleAfter(i)
  /\ stores' = [now EXCEPT ![i].ready = TRUE]
  /\ UNCHANGED error

HasMessage(i, op) == i \in Live /\ stores[i].inbox # <<>> /\ Head(stores[i].inbox).op = op

HearsJoined(i) ==
  /\ HasMessage(i, "joined")
  /\ \/ ~stores[i].ready /\ Enters(i, Head(stores[i].inbox).active, Heard(i))
     \/ /\ stores[i].ready
        /\ phase' = IF phase = "pending" /\ shown = i /\ Head(stores[i].inbox).active THEN "playing" ELSE phase
        /\ stores' = Heard(i)
        /\ UNCHANGED <<error, post, stored, shown, given, usurped>>
  /\ UNCHANGED <<placeRows, playersOn, look, turns>>

\* PLAYER_JOINED of the one who waits
HearsEvent(i) ==
  /\ HasMessage(i, "event")
  /\ phase' = IF phase = "pending" /\ shown = i THEN "playing" ELSE phase
  /\ stores' = Heard(i)
  /\ UNCHANGED <<placeRows, playersOn, error, look, post, stored, shown, given, usurped, turns>>

\* Faulty variant: whatever the service objects to, the seat is given up.
ForgetsAlways(op) == op \in {"bad_token", "closed"}

\* onJoinError
Forgets(op) == op = "bad_token"

\* The service objects to a join: a page that still waits for it gives the connection up,
\* one that has been at the table only shows the form or the error.
HearsError(i, op) ==
  /\ HasMessage(i, op)
  /\ IF Forgets(op)
       THEN /\ usurped' = (usurped \/ stored \notin {NoPass, stores[i].token})
            /\ stored' = NoPass /\ shown' = 0 /\ phase' = "join" /\ UNCHANGED error
       ELSE Fails("closed") /\ UNCHANGED <<stored, shown, usurped>>
  /\ stores' = IF stores[i].ready THEN Heard(i) ELSE Closed(i)
  /\ post' = IdleAfter(i)
  /\ UNCHANGED <<placeRows, playersOn, look, given, turns>>

\* DECLINED is looked for in the page's own store.
HearsDeclined(i) ==
  /\ HasMessage(i, "declined")
  /\ IF shown = i THEN Fails("declined") /\ shown' = 0 /\ stores' = Closed(i)
                  ELSE stores' = Heard(i) /\ UNCHANGED <<phase, error, shown>>
  /\ UNCHANGED <<placeRows, playersOn, look, post, stored, given, usurped, turns>>

\* A connection that the service ends is not made again.
HearsCut(i) ==
  /\ HasMessage(i, "cut")
  /\ stores' = Closed(i)
  /\ UNCHANGED <<placeRows, playersOn, phase, error, look, post, stored, shown, given, usurped, turns>>

\* After 8 s the page enters without having joined.
WaitTimesOut(i) ==
  /\ i \in Live /\ ~stores[i].ready
  /\ Enters(i, FALSE, stores)
  /\ UNCHANGED <<placeRows, playersOn, look, turns>>

-----------------------------------------------------------------------------
DoorNext ==
  \/ LookupFails \/ LookupClosed \/ LookupOpen
  \/ TapJoin \/ PostTaken \/ PostFails \/ PostHeard
  \/ TapRetry \/ Reload \/ OpenLink \/ ModeChanges \/ NetworkFails
  \/ \E p \in Joiners : DealerAnswers(p) \/ Reissues(p)
  \/ \E i \in Live :
       \/ SocketConnects(i) \/ ServiceAnswers(i) \/ WaitTimesOut(i)
       \/ HearsJoined(i) \/ HearsEvent(i) \/ HearsDeclined(i) \/ HearsCut(i)
       \/ \E op \in {"bad_token", "closed"} : HearsError(i, op)

DoorSpec == DoorInit /\ [][DoorNext]_doorVars

-----------------------------------------------------------------------------
(* Properties *)

\* State of the door.
DoorTypeOK ==
  /\ place \in [Joiners -> {"none", "pending", "in", "gone"}] /\ issued \in [Joiners -> Nat]
  /\ phase \in {"loading", "join", "pending", "playing", "error"} /\ error \in Retriable \cup {"none", "closed"}
  /\ post \in {"idle", "posting", "taken", "waiting"} /\ shown \in 0..Len(stores) /\ made \in 0..MaxJoins
  /\ Len(stores) <= MaxStores
  /\ {playersOn, lookup, stripped, usurped} \subseteq BOOLEAN /\ turns \in 0..MaxTurns

\* The token that a phone was last given stays with it as long as the service takes it,
\* through reloads, second tries, links and broken connections, so that the phone comes back
\* to its own seat (player-token.ts; PlayPage.tsx, connectWithToken).  The exception is the
\* connection of an earlier seat, which nobody closes: when it is refused, the token of the
\* later seat goes.  And a page at the table that waits for no connection acts with the token
\* that is stored: nobody plays for one seat and comes back to another.
SeatKept ==
  /\ Verified(given) /\ ~usurped => stored = given
  /\ phase \in {"pending", "playing"} /\ (\A i \in Live : stores[i].ready)
       => shown # 0 /\ stores[shown].token = stored

\* Faulty in the code: without the exception.
EarlierSeatKept == Verified(given) => stored = given

\* Faulty in the code: who waits for the dealer is told so, also after a reload.
WaitingIsShown ==
  \A i \in Live : phase = "playing" /\ shown = i /\ stores[i].sits /\ stores[i].inbox = <<>>
    => place[stores[i].token.player] # "pending"
================================================================================
