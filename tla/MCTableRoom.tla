----------------------------- MODULE MCTableRoom -----------------------------
(* Small instances of the table's room, and of one player's way to it: a run *)
(* starts at the dealers' pages or at a phone's, and the other stays away.    *)
EXTENDS TableRoom, PlayerDoor, TLC

VARIABLE at

\* Nothing tells one device, one socket or one player from another.
RoomSymmetry == Permutations(Page) \cup Permutations(Socket) \cup Permutations(Player)

Used == {s \in Socket : up[s] # "unused"}
PhonesIdle == \A p \in Player : phones[p] = {} /\ ~markedAway[p] /\ token[p] = 1
\* What the phones do never reads the dealers' sockets: the phones are busy with one
\* connection of a dealer, and idle while the dealers come, go and take over.
OneConcern == PhonesIdle \/ Cardinality(Used) <= 1

\* One page at a time asks for what it missed, before a crash and on the first two connections,
\* while the phones are idle and one player at most has come.
Asks(q) == Cardinality({i \in DOMAIN q : q[i].op \in {"resync", "resynced"}})
Asking == {s \in Socket : Asks(toServer[s]) + Asks(toPage[s]) > 0}
OneGap ==
  /\ Cardinality(Asking) <= 1 /\ \A s \in Asking : Asks(toServer[s]) + Asks(toPage[s]) <= 1
  /\ Asking # {} => Cardinality(Used) <= 2
  /\ Asking \cup misled # {} =>
       PhonesIdle /\ crashes = 0 /\ Cardinality({p \in Player : rows[p] # "none"}) <= 1

SeatsInit == at \in {"room", "door"} /\ RoomInit /\ DoorInit
SeatsNext ==
  \/ at = "room" /\ RoomNext /\ UNCHANGED <<at, doorVars>>
  \/ at = "door" /\ DoorNext /\ UNCHANGED <<at, roomVars>>
SeatsSpec == SeatsInit /\ [][SeatsNext]_<<at, roomVars, doorVars>>
==============================================================================
