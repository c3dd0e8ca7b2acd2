---------------------------- MODULE MCSyncedStore ----------------------------
(* Who makes what in the runs of SyncedStore. *)
EXTENDS SyncedStore

CONSTANTS d, p, v

DealerPlaysLive == [c \in Client |-> IF c = d THEN Kind ELSE {}]
BothPlay == [c \in Client |-> IF c \in Display THEN {} ELSE {"play"}]
DealerReloadsOnce == [c \in Client |-> IF c \in Dealer THEN 1 ELSE 0]
EachReloadsOnce == [c \in Client |-> 1]
DealerPlaysOn == [c \in Client |-> IF c = d THEN {"play", "live"} ELSE {}]
NoDrops == [c \in Client |-> 0]
ViewerDropsOnce == [c \in Client |-> IF c \in Display THEN 1 ELSE 0]
DealerDropsOnce == [c \in Client |-> IF c \in Display THEN 2 ELSE 1]
=============================================================================
