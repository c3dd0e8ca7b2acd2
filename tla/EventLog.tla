------------------------------ MODULE EventLog ------------------------------
(***************************************************************************)
(* What a table promises about its event log, without sockets, processes   *)
(* or disks: the log only grows at its end, under increasing sequence       *)
(* numbers, nothing follows the end of the session, and an event is         *)
(* acknowledged to its sender only when it is in the log for good.          *)
(***************************************************************************)
EXTENDS Integers, Sequences

CONSTANTS Id, IsEnd(_)

VARIABLES log, acked

logVars == <<log, acked>>

InLog(id) == \E i \in DOMAIN log : log[i].id = id
Ended == \E i \in DOMAIN log : IsEnd(log[i].id)

LogInit == Len(log) = 1 /\ acked = {}

\* A new event at the end, perhaps acknowledged at once.
Extend(e) ==
  /\ ~Ended
  /\ e.id \in Id
  /\ \A i \in DOMAIN log : log[i].seq < e.seq
  /\ log' = Append(log, e)
  /\ acked' \in {acked, acked \cup {e.id}}

Acknowledge(id) == InLog(id) /\ acked' = acked \cup {id} /\ UNCHANGED log

LogNext ==
  \/ Len(log') > Len(log) /\ Extend(log'[Len(log')])
  \/ \E id \in Id : Acknowledge(id)

LogSpec == LogInit /\ [][LogNext]_logVars
=============================================================================
