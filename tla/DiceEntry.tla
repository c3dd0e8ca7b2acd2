-------------------------------- MODULE DiceEntry --------------------------------
(***************************************************************************)
(* How the craps dealer enters a throw on a physical table: the two grids  *)
(* of the dice picker with its keyboard and its express mode, the chips of *)
(* the totals, Seven Out, and the confirm button of the dealer's page.     *)
(* What a recorded throw means is in Craps, the delay of the button in     *)
(* DealerShell, the rounds in DealerRound; bets close on entry here.       *)
(*                                                                         *)
(* A handler uses the dice of the last render: in express mode the second  *)
(* die is sent to the displays and commit still looks at the pair before   *)
(* it.  So a first entry waits for the confirm button, and correcting a    *)
(* die of a full pair records the pair as it was, against SPEC-CRAPS.md     *)
(* section 3.2.                                                            *)
(*                                                                         *)
(* The dice are live input.  A table of the page's own store (TableStore)  *)
(* keeps them in its log, where the next change of the series clears them. *)
(* A synced store also lays the last LIVE_INPUT over the log, and only     *)
(* another LIVE_INPUT takes it away: the confirm button, the chips and an  *)
(* undo leave the dice in the picker, and the next confirmation records    *)
(* them again.  The connection is up, and the page's own echoes come back  *)
(* before its next tap.                                                    *)
(***************************************************************************)
EXTENDS Integers, Sequences, SequencesExt

CONSTANTS
  Face,        \* faces that are tapped
  Total,       \* totals whose chips are tapped
  MaxWrites    \* bound: throws recorded, edited and undone

ASSUME DiceEntryAssumption == Face \subseteq 1 .. 6 /\ Total \subseteq 2 .. 12 /\ MaxWrites \in Nat

VARIABLES
  synced,    \* the store of the table is the synced one
  dice,      \* liveInput of the composed state: the faces of die "A" and "B", 0 while there is none
  logged,    \* the dice as the log alone has them
  over,      \* liveInput of the synced store holds the dice, over the log
  nextDie,   \* pendingDie of the picker: where a digit goes
  totalMode, \* the chips of the totals are shown instead of the picker
  express,   \* deviceSettings.expressMode
  editing,   \* the throw the page's next confirmation edits, or 0
  bets,      \* the betting round is open
  thrown,    \* the throws of the series: faces, total, hard
  written,   \* bound: changes of the series
  anew,      \* history: faces tapped on each die since the series last changed
  left,      \* history: dice that a synced store has kept through a change of the series
  reopened   \* history: bets were opened, or an edit went on, since a die was last tapped

liveVars == <<dice, logged, over, left>>
modeVars == <<synced, totalMode, express>>
entryVars == <<modeVars, liveVars, nextDie, editing, bets, thrown, written, anew, reopened>>

Die == {"A", "B"}
NoDice == [d \in Die |-> 0]
NotTapped == [d \in Die |-> {}]
Full == dice["A"] # 0 /\ dice["B"] # 0
Even == {4, 6, 8, 10}

\* normalizeResult, detectHard: a total of unknown faces is hard only if its chip says so.
FromFaces(p) ==
  LET t == p["A"] + p["B"]
  IN [faces |-> p, total |-> t, hard |-> IF p["A"] = p["B"] /\ t \in Even THEN "hard" ELSE "easy"]
FromTotal(t, h) == [faces |-> NoDice, total |-> t, hard |-> h]

EntryInit ==
  /\ synced \in BOOLEAN /\ over = FALSE /\ left = {}
  /\ dice = NoDice /\ logged = NoDice /\ nextDie = "A" /\ totalMode = FALSE
  /\ express \in BOOLEAN /\ editing = 0 /\ bets = TRUE
  /\ thrown = <<>> /\ written = 0
  /\ anew = NotTapped /\ reopened = TRUE

-----------------------------------------------------------------------------
(* What the handlers do *)

\* Faulty variant: the dice stay on the displays, whatever the store.
DiceStay == dice

\* rebuildFromResults starts with clear dice, whatever changed in the series; what the synced
\* store holds is replayed after it.
DiceAfterLog == IF over THEN dice ELSE NoDice

\* The picker's effect: the die that is missing, or where it was; now is the last one tapped for.
Pending(p, now) == IF p["A"] = 0 THEN "A" ELSE IF p["B"] = 0 THEN "B" ELSE now

Write(ts) ==
  /\ written < MaxWrites /\ written' = written + 1
  /\ thrown' = ts
  /\ anew' = NotTapped

\* A change of the series that sends no live input.
Change(ts) ==
  /\ Write(ts)
  /\ dice' = DiceAfterLog /\ logged' = NoDice /\ over' = over
  /\ left' = IF over THEN {d \in Die : dice[d] # 0} ELSE {}
  /\ nextDie' = Pending(dice', nextDie)

\* LIVE_INPUT with the faces p.
EmitLive(p) == dice' = p /\ logged' = p /\ over' = synced

\* A change of the series and the LIVE_INPUT that clears the dice.
ChangeAndClear(ts) ==
  /\ Write(ts)
  /\ EmitLive(NoDice) /\ left' = {} /\ nextDie' = "A"

\* onDealerEntry: nothing is closed during an edit.
BetsAfterEntry == bets /\ editing # 0

\* handleFaceSelect: face f of die d; in express mode a pair that was full before the tap
\* is committed, and clears the dice again.
FaceSelected(d, f) ==
  LET tapped == [dice EXCEPT ![d] = f] IN
  /\ IF express /\ Full
       THEN ChangeAndClear(Append(thrown, FromFaces(dice)))
       ELSE /\ EmitLive(tapped) /\ left' = left \ {d}
            /\ nextDie' = Pending(tapped, IF d = "A" THEN "B" ELSE nextDie)
            /\ anew' = [anew EXCEPT ![d] = @ \cup {f}]
            /\ UNCHANGED <<thrown, written>>
  /\ bets' = BetsAfterEntry
  /\ reopened' = (editing # 0)
  /\ UNCHANGED <<modeVars, editing>>

-----------------------------------------------------------------------------
(* The picker *)

TapFace(d, f) == ~totalMode /\ FaceSelected(d, f)

Digit(f) == ~totalMode /\ FaceSelected(nextDie, f)

\* The picker's Confirm, and Enter: the throw is recorded past the page's own confirmation,
\* then the clearing LIVE_INPUT closes the bets.
PickerCommit ==
  /\ ~totalMode /\ ~express /\ Full
  /\ ChangeAndClear(Append(thrown, FromFaces(dice)))
  /\ bets' = BetsAfterEntry
  /\ UNCHANGED <<modeVars, editing, reopened>>

\* Clear, and Backspace
PickerClear ==
  /\ ~totalMode
  /\ EmitLive(NoDice) /\ left' = {} /\ bets' = BetsAfterEntry
  /\ nextDie' = "A"
  /\ UNCHANGED <<modeVars, editing, thrown, written, anew, reopened>>

(* Totals *)

\* The picker is mounted anew when it comes back.
ToggleTotals ==
  /\ totalMode' = ~totalMode
  /\ nextDie' = Pending(dice, "A")
  /\ UNCHANGED <<synced, liveVars, express, editing, bets, thrown, written, anew, reopened>>

QuickEntry(t, h) ==
  /\ Change(Append(thrown, FromTotal(t, h)))
  /\ UNCHANGED <<modeVars, editing, bets, reopened>>

TotalChip(t) == totalMode /\ QuickEntry(t, "unknown")
HardChip(t) == totalMode /\ t \in Even /\ QuickEntry(t, "hard")
SevenOut == QuickEntry(7, "unknown")

(* The dealer's page *)

\* executeConfirm of a full pair, shown or not: the bets are closed and the throw recorded,
\* or the throw under edit is replaced and the dice are cleared.
PageConfirm ==
  /\ Full
  /\ \/ editing = 0 /\ Change(Append(thrown, FromFaces(dice)))
     \/ editing # 0 /\ ChangeAndClear([thrown EXCEPT ![editing] = FromFaces(dice)])
  /\ bets' = BetsAfterEntry /\ editing' = 0
  /\ UNCHANGED <<modeVars, reopened>>

\* The dice on the picker stay as they are when an edit begins.
BeginEdit(i) ==
  /\ editing = 0
  /\ editing' = i /\ reopened' = TRUE
  /\ UNCHANGED <<modeVars, liveVars, nextDie, bets, thrown, written, anew>>

\* The LIVE_INPUT that cancelEdit sends has not the form of this game: it leaves the dice of
\* the log as they are, and a synced store lays it over the log in place of the dice.
CancelEdit ==
  /\ editing # 0 /\ editing' = 0
  /\ dice' = logged /\ over' = FALSE
  /\ nextDie' = Pending(dice', nextDie)
  /\ UNCHANGED <<modeVars, logged, left, bets, thrown, written, anew, reopened>>

UndoThrow ==
  /\ editing = 0 /\ thrown # <<>>
  /\ Change(Front(thrown))
  /\ UNCHANGED <<modeVars, editing, bets, reopened>>

OpenBets ==
  /\ ~bets /\ bets' = TRUE /\ reopened' = TRUE
  /\ UNCHANGED <<modeVars, liveVars, nextDie, editing, thrown, written, anew>>

SetExpress ==
  /\ express' = ~express
  /\ UNCHANGED <<synced, totalMode, liveVars, nextDie, editing, bets, thrown, written, anew, reopened>>

PickerStep ==
  \/ PickerCommit \/ PickerClear
  \/ \E f \in Face : Digit(f) \/ \E d \in Die : TapFace(d, f)
QuickStep == ToggleTotals \/ SevenOut \/ \E t \in Total : TotalChip(t) \/ HardChip(t)
PageStep ==
  \/ PageConfirm \/ CancelEdit \/ UndoThrow \/ OpenBets \/ SetExpress
  \/ \E i \in DOMAIN thrown : BeginEdit(i)

EntryNext == PickerStep \/ QuickStep \/ PageStep

EntrySpec == EntryInit /\ [][EntryNext]_entryVars

-----------------------------------------------------------------------------
(* Properties *)

\* Dice are faces that were tapped, the log keeps to its bound.
EntryTypeOK ==
  /\ dice \in [Die -> Face \cup {0}] /\ logged \in [Die -> Face \cup {0}] /\ nextDie \in Die
  /\ synced \in BOOLEAN /\ over \in BOOLEAN /\ left \subseteq Die
  /\ totalMode \in BOOLEAN /\ express \in BOOLEAN /\ editing \in 0 .. Len(thrown)
  /\ bets \in BOOLEAN /\ reopened \in BOOLEAN
  /\ anew \in [Die -> SUBSET Face]
  /\ written \in 0 .. MaxWrites /\ Len(thrown) <= written

Recorded == Len(thrown') > Len(thrown) /\ Last(thrown').faces # NoDice

\* A throw whose faces are recorded was tapped for it, each die since the last change of the
\* series, except a die that a synced store has kept through that change; and nobody could
\* bet on it any more since its last die was tapped, unless the dealer opened the bets again
\* or was editing.  So on a table of the page's own store no pair is recorded twice and no die
\* is left over from another throw, in any order of picker, chips, button and corrections; on a
\* synced table only the dice that are still shown in the picker can be.
RollsFromTheDice ==
  [][Recorded => /\ \A d \in Die : Last(thrown').faces[d] \in anew[d] \/ (synced /\ d \in left)
                 /\ bets => reopened]_entryVars
=================================================================================
