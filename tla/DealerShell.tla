------------------------------ MODULE DealerShell ------------------------------
(***************************************************************************)
(* The dealer's page: holding the confirm button, the two taps of Undo,    *)
(* editing and deleting results, starting a series and ending the session  *)
(* behind a confirmation, the deal and force buttons of a virtual table.   *)
(* What closes the betting round on entry is in DealerRound.               *)
(*                                                                         *)
(* A press of the button with a confirm delay starts an interval; the      *)
(* interval saves what was rendered when it was started.                   *)
(***************************************************************************)
EXTENDS Integers, Sequences, FiniteSets, SequencesExt, Functions

CONSTANTS
  Data,        \* results that can be entered
  EndsSeries,  \* those after which the client starts a series by itself
  Delays,      \* whether deviceSettings.confirmDelayMs > 0, which may change meanwhile
  Solo,        \* the table is kept by the page itself: nothing refuses an event
  MaxPresses,  \* bound: presses of the confirm button
  MaxSeries,   \* bound: series started
  MaxFixes,    \* bound: edits begun, deletions and undone results
  MaxDeals     \* bound: deals triggered or forced

Nothing == "nothing"
NoHand == 0

ASSUME ShellAssumption ==
  /\ Nothing \notin Data /\ EndsSeries \subseteq Data
  /\ Delays \subseteq BOOLEAN /\ Solo \in BOOLEAN
  /\ MaxPresses \in Nat /\ MaxSeries \in Nat /\ MaxFixes \in Nat /\ MaxDeals \in Nat

VARIABLES
  virtual,     \* participation.outcomeSource is "virtual"
  hands,       \* results of the series: id and data
  input,       \* confirmState.result, or Nothing
  ended,       \* SESSION_ENDED is in the log
  edited,      \* id of editingEnvelope, or NoHand
  armed,       \* undoHand while undoArmed, or NoHand
  ring,        \* confirmTimer.current, or 0; the progress ring and Cancel are shown
  holds,       \* intervals that run: number of the press, data and edited of its render
  sheet,       \* the confirmation that is shown: "none", "series" or "end"
  panel,       \* of a virtual table: dealing, awaiting, shown (optimisticDealing), tapped (forceTapped)
  presses, series, fixes, deals,
  saved,       \* history: presses that saved a result, in order
  overtaken,   \* history: presses whose interval ran when the button was pressed again
  moved        \* history: the last hand is another one than when Undo was armed

saveVars == <<hands, input, edited, ring, holds, saved, overtaken>>
counters == <<presses, series, fixes, deals>>
shellVars == <<virtual, saveVars, ended, armed, sheet, panel, counters, moved>>

Idle == [dealing |-> FALSE, awaiting |-> "trigger", shown |-> FALSE, tapped |-> FALSE]

ShellInit ==
  /\ virtual \in BOOLEAN
  /\ hands = <<>> /\ input = Nothing /\ ended = FALSE
  /\ edited = NoHand /\ armed = NoHand
  /\ ring = 0 /\ holds = {} /\ sheet = "none"
  /\ panel = Idle
  /\ presses = 0 /\ series = 1 /\ fixes = 0 /\ deals = 0
  /\ saved = <<>> /\ overtaken = {} /\ moved = FALSE

\* The service refuses what comes after the end; a solo store does not look.
Accepted == ended => Solo

-----------------------------------------------------------------------------
(* The store *)

Ids(hs) == {hs[i].id : i \in DOMAIN hs}

\* record, and startNewSeries of an autoSeries
Record(press, d) ==
  /\ hands' = IF ~Accepted THEN hands ELSE IF d \in EndsSeries THEN <<>> ELSE Append(hands, [id |-> press, data |-> d])
  /\ input' = IF Accepted THEN Nothing ELSE input
  /\ saved' = IF Accepted THEN Append(saved, press) ELSE saved
  /\ moved' = TRUE

\* editResult: a result that is gone is not brought back.
EditResult(press, h, d) ==
  /\ hands' = IF Accepted THEN [i \in DOMAIN hands |-> IF hands[i].id = h THEN [hands[i] EXCEPT !.data = d] ELSE hands[i]]
              ELSE hands
  /\ saved' = IF Accepted THEN Append(saved, press) ELSE saved
  /\ input' \in {input, Nothing}   \* whether the clearing LIVE_INPUT has the form of the game
  /\ UNCHANGED moved

-----------------------------------------------------------------------------
(* Confirming *)

\* The module's view, and what it reports as complete.
EnterData(d) ==
  /\ ~virtual /\ ~ended /\ sheet = "none" /\ d # input
  /\ input' = d
  /\ UNCHANGED <<virtual, hands, edited, ring, holds, saved, overtaken, ended, armed, sheet, panel, counters, moved>>

\* executeConfirm of the render [data, edited]
Save(press, d, h) == IF h = NoHand THEN Record(press, d) ELSE EditResult(press, h, d)

\* Faulty variant: the reference is set to null, the interval is not cleared.
ClearedReference == holds

\* clearConfirmTimer stops the interval of the reference, and no other one.
Cleared == {h \in holds : h.press # ring}

\* Enter or the button, startConfirmDelay: nothing looks whether an interval already runs.
PressConfirm ==
  /\ ~virtual /\ input # Nothing /\ sheet = "none" /\ presses < MaxPresses
  /\ presses' = presses + 1
  /\ \/ /\ TRUE \in Delays
        /\ holds' = holds \cup {[press |-> presses + 1, data |-> input, edited |-> edited]}
        /\ ring' = presses + 1
        /\ overtaken' = overtaken \cup {h.press : h \in holds}
        /\ UNCHANGED <<hands, input, edited, saved, moved>>
     \/ /\ FALSE \in Delays
        /\ Save(presses + 1, input, edited)
        /\ edited' = NoHand
        /\ holds' = Cleared /\ ring' = 0
        /\ UNCHANGED overtaken
  /\ UNCHANGED <<virtual, ended, armed, sheet, panel, series, fixes, deals>>

\* The interval finds the delay over.
HoldOver(h) ==
  /\ Len(saved) < MaxPresses
  /\ Save(h.press, h.data, h.edited)
  /\ holds' = Cleared
  /\ ring' = 0
  /\ edited' = IF h.edited # NoHand THEN NoHand ELSE edited
  /\ UNCHANGED <<virtual, overtaken, ended, armed, sheet, panel, counters>>

\* The Cancel button beside the ring.
CancelHold ==
  /\ ring # 0
  /\ holds' = Cleared /\ ring' = 0
  /\ UNCHANGED <<virtual, hands, input, edited, saved, overtaken, ended, armed, sheet, panel, counters, moved>>

-----------------------------------------------------------------------------
(* Corrections *)

Fix == fixes < MaxFixes /\ fixes' = fixes + 1

\* Faulty variant: the second tap leaves the button armed.
DisarmedNever == armed
\* setUndoArmed(false) after the undo
Disarmed == NoHand

\* handleUndo: the first tap names the hand, the second one takes back the last.  The key Z does
\* it on a virtual table too, where the button is not shown.
TapUndo ==
  /\ edited = NoHand /\ hands # <<>> /\ sheet = "none"
  /\ \/ armed = NoHand /\ armed' = Len(hands) /\ moved' = FALSE /\ UNCHANGED <<hands, fixes>>
     \/ armed # NoHand /\ Fix /\ hands' = (IF Accepted THEN Front(hands) ELSE hands) /\ armed' = Disarmed /\ UNCHANGED moved
  /\ UNCHANGED <<virtual, input, edited, ring, holds, saved, overtaken, ended, sheet, panel, presses, series, deals>>

\* undoTimer, three seconds after the first tap
UndoTimesOut ==
  /\ armed # NoHand
  /\ armed' = NoHand
  /\ UNCHANGED <<virtual, saveVars, ended, sheet, panel, counters, moved>>

\* HistoryDialog: Edit, and Delete behind its own confirmation
BeginEdit(h) ==
  /\ ~ended /\ Fix
  /\ edited' = h
  /\ UNCHANGED <<virtual, hands, input, ring, holds, saved, overtaken, ended, armed, sheet, panel, presses, series, deals, moved>>

DeleteHand(i) ==
  /\ ~ended /\ Fix
  /\ hands' = RemoveAt(hands, i)
  /\ moved' = TRUE
  /\ UNCHANGED <<virtual, input, edited, ring, holds, saved, overtaken, ended, armed, sheet, panel, presses, series, deals>>

\* cancelEdit: an interval that was started for the edit goes on.
CancelEdit ==
  /\ edited # NoHand /\ ~ended
  /\ edited' = NoHand
  /\ input' \in {input, Nothing}
  /\ UNCHANGED <<virtual, hands, ring, holds, saved, overtaken, ended, armed, sheet, panel, counters, moved>>

\* handleQuickEdit, from the tiles of the module's view
QuickEdit(d) ==
  /\ edited # NoHand /\ ~ended /\ ~virtual
  /\ hands' = [i \in DOMAIN hands |-> IF hands[i].id = edited THEN [hands[i] EXCEPT !.data = d] ELSE hands[i]]
  /\ edited' = NoHand
  /\ UNCHANGED <<virtual, input, ring, holds, saved, overtaken, ended, armed, sheet, panel, counters, moved>>

-----------------------------------------------------------------------------
(* Series and session *)

\* The key N, which also works when the session has ended, and the menu
AskSeries ==
  /\ sheet = "none" /\ series < MaxSeries
  /\ sheet' = "series"
  /\ UNCHANGED <<virtual, saveVars, ended, armed, panel, counters, moved>>

AskEnd ==
  /\ sheet = "none" /\ ~ended
  /\ sheet' = "end"
  /\ UNCHANGED <<virtual, saveVars, ended, armed, panel, counters, moved>>

\* handleNewSeries and the End Session item, after the sheet
AnswerSheet(yes) ==
  /\ sheet # "none"
  /\ sheet' = "none"
  /\ \/ ~yes /\ UNCHANGED <<hands, input, ended, series, panel, moved>>
     \/ /\ yes /\ sheet = "series"
        /\ series' = series + 1
        /\ IF Accepted THEN hands' = <<>> /\ input' = Nothing ELSE UNCHANGED <<hands, input>>
        /\ moved' = TRUE
        /\ panel' = [panel EXCEPT !.awaiting = IF panel.dealing THEN @ ELSE "trigger"]
        /\ UNCHANGED ended
     \/ yes /\ sheet = "end" /\ ended' = TRUE /\ UNCHANGED <<hands, input, series, panel, moved>>
  /\ UNCHANGED <<virtual, edited, ring, holds, saved, overtaken, armed, presses, fixes, deals>>

-----------------------------------------------------------------------------
(* The buttons of a virtual table that deals cards *)

AwaitsAction == panel.awaiting = "action" /\ ~panel.dealing
ForceEnabled == AwaitsAction /\ ~panel.tapped

\* A request starts a deal unless one runs; the tapped button says "dealing" at once.
Request == [panel EXCEPT !.shown = TRUE, !.dealing = TRUE]

\* Also while a player is awaited: the button is disabled only for a player whom turn() names,
\* and no game names one then.
TapDeal ==
  /\ virtual /\ ~ended /\ deals < MaxDeals
  /\ panel' = Request /\ deals' = deals + 1
  /\ UNCHANGED <<virtual, saveVars, ended, armed, sheet, presses, series, fixes, moved>>

TapForce ==
  /\ virtual /\ ~ended /\ ForceEnabled /\ deals < MaxDeals
  /\ panel' = [Request EXCEPT !.tapped = TRUE] /\ deals' = deals + 1
  /\ UNCHANGED <<virtual, saveVars, ended, armed, sheet, presses, series, fixes, moved>>

\* The deal ends with a result or waits for a player again.  A shoe has no VIRTUAL_PENDING, whose
\* end alone gives the force button back.
DealOver(next, d) ==
  /\ virtual /\ panel.dealing
  /\ panel' = [panel EXCEPT !.dealing = FALSE, !.awaiting = next, !.shown = @ /\ next = "action"]
  /\ \/ next = "action" /\ UNCHANGED <<hands, moved>>
     \/ next = "trigger" /\ hands' = Append(hands, [id |-> MaxPresses + deals, data |-> d]) /\ moved' = TRUE
  /\ UNCHANGED <<virtual, input, edited, ring, holds, saved, overtaken, ended, armed, sheet, counters>>

DealEnds == \E d \in Data, next \in {"trigger", "action"} : DealOver(next, d)

\* optimisticTimerRef, eight seconds after the tap
IndicatorTimesOut ==
  /\ panel.shown
  /\ panel' = [panel EXCEPT !.shown = FALSE]
  /\ UNCHANGED <<virtual, saveVars, ended, armed, sheet, counters, moved>>

-----------------------------------------------------------------------------

Physical ==
  \/ \E d \in Data : EnterData(d) \/ QuickEdit(d)
  \/ PressConfirm \/ CancelHold \/ TapUndo \/ CancelEdit
  \/ \E h \in holds : HoldOver(h)
  \/ UndoTimesOut
  \/ \E i \in DOMAIN hands : BeginEdit(hands[i].id) \/ DeleteHand(i)

OnPanel ==
  \/ TapDeal \/ TapForce \/ IndicatorTimesOut
  \/ DealEnds

ShellNext ==
  \/ Physical \/ OnPanel \/ AskSeries \/ AskEnd
  \/ \E yes \in BOOLEAN : AnswerSheet(yes)

\* Timers fire and deals end; nobody has to tap, answer or play.
ShellFairness ==
  /\ WF_shellVars(\E h \in holds : HoldOver(h)) /\ WF_shellVars(UndoTimesOut)
  /\ WF_shellVars(IndicatorTimesOut) /\ WF_shellVars(DealEnds)

ShellSpec == ShellInit /\ [][ShellNext]_shellVars
FairShellSpec == ShellSpec /\ ShellFairness

-----------------------------------------------------------------------------
(* Properties *)

\* State of the page.
ShellTypeOK ==
  /\ \A i \in DOMAIN hands : hands[i].id \in 1 .. MaxPresses + deals /\ hands[i].data \in Data
  /\ input \in Data \cup {Nothing} /\ edited \in 0 .. MaxPresses + deals /\ ring \in 0 .. presses
  /\ holds \subseteq [press : 1 .. presses, data : Data, edited : 0 .. MaxPresses + deals]
  /\ armed \in Nat /\ ended \in BOOLEAN /\ sheet \in {"none", "series", "end"}

\* A press saves once, and puts one hand into the series, however the input, the edit, the delay,
\* the series and the history change while the button is held.  Only the interval of a press after
\* which the button was pressed again, which nothing stops, saves as often as it ticks.
OncePerPress ==
  /\ \A i, j \in DOMAIN saved : saved[i] = saved[j] => i = j \/ saved[i] \in overtaken
  /\ \A i, j \in DOMAIN hands : hands[i].id = hands[j].id => i = j \/ hands[i].id \in overtaken

\* "Tap again to undo Hand 42" (SPEC-PLATFORM-v2.md:282): the hand that is taken back is the one
\* that the button names, unless a hand was recorded or deleted, or a series started, in between.
UndoTakesTheNamed ==
  [][Len(hands') < Len(hands) /\ IsPrefix(hands', hands) /\ fixes' # fixes /\ sheet = sheet' /\ moved' = moved
       => armed = Len(hands) \/ moved]_shellVars

\* The dealer "can always Force the trigger" (SPEC.md:372): while a player is awaited, the button
\* is there or comes back.
ForceComesBack == [](AwaitsAction /\ ~ended => <>(ForceEnabled \/ ~AwaitsAction \/ ended))

\* After SESSION_ENDED "no further events are accepted" (SPEC.md:346).
EndIsFinal == [][ended => UNCHANGED hands]_shellVars
================================================================================
