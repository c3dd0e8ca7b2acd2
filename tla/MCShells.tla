------------------------------- MODULE MCShells --------------------------------
(* Small instances of the pages.  A run has one kind of page; the variables   *)
(* of the others stay as they are at the start.                               *)
EXTENDS DealerShell, SoloTable, SoloDealer, PlayerShell, Stage

VARIABLE page

Meet(entries, patience, n, a, v, k) ==
  [entries |-> entries, patience |-> patience, events |-> n, asks |-> a, visits |-> v, sent |-> k]
FewMeetings ==
  {Meet({"live"}, TRUE, 5, 1, 2, 1), Meet({"off", "on"}, TRUE, 4, 1, 2, 1),
   Meet({}, FALSE, 4, 2, 2, 1), Meet({"play", "ended"}, FALSE, 3, 2, 2, 0),
   Meet({"live", "play"}, TRUE, 4, 0, 2, 0)}

\* Dice are thrown after a pause; two pauses stand for the cards of a hand of baccarat, with which
\* or instead of which the shoe may be changed.
StepOf(waits, result, rollover, next) == [waits |-> waits, result |-> result, rollover |-> rollover, next |-> next]
SoloGames == {"dice", "shoe"}
SoloSteps ==
  [g \in SoloGames |-> [a \in {"none", "action", "trigger"} |->
     IF g = "dice" THEN {StepOf(1, TRUE, FALSE, "none")}
     ELSE {StepOf(2, TRUE, FALSE, "none"), StepOf(2, TRUE, TRUE, "trigger"), StepOf(0, FALSE, TRUE, "trigger")}]]

Preset(layered, blocks, length) == [layered |-> layered, blocks |-> blocks, length |-> length]
FewShows ==
  [result |-> {<<>>, <<Preset(TRUE, FALSE, 2), Preset(FALSE, TRUE, 3), Preset(FALSE, FALSE, 2), Preset(FALSE, FALSE, 2)>>},
   undone |-> {<<>>}, bets |-> {}, series |-> {<<Preset(FALSE, FALSE, 2)>>},
   end |-> {<<Preset(FALSE, TRUE, 3), Preset(FALSE, FALSE, 1)>>}, preview |-> {<<Preset(FALSE, TRUE, 2)>>}]
TwoModes == {"display", "phone"}

pageVars == <<page, shellVars, soloVars, soloDealerVars, playerVars, stageVars>>

PagesInit ==
  /\ page \in {"dealer", "solo", "virtual", "player", "stage"}
  /\ ShellInit /\ (page # "dealer" => virtual)
  /\ SoloDealerInit /\ (page # "virtual" => soloGame = "dice")
  /\ SoloInit /\ (page # "solo" => meeting = CHOOSE m \in Meetings : TRUE)
  /\ StageInit /\ (page # "stage" => mode = "display")
  /\ PlayerInit

PagesNext ==
  \/ page = "dealer" /\ ShellNext /\ UNCHANGED <<page, soloVars, soloDealerVars, playerVars, stageVars>>
  \/ page = "solo" /\ SoloNext /\ UNCHANGED <<page, shellVars, soloDealerVars, playerVars, stageVars>>
  \/ page = "virtual" /\ SoloDealerNext /\ UNCHANGED <<page, shellVars, soloVars, playerVars, stageVars>>
  \/ page = "player" /\ PlayerNext /\ UNCHANGED <<page, shellVars, soloVars, soloDealerVars, stageVars>>
  \/ page = "stage" /\ StageNext /\ UNCHANGED <<page, shellVars, soloVars, soloDealerVars, playerVars>>

PagesSpec == PagesInit /\ [][PagesNext]_pageVars

\* State of the pages.
PagesTypeOK == ShellTypeOK /\ SoloTypeOK /\ SoloDealerOK /\ PlayerTypeOK /\ StageTypeOK
================================================================================
