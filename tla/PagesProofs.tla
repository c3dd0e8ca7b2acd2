------------------------------ MODULE PagesProofs ------------------------------
(***************************************************************************)
(* Proofs about the pages and about the solo table, which one page keeps.   *)
(*                                                                         *)
(* The dealer's page, for any results, series, corrections, deals and       *)
(* presses of the button, however often it is pressed again while it is     *)
(* held: a press that no other one has overtaken saves once, and Undo takes *)
(* back the hand that it names.                                             *)
(*                                                                         *)
(* The display, for any events, presets, loads and timers: the board is     *)
(* held only under a timeline that will release it within the limit, whose  *)
(* parts are in order, and the leaderboard of the end stays.                *)
(*                                                                         *)
(* The virtual dealer of a solo table, for any games and outcomes of their  *)
(* steps, and however often the page is reloaded between two writes of the  *)
(* browser's database.  The rows and those that the running deal will add   *)
(* are one plan: every seed is committed in it before it is used, and each  *)
(* dealer that is saved or on its way to the database has a series that the *)
(* plan starts with that dealer's seed only, so that whichever of them a    *)
(* reload finds agrees with whichever rows it finds.                        *)
(*                                                                         *)
(* The channel of a solo table, for any tabs, mirrors and tokens, any       *)
(* events, and any number of pages that open, close, give up or are loaded  *)
(* again: the log and its copies are in the order of their numbers, and a   *)
(* follower whose messages are through shows the log.                       *)
(***************************************************************************)
EXTENDS DealerShell, Stage, SoloDealer, SoloTable, DataLemmas, SequenceTheorems, WellFoundedInduction, TLAPS

Hand == [id : Nat, data : Data]
Hold == [press : Nat, data : Data, edited : Nat]
Panel == [dealing : BOOLEAN, awaiting : {"trigger", "action"}, shown : BOOLEAN, tapped : BOOLEAN]

\* Types, with the ids of hands and presses as numbers.
ShellShape ==
  /\ hands \in Seq(Hand) /\ input \in Data \cup {Nothing} /\ edited \in Nat /\ armed \in Nat
  /\ presses \in 0 .. MaxPresses /\ deals \in Nat /\ moved \in BOOLEAN /\ panel \in Panel
  /\ saved \in Seq(Nat) /\ holds \subseteq Hold /\ ring \in Nat

\* Only presses that were made have saved, each once unless it was overtaken.  Of the presses
\* that are held, the one that was not overtaken is that of the ring, and has not saved.
PressInv ==
  /\ overtaken \subseteq 1 .. presses
  /\ \A k \in DOMAIN saved : saved[k] \in 1 .. presses
  /\ \A i, j \in DOMAIN saved : saved[i] = saved[j] => i = j \/ saved[i] \in overtaken
  /\ \A h \in holds : h.press \in 1 .. presses
  /\ \A h \in holds : h.press \notin overtaken => h.press = ring /\ \A k \in DOMAIN saved : saved[k] # h.press

\* A hand was saved by a press or comes from a deal, and the deal that runs has none yet.
Origin(id, s, n) == \/ \E k \in DOMAIN s : s[k] = id
                    \/ id \in MaxPresses + 1 .. MaxPresses + n
HandInv ==
  /\ \A i, j \in DOMAIN hands : hands[i].id = hands[j].id => i = j \/ hands[i].id \in overtaken
  /\ \A i \in DOMAIN hands : Origin(hands[i].id, saved, deals)
  /\ panel.dealing => deals > 0 /\ \A i \in DOMAIN hands : hands[i].id # MaxPresses + deals

\* The button names the last hand until the last hand is another one.
UndoInv == armed # NoHand /\ ~moved => armed = Len(hands)

ShellInv == ShellShape /\ PressInv /\ HandInv /\ UndoInv

-----------------------------------------------------------------------------
(* Sequences of hands *)

\* One more entry.
LEMMA AppendParts ==
  ASSUME NEW S, NEW q \in Seq(S), NEW e \in S
  PROVE  /\ Append(q, e) \in Seq(S)
         /\ \A i \in DOMAIN Append(q, e) :
              \/ i \in DOMAIN q /\ Append(q, e)[i] = q[i]
              \/ i \notin DOMAIN q /\ i = Len(q) + 1 /\ Append(q, e)[i] = e
         /\ \A i \in DOMAIN q : i \in DOMAIN Append(q, e) /\ Append(q, e)[i] = q[i]
         /\ Len(q) + 1 \in DOMAIN Append(q, e) /\ Append(q, e)[Len(q) + 1] = e
<1> DEFINE r == Append(q, e)
<1>1. /\ Len(q) \in Nat /\ DOMAIN q = 1 .. Len(q)
      /\ r \in Seq(S) /\ DOMAIN r = 1 .. Len(q) + 1
      /\ r[Len(q) + 1] = e /\ \A i \in 1 .. Len(q) : r[i] = q[i]
  OBVIOUS
<1> HIDE DEF r
<1>2. PICK n \in Nat : n = Len(q)
  BY <1>1
<1>3. DOMAIN q = 1 .. n /\ DOMAIN r = 1 .. n + 1 /\ r[n + 1] = e /\ \A i \in 1 .. n : r[i] = q[i]
  BY <1>1, <1>2
<1>4. /\ \A i \in 1 .. n + 1 : i \in 1 .. n \/ (i = n + 1 /\ i \notin 1 .. n)
      /\ \A i \in 1 .. n : i \in 1 .. n + 1
      /\ n + 1 \in 1 .. n + 1
  OBVIOUS
<1>5. ASSUME NEW i \in DOMAIN r
      PROVE  \/ i \in DOMAIN q /\ r[i] = q[i]
             \/ i \notin DOMAIN q /\ i = n + 1 /\ r[i] = e
  <2>1. CASE i \in 1 .. n
    BY <1>3, <2>1
  <2>2. CASE i = n + 1 /\ i \notin 1 .. n
    BY <1>3, <2>2
  <2> QED BY <1>3, <1>4, <2>1, <2>2
<1>6. /\ \A i \in DOMAIN q : i \in DOMAIN r /\ r[i] = q[i]
      /\ n + 1 \in DOMAIN r /\ r[n + 1] = e
  BY <1>3, <1>4
<1> QED BY <1>1, <1>2, <1>5, <1>6 DEF r

\* The last hand is taken back.
LEMMA FrontHands ==
  ASSUME NEW q \in Seq(Hand), q # <<>>
  PROVE  Front(q) \in Seq(Hand) /\ \A i \in DOMAIN Front(q) : i \in DOMAIN q /\ Front(q)[i] = q[i]
<1>1. Len(q) \in Nat \ {0} /\ DOMAIN q = 1 .. Len(q) /\ \A i \in 1 .. Len(q) : q[i] \in Hand
  OBVIOUS
<1>7. Len(q) - 1 \in Nat
  BY <1>1
<1>2. PICK n \in Nat : n = Len(q) - 1
  BY <1>7
<1>6. \A i \in 1 .. n : i \in 1 .. Len(q)
  BY <1>1, <1>2
<1>3. \A i \in 1 .. n : i \in DOMAIN q /\ q[i] \in Hand
  BY <1>1, <1>6
<1> DEFINE r == SubSeq(q, 1, n)
<1>4. r \in Seq(Hand) /\ DOMAIN r = 1 .. n /\ \A i \in 1 .. n : r[i] = q[i]
  BY <1>3, SubSeqProperties
<1> HIDE DEF r
<1>5. \A i \in DOMAIN r : i \in DOMAIN q /\ r[i] = q[i]
  BY <1>3, <1>4
<1> QED BY <1>2, <1>4, <1>5 DEF Front, r

\* A hand is deleted: those before it stay, those after it move down by one.
LEMMA RemoveHand ==
  ASSUME NEW q \in Seq(Hand), NEW n \in DOMAIN q, NEW r, r = RemoveAt(q, n)
  PROVE  /\ r \in Seq(Hand)
         /\ \A i \in DOMAIN r : /\ i < n => i \in DOMAIN q /\ r[i] = q[i]
                                /\ i >= n => i + 1 \in DOMAIN q /\ r[i] = q[i + 1]
<1>1. Len(q) \in Nat /\ n \in 1 .. Len(q) /\ DOMAIN q = 1 .. Len(q) /\ \A i \in 1 .. Len(q) : q[i] \in Hand
  OBVIOUS
<1>0. n - 1 \in Int /\ n + 1 \in Int /\ Len(q) \in Int
  BY <1>1
<1>2. PICK a \in Int, b \in Int, c \in Int : a = n - 1 /\ b = n + 1 /\ c = Len(q)
  BY <1>0
<1>3. /\ SubSeq(q, 1, a) \in Seq(Hand) /\ Len(SubSeq(q, 1, a)) = a
      /\ \A i \in 1 .. a : SubSeq(q, 1, a)[i] = q[i]
  <2>1. \A i \in 1 .. a : q[i] \in Hand
    BY <1>1, <1>2
  <2>2. /\ SubSeq(q, 1, a) \in Seq(Hand) /\ Len(SubSeq(q, 1, a)) = IF 1 <= a THEN a - 1 + 1 ELSE 0
        /\ \A i \in 1 .. a - 1 + 1 : SubSeq(q, 1, a)[i] = q[1 + i - 1]
    BY <2>1, <1>2, SubSeqProperties
  <2> QED BY <2>2, <1>1, <1>2
<1>4. /\ SubSeq(q, b, c) \in Seq(Hand) /\ Len(SubSeq(q, b, c)) = c - n
      /\ \A i \in 1 .. c - n : SubSeq(q, b, c)[i] = q[n + i]
  <2>1. \A i \in b .. c : q[i] \in Hand
    BY <1>1, <1>2
  <2>2. /\ SubSeq(q, b, c) \in Seq(Hand) /\ Len(SubSeq(q, b, c)) = IF b <= c THEN c - b + 1 ELSE 0
        /\ \A i \in 1 .. c - b + 1 : SubSeq(q, b, c)[i] = q[b + i - 1]
    BY <2>1, <1>2, SubSeqProperties
  <2>3. n \in Nat /\ c \in Nat /\ n <= c /\ b = n + 1
    BY <1>1, <1>2
  <2>4. /\ (IF b <= c THEN c - b + 1 ELSE 0) = c - n /\ c - b + 1 = c - n
        /\ \A i \in 1 .. c - n : b + i - 1 = n + i
    BY <2>3
  <2> QED BY <2>2, <2>4
<1>5. PICK f \in Seq(Hand), g \in Seq(Hand) : f = SubSeq(q, 1, a) /\ g = SubSeq(q, b, c) /\ r = f \o g
  BY <1>2, <1>3, <1>4 DEF RemoveAt
<1>6. /\ Len(f) = n - 1 /\ Len(g) = c - n /\ c \in Nat /\ c = Len(q)
      /\ \A i \in 1 .. n - 1 : f[i] = q[i]
      /\ \A i \in 1 .. c - n : g[i] = q[n + i]
  BY <1>1, <1>2, <1>3, <1>4, <1>5
<1>7. /\ r \in Seq(Hand) /\ Len(r) = c - 1 /\ DOMAIN r = 1 .. c - 1
      /\ \A i \in 1 .. c - 1 : r[i] = IF i <= n - 1 THEN f[i] ELSE g[i - (n - 1)]
  <2>1. /\ r \in Seq(Hand) /\ Len(r) = Len(f) + Len(g)
        /\ \A i \in 1 .. Len(f) + Len(g) : r[i] = IF i <= Len(f) THEN f[i] ELSE g[i - Len(f)]
    BY <1>5, ConcatProperties
  <2>2. Len(f) + Len(g) = c - 1
    BY <1>1, <1>6
  <2> QED BY <2>1, <2>2, <1>6, LenProperties
<1>8. ASSUME NEW i \in DOMAIN r, i < n
      PROVE  i \in DOMAIN q /\ r[i] = q[i]
  <2>1. i \in 1 .. c - 1 /\ i <= n - 1 /\ i \in 1 .. n - 1 /\ i \in 1 .. c
    BY <1>1, <1>6, <1>7, <1>8
  <2>2. r[i] = f[i]
    BY <1>7, <2>1
  <2> QED BY <1>1, <1>6, <2>1, <2>2
<1>9. ASSUME NEW i \in DOMAIN r, i >= n
      PROVE  i + 1 \in DOMAIN q /\ r[i] = q[i + 1]
  <2>1. i - (n - 1) \in 1 .. c - n /\ n + (i - (n - 1)) = i + 1 /\ i + 1 \in 1 .. c
    BY <1>1, <1>6, <1>7, <1>9
  <2>2. r[i] = g[i - (n - 1)]
    BY <1>1, <1>7, <1>9
  <2> QED BY <1>1, <1>6, <2>1, <2>2
<1> QED BY <1>7, <1>8, <1>9

-----------------------------------------------------------------------------
(* What the steps do to the parts of the invariant *)

\* Hands that are left, in any order, with the ids they had, still have their origin.
LEMMA FewerHands ==
  ASSUME HandInv, NEW f, \A i \in DOMAIN hands' : f[i] \in DOMAIN hands /\ hands'[i].id = hands[f[i]].id,
         \A i, j \in DOMAIN hands' : f[i] = f[j] => i = j,
         \A k \in DOMAIN saved : \E l \in DOMAIN saved' : saved'[l] = saved[k],
         UNCHANGED <<deals, overtaken>>, panel'.dealing => panel.dealing
  PROVE  HandInv'
<1>1. \A i, j \in DOMAIN hands' : hands'[i].id = hands'[j].id => i = j \/ hands'[i].id \in overtaken'
  BY DEF HandInv
<1>2. ASSUME NEW i \in DOMAIN hands' PROVE Origin(hands'[i].id, saved', deals')
  <2>1. Origin(hands[f[i]].id, saved, deals) /\ hands'[i].id = hands[f[i]].id
    BY DEF HandInv
  <2> QED BY <2>1 DEF Origin
<1>3. panel'.dealing => deals' > 0 /\ \A i \in DOMAIN hands' : hands'[i].id # MaxPresses + deals'
  BY DEF HandInv
<1> QED BY <1>1, <1>2, <1>3 DEF HandInv

\* ... in particular when nothing happens to them,
LEMMA SameHands ==
  ASSUME HandInv, hands' = hands, UNCHANGED <<deals, panel, overtaken>>,
         \A k \in DOMAIN saved : \E l \in DOMAIN saved' : saved'[l] = saved[k]
  PROVE  HandInv'
BY DEF HandInv, Origin

\* ... or there is none left.
LEMMA NoHands ==
  ASSUME HandInv, hands' = <<>>, deals' = deals, panel'.dealing => panel.dealing
  PROVE  HandInv'
<1>1. DOMAIN hands' = {}
  OBVIOUS
<1> QED BY <1>1 DEF HandInv

\* A correction changes the data of hands.
LEMMA CorrectedHands ==
  ASSUME hands \in Seq(Hand), NEW e \in Nat, NEW d \in Data,
         hands' = [i \in DOMAIN hands |-> IF hands[i].id = e THEN [hands[i] EXCEPT !.data = d] ELSE hands[i]]
  PROVE  /\ hands' \in Seq(Hand) /\ Len(hands') = Len(hands) /\ DOMAIN hands' = DOMAIN hands
         /\ \A i \in DOMAIN hands : hands'[i].id = hands[i].id
<1>1. Len(hands) \in Nat /\ DOMAIN hands = 1 .. Len(hands) /\ \A i \in DOMAIN hands : hands[i] \in Hand
  OBVIOUS
<1>2. ASSUME NEW i \in DOMAIN hands
      PROVE  hands'[i] \in Hand /\ hands'[i].id = hands[i].id
  BY <1>1, <1>2 DEF Hand
<1>3. DOMAIN hands' = 1 .. Len(hands) /\ hands' = [i \in DOMAIN hands' |-> hands'[i]]
  BY <1>1
<1>4. hands' \in Seq(Hand) /\ Len(hands') = Len(hands)
  BY <1>1, <1>2, <1>3
<1> QED BY <1>1, <1>2, <1>3, <1>4

\* Saving: the press is added to those that have saved, and the hands, if the event is
\* accepted, get one more, are emptied for the next series, or one of them is corrected.
LEMMA SaveKeeps ==
  ASSUME ShellInv, NEW press \in 1 .. presses', presses' \in 0 .. MaxPresses, presses <= presses',
         press \notin overtaken => \A k \in DOMAIN saved : saved[k] # press,
         NEW d \in Data, NEW h \in Nat, Save(press, d, h), UNCHANGED <<deals, panel, armed, overtaken>>,
         holds' = Cleared
  PROVE  /\ hands' \in Seq(Hand) /\ saved' \in Seq(Nat) /\ moved' \in BOOLEAN
         /\ input' \in Data \cup {Nothing}
         /\ PressInv' /\ HandInv' /\ UndoInv'
<1>0. /\ press \in Nat /\ saved \in Seq(Nat) /\ hands \in Seq(Hand) /\ input \in Data \cup {Nothing}
      /\ moved \in BOOLEAN /\ presses \in Nat /\ presses' \in Nat /\ press <= MaxPresses /\ MaxPresses \in Nat
      /\ deals \in Nat
  BY ShellAssumption DEF ShellInv, ShellShape
<1>1. /\ saved' \in Seq(Nat) /\ PressInv'
      /\ \A k \in DOMAIN saved : \E l \in DOMAIN saved' : saved'[l] = saved[k]
      /\ saved' # saved => \E l \in DOMAIN saved' : saved'[l] = press
  <2>0. /\ overtaken' \subseteq 1 .. presses'
        /\ \A h1 \in holds' : h1.press \in overtaken' /\ h1.press \in 1 .. presses'
    BY <1>0 DEF ShellInv, PressInv, Cleared
  <2>1. CASE saved' = saved
    <3>1. /\ \A k \in DOMAIN saved' : saved'[k] \in 1 .. presses'
          /\ \A i, j \in DOMAIN saved' : saved'[i] = saved'[j] => i = j \/ saved'[i] \in overtaken'
      BY <1>0, <2>1 DEF ShellInv, PressInv
    <3> QED BY <1>0, <2>0, <2>1, <3>1 DEF PressInv
  <2>2. CASE saved' = Append(saved, press)
    <3> DEFINE r == Append(saved, press)
    <3>1. /\ r \in Seq(Nat)
          /\ \A i \in DOMAIN r : \/ i \in DOMAIN saved /\ r[i] = saved[i]
                                 \/ i \notin DOMAIN saved /\ i = Len(saved) + 1 /\ r[i] = press
          /\ \A i \in DOMAIN saved : i \in DOMAIN r /\ r[i] = saved[i]
          /\ Len(saved) + 1 \in DOMAIN r /\ r[Len(saved) + 1] = press
      BY <1>0, AppendParts
    <3> HIDE DEF r
    <3>2. \A i, j \in DOMAIN r : r[i] = r[j] => i = j \/ r[i] \in overtaken
      <4>1. \A i, j \in DOMAIN saved : saved[i] = saved[j] => i = j \/ saved[i] \in overtaken
        BY DEF ShellInv, PressInv
      <4>2. press \in overtaken \/ \A k \in DOMAIN saved : saved[k] # press
        OBVIOUS
      <4> QED BY <3>1, <4>1, <4>2
    <3>3. \A k \in DOMAIN r : r[k] \in 1 .. presses'
      BY <1>0, <3>1 DEF ShellInv, PressInv
    <3>4. saved' = r
      BY <2>2 DEF r
    <3>5. overtaken' = overtaken
      OBVIOUS
    <3> QED BY <2>0, <3>1, <3>2, <3>3, <3>4, <3>5 DEF PressInv
  <2>3. saved' = saved \/ saved' = Append(saved, press)
    BY DEF Save, Record, EditResult
  <2> QED BY <2>1, <2>2, <2>3
<1>2. input' \in Data \cup {Nothing}
  BY <1>0 DEF Save, Record, EditResult
<1>3. CASE h # NoHand \/ ~Accepted
  <2>1. CASE hands' = hands
    <3>1. UndoInv' /\ moved' \in BOOLEAN
      BY <1>0, <2>1 DEF Save, Record, EditResult, ShellInv, UndoInv
    <3> QED BY <1>0, <1>1, <1>2, <2>1, <3>1, SameHands DEF ShellInv
  <2>2. CASE h # NoHand /\ hands' # hands
    <3>1. /\ hands' = [i \in DOMAIN hands |-> IF hands[i].id = h THEN [hands[i] EXCEPT !.data = d] ELSE hands[i]]
          /\ moved' = moved
      BY <2>2 DEF Save, EditResult
    <3>2. /\ hands' \in Seq(Hand) /\ Len(hands') = Len(hands) /\ DOMAIN hands' = DOMAIN hands
          /\ \A i \in DOMAIN hands : hands'[i].id = hands[i].id
      BY <1>0, <3>1, CorrectedHands
    <3>3. UndoInv' /\ moved' \in BOOLEAN
      BY <1>0, <3>1, <3>2 DEF ShellInv, UndoInv
    <3>4. HandInv'
      BY <1>1, <3>2 DEF ShellInv, HandInv, Origin
    <3> QED BY <1>1, <1>2, <3>2, <3>3, <3>4
  <2>3. hands' = hands \/ h # NoHand
    BY <1>3 DEF Save, Record
  <2> QED BY <2>1, <2>2, <2>3
<1>4. CASE h = NoHand /\ Accepted
  <2>1. /\ hands' = IF d \in EndsSeries THEN <<>> ELSE Append(hands, [id |-> press, data |-> d])
        /\ saved' = Append(saved, press) /\ moved' = TRUE
    BY <1>4 DEF Save, Record
  <2>2. moved' \in BOOLEAN /\ UndoInv'
    BY <2>1 DEF UndoInv
  <2>3. CASE d \in EndsSeries
    <3>1. hands' = <<>> /\ <<>> \in Seq(Hand)
      BY <2>1, <2>3
    <3>2. HandInv'
      BY <3>1, NoHands DEF ShellInv
    <3> QED BY <1>1, <1>2, <2>2, <3>1, <3>2
  <2>4. CASE d \notin EndsSeries
    <3> DEFINE new == [id |-> press, data |-> d]
               r == Append(hands, new)
    <3>1. new \in Hand /\ new.id = press
      BY <1>0 DEF Hand
    <3> HIDE DEF new
    <3>2. /\ r \in Seq(Hand)
          /\ \A i \in DOMAIN r : \/ i \in DOMAIN hands /\ r[i] = hands[i]
                                 \/ i \notin DOMAIN hands /\ i = Len(hands) + 1 /\ r[i] = new
      BY <1>0, <3>1, AppendParts
    <3> HIDE DEF r
    <3>3. hands' = r
      BY <2>1, <2>4 DEF r, new
    <3>4. \A i \in DOMAIN hands : hands[i].id # press \/ press \in overtaken
      <4> SUFFICES ASSUME NEW i \in DOMAIN hands, press \notin overtaken PROVE hands[i].id # press
        OBVIOUS
      <4>1. Origin(hands[i].id, saved, deals)
        BY DEF ShellInv, HandInv
      <4>2. press \notin MaxPresses + 1 .. MaxPresses + deals
        BY <1>0
      <4> QED BY <4>1, <4>2 DEF Origin
    <3>5. \A i, j \in DOMAIN r : r[i].id = r[j].id => i = j \/ r[i].id \in overtaken
      BY <3>1, <3>2, <3>4 DEF ShellInv, HandInv
    <3>6. \E l \in DOMAIN saved' : saved'[l] = press
      <4>1. saved' # saved
        BY <1>0, <2>1
      <4> QED BY <1>1, <4>1
    <3>7. \A i \in DOMAIN r : Origin(r[i].id, saved', deals')
      <4> SUFFICES ASSUME NEW i \in DOMAIN r PROVE Origin(r[i].id, saved', deals')
        OBVIOUS
      <4>1. CASE i \in DOMAIN hands /\ r[i] = hands[i]
        <5>1. Origin(r[i].id, saved, deals)
          BY <4>1 DEF ShellInv, HandInv
        <5> QED BY <1>1, <5>1 DEF Origin
      <4>2. CASE r[i].id = press
        BY <3>6, <4>2 DEF Origin
      <4> QED BY <3>1, <3>2, <4>1, <4>2
    <3>8. panel.dealing => deals > 0 /\ \A i \in DOMAIN r : r[i].id # MaxPresses + deals
      <4>1. panel.dealing => deals > 0 /\ press # MaxPresses + deals
        BY <1>0 DEF ShellInv, HandInv
      <4> QED BY <3>1, <3>2, <4>1 DEF ShellInv, HandInv
    <3>9. HandInv'
      BY <3>3, <3>5, <3>7, <3>8 DEF HandInv
    <3> QED BY <1>1, <1>2, <2>2, <3>2, <3>3, <3>9
  <2> QED BY <2>3, <2>4
<1> QED BY <1>3, <1>4

\* Steps that leave the hands and what was saved alone.
LEMMA QuietKeeps ==
  ASSUME ShellInv, UNCHANGED <<hands, saved, overtaken, deals, presses, moved>>,
         armed' \in {armed, NoHand}, (holds' = Cleared /\ ring' = 0) \/ UNCHANGED <<holds, ring>>,
         panel' \in Panel, panel'.dealing => panel.dealing,
         input' \in Data \cup {Nothing}, edited' \in Nat
  PROVE  ShellInv'
<1>0. ring' \in Nat /\ holds' \subseteq holds
  BY DEF ShellInv, ShellShape, Cleared
<1>1. ShellShape'
  BY <1>0 DEF ShellInv, ShellShape, NoHand
<1>2. PressInv'
  BY <1>0 DEF ShellInv, PressInv, Cleared
<1>3. HandInv'
  BY DEF ShellInv, HandInv
<1>4. UndoInv'
  BY DEF ShellInv, UndoInv
<1> QED BY <1>1, <1>2, <1>3, <1>4 DEF ShellInv

LEMMA PressKeeps ==
  ASSUME ShellInv, PressConfirm
  PROVE  ShellInv'
<1>0. /\ presses \in Nat /\ presses + 1 \in 1 .. MaxPresses /\ presses' = presses + 1
      /\ input \in Data /\ edited \in Nat /\ saved \in Seq(Nat)
      /\ \A k \in DOMAIN saved : saved[k] # presses + 1
      /\ UNCHANGED <<panel, deals, armed>>
  <2>1. \A k \in DOMAIN saved : saved[k] \in 1 .. presses
    BY DEF ShellInv, PressInv
  <2>2. presses \in 0 .. MaxPresses /\ presses < MaxPresses /\ MaxPresses \in Nat
    BY ShellAssumption DEF PressConfirm, ShellInv, ShellShape
  <2>3. \A k \in DOMAIN saved : saved[k] # presses + 1
    BY <2>1, <2>2
  <2> QED BY <2>2, <2>3, ShellAssumption DEF PressConfirm, ShellInv, ShellShape
<1>1. CASE /\ holds' = holds \cup {[press |-> presses + 1, data |-> input, edited |-> edited]}
           /\ ring' = presses + 1
           /\ overtaken' = overtaken \cup {h.press : h \in holds}
           /\ UNCHANGED <<hands, input, edited, saved, moved>>
  <2>1. \A h \in holds' : /\ h \in Hold
                          /\ h.press = presses + 1 \/ (h.press \in overtaken' /\ h.press \in 1 .. presses)
    <3>1. holds \subseteq Hold /\ \A h \in holds : h.press \in 1 .. presses
      BY DEF ShellInv, ShellShape, PressInv
    <3> QED BY <1>0, <1>1, <3>1 DEF Hold
  <2>2. ShellShape'
    BY <1>0, <1>1, <2>1 DEF ShellInv, ShellShape
  <2>3. PressInv'
    <3>1. /\ \A k \in DOMAIN saved : saved[k] \in 1 .. presses + 1
          /\ overtaken' \subseteq 1 .. presses + 1
      <4>1. /\ \A k \in DOMAIN saved : saved[k] \in 1 .. presses
            /\ overtaken \subseteq 1 .. presses /\ \A h \in holds : h.press \in 1 .. presses
        BY DEF ShellInv, PressInv
      <4>2. overtaken' \subseteq 1 .. presses
        BY <1>1, <4>1
      <4>3. \A n : n \in 1 .. presses => n \in 1 .. presses + 1
        BY <1>0
      <4> QED BY <4>1, <4>2, <4>3
    <3>2. presses + 1 \in 1 .. presses + 1 /\ 1 .. presses \subseteq 1 .. presses + 1
      BY <1>0
    <3>3. \A i, j \in DOMAIN saved : saved[i] = saved[j] => i = j \/ saved[i] \in overtaken'
      <4>1. \A i, j \in DOMAIN saved : saved[i] = saved[j] => i = j \/ saved[i] \in overtaken
        BY DEF ShellInv, PressInv
      <4>2. \A x : x \in overtaken => x \in overtaken'
        BY <1>1
      <4> QED BY <4>1, <4>2
    <3>4. /\ \A h \in holds' : h.press \in 1 .. presses + 1
          /\ \A h \in holds' : h.press \notin overtaken' => h.press = ring' /\ \A k \in DOMAIN saved : saved[k] # h.press
      BY <1>0, <1>1, <2>1, <3>2
    <3> QED BY <1>0, <1>1, <3>1, <3>3, <3>4 DEF PressInv
  <2>4. HandInv' /\ UndoInv'
    BY <1>0, <1>1 DEF ShellInv, HandInv, UndoInv
  <2> QED BY <2>2, <2>3, <2>4 DEF ShellInv
<1>2. CASE /\ Save(presses + 1, input, edited)
           /\ edited' = NoHand
           /\ holds' = Cleared /\ ring' = 0
           /\ UNCHANGED overtaken
  <2>1. holds' = Cleared /\ holds' \subseteq holds /\ ring' \in Nat
    BY <1>2 DEF Cleared
  <2>2. PICK n : n = presses + 1
    OBVIOUS
  <2>3. /\ n \in 1 .. presses' /\ presses' \in 0 .. MaxPresses /\ presses <= presses'
        /\ \A k \in DOMAIN saved : saved[k] # n
        /\ Save(n, input, edited)
    BY <1>0, <1>2, <2>2
  <2>4. /\ hands' \in Seq(Hand) /\ saved' \in Seq(Nat) /\ moved' \in BOOLEAN
        /\ input' \in Data \cup {Nothing}
        /\ PressInv' /\ HandInv' /\ UndoInv'
    BY <1>0, <1>2, <2>1, <2>3, SaveKeeps
  <2> QED BY <1>0, <1>2, <2>1, <2>3, <2>4 DEF ShellInv, ShellShape, NoHand
<1> QED BY <1>1, <1>2 DEF PressConfirm

LEMMA HoldKeeps ==
  ASSUME ShellInv, NEW h \in holds, HoldOver(h)
  PROVE  ShellInv'
<1>1. /\ h.press \in 1 .. presses /\ h.data \in Data /\ h.edited \in Nat /\ presses \in 0 .. MaxPresses
      /\ h.press \notin overtaken => \A k \in DOMAIN saved : saved[k] # h.press
  BY DEF ShellInv, ShellShape, PressInv, Hold
<1>2. /\ holds' = Cleared /\ holds' \subseteq holds /\ ring' \in Nat
      /\ Save(h.press, h.data, h.edited) /\ UNCHANGED <<panel, deals, armed, presses, overtaken>>
  BY DEF HoldOver, counters, Cleared
<1>3. PICK n, d, e : n = h.press /\ d = h.data /\ e = h.edited
  OBVIOUS
<1>4. /\ d \in Data /\ e \in Nat
      /\ n \in 1 .. presses' /\ presses' \in 0 .. MaxPresses /\ presses <= presses'
      /\ n \notin overtaken => \A k \in DOMAIN saved : saved[k] # n
      /\ Save(n, d, e)
  BY <1>1, <1>2, <1>3
<1>5. /\ hands' \in Seq(Hand) /\ saved' \in Seq(Nat) /\ moved' \in BOOLEAN
      /\ input' \in Data \cup {Nothing}
      /\ PressInv' /\ HandInv' /\ UndoInv'
  BY <1>2, <1>4, SaveKeeps
<1>6. edited' \in Nat
  BY DEF HoldOver, NoHand, ShellInv, ShellShape
<1> QED BY <1>1, <1>2, <1>5, <1>6 DEF ShellInv, ShellShape

LEMMA UndoKeeps ==
  ASSUME ShellInv, TapUndo
  PROVE  ShellInv'
<1>0. /\ UNCHANGED <<input, edited, holds, ring, saved, overtaken, panel, presses, deals>>
      /\ hands \in Seq(Hand) /\ hands # <<>> /\ Len(hands) \in Nat
  BY DEF TapUndo, ShellInv, ShellShape
<1>1. CASE armed' = Len(hands) /\ moved' = FALSE /\ UNCHANGED hands
  <2>1. ShellShape' /\ UndoInv'
    BY <1>0, <1>1 DEF ShellInv, ShellShape, UndoInv
  <2>2. PressInv' /\ HandInv'
    BY <1>0, <1>1 DEF ShellInv, PressInv, HandInv
  <2> QED BY <2>1, <2>2 DEF ShellInv
<1>2. CASE /\ hands' = (IF Accepted THEN Front(hands) ELSE hands)
           /\ armed' = Disarmed /\ UNCHANGED moved
  <2>1. PICK q \in Seq(Hand) : /\ hands' = q
                               /\ \A i \in DOMAIN q : i \in DOMAIN hands /\ q[i] = hands[i]
    BY <1>0, <1>2, FrontHands
  <2>2. ShellShape' /\ UndoInv'
    BY <1>0, <1>2, <2>1 DEF ShellInv, ShellShape, UndoInv, Disarmed, NoHand
  <2>3. HandInv'
    BY <1>0, <2>1 DEF ShellInv, HandInv
  <2>4. PressInv'
    BY <1>0 DEF ShellInv, PressInv
  <2> QED BY <2>2, <2>3, <2>4 DEF ShellInv
<1> QED BY <1>1, <1>2 DEF TapUndo

LEMMA DeleteKeeps ==
  ASSUME ShellInv, NEW n \in DOMAIN hands, DeleteHand(n)
  PROVE  ShellInv'
<1>0. /\ UNCHANGED <<input, edited, holds, ring, saved, overtaken, armed, panel, presses, deals>>
      /\ hands \in Seq(Hand) /\ moved' = TRUE /\ n \in Nat
  BY DEF DeleteHand, ShellInv, ShellShape
<1>1. PICK q \in Seq(Hand) :
        /\ hands' = q
        /\ \A i \in DOMAIN q : /\ i < n => i \in DOMAIN hands /\ q[i] = hands[i]
                               /\ i >= n => i + 1 \in DOMAIN hands /\ q[i] = hands[i + 1]
  BY <1>0, RemoveHand DEF DeleteHand
<1>2. ShellShape' /\ UndoInv'
  BY <1>0, <1>1 DEF ShellInv, ShellShape, UndoInv
<1>3. PressInv'
  BY <1>0 DEF ShellInv, PressInv
<1>4. HandInv'
  <2> DEFINE f == [i \in DOMAIN q |-> IF i < n THEN i ELSE i + 1]
  <2>1. DOMAIN q \subseteq Nat
    OBVIOUS
  <2>2. \A i \in DOMAIN q : f[i] \in DOMAIN hands /\ q[i] = hands[f[i]]
    BY <1>0, <1>1, <2>1
  <2>3. \A i, j \in DOMAIN q : f[i] = f[j] => i = j
    BY <1>0, <2>1
  <2> HIDE DEF f
  <2>4. /\ \A i \in DOMAIN hands' : f[i] \in DOMAIN hands /\ hands'[i].id = hands[f[i]].id
        /\ \A i, j \in DOMAIN hands' : f[i] = f[j] => i = j
        /\ \A k \in DOMAIN saved : \E l \in DOMAIN saved' : saved'[l] = saved[k]
    BY <1>0, <1>1, <2>2, <2>3
  <2> QED BY <1>0, <2>4, FewerHands DEF ShellInv
<1> QED BY <1>2, <1>3, <1>4 DEF ShellInv

LEMMA QuickEditKeeps ==
  ASSUME ShellInv, NEW d \in Data, QuickEdit(d)
  PROVE  ShellInv'
<1>0. /\ UNCHANGED <<input, holds, ring, saved, overtaken, armed, moved, panel, presses, deals>>
      /\ edited' = NoHand /\ hands \in Seq(Hand) /\ edited \in Nat
  BY DEF QuickEdit, counters, ShellInv, ShellShape
<1>1. /\ hands' \in Seq(Hand) /\ Len(hands') = Len(hands) /\ DOMAIN hands' = DOMAIN hands
      /\ \A i \in DOMAIN hands : hands'[i].id = hands[i].id
  BY <1>0, CorrectedHands DEF QuickEdit
<1>2. ShellShape' /\ UndoInv'
  BY <1>0, <1>1 DEF ShellInv, ShellShape, UndoInv, NoHand
<1>3. PressInv'
  BY <1>0 DEF ShellInv, PressInv
<1>4. HandInv'
  BY <1>0, <1>1 DEF ShellInv, HandInv
<1> QED BY <1>2, <1>3, <1>4 DEF ShellInv

\* A series begins without hands.
LEMMA AnswerKeeps ==
  ASSUME ShellInv, NEW yes \in BOOLEAN, AnswerSheet(yes)
  PROVE  ShellInv'
<1>0. /\ UNCHANGED <<edited, holds, ring, saved, overtaken, armed, presses, deals>>
      /\ panel \in Panel /\ edited \in Nat /\ input \in Data \cup {Nothing} /\ armed \in Nat
  BY DEF AnswerSheet, ShellInv, ShellShape
<1>1. CASE UNCHANGED <<hands, input, panel, moved>>
  BY <1>0, <1>1, QuietKeeps
<1>2. CASE /\ IF Accepted THEN hands' = <<>> /\ input' = Nothing ELSE UNCHANGED <<hands, input>>
           /\ moved' = TRUE
           /\ panel' = [panel EXCEPT !.awaiting = IF panel.dealing THEN @ ELSE "trigger"]
  <2>1. panel' \in Panel /\ panel'.dealing = panel.dealing
    BY <1>0, <1>2 DEF Panel
  <2>2. hands' = <<>> \/ hands' = hands
    BY <1>2
  <2>3. <<>> \in Seq(Hand)
    OBVIOUS
  <2>4. ShellShape' /\ UndoInv'
    BY <1>0, <1>2, <2>1, <2>2, <2>3 DEF ShellInv, ShellShape, UndoInv
  <2>5. PressInv'
    BY <1>0 DEF ShellInv, PressInv
  <2>6. HandInv'
    <3>1. CASE hands' = <<>>
      BY <1>0, <2>1, <3>1, NoHands DEF ShellInv
    <3>2. CASE hands' = hands
      BY <1>0, <2>1, <3>2 DEF ShellInv, HandInv
    <3> QED BY <2>2, <3>1, <3>2
  <2> QED BY <2>4, <2>5, <2>6 DEF ShellInv
<1> QED BY <1>1, <1>2 DEF AnswerSheet

\* A deal starts: its hand will have a number that no hand has.
LEMMA DealStarts ==
  ASSUME ShellInv, UNCHANGED saveVars, UNCHANGED <<armed, presses, moved>>,
         panel' \in Panel, deals' = deals + 1
  PROVE  ShellInv'
<1>0. /\ UNCHANGED <<hands, input, edited, ring, holds, saved, overtaken>> /\ deals \in Nat
      /\ presses \in Nat /\ presses <= MaxPresses /\ MaxPresses \in Nat
  BY ShellAssumption DEF saveVars, ShellInv, ShellShape
<1>1. ShellShape' /\ UndoInv'
  BY <1>0 DEF ShellInv, ShellShape, UndoInv
<1>2. PressInv'
  BY <1>0 DEF ShellInv, PressInv
<1>3. ASSUME NEW i \in DOMAIN hands
      PROVE  Origin(hands[i].id, saved, deals + 1) /\ hands[i].id # MaxPresses + (deals + 1)
  <2>1. Origin(hands[i].id, saved, deals)
    BY DEF ShellInv, HandInv
  <2>2. CASE \E k \in DOMAIN saved : saved[k] = hands[i].id
    <3>1. hands[i].id \in 1 .. presses
      BY <2>2 DEF ShellInv, PressInv
    <3> QED BY <1>0, <2>2, <3>1 DEF Origin
  <2>3. CASE hands[i].id \in MaxPresses + 1 .. MaxPresses + deals
    BY <1>0, <2>3 DEF Origin
  <2> QED BY <2>1, <2>2, <2>3 DEF Origin
<1>4. HandInv'
  <2>1. \A i, j \in DOMAIN hands : hands[i].id = hands[j].id => i = j \/ hands[i].id \in overtaken
    BY DEF ShellInv, HandInv
  <2>2. deals + 1 > 0
    BY <1>0
  <2> QED BY <1>0, <1>3, <2>1, <2>2 DEF HandInv
<1> QED BY <1>1, <1>2, <1>4 DEF ShellInv

\* A deal ends: its hand is a new one.
LEMMA DealKeeps ==
  ASSUME ShellInv, NEW d \in Data, NEW next \in {"trigger", "action"}, DealOver(next, d)
  PROVE  ShellInv'
<1>0. /\ UNCHANGED <<input, edited, ring, holds, saved, overtaken, armed, presses, deals>>
      /\ panel' = [panel EXCEPT !.dealing = FALSE, !.awaiting = next, !.shown = @ /\ next = "action"]
      /\ panel \in Panel /\ hands \in Seq(Hand) /\ deals \in Nat /\ MaxPresses \in Nat
      /\ panel.dealing /\ edited \in Nat /\ input \in Data \cup {Nothing}
  BY ShellAssumption DEF DealOver, counters, ShellInv, ShellShape
<1>1. panel' \in Panel /\ ~panel'.dealing
  BY <1>0 DEF Panel
<1>2. CASE UNCHANGED <<hands, moved>>
  BY <1>0, <1>1, <1>2, QuietKeeps
<1>3. CASE hands' = Append(hands, [id |-> MaxPresses + deals, data |-> d]) /\ moved' = TRUE
  <2> DEFINE new == [id |-> MaxPresses + deals, data |-> d]
             r == Append(hands, new)
  <2>1. new \in Hand /\ new.id = MaxPresses + deals
    BY <1>0 DEF Hand
  <2> HIDE DEF new
  <2>2. /\ r \in Seq(Hand)
        /\ \A i \in DOMAIN r : \/ i \in DOMAIN hands /\ r[i] = hands[i]
                               \/ i \notin DOMAIN hands /\ i = Len(hands) + 1 /\ r[i] = new
    BY <1>0, <2>1, AppendParts
  <2> HIDE DEF r
  <2>3. hands' = r
    BY <1>3 DEF r, new
  <2>4. deals > 0 /\ \A i \in DOMAIN hands : hands[i].id # MaxPresses + deals
    BY <1>0 DEF ShellInv, HandInv
  <2>5. \A i, j \in DOMAIN r : r[i].id = r[j].id => i = j \/ r[i].id \in overtaken
    BY <2>1, <2>2, <2>4 DEF ShellInv, HandInv
  <2>6. ASSUME NEW i \in DOMAIN r PROVE Origin(r[i].id, saved, deals)
    <3>1. CASE i \in DOMAIN hands /\ r[i] = hands[i]
      BY <3>1 DEF ShellInv, HandInv
    <3>2. CASE r[i] = new
      <4>1. MaxPresses + deals \in MaxPresses + 1 .. MaxPresses + deals
        BY <1>0, <2>4
      <4> QED BY <2>1, <3>2, <4>1 DEF Origin
    <3> QED BY <2>2, <3>1, <3>2
  <2>7. HandInv'
    BY <1>0, <1>1, <2>3, <2>5, <2>6 DEF HandInv
  <2>8. ShellShape' /\ UndoInv'
    BY <1>0, <1>1, <1>3, <2>2, <2>3 DEF ShellInv, ShellShape, UndoInv
  <2>9. PressInv'
    BY <1>0 DEF ShellInv, PressInv
  <2> QED BY <2>7, <2>8, <2>9 DEF ShellInv
<1> QED BY <1>2, <1>3 DEF DealOver

-----------------------------------------------------------------------------
(* The invariant and what follows *)

LEMMA ShellStarts == ShellInit => ShellInv
<1> SUFFICES ASSUME ShellInit PROVE ShellInv
  OBVIOUS
<1>1. <<>> \in Seq(Hand) /\ <<>> \in Seq(Nat) /\ DOMAIN <<>> = {}
  OBVIOUS
<1>2. Idle \in Panel /\ ~Idle.dealing
  BY DEF Idle, Panel
<1>3. ShellShape
  <2>1. hands \in Seq(Hand) /\ saved \in Seq(Nat)
    BY <1>1 DEF ShellInit
  <2>2. 0 \in 0 .. MaxPresses
    BY ShellAssumption
  <2>3. panel \in Panel
    BY <1>2 DEF ShellInit
  <2> QED BY <2>1, <2>2, <2>3 DEF ShellInit, ShellShape, NoHand
<1>4. PressInv
  BY <1>1 DEF ShellInit, PressInv
<1>5. HandInv /\ UndoInv
  BY <1>1, <1>2 DEF ShellInit, HandInv, UndoInv
<1> QED BY <1>3, <1>4, <1>5 DEF ShellInv

LEMMA ShellStep == ShellInv /\ [ShellNext]_shellVars => ShellInv'
<1> SUFFICES ASSUME ShellInv, [ShellNext]_shellVars PROVE ShellInv'
  OBVIOUS
<1>0. panel \in Panel /\ edited \in Nat /\ input \in Data \cup {Nothing} /\ hands \in Seq(Hand)
  BY DEF ShellInv, ShellShape
<1>1. CASE UNCHANGED shellVars
  BY <1>0, <1>1, QuietKeeps DEF shellVars, saveVars, counters
<1>2. ASSUME NEW d \in Data, EnterData(d) \/ QuickEdit(d) PROVE ShellInv'
  <2>1. CASE EnterData(d)
    BY <1>0, <2>1, QuietKeeps DEF EnterData, counters
  <2> QED BY <1>2, <2>1, QuickEditKeeps
<1>3. CASE PressConfirm \/ TapUndo
  BY <1>3, PressKeeps, UndoKeeps
<1>4. CASE CancelHold
  <2>1. holds' = Cleared /\ ring' = 0 /\ UNCHANGED <<hands, saved, overtaken, deals, presses, moved, armed, panel, input, edited>>
    BY <1>4 DEF CancelHold, counters
  <2> QED BY <1>0, <2>1, QuietKeeps
<1>5. CASE CancelEdit
  <2>1. input' \in Data \cup {Nothing} /\ edited' \in Nat
    BY <1>0, <1>5 DEF CancelEdit, NoHand
  <2> QED BY <1>0, <1>5, <2>1, QuietKeeps DEF CancelEdit, counters
<1>6. ASSUME NEW h \in holds, HoldOver(h) PROVE ShellInv'
  BY <1>6, HoldKeeps
<1>7. CASE UndoTimesOut
  BY <1>0, <1>7, QuietKeeps DEF UndoTimesOut, saveVars, counters
<1>8. ASSUME NEW i \in DOMAIN hands, BeginEdit(hands[i].id) \/ DeleteHand(i) PROVE ShellInv'
  <2>1. CASE BeginEdit(hands[i].id)
    <3>0. hands[i] \in Hand
      BY <1>0
    <3>1. hands[i].id \in Nat
      BY <3>0 DEF Hand
    <3> QED BY <1>0, <2>1, <3>1, QuietKeeps DEF BeginEdit
  <2> QED BY <1>8, <2>1, DeleteKeeps
<1>9. CASE TapDeal \/ TapForce
  <2>1. panel' \in Panel
    BY <1>0, <1>9 DEF TapDeal, TapForce, Request, Panel
  <2> QED BY <1>9, <2>1, DealStarts DEF TapDeal, TapForce
<1>10. CASE IndicatorTimesOut
  <2>1. panel' \in Panel /\ panel'.dealing = panel.dealing
    BY <1>0, <1>10 DEF IndicatorTimesOut, Panel
  <2> QED BY <1>0, <1>10, <2>1, QuietKeeps DEF IndicatorTimesOut, saveVars, counters
<1>11. CASE DealEnds
  BY <1>11, DealKeeps DEF DealEnds
<1>12. CASE AskSeries \/ AskEnd
  BY <1>0, <1>12, QuietKeeps DEF AskSeries, AskEnd, saveVars, counters
<1>13. ASSUME NEW yes \in BOOLEAN, AnswerSheet(yes) PROVE ShellInv'
  BY <1>13, AnswerKeeps
<1> QED BY <1>1, <1>2, <1>3, <1>4, <1>5, <1>6, <1>7, <1>8, <1>9, <1>10, <1>11, <1>12, <1>13
        DEF ShellNext, Physical, OnPanel

\* Of the holds that run, one at most has no later press over it: that of the ring, which has
\* not saved; and every hand comes from a press or a deal, of its own unless the press was
\* overtaken, whatever is corrected, cancelled, started or dealt meanwhile.
THEOREM ShellInvariant == ShellSpec => []ShellInv
<1>1. ShellInv /\ [ShellNext]_shellVars => ShellInv'
  BY ShellStep
<1> QED BY <1>1, ShellStarts, PTL DEF ShellSpec

\* A press of the confirm button saves once and puts one hand into the series, unless the
\* button was pressed again over its running interval, which nothing stops then.
THEOREM SavesOncePerPress == ShellSpec => []OncePerPress
<1>1. ShellInv => OncePerPress
  BY DEF ShellInv, PressInv, HandInv, OncePerPress
<1> QED BY <1>1, ShellInvariant, PTL

\* The hand that Undo takes back is the one that its button names, unless the last hand
\* became another one meanwhile.
THEOREM UndoAlwaysTakesTheNamed == ShellSpec => UndoTakesTheNamed
<1> DEFINE Taken == Len(hands') < Len(hands) /\ IsPrefix(hands', hands) /\ fixes' # fixes /\ sheet = sheet' /\ moved' = moved
<1>1. ASSUME ShellInv, [ShellNext]_shellVars, Taken
      PROVE  armed = Len(hands) \/ moved
  <2>1. CASE TapUndo
    <3>1. armed # NoHand
      BY <1>1, <2>1 DEF TapUndo
    <3> QED BY <1>1, <3>1 DEF ShellInv, UndoInv, ShellShape
  <2>2. ASSUME NEW i \in DOMAIN hands, DeleteHand(i)
        PROVE  moved
    BY <1>1, <2>2 DEF DeleteHand
  <2>3. ASSUME NEW i \in DOMAIN hands, BeginEdit(hands[i].id)
        PROVE  FALSE
    BY <1>1, <2>3 DEF BeginEdit, ShellInv, ShellShape
  <2>4. TapUndo \/ \E i \in DOMAIN hands : BeginEdit(hands[i].id) \/ DeleteHand(i)
    BY <1>1 DEF ShellNext, Physical, OnPanel, EnterData, QuickEdit, PressConfirm, CancelHold, CancelEdit, HoldOver,
       UndoTimesOut, TapDeal, TapForce, IndicatorTimesOut, DealEnds, DealOver, AskSeries, AskEnd, AnswerSheet,
       shellVars, counters
  <2> QED BY <2>1, <2>2, <2>3, <2>4
<1>2. ShellInv /\ [ShellNext]_shellVars => [Taken => armed = Len(hands) \/ moved]_shellVars
  BY <1>1
<1> QED BY <1>2, ShellInvariant, PTL DEF ShellSpec, UndoTakesTheNamed

-----------------------------------------------------------------------------
(* The display.  The end is the last event of the table, so the leaderboard   *)
(* that is rendered with it is that of the end, and no timer runs beside it.  *)

Note == {Created} \cup UNION {EventsOfType(t) : t \in Types}
Leader == [shown : BOOLEAN, persistent : BOOLEAN, timer : BOOLEAN, last : Nat]

EndsLast(es) == \A i \in DOMAIN es : es[i].type = "end" => i = Len(es)

FinalInv ==
  /\ news \in Seq(Note) /\ rendered \in 0..Len(news)
  /\ EndsLast(news)
  /\ leader \in Leader /\ leader.last <= rendered
  /\ leader.persistent => ~leader.timer
  /\ FinalBoardStays

LEMMA FinalStarts == StageInit => FinalInv
<1> SUFFICES ASSUME StageInit PROVE FinalInv
  OBVIOUS
<1>1. news \in Seq(Note) /\ Len(news) = 1 /\ rendered = 0
  BY DEF StageInit, Note
<1>2. leader \in Leader /\ leader.last = 0 /\ ~leader.timer
  BY DEF StageInit, HiddenLeader, Leader
<1>3. EndsLast(news)
  BY <1>1 DEF EndsLast
<1> QED BY <1>1, <1>2, <1>3 DEF FinalInv, FinalBoardStays

\* A notice of one event or two; nothing comes after the end.
LEMMA ArriveKeepsFinal ==
  ASSUME ~AfterEnd, FinalInv, NEW batch \in Seq(Note), Len(batch) \in {1, 2}, Arrive(batch)
  PROVE  FinalInv'
<1>1. news' = news \o batch /\ rendered' = rendered /\ leader' = leader /\ mode' = mode
  BY DEF Arrive, boardVars
<1>2. \A i \in DOMAIN news : news[i].type # "end"
  BY DEF Arrive, Over
<1>3. batch[1].type = "end" => Len(batch) = 1
  BY DEF Arrive
<1>4. news' \in Seq(Note) /\ Len(news') = Len(news) + Len(batch) /\ Len(news) \in Nat
      /\ \A i \in DOMAIN news' : news'[i] = IF i <= Len(news) THEN news[i] ELSE batch[i - Len(news)]
  BY <1>1 DEF FinalInv
<1>5. EndsLast(news')
  <2> SUFFICES ASSUME NEW i \in DOMAIN news', news'[i].type = "end"
               PROVE  i = Len(news')
    BY DEF EndsLast
  <2>1. i \in Nat /\ i <= Len(news')
    BY <1>4
  <2>2. i > Len(news) /\ news'[i] = batch[i - Len(news)]
    BY <1>2, <1>4, <2>1
  <2>3. i - Len(news) \in {1, 2}
    BY <1>4, <2>1, <2>2
  <2> QED BY <1>3, <1>4, <2>1, <2>2, <2>3
<1>6. \A i \in 1..rendered : news'[i] = news[i]
  BY <1>4 DEF FinalInv
<1>7. FinalBoardStays'
  BY <1>1, <1>6 DEF FinalInv, FinalBoardStays
<1> QED BY <1>1, <1>4, <1>5, <1>7 DEF FinalInv

LEMMA RenderKeepsFinal ==
  ASSUME FinalInv, Render
  PROVE  FinalInv'
<1>1. news' = news /\ mode' = mode /\ rendered' = Len(news) /\ rendered < Len(news)
  BY DEF Render, FinalInv
<1>2. leader' = IF mode = "phone" THEN leader ELSE LeaderRendered
  BY DEF Render, boardVars
<1> DEFINE asked == {i \in DOMAIN news : i > leader.last /\ news[i].type \in {"series", "end"}}
<1>3. asked # {} => Max(asked) \in asked /\ \A i \in asked : i <= Max(asked)
  <2>1. asked \subseteq Nat /\ \A i \in asked : i <= Len(news)
    BY DEF FinalInv
  <2>2. Len(news) \in Nat
    BY DEF FinalInv
  <2> DEFINE n == Len(news)
  <2> HIDE DEF asked, n
  <2>3. n \in Nat /\ \A i \in asked : i <= n
    BY <2>1, <2>2 DEF n
  <2> QED BY <2>1, <2>3, MaxOfBounded
<1>4. CASE mode = "phone"
  BY <1>1, <1>2, <1>4 DEF FinalInv, FinalBoardStays, EndsLast, Leader
<1>5. CASE mode # "phone" /\ asked = {}
  <2>1. leader' = leader
    BY <1>2, <1>5 DEF LeaderRendered
  <2>2. \A i \in DOMAIN news : news[i].type # "end"
    <3> SUFFICES ASSUME NEW i \in DOMAIN news, news[i].type = "end"
                 PROVE  i \in asked
      BY <1>5
    <3> QED BY <1>1 DEF FinalInv, EndsLast, Leader
  <2> QED BY <1>1, <2>1, <2>2 DEF FinalInv, FinalBoardStays, EndsLast, Leader
<1>6. CASE mode # "phone" /\ asked # {}
  <2> DEFINE persistent == news[Max(asked)].type = "end"
  <2>1. leader' = [shown |-> TRUE, persistent |-> persistent, last |-> Max(asked), timer |-> ~persistent]
    BY <1>2, <1>6 DEF LeaderRendered
  <2>2. Max(asked) \in Nat /\ Max(asked) <= Len(news)
    BY <1>3, <1>6 DEF FinalInv
  <2>3. ASSUME NEW i \in DOMAIN news, news[i].type = "end"
        PROVE  persistent
    <3>1. i = Len(news) /\ i \in asked
      BY <1>1, <2>3 DEF FinalInv, EndsLast, Leader
    <3> HIDE DEF asked
    <3>2. Max(asked) = i
      BY <1>3, <1>6, <2>2, <3>1
    <3> QED BY <2>3, <3>2
  <2>4. persistent \in BOOLEAN
    OBVIOUS
  <2> HIDE DEF persistent, asked
  <2>5. /\ leader' \in Leader /\ leader'.shown /\ leader'.last = Max(asked)
        /\ (leader'.persistent <=> persistent) /\ (leader'.timer <=> ~persistent)
    BY <2>1, <2>2, <2>4 DEF Leader
  <2>6. FinalBoardStays'
    <3> SUFFICES ASSUME NEW i \in 1..rendered', news'[i].type = "end"
                 PROVE  leader'.shown /\ leader'.persistent
      BY DEF FinalBoardStays
    <3> QED BY <1>1, <2>3, <2>5 DEF FinalInv
  <2>7. rendered' \in 0..Len(news')
    BY <1>1 DEF FinalInv
  <2> QED BY <1>1, <2>2, <2>5, <2>6, <2>7 DEF FinalInv, EndsLast
<1> QED BY <1>4, <1>5, <1>6

LEMMA StageStepKeepsFinal ==
  ASSUME ~AfterEnd, FinalInv, [StageNext]_stageVars
  PROVE  FinalInv'
<1>1. ASSUME NEW t \in Types, NEW u \in Types, NEW e \in EventsOfType(t), NEW f \in EventsOfType(u),
             Arrive(<<e>>) \/ Arrive(<<e, f>>)
      PROVE  FinalInv'
  <2>1. e \in Note /\ f \in Note
    BY DEF Note
  <2>2. <<e>> \in Seq(Note) /\ Len(<<e>>) = 1 /\ <<e, f>> \in Seq(Note) /\ Len(<<e, f>>) = 2
    BY <2>1
  <2> QED BY <1>1, <2>2, ArriveKeepsFinal
<1>2. CASE Render
  BY <1>2, RenderKeepsFinal
<1>3. CASE LeaderOver \/ DismissLeader
  <2>1. /\ leader.timer \/ (leader.shown /\ ~leader.persistent)
        /\ leader' = [leader EXCEPT !.shown = FALSE, !.timer = FALSE]
        /\ UNCHANGED <<mode, news, rendered>>
    BY <1>3 DEF LeaderOver, DismissLeader
  <2>2. leader' \in Leader /\ ~leader'.timer /\ leader'.last = leader.last
    BY <2>1 DEF FinalInv, Leader
  <2>3. ~leader.persistent
    BY <2>1 DEF FinalInv
  <2> QED BY <2>1, <2>2, <2>3 DEF FinalInv, FinalBoardStays, EndsLast
<1>4. CASE Remount
  <2>1. leader' = HiddenLeader /\ rendered' = 0 /\ news' = news /\ mode' = mode
    BY <1>4 DEF Remount
  <2>2. HiddenLeader \in Leader /\ HiddenLeader.last = 0 /\ ~HiddenLeader.timer
    BY DEF HiddenLeader, Leader
  <2> QED BY <2>1, <2>2 DEF FinalInv, FinalBoardStays, EndsLast
<1>5. CASE TimelineEnds \/ ToggleAnimations \/ NoticeOver \/ GoIdle \/ UNCHANGED stageVars
  <2>1. UNCHANGED <<mode, news, rendered, leader>>
    BY <1>5 DEF TimelineEnds, ToggleAnimations, NoticeOver, GoIdle, stageVars, boardVars
  <2> QED BY <2>1 DEF FinalInv, FinalBoardStays, EndsLast
<1> QED BY <1>1, <1>2, <1>3, <1>4, <1>5 DEF StageNext

\* The final leaderboard, once rendered, stays, whatever was shown for the end of a series
\* just before and whichever timers run, when nothing comes after the end of the session.
THEOREM FinalBoardAlwaysStays == ~AfterEnd => (StageSpec => []FinalBoardStays)
<1> SUFFICES ASSUME ~AfterEnd PROVE StageSpec => []FinalBoardStays
  OBVIOUS
<1>1. FinalInv /\ [StageNext]_stageVars => FinalInv'
  BY StageStepKeepsFinal
<1>2. FinalInv => FinalBoardStays
  BY DEF FinalInv
<1> QED BY <1>1, <1>2, FinalStarts, PTL DEF StageSpec

-----------------------------------------------------------------------------
(* The timelines that the scheduler makes.                                    *)

\* Rounding keeps the order.
LEMMA RoundedMore ==
  ASSUME NEW x \in Nat, NEW y \in Nat, x <= y, NEW most \in Nat, NEW d \in Nat \ {0}
  PROVE  Rounded(x * most, d) \in Nat /\ Rounded(x * most, d) <= Rounded(y * most, d)
<1> DEFINE a == x * most
           b == y * most
<1>1. a \in Nat /\ b \in Nat /\ a <= b
  <2>1. most * x <= most * y /\ most * x \in Nat /\ most * y \in Nat
    BY TimesMore
  <2>2. most * x = x * most /\ most * y = y * most
    OBVIOUS
  <2> QED BY <2>1, <2>2
<1> HIDE DEF a, b
<1>2. 2 * a + d \in Nat /\ 2 * b + d \in Nat /\ 2 * a + d <= 2 * b + d /\ 2 * d \in Nat \ {0}
  BY <1>1
<1>3. (2 * a + d) \div (2 * d) \in Nat /\ (2 * a + d) \div (2 * d) <= (2 * b + d) \div (2 * d)
  BY <1>2, DivParts, DivMore
<1> QED BY <1>3 DEF Rounded, a, b

\* The longest part becomes the limit.
LEMMA RoundedWhole ==
  ASSUME NEW most \in Nat, NEW d \in Nat \ {0}
  PROVE  Rounded(d * most, d) = most
<1> DEFINE c == d * most
           e == 2 * d
           q == (2 * c + d) \div e
<1>1. c \in Nat /\ 2 * c = e * most
  <2>1. d * most \in Nat /\ d * most = most * d /\ 2 * (d * most) = (2 * d) * most
    OBVIOUS
  <2> QED BY <2>1
<1> HIDE DEF c
<1>2. e \in Nat \ {0} /\ 2 * c + d \in Nat /\ d < e
  BY <1>1
<1> HIDE DEF e
<1>3. q \in Nat /\ e * q <= 2 * c + d /\ 2 * c + d < e * q + e
  BY <1>2, DivParts
<1>4. Rounded(c, d) = q
  BY DEF Rounded, e
<1> HIDE DEF q
<1>5. CASE q >= most + 1
  <2>1. e * (most + 1) <= e * q /\ e * (most + 1) = e * most + e
    BY <1>2, <1>3, <1>5, TimesMore
  <2> QED BY <1>1, <1>2, <1>3, <2>1
<1>6. CASE most >= q + 1
  <2>1. e * (q + 1) <= e * most /\ e * (q + 1) = e * q + e
    BY <1>2, <1>3, <1>6, TimesMore
  <2> QED BY <1>1, <1>2, <1>3, <2>1
<1>7. CASE q = most
  BY <1>4, <1>7 DEF c
<1> QED BY <1>3, <1>5, <1>6, <1>7

Preset == [layered : BOOLEAN, blocks : BOOLEAN, length : Nat \ {0}]
Segment == [kind : {"main", "layered", "followup"}, start : Nat, end : Nat]

\* What follows comes after something that is not layered.
Chained(s) ==
  \A i \in DOMAIN s :
    s[i].kind = "followup" => \E j \in 1..i - 1 : s[j].kind # "layered" /\ s[j].end = s[i].start

Strip(s) ==
  /\ s \in Seq(Segment) /\ s # <<>> /\ s[1].end > 0
  /\ Chained(s) /\ \A i \in DOMAIN s : s[i].start <= s[i].end

LEMMA StripTotal ==
  ASSUME NEW s, Strip(s)
  PROVE  Total(s) \in Nat \ {0} /\ \A i \in DOMAIN s : s[i].end <= Total(s)
<1> DEFINE Y == Segment
           Q == {r \in Seq(Y) : \E n \in Nat : \A i \in DOMAIN r : r[i].end <= n}
           S == {s[i].end : i \in DOMAIN s}
<1>1. <<>> \in Q
  <2>1. <<>> \in Seq(Y) /\ DOMAIN <<>> = {} /\ 0 \in Nat
    OBVIOUS
  <2> QED BY <2>1
<1>2. ASSUME NEW r \in Seq(Y), NEW e \in Y, r \in Q PROVE Append(r, e) \in Q
  <2>1. PICK n \in Nat : \A i \in DOMAIN r : r[i].end <= n
    BY <1>2
  <2>2. e.end \in Nat /\ \A i \in DOMAIN r : r[i].end \in Nat
    <3>1. \A i \in DOMAIN r : r[i] \in Segment
      OBVIOUS
    <3> QED BY <3>1 DEF Segment
  <2> DEFINE a == Append(r, e)
             m == n + e.end
  <2>3. m \in Nat /\ n <= m /\ e.end <= m
    BY <2>2
  <2>4. /\ a \in Seq(Y) /\ DOMAIN r = 1..Len(r) /\ DOMAIN a = 1..(Len(r) + 1) /\ Len(r) \in Nat
        /\ a[Len(r) + 1] = e /\ \A i \in 1..Len(r) : a[i] = r[i]
    <3> HIDE DEF Y
    <3> QED BY OneMore
  <2> HIDE DEF a, m
  <2>5. ASSUME NEW i \in DOMAIN a PROVE a[i].end <= m
    <3>1. CASE i = Len(r) + 1
      BY <2>3, <2>4, <3>1
    <3>2. CASE i \in DOMAIN r
      BY <2>1, <2>2, <2>3, <2>4, <3>2
    <3> QED BY <2>4, <3>1, <3>2
  <2> QED BY <2>3, <2>4, <2>5 DEF a
<1> HIDE DEF Q
<1>3. s \in Q
  <2>1. s \in Seq(Y)
    BY DEF Strip
  <2> HIDE DEF Y
  <2>2. Seq(Y) \subseteq Q
    BY <1>1, <1>2, SequencesBySteps
  <2> QED BY <2>1, <2>2
<1>4. PICK n \in Nat : \A i \in DOMAIN s : s[i].end <= n
  BY <1>3 DEF Q
<1>5. 1 \in DOMAIN s /\ \A i \in DOMAIN s : s[i].end \in Nat
  <2>1. 1 \in DOMAIN s /\ \A i \in DOMAIN s : s[i] \in Segment
    BY DEF Strip
  <2> QED BY <2>1 DEF Segment
<1>6. S \subseteq Nat /\ S # {} /\ \A y \in S : y <= n
  BY <1>4, <1>5
<1> HIDE DEF S
<1>7. Max(S) \in S /\ \A y \in S : y <= Max(S)
  BY <1>6, MaxOfBounded
<1>8. Total(s) = Max(S)
  BY DEF Total, S
<1>9. \A i \in DOMAIN s : s[i].end \in S
  BY DEF S
<1>10. s[1].end > 0 /\ s[1].end <= Max(S) /\ Max(S) \in Nat
  BY <1>5, <1>6, <1>7, <1>9 DEF Strip
<1> QED BY <1>5, <1>7, <1>8, <1>9, <1>10

\* A timeline within a limit.
Within(s, n, most) ==
  /\ n <= most /\ \A i \in DOMAIN s : s[i].start <= s[i].end /\ s[i].end <= n
  /\ Chained(s)

LEMMA ScaledWithin ==
  ASSUME NEW s, Strip(s), NEW most \in Nat \ {0}
  PROVE  /\ Scaled(s, most) \in Seq(Segment) /\ Total(Scaled(s, most)) \in Nat
         /\ Within(Scaled(s, most), Total(Scaled(s, most)), most)
<1> DEFINE n == Total(s)
           c == Scaled(s, most)
<1>1. n \in Nat \ {0} /\ \A i \in DOMAIN s : s[i].end <= n
  BY StripTotal
<1>2. s \in Seq(Segment) /\ \A i \in DOMAIN s : s[i] \in Segment
  BY DEF Strip
<1>3. CASE n <= most
  <2>1. c = s
    BY <1>3 DEF Scaled
  <2> QED BY <1>1, <1>2, <1>3, <2>1 DEF Within, Strip
<1>4. CASE ~(n <= most)
  <2> HIDE DEF n
  <2> DEFINE R(x) == Rounded(x * most, n)
  <2>1. c = [i \in DOMAIN s |-> [s[i] EXCEPT !.start = R(@), !.end = R(@)]]
    BY <1>4 DEF Scaled, n
  <2>2. \A x, y \in Nat : x <= y => R(x) \in Nat /\ R(x) <= R(y)
    BY <1>1, RoundedMore
  <2>3. R(n) = most
    BY <1>1, RoundedWhole
  <2> HIDE DEF R, c
  <2>4. DOMAIN c = DOMAIN s
    BY <2>1
  <2>5. ASSUME NEW i \in DOMAIN s
        PROVE  /\ c[i] \in Segment /\ c[i].kind = s[i].kind
               /\ c[i].start = R(s[i].start) /\ c[i].end = R(s[i].end)
               /\ c[i].start <= c[i].end /\ c[i].end <= most
    <3>1. s[i] \in Segment /\ s[i].start \in Nat /\ s[i].end \in Nat /\ s[i].start <= s[i].end /\ s[i].end <= n
      BY <1>1, <1>2 DEF Segment, Strip
    <3>2. c[i] = [s[i] EXCEPT !.start = R(@), !.end = R(@)]
      BY <2>1
    <3>3. R(s[i].start) \in Nat /\ R(s[i].end) \in Nat /\ R(s[i].start) <= R(s[i].end) /\ R(s[i].end) <= most
      BY <1>1, <2>2, <2>3, <3>1
    <3>4. c[i].kind = s[i].kind /\ c[i].start = R(s[i].start) /\ c[i].end = R(s[i].end) /\ c[i] \in Segment
      BY <3>1, <3>2, <3>3 DEF Segment
    <3> QED BY <3>3, <3>4
  <2>6. c \in Seq(Segment) /\ c # <<>>
    <3> DEFINE Y == Segment
               k == Len(s)
    <3>1. k \in Nat /\ DOMAIN s = 1..k /\ k # 0
      BY <1>2 DEF Strip
    <3>2. c \in [1..k -> Y]
      <4>1. \A i \in DOMAIN c : c[i] \in Y
        BY <2>4, <2>5
      <4> QED BY <2>1, <2>4, <3>1, <4>1
    <3> HIDE DEF Y, k
    <3>3. c \in Seq(Y) /\ Len(c) = k
      BY <3>1, <3>2
    <3> QED BY <3>1, <3>3 DEF Y
  <2> DEFINE S == {c[i].end : i \in DOMAIN c}
  <2>7. S \subseteq Nat /\ S # {} /\ \A y \in S : y <= most
    <3>1. \A i \in DOMAIN c : c[i].end \in Nat /\ c[i].end <= most
      BY <2>4, <2>5 DEF Segment
    <3>2. 1 \in DOMAIN c
      BY <2>6
    <3> QED BY <3>1, <3>2
  <2>8. \A i \in DOMAIN c : c[i].end \in S
    OBVIOUS
  <2>9. Total(c) = Max(S)
    BY DEF Total
  <2> HIDE DEF S
  <2>10. Max(S) \in S /\ \A y \in S : y <= Max(S)
    BY <2>7, MaxOfBounded
  <2>11. Chained(c)
    <3> SUFFICES ASSUME NEW i \in DOMAIN c, c[i].kind = "followup"
                 PROVE  \E j \in 1..i - 1 : c[j].kind # "layered" /\ c[j].end = c[i].start
      BY DEF Chained
    <3>1. i \in DOMAIN s /\ s[i].kind = "followup"
      BY <2>4, <2>5
    <3>2. PICK j \in 1..i - 1 : s[j].kind # "layered" /\ s[j].end = s[i].start
      BY <3>1 DEF Strip, Chained
    <3>3. j \in DOMAIN s
      BY <1>2, <3>1
    <3> QED BY <2>5, <3>1, <3>2, <3>3
  <2>12. Within(c, Total(c), most)
    BY <2>4, <2>5, <2>7, <2>8, <2>9, <2>10, <2>11 DEF Within
  <2> QED BY <2>6, <2>7, <2>9, <2>10, <2>12 DEF c
<1> QED BY <1>3, <1>4

\* How long a preset is shown on this device, and how long those that follow are together.
LengthSum(s) == FoldLeft(LAMBDA n, p : n + LengthOf(p), 0, s)
LengthAdder(g, s) ==
  g = [S \in SUBSET DOMAIN s |-> IF S = {} THEN 0 ELSE g[S \ {Max(S)}] + LengthOf(s[Max(S)])]
AddLength == [p \in Nat \X Preset |-> p[1] + LengthOf(p[2])]

LEMMA LengthKind == \A p \in Preset : LengthOf(p) \in Nat \ {0}
BY StageAssumption DEF Preset, LengthOf, Shorter

LEMMA LengthIsChosen ==
  ASSUME NEW s
  PROVE  LengthSum(s) = (CHOOSE g : LengthAdder(g, s))[DOMAIN s]
BY DEF LengthSum, FoldLeft, MapThenFoldSet, LengthAdder

LEMMA LengthFolds ==
  /\ Folding(AddLength, Nat, Preset)
  /\ \A s \in Seq(Preset) : LengthSum(s) = FoldOf(AddLength, 0, s)
<1> DEFINE F == AddLength
           Y == Preset
<1>1. Folding(F, Nat, Y)
  BY LengthKind DEF AddLength, Folding
<1>2. \A n \in Nat, p \in Y : F[<<n, p>>] = n + LengthOf(p)
  BY DEF AddLength
<1> HIDE DEF F, Y
<1>3. ASSUME NEW s \in Seq(Y) PROVE LengthSum(s) = FoldOf(F, 0, s)
  <2> DEFINE c == CHOOSE g : LengthAdder(g, s)
             k == Len(s)
  <2>1. k \in Nat /\ DOMAIN s = 1..k /\ 0 \in Nat
    OBVIOUS
  <2>2. ASSUME NEW S \in SUBSET DOMAIN s, S # {}
        PROVE  s[Max(S)] \in Y /\ S \ {Max(S)} \in SUBSET DOMAIN s
    <3> HIDE DEF k
    <3>1. S \in SUBSET (1..k)
      BY <2>1
    <3>2. Max(S) \in S
      BY <2>1, <2>2, <3>1, MaxOfPart
    <3> QED BY <3>2
  <2>3. LengthAdder(c, s)
    <3>1. PICK g : Folder(g, F, 0, s) /\ \A S \in SUBSET DOMAIN s : g[S] \in Nat
      BY <1>1, <2>1, TypedFolder
    <3>2. ASSUME NEW S \in SUBSET DOMAIN s
          PROVE  (IF S = {} THEN 0 ELSE F[<<g[S \ {Max(S)}], s[Max(S)]>>])
               = (IF S = {} THEN 0 ELSE g[S \ {Max(S)}] + LengthOf(s[Max(S)]))
      BY <1>2, <2>2, <3>1
    <3>3. LengthAdder(g, s)
      BY <3>1, <3>2 DEF Folder, LengthAdder
    <3> QED BY <3>3
  <2>4. LengthSum(s) = c[DOMAIN s]
    BY LengthIsChosen
  <2> HIDE DEF c
  <2>5. FoldsBy(c, F, 0, s, Len(s), Nat)
    <3>1. c[{}] = 0
      BY <2>3 DEF LengthAdder
    <3>2. ASSUME NEW S \in SUBSET (1..Len(s)), S # {}, c[S \ {Max(S)}] \in Nat
          PROVE  c[S] = F[<<c[S \ {Max(S)}], s[Max(S)]>>]
      <4>1. S \in SUBSET DOMAIN s
        BY <2>1
      <4>2. c[S] = c[S \ {Max(S)}] + LengthOf(s[Max(S)])
        BY <2>3, <3>2, <4>1 DEF LengthAdder
      <4>3. s[Max(S)] \in Y
        BY <2>2, <3>2, <4>1
      <4> QED BY <1>2, <3>2, <4>2, <4>3
    <3> QED BY <3>1, <3>2 DEF FoldsBy
  <2>6. c[DOMAIN s] = FoldOf(F, 0, s)
    <3> DEFINE X == Nat
               b == 0
    <3>1. b \in X /\ Folding(F, X, Y) /\ FoldsBy(c, F, b, s, Len(s), X)
      BY <1>1, <2>1, <2>5
    <3> HIDE DEF X, b
    <3>2. c[DOMAIN s] = FoldOf(F, b, s)
      BY <3>1, FoldByFunction
    <3> QED BY <3>2 DEF b
  <2> QED BY <2>4, <2>6
<1> QED BY <1>1, <1>3 DEF F, Y

LEMMA LengthSteps ==
  /\ LengthSum(<<>>) = 0
  /\ \A s \in Seq(Preset) : /\ LengthSum(s) \in Nat
                            /\ \A p \in Preset : LengthSum(Append(s, p)) = LengthSum(s) + LengthOf(p)
<1> DEFINE F == AddLength
           Y == Preset
<1>1. Folding(F, Nat, Y) /\ \A s \in Seq(Y) : LengthSum(s) = FoldOf(F, 0, s)
  BY LengthFolds
<1>2. \A n \in Nat, p \in Y : F[<<n, p>>] = n + LengthOf(p)
  BY DEF AddLength
<1>3. <<>> \in Seq(Y) /\ \A s \in Seq(Y), p \in Y : Append(s, p) \in Seq(Y)
  OBVIOUS
<1> HIDE DEF F, Y
<1>4. /\ FoldOf(F, 0, <<>>) = 0
      /\ \A s \in Seq(Y) : /\ FoldOf(F, 0, s) \in Nat
                           /\ \A e \in Y : FoldOf(F, 0, Append(s, e)) = F[<<FoldOf(F, 0, s), e>>]
  <2> DEFINE X == Nat
             b == 0
  <2>1. b \in X /\ Folding(F, X, Y)
    BY <1>1
  <2> HIDE DEF X, b
  <2>2. /\ FoldOf(F, b, <<>>) = b
        /\ \A s \in Seq(Y) : /\ FoldOf(F, b, s) \in X
                             /\ \A e \in Y : FoldOf(F, b, Append(s, e)) = F[<<FoldOf(F, b, s), e>>]
    BY <2>1, FoldSteps
  <2> QED BY <2>2 DEF X, b
<1>5. LengthSum(<<>>) = 0 /\ \A s \in Seq(Y) : LengthSum(s) \in Nat
  BY <1>1, <1>3, <1>4
<1>6. ASSUME NEW s \in Seq(Y), NEW p \in Y PROVE LengthSum(Append(s, p)) = LengthSum(s) + LengthOf(p)
  BY <1>1, <1>2, <1>3, <1>4
<1> QED BY <1>5, <1>6 DEF Y

LEMMA StripMade ==
  ASSUME NEW m \in Segment, m.kind = "main", m.start <= m.end, m.end > 0,
         NEW l \in Seq(Segment), \A i \in DOMAIN l : l[i].kind = "layered" /\ l[i].start <= l[i].end,
         NEW r \in Seq(Segment), \A i \in DOMAIN r : r[i].start <= r[i].end,
         \A i \in DOMAIN r : r[i].start = IF i = 1 THEN m.end ELSE r[i - 1].end,
         \A i \in DOMAIN r : r[i].kind = "followup"
  PROVE  Strip(<<m>> \o l \o r)
<1> DEFINE Y == Segment
           s == <<m>> \o l \o r
           k == 1 + Len(l)
<1>1. /\ Len(l) \in Nat /\ Len(r) \in Nat /\ DOMAIN l = 1..Len(l) /\ DOMAIN r = 1..Len(r)
  OBVIOUS
<1>2. s \in Seq(Y) /\ Len(s) = k + Len(r) /\ DOMAIN s = 1..(k + Len(r)) /\ s[1] = m
      /\ (\A i \in DOMAIN l : s[1 + i] = l[i]) /\ (\A i \in DOMAIN r : s[k + i] = r[i])
  <2> DEFINE h == <<m>>
  <2>1. h \in Seq(Y) /\ Len(h) = 1 /\ h[1] = m /\ l \in Seq(Y) /\ r \in Seq(Y)
    OBVIOUS
  <2> HIDE DEF Y, h
  <2>2. InThree(h \o l \o r, Y, h, l, r)
    BY <2>1, ThreeParts
  <2>3. s = h \o l \o r
    BY DEF h
  <2> HIDE DEF s
  <2>4. InThree(s, Y, h, l, r)
    BY <2>2, <2>3
  <2> QED BY <1>1, <2>1, <2>4 DEF InThree
<1> HIDE DEF s, Y
<1>3. ASSUME NEW i \in DOMAIN s
      PROVE  i = 1 \/ (i > 1 /\ i <= k /\ i - 1 \in DOMAIN l) \/ (i > k /\ i - k \in DOMAIN r)
  BY <1>1, <1>2
<1>4. \A i \in DOMAIN s : s[i].start <= s[i].end
  <2> SUFFICES ASSUME NEW i \in DOMAIN s PROVE s[i].start <= s[i].end
    OBVIOUS
  <2>1. CASE i = 1
    BY <1>2, <2>1
  <2>2. CASE i > 1 /\ i <= k /\ i - 1 \in DOMAIN l
    <3>1. s[1 + (i - 1)] = l[i - 1] /\ 1 + (i - 1) = i
      BY <1>1, <1>2, <2>2
    <3> QED BY <2>2, <3>1
  <2>3. CASE i > k /\ i - k \in DOMAIN r
    <3>1. s[k + (i - k)] = r[i - k] /\ k + (i - k) = i
      BY <1>1, <1>2, <2>3
    <3> QED BY <2>3, <3>1
  <2> QED BY <1>3, <2>1, <2>2, <2>3
<1>5. Chained(s)
  <2> SUFFICES ASSUME NEW i \in DOMAIN s, s[i].kind = "followup"
               PROVE  \E j \in 1..i - 1 : s[j].kind # "layered" /\ s[j].end = s[i].start
    BY DEF Chained
  <2>1. CASE i = 1
    BY <1>2, <2>1
  <2>2. CASE i > 1 /\ i <= k /\ i - 1 \in DOMAIN l
    <3>1. s[1 + (i - 1)] = l[i - 1] /\ 1 + (i - 1) = i
      BY <1>1, <1>2, <2>2
    <3> QED BY <2>2, <3>1
  <2>3. CASE i > k /\ i - k \in DOMAIN r
    <3> DEFINE d == i - k
    <3>1. s[i] = r[d] /\ d \in DOMAIN r /\ k \in Nat /\ k > 0 /\ i \in Nat /\ i = k + d
      BY <1>1, <1>2, <2>3
    <3> HIDE DEF d, k
    <3>2. CASE d = 1
      <4>1. 1 \in 1..i - 1 /\ s[1].kind # "layered" /\ s[1].end = s[i].start
        BY <1>2, <3>1, <3>2
      <4> QED BY <4>1
    <3>3. CASE d # 1
      <4>1. d - 1 \in DOMAIN r /\ k + (d - 1) \in 1..i - 1
        BY <1>1, <3>1, <3>3
      <4>2. s[k + (d - 1)] = r[d - 1]
        BY <1>2, <4>1
      <4>3. r[d].start = r[d - 1].end /\ r[d - 1].kind = "followup"
        BY <3>1, <3>3, <4>1
      <4> QED BY <3>1, <4>1, <4>2, <4>3
    <3> QED BY <3>2, <3>3
  <2> QED BY <1>3, <2>1, <2>2, <2>3
<1>6. s # <<>> /\ s[1].end > 0
  <2>1. 1 \in DOMAIN s
    BY <1>1, <1>2
  <2> QED BY <1>2, <2>1
<1> QED BY <1>2, <1>4, <1>5, <1>6 DEF Strip, Y, s

\* The main part alone.
LEMMA StripFirst ==
  ASSUME NEW s, Strip(s)
  PROVE  Strip(SubSeq(s, 1, 1))
<1> DEFINE c == SubSeq(s, 1, 1)
<1>1. c \in Seq(Segment) /\ Len(c) = 1 /\ c[1] = s[1] /\ 1 \in DOMAIN s /\ DOMAIN c = {1}
  BY DEF Strip
<1> HIDE DEF c
<1>2. s[1].kind # "followup"
  BY <1>1 DEF Strip, Chained
<1>3. Chained(c) /\ c # <<>>
  BY <1>1, <1>2 DEF Chained
<1> QED BY <1>1, <1>3 DEF Strip, c

Limit == IF mode = "phone" THEN ShortTotal ELSE MaxTotal
Line == [segments : Seq(Segment), total : Nat, blocks : BOOLEAN]

LEMMA NoLine ==
  /\ NoTimeline \in Line /\ ~NoTimeline.blocks
  /\ Within(NoTimeline.segments, NoTimeline.total, Limit)
<1>1. <<>> \in Seq(Segment) /\ DOMAIN <<>> = {}
  OBVIOUS
<1>2. Limit \in Nat
  BY StageAssumption DEF Limit
<1>3. NoTimeline.segments = <<>> /\ NoTimeline.total = 0 /\ NoTimeline.blocks = FALSE
  BY DEF NoTimeline
<1>4. NoTimeline \in Line
  BY <1>1 DEF NoTimeline, Line
<1> QED BY <1>1, <1>2, <1>3, <1>4 DEF Within, Chained

\* The parts of a timeline that follow the main one, when that ends at n.
Begins(n, s, i) == n + LengthSum(SubSeq(s, 1, i - 1))

LEMMA BeginsSteps ==
  ASSUME NEW n \in Nat, NEW s \in Seq(Preset), NEW i \in DOMAIN s
  PROVE  /\ Begins(n, s, i) \in Nat /\ LengthOf(s[i]) \in Nat
         /\ Begins(n, s, i) = IF i = 1 THEN n ELSE Begins(n, s, i - 1) + LengthOf(s[i - 1])
<1> DEFINE Y == Preset
           a(j) == SubSeq(s, 1, j)
<1>1. s \in Seq(Y) /\ i \in 1..Len(s) /\ Len(s) \in Nat
  OBVIOUS
<1>2. \A j \in 1..Len(s) : a(j - 1) \in Seq(Y) /\ s[j] \in Y /\ a(j) = Append(a(j - 1), s[j])
  <2> HIDE DEF Y
  <2> QED BY <1>1, PrefixMore
<1>3. a(0) = <<>>
  BY <1>1
<1> HIDE DEF a
<1>4. \A j \in 1..Len(s) : LengthSum(a(j - 1)) \in Nat /\ LengthSum(a(j)) = LengthSum(a(j - 1)) + LengthOf(s[j])
  BY <1>2, LengthSteps
<1>5. LengthSum(a(0)) = 0
  BY <1>3, LengthSteps
<1>6. \A j \in 1..Len(s) : LengthOf(s[j]) \in Nat
  BY <1>2, LengthKind
<1>7. \A j : Begins(n, s, j) = n + LengthSum(a(j - 1))
  BY DEF Begins, a
<1>8. CASE i = 1
  BY <1>1, <1>4, <1>5, <1>6, <1>7, <1>8
<1>9. CASE i # 1
  <2> DEFINE j == i - 1
  <2>1. j \in 1..Len(s) /\ i - 1 = j
    BY <1>1, <1>9
  <2> HIDE DEF j
  <2>2. /\ LengthSum(a(j)) = LengthSum(a(j - 1)) + LengthOf(s[j])
        /\ LengthSum(a(j - 1)) \in Nat /\ LengthOf(s[j]) \in Nat
    BY <1>4, <1>6, <2>1
  <2>3. Begins(n, s, i) = n + LengthSum(a(j)) /\ Begins(n, s, j) = n + LengthSum(a(j - 1))
    BY <1>7, <2>1
  <2>4. LengthOf(s[i]) \in Nat
    BY <1>1, <1>6
  <2> QED BY <1>9, <2>1, <2>2, <2>3, <2>4
<1> QED BY <1>8, <1>9

LEMMA TimelineWithin ==
  ASSUME NEW presets \in Seq(Preset)
  PROVE  /\ Timeline(presets) \in Line
         /\ Within(Timeline(presets).segments, Timeline(presets).total, Limit)
<1> DEFINE mains == {i \in DOMAIN presets : ~presets[i].layered}
           main == presets[Min(mains)]
           layers == Selection(presets, {p \in ToSet(presets) : p.layered})
           tail == SubSeq(presets, Min(mains) + 1, Len(presets))
           rest == Selection(tail, {p \in ToSet(presets) : ~p.layered})
           first == [kind |-> "main", start |-> 0, end |-> LengthOf(main)]
           l == [i \in DOMAIN layers |-> [kind |-> "layered", start |-> 0, end |-> LengthOf(layers[i])]]
           r == [i \in DOMAIN rest |->
                   [kind |-> "followup", start |-> Begins(LengthOf(main), rest, i),
                    end |-> Begins(LengthOf(main), rest, i) + LengthOf(rest[i])]]
           s == <<first>> \o l \o r
           c == IF mode = "phone" THEN Scaled(SubSeq(s, 1, 1), ShortTotal) ELSE Scaled(s, MaxTotal)
<1>1. CASE mains = {}
  <2>1. Timeline(presets) = NoTimeline
    BY <1>1 DEF Timeline
  <2> QED BY <2>1, NoLine
<1>2. CASE mains # {}
  <2>1. Timeline(presets) = [segments |-> c, total |-> Total(c), blocks |-> main.blocks]
    BY <1>2 DEF Timeline, Begins, LengthSum
  <2>2. Min(mains) \in mains
    <3>1. \E x \in mains : \A y \in mains : x <= y
      <4>1. mains \subseteq Nat
        OBVIOUS
      <4> HIDE DEF mains
      <4> QED BY <1>2, <4>1, LeastNatural
    <3> HIDE DEF mains
    <3> QED BY <3>1 DEF Min
  <2>3. main \in Preset
    BY <2>2
  <2>4. LengthOf(main) \in Nat \ {0} /\ main.blocks \in BOOLEAN
    <3> HIDE DEF main
    <3> QED BY <2>3, LengthKind DEF Preset
  <2>5. layers \in Seq(Preset) /\ rest \in Seq(Preset)
    <3> DEFINE Y == Preset
               T == {p \in ToSet(presets) : p.layered}
               U == {p \in ToSet(presets) : ~p.layered}
    <3>1. presets \in Seq(Y) /\ tail \in Seq(Y)
      <4>1. Min(mains) \in Nat /\ Min(mains) >= 1 /\ Min(mains) <= Len(presets) /\ Len(presets) \in Nat
        BY <2>2
      <4> DEFINE i == Min(mains)
      <4>2. i \in 1..Len(presets) /\ presets \in Seq(Y)
        BY <4>1
      <4> HIDE DEF i, Y
      <4>3. SubSeq(presets, i + 1, Len(presets)) \in Seq(Y)
        BY <4>2, AfterPart
      <4> QED BY <4>2, <4>3 DEF i
    <3> HIDE DEF Y, T, U, tail
    <3> QED BY <3>1, SelectionSteps DEF Y, T, U
  <2> HIDE DEF main, layers, rest, mains, tail
  <2>6. first \in Segment
    BY <2>4 DEF Segment
  <2>7. l \in Seq(Segment) /\ \A i \in DOMAIN l : l[i].kind = "layered" /\ l[i].start <= l[i].end
    <3>1. \A i \in DOMAIN layers : LengthOf(layers[i]) \in Nat
      <4>1. \A i \in DOMAIN layers : layers[i] \in Preset
        BY <2>5
      <4> QED BY <4>1, LengthKind
    <3>2. \A i \in DOMAIN layers : [kind |-> "layered", start |-> 0, end |-> LengthOf(layers[i])] \in Segment
      BY <3>1 DEF Segment
    <3> DEFINE Y == Segment
               k == Len(layers)
    <3>3. k \in Nat /\ DOMAIN layers = 1..k
      BY <2>5
    <3>4. l \in [1..k -> Y]
      BY <3>2, <3>3
    <3>5. \A i \in DOMAIN l : l[i].kind = "layered" /\ l[i].start <= l[i].end
      BY <3>1
    <3> HIDE DEF Y, l, k
    <3>6. l \in Seq(Y)
      BY <3>3, <3>4
    <3> QED BY <3>5, <3>6 DEF Y
  <2>8. /\ r \in Seq(Segment) /\ \A i \in DOMAIN r : r[i].start <= r[i].end
        /\ \A i \in DOMAIN r : r[i].start = IF i = 1 THEN first.end ELSE r[i - 1].end
        /\ \A i \in DOMAIN r : r[i].kind = "followup"
    <3> DEFINE n == LengthOf(main)
               B(i) == Begins(n, rest, i)
               Y == Segment
               k == Len(rest)
    <3>1. \A i \in DOMAIN rest : /\ B(i) \in Nat /\ LengthOf(rest[i]) \in Nat
                                 /\ B(i) = IF i = 1 THEN n ELSE B(i - 1) + LengthOf(rest[i - 1])
      BY <2>4, <2>5, BeginsSteps
    <3>2. first.end = n
      OBVIOUS
    <3>3. r = [i \in DOMAIN rest |-> [kind |-> "followup", start |-> B(i), end |-> B(i) + LengthOf(rest[i])]]
      OBVIOUS
    <3>4. k \in Nat /\ DOMAIN rest = 1..k
      BY <2>5
    <3> HIDE DEF n, B, r, first, k
    <3>5. DOMAIN r = 1..k
      BY <3>3, <3>4
    <3>6. \A i \in DOMAIN r : r[i].kind = "followup" /\ r[i].start = B(i) /\ r[i].end = B(i) + LengthOf(rest[i])
      BY <3>3
    <3>7. \A i \in DOMAIN r : r[i] \in Y
      BY <3>1, <3>3 DEF Segment
    <3>8. r \in Seq(Y)
      <4>1. r \in [1..k -> Y]
        BY <3>3, <3>5, <3>7
      <4> HIDE DEF Y
      <4> QED BY <3>4, <4>1
    <3>9. \A i \in DOMAIN r : r[i].start <= r[i].end
      BY <3>1, <3>4, <3>5, <3>6
    <3>10. ASSUME NEW i \in DOMAIN r PROVE r[i].start = IF i = 1 THEN first.end ELSE r[i - 1].end
      <4>1. CASE i = 1
        BY <3>1, <3>2, <3>4, <3>5, <3>6, <4>1
      <4>2. CASE i # 1
        <5>1. i - 1 \in DOMAIN r
          BY <3>4, <3>5, <4>2
        <5> QED BY <3>1, <3>4, <3>5, <3>6, <4>2, <5>1
      <4> QED BY <4>1, <4>2
    <3> QED BY <3>6, <3>8, <3>9, <3>10
  <2>9. first.kind = "main" /\ first.start <= first.end /\ first.end > 0
    BY <2>4
  <2> HIDE DEF first, l, r
  <2>10. Strip(s)
    BY <2>6, <2>7, <2>8, <2>9, StripMade
  <2> HIDE DEF s
  <2>11. Strip(SubSeq(s, 1, 1))
    BY <2>10, StripFirst
  <2>12. c \in Seq(Segment) /\ Total(c) \in Nat /\ Within(c, Total(c), Limit)
    <3>1. CASE mode = "phone"
      <4> DEFINE o == SubSeq(s, 1, 1)
      <4>1. Strip(o) /\ ShortTotal \in Nat \ {0} /\ c = Scaled(o, ShortTotal) /\ Limit = ShortTotal
        BY <2>11, <3>1, StageAssumption DEF Limit
      <4> HIDE DEF o, c
      <4> QED BY <4>1, ScaledWithin
    <3>2. CASE mode # "phone"
      <4>1. MaxTotal \in Nat \ {0} /\ c = Scaled(s, MaxTotal) /\ Limit = MaxTotal
        BY <3>2, StageAssumption DEF Limit
      <4> HIDE DEF c
      <4> QED BY <2>10, <4>1, ScaledWithin
    <3> QED BY <3>1, <3>2
  <2> HIDE DEF c
  <2> QED BY <2>1, <2>4, <2>12 DEF Line
<1> QED BY <1>1, <1>2

-----------------------------------------------------------------------------
(* The board: a runtime that holds it back only under its timeline.           *)

Machine(all) ==
  {r \in [seen : Nat, timeline : Line, over : Nat, held : Int] :
     /\ Within(r.timeline.segments, r.timeline.total, Limit)
     /\ r.held # NoBoard => r.timeline.blocks /\ r.held = r.over - 1
     /\ r.timeline # NoTimeline => r.over \in DOMAIN all /\ all[r.over].type \in Animated}

\* The events of a log that are animated, by their place.
Cues(all) == {i \in DOMAIN all : all[i].type \in Animated}

LEMMA ShownPresets ==
  ASSUME NEW all \in Seq(Note), NEW i \in Cues(all)
  PROVE  all[i].shows \in Seq(Preset) /\ i \in Nat /\ i > 0
<1>1. i \in DOMAIN all /\ all[i].type \in Animated
  BY DEF Cues
<1>2. all[i] \in Note /\ i \in Nat /\ i > 0
  BY <1>1
<1>3. PICK t \in Types : all[i] \in EventsOfType(t)
  BY <1>1, <1>2 DEF Note, Created, Animated
<1>4. t \in Animated /\ all[i].shows \in Shows[t]
  BY <1>1, <1>3 DEF EventsOfType
<1>5. Shows[t] \subseteq Seq(Preset)
  BY <1>4, StageAssumption DEF Preset
<1> QED BY <1>2, <1>4, <1>5

\* What ends a timeline releases the board with it.
LEMMA FinishedIsFree ==
  ASSUME NEW all, NEW r \in Machine(all)
  PROVE  Finished(r) \in Machine(all)
<1> DEFINE none == NoTimeline
           nothing == NoBoard
           L == Line
           f == [r EXCEPT !.timeline = none, !.over = 0, !.held = nothing]
<1>1. none \in L /\ nothing \in Int
  BY NoLine DEF NoBoard
<1>2. r \in [seen : Nat, timeline : L, over : Nat, held : Int]
  BY DEF Machine
<1>3. Finished(r) = f
  BY DEF Finished
<1> HIDE DEF none, nothing, L
<1>4. f \in [seen : Nat, timeline : L, over : Nat, held : Int] /\ f.timeline = none /\ f.held = nothing
  BY <1>1, <1>2
<1> HIDE DEF f
<1>5. f \in Machine(all)
  BY <1>4, NoLine DEF L, none, nothing, Machine
<1> QED BY <1>3, <1>5

\* A timeline that has been finished, and one that begins, however many came before.
LEMMA ScheduleKeeps ==
  ASSUME NEW all \in Seq(Note), NEW r \in Machine(all), NEW i \in Cues(all)
  PROVE  Schedule(all, r, i) \in Machine(all)
<1> DEFINE t == Timeline(all[i].shows)
           rest == IF r.timeline = NoTimeline THEN r ELSE Finished(r)
           played == IF ~animations \/ t = NoTimeline THEN rest ELSE Played(all, rest, i, t)
<1>1. all[i].shows \in Seq(Preset) /\ i \in Nat /\ i > 0 /\ i \in DOMAIN all /\ all[i].type \in Animated
  BY ShownPresets DEF Cues
<1>2. t \in Line /\ Within(t.segments, t.total, Limit)
  BY <1>1, TimelineWithin
<1>3. t.blocks \in BOOLEAN
  BY <1>2 DEF Line
<1> HIDE DEF t
<1>4. rest \in Machine(all)
  <2>1. CASE r.timeline = NoTimeline
    BY <2>1
  <2>2. CASE r.timeline # NoTimeline
    BY <2>2, FinishedIsFree
  <2> QED BY <2>1, <2>2
<1> HIDE DEF rest
<1>5. played \in Machine(all)
  <2>1. CASE ~animations \/ t = NoTimeline
    BY <1>4, <2>1
  <2>2. CASE ~(~animations \/ t = NoTimeline)
    <3> DEFINE p == Played(all, rest, i, t)
    <3>1. i - 1 \in Int /\ NoBoard \in Int /\ i - 1 # NoBoard
      BY <1>1 DEF NoBoard
    <3>2. /\ p.seen = rest.seen /\ p.timeline = t /\ p.over = i
          /\ p.held = IF t.blocks /\ all[i].type # "preview" THEN i - 1 ELSE NoBoard
      BY <1>4 DEF Played, Machine
    <3>3. p \in [seen : Nat, timeline : Line, over : Nat, held : Int]
      BY <1>1, <1>2, <1>4, <3>1 DEF Played, Machine
    <3> HIDE DEF p
    <3>4. p \in Machine(all)
      BY <1>1, <1>2, <1>3, <3>1, <3>2, <3>3 DEF Machine
    <3> QED BY <2>2, <3>4 DEF p
  <2> QED BY <2>1, <2>2
<1>6. Schedule(all, r, i) = [played EXCEPT !.seen = i]
  BY DEF Schedule, t, rest
<1> HIDE DEF played
<1>7. [played EXCEPT !.seen = i] \in Machine(all)
  <2> DEFINE p == [played EXCEPT !.seen = i]
  <2>1. p.timeline = played.timeline /\ p.over = played.over /\ p.held = played.held
    BY <1>5 DEF Machine
  <2>2. p \in [seen : Nat, timeline : Line, over : Nat, held : Int]
    BY <1>1, <1>5 DEF Machine
  <2> HIDE DEF p
  <2>3. p \in Machine(all)
    BY <1>5, <2>1, <2>2 DEF Machine
  <2> QED BY <2>3 DEF p
<1> QED BY <1>6, <1>7

ScheduleAll(all, b, s) == FoldLeft(LAMBDA r, i : Schedule(all, r, i), b, s)
Scheduler(g, all, b, s) ==
  g = [S \in SUBSET DOMAIN s |-> IF S = {} THEN b ELSE Schedule(all, g[S \ {Max(S)}], s[Max(S)])]

LEMMA ScheduleIsChosen ==
  ASSUME NEW all, NEW b, NEW s
  PROVE  ScheduleAll(all, b, s) = (CHOOSE g : Scheduler(g, all, b, s))[DOMAIN s]
BY DEF ScheduleAll, FoldLeft, MapThenFoldSet, Scheduler

LEMMA ScheduleAllKeeps ==
  ASSUME NEW all \in Seq(Note), NEW b \in Machine(all), NEW s \in Seq(Cues(all))
  PROVE  ScheduleAll(all, b, s) \in Machine(all)
<1> DEFINE X == Machine(all)
           Y == Cues(all)
           F == [p \in X \X Y |-> Schedule(all, p[1], p[2])]
           c == CHOOSE g : Scheduler(g, all, b, s)
           k == Len(s)
<1>1. Folding(F, X, Y)
  BY ScheduleKeeps DEF Folding
<1>2. \A r \in X, i \in Y : F[<<r, i>>] = Schedule(all, r, i)
  OBVIOUS
<1>3. b \in X /\ s \in Seq(Y)
  OBVIOUS
<1> HIDE DEF F, X, Y
<1>4. k \in Nat /\ DOMAIN s = 1..k
  BY <1>3
<1>5. ASSUME NEW S \in SUBSET DOMAIN s, S # {}
      PROVE  s[Max(S)] \in Y /\ S \ {Max(S)} \in SUBSET DOMAIN s
  <2>1. \A j \in DOMAIN s : s[j] \in Y
    BY <1>3
  <2> HIDE DEF k
  <2>2. S \in SUBSET (1..k)
    BY <1>4
  <2>3. Max(S) \in S
    BY <1>4, <1>5, <2>2, MaxOfPart
  <2> QED BY <2>1, <2>3
<1>6. Scheduler(c, all, b, s)
  <2>1. PICK g : Folder(g, F, b, s) /\ \A S \in SUBSET DOMAIN s : g[S] \in X
    BY <1>1, <1>3, TypedFolder
  <2>2. ASSUME NEW S \in SUBSET DOMAIN s
        PROVE  (IF S = {} THEN b ELSE F[<<g[S \ {Max(S)}], s[Max(S)]>>])
             = (IF S = {} THEN b ELSE Schedule(all, g[S \ {Max(S)}], s[Max(S)]))
    BY <1>2, <1>5, <2>1
  <2>3. Scheduler(g, all, b, s)
    BY <2>1, <2>2 DEF Folder, Scheduler
  <2> QED BY <2>3
<1>7. ScheduleAll(all, b, s) = c[DOMAIN s]
  BY ScheduleIsChosen
<1> HIDE DEF c
<1>8. FoldsBy(c, F, b, s, Len(s), X)
  <2>1. c[{}] = b
    BY <1>6 DEF Scheduler
  <2>2. ASSUME NEW S \in SUBSET (1..Len(s)), S # {}, c[S \ {Max(S)}] \in X
        PROVE  c[S] = F[<<c[S \ {Max(S)}], s[Max(S)]>>]
    <3>1. S \in SUBSET DOMAIN s
      BY <1>4
    <3>2. c[S] = Schedule(all, c[S \ {Max(S)}], s[Max(S)])
      BY <1>6, <2>2, <3>1 DEF Scheduler
    <3>3. s[Max(S)] \in Y
      BY <1>5, <2>2, <3>1
    <3> QED BY <1>2, <2>2, <3>2, <3>3
  <2> QED BY <2>1, <2>2 DEF FoldsBy
<1>9. c[DOMAIN s] = FoldOf(F, b, s)
  BY <1>1, <1>3, <1>8, FoldByFunction
<1>10. FoldOf(F, b, s) \in X
  BY <1>1, <1>3, FoldSteps
<1> QED BY <1>7, <1>9, <1>10 DEF X

BoardInv == news \in Seq(Note) /\ Runtime \in Machine(news)

\* The events that come later change nothing of what is on the board.
LEMMA MachineMore ==
  ASSUME NEW all \in Seq(Note), NEW more \in Seq(Note), NEW r \in Machine(all)
  PROVE  all \o more \in Seq(Note) /\ r \in Machine(all \o more)
<1> DEFINE N == Note
           both == all \o more
<1>1. all \in Seq(N) /\ more \in Seq(N)
  OBVIOUS
<1> HIDE DEF N
<1>2. both \in Seq(N) /\ \A i \in DOMAIN all : i \in DOMAIN both /\ both[i] = all[i]
  BY <1>1
<1> HIDE DEF both
<1>3. r \in Machine(both)
  BY <1>2 DEF Machine
<1> QED BY <1>2, <1>3 DEF N, both

\* The new events that are animated are played one after the other.
LEMMA ProcessKeeps ==
  ASSUME NEW all \in Seq(Note), Runtime \in Machine(all), ProcessEvents(all)
  PROVE  Runtime' \in Machine(all)
<1> DEFINE places == [i \in DOMAIN all |-> i]
           Z == Cues(all)
           T == {i \in DOMAIN all : i > seen /\ all[i].type \in Animated}
           Y == DOMAIN all
           fresh == Selection(places, T)
           b == Runtime
<1>1. fresh \in Seq(Z)
  <2>1. places \in Seq(Y)
    <3> DEFINE k == Len(all)
    <3>1. k \in Nat /\ DOMAIN all = 1..k
      OBVIOUS
    <3> HIDE DEF k
    <3> QED BY <3>1
  <2>2. \A x \in Y : x \in T => x \in Z
    BY DEF Cues
  <2> HIDE DEF places, T, Y, Z
  <2> QED BY <2>1, <2>2, SelectionOf
<1> DEFINE c == ScheduleAll(all, b, fresh)
<1>2. b \in Machine(all)
  OBVIOUS
<1>3. Become(c)
  BY DEF ProcessEvents, ScheduleAll
<1> HIDE DEF places, Z, T, Y, fresh, b
<1>4. c \in Machine(all)
  BY <1>1, <1>2, ScheduleAllKeeps DEF Z
<1> HIDE DEF c
<1>5. c = [seen |-> c.seen, timeline |-> c.timeline, over |-> c.over, held |-> c.held]
  BY <1>4 DEF Machine
<1>6. Runtime' = c
  BY <1>3, <1>5 DEF Become, Runtime
<1> QED BY <1>4, <1>6

LEMMA BoardStarts == StageInit => BoardInv
<1> SUFFICES ASSUME StageInit PROVE BoardInv
  OBVIOUS
<1>1. news \in Seq(Note)
  BY DEF StageInit, Note
<1> DEFINE none == NoTimeline
           nothing == NoBoard
           r == [seen |-> 0, timeline |-> none, over |-> 0, held |-> nothing]
<1>2. none \in Line /\ nothing \in Int /\ Within(none.segments, none.total, Limit)
  BY NoLine DEF NoBoard
<1>3. Runtime = r
  BY DEF StageInit, Runtime
<1>4. r \in Machine(news)
  <2> HIDE DEF none, nothing
  <2>1. r \in [seen : Nat, timeline : Line, over : Nat, held : Int]
    BY <1>2
  <2> QED BY <1>2, <2>1 DEF Machine, none, nothing
<1> QED BY <1>1, <1>3, <1>4 DEF BoardInv

\* What a runtime may be depends on the device and the log only.
LEMMA MachineStays ==
  ASSUME mode' = mode
  PROVE  \A r : r \in Machine(news') <=> r \in Machine(news)'
BY DEF Machine, Limit, Line, Segment, Within, Chained, Animated, NoTimeline, NoBoard

LEMMA ArriveKeepsBoard ==
  ASSUME BoardInv, NEW batch \in Seq(Note), Arrive(batch)
  PROVE  BoardInv'
<1> DEFINE all == news \o batch
           b == Runtime
<1>1. news \in Seq(Note) /\ b \in Machine(news)
  BY DEF BoardInv
<1>2. all \in Seq(Note) /\ b \in Machine(all)
  <2> HIDE DEF b
  <2> QED BY <1>1, MachineMore
<1>3. news' = all /\ mode' = mode
  BY DEF Arrive
<1>4. IF rendered = 0 THEN UNCHANGED runtimeVars ELSE ProcessEvents(all)
  BY DEF Arrive
<1>5. Runtime' \in Machine(all)
  <2>1. CASE rendered = 0
    BY <1>2, <1>4, <2>1 DEF runtimeVars, Runtime
  <2>2. CASE rendered # 0
    <3>1. ProcessEvents(all) /\ Runtime \in Machine(all)
      BY <1>2, <1>4, <2>2
    <3> HIDE DEF all
    <3> DEFINE a == all
    <3> QED BY <1>2, <3>1, ProcessKeeps
  <2> QED BY <2>1, <2>2
<1> HIDE DEF all
<1> QED BY <1>2, <1>3, <1>5, MachineStays DEF BoardInv

LEMMA TimelineEndsKeepsBoard ==
  ASSUME BoardInv, TimelineEnds
  PROVE  BoardInv'
<1> DEFINE b == Runtime
           c == Finished(b)
<1>1. b \in Machine(news) /\ news' = news /\ mode' = mode /\ Become(c)
  BY DEF BoardInv, TimelineEnds
<1> HIDE DEF b
<1>2. c \in Machine(news)
  BY <1>1, FinishedIsFree
<1> HIDE DEF c
<1>3. c = [seen |-> c.seen, timeline |-> c.timeline, over |-> c.over, held |-> c.held]
  BY <1>2 DEF Machine
<1>4. Runtime' = c
  BY <1>1, <1>3 DEF Become, Runtime
<1> QED BY <1>1, <1>2, <1>4, MachineStays DEF BoardInv

\* The effect that only notes what it has seen.
LEMMA SeenKeepsBoard ==
  ASSUME BoardInv, UNCHANGED <<mode, news, timeline, over, held>>, seen' = seen \/ seen' = Len(news)
  PROVE  BoardInv'
<1> DEFINE b == Runtime
           c == Runtime'
<1>1. b \in Machine(news) /\ news \in Seq(Note)
  BY DEF BoardInv
<1>2. c.seen \in Nat /\ c.timeline = b.timeline /\ c.over = b.over /\ c.held = b.held
  <2>1. seen \in Nat
    BY <1>1 DEF Machine, Runtime
  <2>2. Len(news) \in Nat
    BY <1>1
  <2> QED BY <2>1, <2>2 DEF Runtime
<1>3. c = [seen |-> c.seen, timeline |-> c.timeline, over |-> c.over, held |-> c.held]
  BY DEF Runtime
<1> HIDE DEF b, c
<1>4. c \in [seen : Nat, timeline : Line, over : Nat, held : Int]
  BY <1>1, <1>2, <1>3 DEF Machine
<1>5. c \in Machine(news)
  BY <1>1, <1>2, <1>4 DEF Machine
<1> QED BY <1>1, <1>5, MachineStays DEF BoardInv, c

LEMMA RemountKeepsBoard ==
  ASSUME BoardInv, Remount
  PROVE  BoardInv'
<1> DEFINE none == NoTimeline
           nothing == NoBoard
           r == [seen |-> 0, timeline |-> none, over |-> 0, held |-> nothing]
<1>1. none \in Line /\ nothing \in Int /\ Within(none.segments, none.total, Limit)
  BY NoLine DEF NoBoard
<1>2. Runtime' = r /\ news' = news /\ mode' = mode /\ news \in Seq(Note)
  BY DEF Remount, Runtime, BoardInv
<1>3. r \in Machine(news)
  <2> HIDE DEF none, nothing
  <2>1. r \in [seen : Nat, timeline : Line, over : Nat, held : Int]
    BY <1>1
  <2> QED BY <1>1, <2>1 DEF Machine, none, nothing
<1> QED BY <1>2, <1>3, MachineStays DEF BoardInv

LEMMA StageStepKeepsBoard ==
  ASSUME BoardInv, [StageNext]_stageVars
  PROVE  BoardInv'
<1>1. ASSUME NEW t \in Types, NEW u \in Types, NEW e \in EventsOfType(t), NEW f \in EventsOfType(u),
             Arrive(<<e>>) \/ Arrive(<<e, f>>)
      PROVE  BoardInv'
  <2>1. e \in Note /\ f \in Note
    BY DEF Note
  <2>2. <<e>> \in Seq(Note) /\ <<e, f>> \in Seq(Note)
    BY <2>1
  <2> QED BY <1>1, <2>2, ArriveKeepsBoard
<1>2. CASE TimelineEnds
  BY <1>2, TimelineEndsKeepsBoard
<1>3. CASE ToggleAnimations \/ Render
  <2>1. UNCHANGED <<mode, news, timeline, over, held>> /\ (seen' = seen \/ seen' = Len(news))
    BY <1>3 DEF ToggleAnimations, Render
  <2> QED BY <2>1, SeenKeepsBoard
<1>4. CASE Remount
  BY <1>4, RemountKeepsBoard
<1>5. CASE LeaderOver \/ DismissLeader \/ NoticeOver \/ GoIdle \/ UNCHANGED stageVars
  <2>1. UNCHANGED <<mode, news, timeline, over, held, seen>>
    BY <1>5 DEF LeaderOver, DismissLeader, NoticeOver, GoIdle, stageVars, runtimeVars
  <2> QED BY <2>1, SeenKeepsBoard
<1> QED BY <1>1, <1>2, <1>3, <1>4, <1>5 DEF StageNext

LEMMA BoardOfMachine == BoardInv => BoardReleased
<1> SUFFICES ASSUME BoardInv PROVE BoardReleased
  OBVIOUS
<1>1. /\ Within(timeline.segments, timeline.total, Limit)
      /\ held # NoBoard => timeline.blocks /\ held = over - 1
      /\ timeline # NoTimeline => over \in DOMAIN news /\ news[over].type \in Animated
  BY DEF BoardInv, Machine, Runtime
<1>2. TimelineFits
  BY <1>1 DEF TimelineFits, Within, Chained, Limit
<1> QED BY <1>1, <1>2 DEF BoardReleased

\* On every device, with every set of presets and every limit: the board is held back only under
\* the timeline of an event of the log that blocks it, as the board that this event found, and
\* the timeline, scaled or cut where it was too long, ends within the limit with all its parts in
\* their order (useAnimationRuntime.ts, playTimeline and finishTimeline; scheduler.ts).
THEOREM BoardAlwaysReleased == StageSpec => []BoardReleased
<1>1. BoardInv /\ [StageNext]_stageVars => BoardInv'
  BY StageStepKeepsBoard
<1> QED BY <1>1, BoardStarts, BoardOfMachine, PTL DEF StageSpec

-----------------------------------------------------------------------------
(* The solo table *)

Row == [type : {"started", "ended", "result", "over"}, series : Nat, seed : Nat]
Keeper == [series : Nat, seed : Nat, place : Nat, awaiting : {"none", "action", "trigger"}]
Plan == [waits : Nat, rows : Seq(Row)]

-----------------------------------------------------------------------------
(* Rows *)

Starts(rs) == {i \in DOMAIN rs : rs[i].type = "started"}

LastIs(rs, s) == \E i \in Starts(rs) : rs[i].series = s /\ \A j \in Starts(rs) : j <= i

\* Within rs, series up to c have been started; the one of d only with the seed of d.
Bounded(rs, c) == \A i \in Starts(rs) : rs[i].series <= c
Knows(rs, c, d) == d.series <= c /\ \A i \in Starts(rs) : rs[i].series = d.series => rs[i].seed = d.seed

\* The plan rs serves the dealer d.
Serves(rs, c, d) ==
  /\ AsCommitted(rs) /\ Committed(rs, Len(rs), d)
  /\ LastIs(rs, d.series) /\ Bounded(rs, c)

\* What a row of each kind says.
LEMMA RowKinds ==
  ASSUME NEW s \in Nat, NEW n \in Nat, NEW d \in Keeper
  PROVE  /\ SeriesRow(s, n) \in Row /\ SealRow(s, n) \in Row /\ ResultRow(d) \in Row /\ LastRow \in Row
         /\ SeriesRow(s, n).type = "started" /\ SeriesRow(s, n).series = s /\ SeriesRow(s, n).seed = n
         /\ SealRow(s, n).type = "ended" /\ SealRow(s, n).series = s /\ SealRow(s, n).seed = n
         /\ ResultRow(d).type = "result" /\ ResultRow(d).series = d.series /\ ResultRow(d).seed = d.seed
         /\ LastRow.type = "over"
BY DEF SeriesRow, SealRow, ResultRow, LastRow, Row, Keeper

LEMMA StartedRow ==
  ASSUME NEW r \in Row, r.type = "started"
  PROVE  r = SeriesRow(r.series, r.seed)
BY DEF Row, SeriesRow

\* Rows and what follows them.
LEMMA Joined ==
  ASSUME NEW l \in Seq(Row), NEW es \in Seq(Row)
  PROVE  /\ l \o es \in Seq(Row) /\ Len(l \o es) = Len(l) + Len(es)
         /\ DOMAIN l = 1..Len(l) /\ DOMAIN es = 1..Len(es) /\ Len(l) \in Nat /\ Len(es) \in Nat
         /\ DOMAIN (l \o es) = 1..(Len(l) + Len(es))
         /\ \A i \in DOMAIN l : i \in DOMAIN (l \o es) /\ (l \o es)[i] = l[i]
         /\ \A j \in DOMAIN es : Len(l) + j \in DOMAIN (l \o es) /\ (l \o es)[Len(l) + j] = es[j]
         /\ \A i \in DOMAIN (l \o es) : i \in DOMAIN l \/ \E j \in DOMAIN es : i = Len(l) + j
<1>1. /\ l \o es \in Seq(Row) /\ Len(l \o es) = Len(l) + Len(es)
      /\ \A i \in 1..(Len(l) + Len(es)) :
           (l \o es)[i] = IF i <= Len(l) THEN l[i] ELSE es[i - Len(l)]
  BY ConcatProperties
<1>2. /\ DOMAIN l = 1..Len(l) /\ DOMAIN es = 1..Len(es) /\ Len(l) \in Nat /\ Len(es) \in Nat
      /\ DOMAIN (l \o es) = 1..(Len(l) + Len(es))
  BY <1>1
<1>3. \A i \in DOMAIN l : i \in DOMAIN (l \o es) /\ (l \o es)[i] = l[i]
  BY <1>1, <1>2
<1>4. \A j \in DOMAIN es : Len(l) + j \in DOMAIN (l \o es) /\ (l \o es)[Len(l) + j] = es[j]
  <2> TAKE j \in DOMAIN es
  <2>1. j \in Nat \ {0} /\ j <= Len(es) /\ ~(Len(l) + j <= Len(l)) /\ Len(l) + j - Len(l) = j
    BY <1>2
  <2>2. Len(l) + j \in 1..(Len(l) + Len(es))
    BY <1>2, <2>1
  <2> QED BY <1>1, <1>2, <2>1, <2>2
<1>5. ASSUME NEW i \in DOMAIN (l \o es), i \notin DOMAIN l
      PROVE  \E j \in DOMAIN es : i = Len(l) + j
  <2>1. i - Len(l) \in DOMAIN es /\ i = Len(l) + (i - Len(l))
    BY <1>2, <1>5
  <2> QED BY <2>1
<1> QED BY <1>1, <1>2, <1>3, <1>4, <1>5

\* What is committed in rows stays so in longer ones.
LEMMA CommittedLonger ==
  ASSUME NEW l \in Seq(Row), NEW es \in Seq(Row), NEW n \in 0 .. Len(l), NEW m \in Nat, n <= m,
         NEW r, Committed(l, n, r)
  PROVE  Committed(l \o es, m, r)
<1>1. PICK k \in 1 .. n : l[k] = SeriesRow(r.series, r.seed)
  BY DEF Committed
<1>2. k \in DOMAIN l /\ k \in 1 .. m
  BY Joined
<1>3. (l \o es)[k] = l[k]
  BY <1>2, Joined
<1> QED BY <1>1, <1>2, <1>3 DEF Committed

\* Rows of a dealer that the plan serves may follow it.
LEMMA JoinedCommitted ==
  ASSUME NEW l \in Seq(Row), NEW es \in Seq(Row), NEW d \in Keeper,
         AsCommitted(l), Committed(l, Len(l), d),
         \A j \in DOMAIN es : es[j].type \in {"result", "ended"} =>
           es[j].series = d.series /\ es[j].seed = d.seed
  PROVE  AsCommitted(l \o es)
<1> DEFINE m == l \o es
<1>1. ASSUME NEW i \in DOMAIN m, m[i].type \in {"result", "ended"}
      PROVE  Committed(m, i - 1, m[i])
  <2>1. CASE i \in DOMAIN l
    <3>1. m[i] = l[i] /\ i \in 1 .. Len(l) /\ Len(l) \in Nat
      BY <2>1, Joined
    <3>2. Committed(l, i - 1, l[i])
      BY <1>1, <2>1, <3>1 DEF AsCommitted
    <3>3. i - 1 \in 0 .. Len(l) /\ i - 1 \in Nat /\ i - 1 <= i - 1
      BY <3>1
    <3> HIDE DEF m
    <3>4. Committed(m, i - 1, l[i])
      BY <3>2, <3>3, CommittedLonger DEF m
    <3> QED BY <3>1, <3>4
  <2>2. CASE \E j \in DOMAIN es : i = Len(l) + j
    <3>1. PICK j \in DOMAIN es : i = Len(l) + j
      BY <2>2
    <3>2. m[i] = es[j] /\ j \in Nat \ {0} /\ Len(l) \in Nat
      BY <3>1, Joined
    <3>3. es[j].series = d.series /\ es[j].seed = d.seed
      BY <1>1, <3>2
    <3>4. Committed(l, Len(l), es[j])
      BY <3>3 DEF Committed
    <3>5. Len(l) \in 0 .. Len(l) /\ i - 1 \in Nat /\ Len(l) <= i - 1
      BY <3>1, <3>2
    <3> HIDE DEF m
    <3>6. Committed(m, i - 1, es[j])
      BY <3>4, <3>5, CommittedLonger DEF m
    <3> QED BY <3>2, <3>6
  <2> QED BY <1>1, <2>1, <2>2, Joined
<1> QED BY <1>1 DEF AsCommitted

\* Which rows of the longer plan start a series.
LEMMA JoinedStarts ==
  ASSUME NEW l \in Seq(Row), NEW es \in Seq(Row)
  PROVE  /\ \A i \in Starts(l) : i \in Starts(l \o es) /\ (l \o es)[i] = l[i]
         /\ \A j \in Starts(es) : Len(l) + j \in Starts(l \o es) /\ (l \o es)[Len(l) + j] = es[j]
         /\ \A i \in Starts(l \o es) :
              \/ i \in Starts(l)
              \/ \E j \in Starts(es) : i = Len(l) + j
<1> DEFINE m == l \o es
<1>0. /\ \A x \in DOMAIN l : x \in DOMAIN m /\ m[x] = l[x]
      /\ \A y \in DOMAIN es : Len(l) + y \in DOMAIN m /\ m[Len(l) + y] = es[y]
      /\ \A x \in DOMAIN m : x \in DOMAIN l \/ \E y \in DOMAIN es : x = Len(l) + y
  BY Joined
<1> HIDE DEF m
<1>1. /\ \A i \in Starts(l) : i \in Starts(m) /\ m[i] = l[i]
      /\ \A j \in Starts(es) : Len(l) + j \in Starts(m) /\ m[Len(l) + j] = es[j]
      /\ \A i \in Starts(m) : i \in Starts(l) \/ \E j \in Starts(es) : i = Len(l) + j
  BY <1>0 DEF Starts
<1> QED BY <1>1 DEF m

\* The plan goes on with rows of the same series.
LEMMA SameSeries ==
  ASSUME NEW l \in Seq(Row), NEW es \in Seq(Row), NEW c \in Nat, NEW d \in Keeper, NEW e \in Keeper,
         Serves(l, c, d), e.series = d.series, e.seed = d.seed, Starts(es) = {},
         \A j \in DOMAIN es : es[j].type \in {"result", "ended"} =>
           es[j].series = d.series /\ es[j].seed = d.seed
  PROVE  /\ Serves(l \o es, c, e)
         /\ \A x \in Keeper : Knows(l, c, x) => Knows(l \o es, c, x)
         /\ Knows(l, c, d) => Knows(l \o es, c, e)
<1> DEFINE m == l \o es
<1>0. Starts(m) = Starts(l) /\ \A i \in Starts(l) : m[i] = l[i]
  <2>1. /\ \A i \in Starts(l) : i \in Starts(m) /\ m[i] = l[i]
        /\ \A i \in Starts(m) : i \in Starts(l) \/ \E j \in Starts(es) : i = Len(l) + j
    BY JoinedStarts
  <2> HIDE DEF m
  <2>2. Starts(m) \subseteq Starts(l) /\ Starts(l) \subseteq Starts(m)
    BY <2>1
  <2> QED BY <2>1, <2>2
<1>1. AsCommitted(m)
  BY JoinedCommitted DEF Serves
<1>2. Committed(m, Len(m), e)
  <2>1. Committed(l, Len(l), e)
    BY DEF Serves, Committed
  <2>2. Len(l) \in 0 .. Len(l) /\ Len(m) \in Nat /\ Len(l) <= Len(m)
    BY Joined
  <2> HIDE DEF m
  <2> QED BY <2>1, <2>2, CommittedLonger DEF m
<1> HIDE DEF m
<1>3. LastIs(m, e.series) /\ Bounded(m, c)
  BY <1>0 DEF LastIs, Bounded, Serves
<1>4. \A x \in Keeper : Knows(l, c, x) => Knows(m, c, x)
  BY <1>0 DEF Knows
<1>5. Knows(l, c, d) => Knows(m, c, e)
  BY <1>0 DEF Knows
<1> QED BY <1>1, <1>2, <1>3, <1>4, <1>5 DEF Serves, m

\* The plan goes on with another series.
LEMMA NextSeries ==
  ASSUME NEW l \in Seq(Row), NEW es \in Seq(Row), NEW c \in Nat, NEW d \in Keeper, NEW e \in Keeper,
         Serves(l, c, d), e.series = c + 1,
         NEW b \in Starts(es), Starts(es) = {b}, es[b] = SeriesRow(e.series, e.seed),
         \A j \in DOMAIN es : es[j].type \in {"result", "ended"} =>
           es[j].series = d.series /\ es[j].seed = d.seed
  PROVE  /\ Serves(l \o es, c + 1, e) /\ Knows(l \o es, c + 1, e)
         /\ \A x \in Keeper : Knows(l, c, x) => Knows(l \o es, c + 1, x)
<1> DEFINE m == l \o es
           a == Len(l) + b
<1>0. /\ \A i \in Starts(l) : i \in Starts(m) /\ m[i] = l[i] /\ i < a
      /\ a \in Starts(m) /\ m[a] = es[b] /\ a \in 1 .. Len(m) /\ Len(m) \in Nat /\ Len(l) \in Nat
      /\ \A i \in Starts(m) : i \in Starts(l) \/ i = a
  <2>1. Starts(l) \subseteq 1 .. Len(l) /\ Starts(es) \subseteq 1 .. Len(es)
    BY Joined DEF Starts
  <2>2. Len(m) = Len(l) + Len(es) /\ Len(l) \in Nat /\ Len(es) \in Nat
    BY Joined
  <2>3. a \in 1 .. Len(m) /\ \A i \in Starts(l) : i < a
    BY <2>1, <2>2
  <2>4. /\ \A i \in Starts(l) : i \in Starts(m) /\ m[i] = l[i]
        /\ a \in Starts(m) /\ m[a] = es[b]
    BY JoinedStarts
  <2>5. \A i \in Starts(m) : i \in Starts(l) \/ \E j \in Starts(es) : i = Len(l) + j
    BY JoinedStarts
  <2> HIDE DEF m
  <2>6. \A i \in Starts(m) : i \in Starts(l) \/ i = a
    BY <2>5
  <2> QED BY <2>2, <2>3, <2>4, <2>6
<1>1. AsCommitted(m)
  BY JoinedCommitted DEF Serves
<1> HIDE DEF m, a
<1>2. es[b].type = "started" /\ es[b].series = c + 1 /\ es[b].seed = e.seed
  BY DEF SeriesRow
<1>3. Committed(m, Len(m), e)
  BY <1>0 DEF Committed
<1>4. \A i \in Starts(l) : l[i].series \in Int /\ l[i].series <= c
  <2> TAKE i \in Starts(l)
  <2>1. l[i] \in Row
    BY DEF Starts
  <2> QED BY <2>1 DEF Serves, Bounded, Row
<1>5. LastIs(m, e.series)
  <2>1. \A i \in Starts(m) : i <= a
    BY <1>0, Joined DEF Starts
  <2> QED BY <1>0, <1>2, <2>1 DEF LastIs
<1>6. Bounded(m, c + 1)
  <2>1. ASSUME NEW i \in Starts(m)
        PROVE  m[i].series <= c + 1
    <3>1. CASE i = a
      <4>1. m[i].series = c + 1
        BY <1>0, <1>2, <3>1
      <4> QED BY <4>1
    <3>2. CASE i \in Starts(l)
      <4>1. m[i].series \in Int /\ m[i].series <= c
        BY <1>0, <1>4, <3>2
      <4> QED BY <4>1
    <3> QED BY <1>0, <2>1, <3>1, <3>2
  <2> QED BY <2>1 DEF Bounded
<1>7. Knows(m, c + 1, e)
  <2>1. ASSUME NEW i \in Starts(m), m[i].series = c + 1
        PROVE  m[i].seed = e.seed
    <3>1. CASE i \in Starts(l)
      <4>1. m[i].series \in Int /\ m[i].series <= c
        BY <1>0, <1>4, <3>1
      <4> QED BY <2>1, <4>1
    <3> QED BY <1>0, <1>2, <2>1, <3>1
  <2> QED BY <2>1 DEF Knows
<1>8. ASSUME NEW x \in Keeper, Knows(l, c, x)
      PROVE  Knows(m, c + 1, x)
  <2>1. x.series \in Int /\ x.series <= c
    BY <1>8 DEF Knows, Keeper
  <2>2. x.series <= c + 1 /\ x.series # c + 1
    BY <2>1
  <2>3. \A i \in Starts(m) : m[i].series = x.series => m[i].seed = x.seed
    BY <1>0, <1>2, <1>8, <2>2 DEF Knows
  <2> QED BY <2>2, <2>3 DEF Knows
<1> QED BY <1>1, <1>3, <1>5, <1>6, <1>7, <1>8 DEF Serves, m

\* Some row is the last to start a series, and the model's LastSeries reads that one.
LEMMA SomeStartIsLast ==
  ASSUME NEW rs \in Seq(Row), NEW s0 \in Starts(rs)
  PROVE  \E i \in Starts(rs) : \A j \in Starts(rs) : j <= i
<1> DEFINE n == Len(rs)
           R == OpToRel(<, Nat)
           T == {n - i : i \in Starts(rs)}
<1>1. n \in Nat /\ Starts(rs) \subseteq 1 .. n
  BY DEF Starts
<1> HIDE DEF n
<1>2. T \subseteq Nat /\ T # {}
  BY <1>1
<1> HIDE DEF T
<1>3. IsWellFoundedOn(R, Nat)
  BY NatLessThanWellFounded
<1> HIDE DEF R
<1>4. \E x \in T : \A y \in T : ~ (<<y, x>> \in R)
  BY <1>2, <1>3, WFMin
<1>5. PICK x \in T : \A y \in T : ~ (<<y, x>> \in R)
  BY <1>4
<1>6. \A y \in T : ~ (y < x)
  BY <1>2, <1>5 DEF R, OpToRel
<1>7. PICK i \in Starts(rs) : x = n - i
  BY DEF T
<1>8. ASSUME NEW j \in Starts(rs)
      PROVE  j <= i
  <2>1. n - j \in T
    BY DEF T
  <2>2. ~ (n - j < n - i)
    BY <1>6, <1>7, <2>1
  <2> QED BY <1>1, <2>2
<1> QED BY <1>8

LEMMA LastSeriesIs ==
  ASSUME NEW rs \in Seq(Row), NEW s, LastIs(rs, s)
  PROVE  LastSeries(rs) = s
<1> DEFINE P(i) == \A j \in Starts(rs) : j <= i
           c == CHOOSE i \in Starts(rs) : P(i)
<1>1. PICK i \in Starts(rs) : rs[i].series = s /\ P(i)
  BY DEF LastIs
<1>2. c \in Starts(rs) /\ P(c)
  BY <1>1
<1>3. Starts(rs) \subseteq Int
  BY DEF Starts
<1>4. c <= i /\ i <= c /\ c \in Int /\ i \in Int
  BY <1>1, <1>2, <1>3
<1>5. c = i
  BY <1>4
<1>6. LastSeries(rs) = rs[c].series
  BY DEF LastSeries, Starts
<1> QED BY <1>1, <1>5, <1>6

LEMMA LastSeriesStarted ==
  ASSUME NEW rs \in Seq(Row), Starts(rs) # {}
  PROVE  LastIs(rs, LastSeries(rs)) /\ LastSeries(rs) \in Nat
<1>1. PICK i \in Starts(rs) : \A j \in Starts(rs) : j <= i
  BY SomeStartIsLast
<1>2. LastIs(rs, rs[i].series)
  BY <1>1 DEF LastIs
<1>3. LastSeries(rs) = rs[i].series
  BY <1>2, LastSeriesIs
<1>4. rs[i] \in Row
  BY DEF Starts
<1> QED BY <1>2, <1>3, <1>4 DEF Row

\* What a reload finds: the first n rows, and a dealer whose series is the last that they start.
LEMMA FirstRows ==
  ASSUME NEW l \in Seq(Row), NEW n \in 1 .. Len(l), NEW c \in Nat, NEW d \in Keeper, NEW e \in Keeper,
         l[1].type = "started", AsCommitted(l), Bounded(l, c), Knows(l, c, d),
         LastSeries(SubSeq(l, 1, n)) = d.series, e.series = d.series, e.seed = d.seed
  PROVE  /\ SubSeq(l, 1, n) \in Seq(Row) /\ Len(SubSeq(l, 1, n)) = n
         /\ SubSeq(l, 1, n)[1] = l[1]
         /\ Serves(SubSeq(l, 1, n), c, e) /\ Knows(SubSeq(l, 1, n), c, d)
<1> DEFINE m == SubSeq(l, 1, n)
<1>1. /\ n \in Nat /\ 1 <= n /\ n <= Len(l) /\ Len(l) \in Nat
      /\ \A i \in 1 .. n : l[i] \in Row /\ i \in DOMAIN l
  OBVIOUS
<1>2. m \in Seq(Row) /\ Len(m) = n /\ \A i \in 1 .. n : m[i] = l[i]
  BY <1>1, SubSeqProperties
<1> HIDE DEF m
<1>3. DOMAIN m = 1 .. n
  BY <1>2
<1>4. \A i \in Starts(m) : i \in Starts(l) /\ m[i] = l[i]
  BY <1>1, <1>2, <1>3 DEF Starts
<1>5. 1 \in Starts(m)
  BY <1>1, <1>2, <1>3 DEF Starts
<1>6. LastIs(m, d.series)
  BY <1>2, <1>5, LastSeriesStarted DEF m
<1>7. PICK k \in Starts(m) : m[k].series = d.series
  BY <1>6 DEF LastIs
<1>8. Committed(m, n, e)
  <2>1. m[k].seed = d.seed /\ m[k] \in Row /\ m[k].type = "started" /\ k \in 1 .. n
    BY <1>1, <1>2, <1>3, <1>4, <1>7 DEF Knows, Starts
  <2>2. m[k] = SeriesRow(e.series, e.seed)
    BY <1>7, <2>1, StartedRow
  <2> QED BY <2>1, <2>2 DEF Committed
<1>9. AsCommitted(m)
  <2>1. ASSUME NEW i \in 1 .. n, m[i].type \in {"result", "ended"}
        PROVE  Committed(m, i - 1, m[i])
    <3>1. Committed(l, i - 1, l[i])
      BY <1>1, <1>2, <2>1 DEF AsCommitted
    <3>2. \A j \in 1 .. i - 1 : j \in 1 .. n
      BY <1>1
    <3> QED BY <1>2, <3>1, <3>2 DEF Committed
  <2> QED BY <1>3, <2>1 DEF AsCommitted
<1>10. Bounded(m, c) /\ Knows(m, c, d)
  BY <1>4 DEF Bounded, Knows
<1>11. m[1] = l[1]
  BY <1>1, <1>2
<1> QED BY <1>2, <1>6, <1>8, <1>9, <1>10, <1>11 DEF Serves, m

-----------------------------------------------------------------------------
(* The dealers that are saved *)

SameDealer(x, y) == x.series = y.series /\ x.seed = y.seed
Newest(k, q) == IF q = <<>> THEN k ELSE q[Len(q)]
Saved(k, q, d) == IF Last(<<k>> \o q) = d THEN q ELSE Append(q, d)

\* Everything fits: the plan rs of series up to c, the dealer d, the kept one k and those on their way.
Fits(rs, c, d, k, q) ==
  /\ Serves(rs, c, d) /\ Knows(rs, c, d) /\ Knows(rs, c, k)
  /\ \A i \in DOMAIN q : Knows(rs, c, q[i])
  /\ SameDealer(Newest(k, q), d)

\* The last of the dealers on their way, with the kept one before them.
LEMMA LastIsNewest ==
  ASSUME NEW k \in Keeper, NEW q \in Seq(Keeper)
  PROVE  Last(<<k>> \o q) = Newest(k, q)
<1> DEFINE w == <<k>> \o q
<1>1. <<k>> \in Seq(Keeper) /\ Len(<<k>>) = 1 /\ <<k>>[1] = k /\ Len(q) \in Nat
  OBVIOUS
<1>2. /\ Len(w) = 1 + Len(q)
      /\ \A i \in 1 .. 1 + Len(q) : w[i] = IF i <= 1 THEN <<k>>[i] ELSE q[i - 1]
  BY <1>1, ConcatProperties
<1> HIDE DEF w
<1>3. Last(w) = w[1 + Len(q)]
  BY <1>2 DEF Last
<1>4. CASE q = <<>>
  <2>1. Len(q) = 0
    BY <1>4
  <2>2. w[1] = k
    BY <1>1, <1>2, <2>1
  <2> QED BY <1>3, <1>4, <2>1, <2>2 DEF Newest, w
<1>5. CASE q # <<>>
  <2>1. Len(q) >= 1 /\ 1 + Len(q) \in 1 .. 1 + Len(q) /\ ~ (1 + Len(q) <= 1) /\ 1 + Len(q) - 1 = Len(q)
    BY <1>1, <1>5, EmptySeq
  <2>2. w[1 + Len(q)] = q[Len(q)]
    BY <1>2, <2>1
  <2> QED BY <1>3, <1>5, <2>2 DEF Newest, w
<1> QED BY <1>4, <1>5

\* What saving d does to them.
LEMMA SavingNewest ==
  ASSUME NEW k \in Keeper, NEW q \in Seq(Keeper), NEW d \in Keeper
  PROVE  /\ Saved(k, q, d) \in Seq(Keeper)
         /\ Newest(k, Saved(k, q, d)) = d
         /\ \A i \in DOMAIN Saved(k, q, d) :
              \/ Saved(k, q, d)[i] = d
              \/ \E j \in DOMAIN q : Saved(k, q, d)[i] = q[j]
<1>1. CASE Last(<<k>> \o q) = d
  <2>1. Saved(k, q, d) = q
    BY <1>1 DEF Saved
  <2> QED BY <1>1, <2>1, LastIsNewest
<1>2. CASE Last(<<k>> \o q) # d
  <2> DEFINE r == Append(q, d)
  <2>1. Saved(k, q, d) = r
    BY <1>2 DEF Saved
  <2>2. r \in Seq(Keeper) /\ Len(r) = Len(q) + 1 /\ r[Len(q) + 1] = d /\ Len(q) \in Nat
    OBVIOUS
  <2>3. ASSUME NEW i \in DOMAIN r
        PROVE  r[i] = d \/ \E j \in DOMAIN q : r[i] = q[j]
    <3>1. CASE i \in DOMAIN q
      <4>1. r[i] = q[i]
        BY <3>1
      <4> QED BY <3>1, <4>1
    <3>2. CASE i \notin DOMAIN q
      <4>1. i = Len(q) + 1
        BY <3>2
      <4> QED BY <2>2, <4>1
    <3> QED BY <3>1, <3>2
  <2> HIDE DEF r
  <2>4. r # <<>>
    BY <2>2, EmptySeq
  <2>5. Newest(k, r) = d
    BY <2>2, <2>4 DEF Newest
  <2> QED BY <2>1, <2>2, <2>3, <2>5
<1> QED BY <1>1, <1>2

LEMMA GoesOn ==
  ASSUME NEW l \in Seq(Row), NEW es \in Seq(Row), NEW c \in Nat, NEW d \in Keeper, NEW e \in Keeper,
         NEW k \in Keeper, NEW q \in Seq(Keeper), Fits(l, c, d, k, q),
         SameDealer(e, d), Starts(es) = {},
         \A j \in DOMAIN es : es[j].type \in {"result", "ended"} =>
           es[j].series = d.series /\ es[j].seed = d.seed
  PROVE  Fits(l \o es, c, e, k, Saved(k, q, e))
<1> DEFINE m == l \o es
           r == Saved(k, q, e)
<1>1. /\ Serves(m, c, e) /\ Knows(m, c, e)
      /\ \A x \in Keeper : Knows(l, c, x) => Knows(m, c, x)
  BY SameSeries DEF SameDealer, Fits
<1>2. /\ Newest(k, r) = e
      /\ \A i \in DOMAIN r : r[i] = e \/ \E j \in DOMAIN q : r[i] = q[j]
  BY SavingNewest
<1>3. \A j \in DOMAIN q : q[j] \in Keeper
  OBVIOUS
<1> HIDE DEF m, r
<1>4. \A i \in DOMAIN r : Knows(m, c, r[i])
  BY <1>1, <1>2, <1>3 DEF Fits
<1>5. Fits(m, c, e, k, r)
  BY <1>1, <1>2, <1>4 DEF Fits, SameDealer
<1> QED BY <1>5 DEF m, r

LEMMA StartsAnother ==
  ASSUME NEW l \in Seq(Row), NEW es \in Seq(Row), NEW c \in Nat, NEW d \in Keeper, NEW e \in Keeper,
         NEW k \in Keeper, NEW q \in Seq(Keeper), Fits(l, c, d, k, q), e.series = c + 1,
         NEW b \in Starts(es), Starts(es) = {b}, es[b] = SeriesRow(e.series, e.seed),
         \A j \in DOMAIN es : es[j].type \in {"result", "ended"} =>
           es[j].series = d.series /\ es[j].seed = d.seed
  PROVE  Fits(l \o es, c + 1, e, k, Saved(k, q, e))
<1> DEFINE m == l \o es
           r == Saved(k, q, e)
<1>1. /\ Serves(m, c + 1, e) /\ Knows(m, c + 1, e)
      /\ \A x \in Keeper : Knows(l, c, x) => Knows(m, c + 1, x)
  BY NextSeries DEF Fits
<1>2. /\ Newest(k, r) = e
      /\ \A i \in DOMAIN r : r[i] = e \/ \E j \in DOMAIN q : r[i] = q[j]
  BY SavingNewest
<1>3. \A j \in DOMAIN q : q[j] \in Keeper
  OBVIOUS
<1> HIDE DEF m, r
<1>4. \A i \in DOMAIN r : Knows(m, c + 1, r[i])
  BY <1>1, <1>2, <1>3 DEF Fits
<1>5. Fits(m, c + 1, e, k, r)
  BY <1>1, <1>2, <1>4 DEF Fits, SameDealer
<1> QED BY <1>5 DEF m, r

\* The rows that a step adds, when it shows a result of d and when it does not.
LEMMA ResultRows ==
  ASSUME NEW d \in Keeper
  PROVE  /\ <<>> \in Seq(Row) /\ Starts(<<>>) = {}
         /\ <<ResultRow(d)>> \in Seq(Row) /\ Starts(<<ResultRow(d)>>) = {}
         /\ \A j \in DOMAIN <<ResultRow(d)>> :
              <<ResultRow(d)>>[j].series = d.series /\ <<ResultRow(d)>>[j].seed = d.seed
<1>1. ResultRow(d) \in Row /\ ResultRow(d).type = "result"
      /\ ResultRow(d).series = d.series /\ ResultRow(d).seed = d.seed
  BY DEF ResultRow, Row, Keeper
<1>2. <<>> \in Seq(Row)
  OBVIOUS
<1>3. Starts(<<>>) = {}
  BY DEF Starts
<1> DEFINE es == <<ResultRow(d)>>
<1>4. es \in Seq(Row) /\ DOMAIN es = {1} /\ es[1] = ResultRow(d)
  BY <1>1
<1> HIDE DEF es
<1>5. Starts(es) = {} /\ \A j \in DOMAIN es : es[j].series = d.series /\ es[j].seed = d.seed
  BY <1>1, <1>4 DEF Starts
<1> QED BY <1>2, <1>3, <1>4, <1>5 DEF es

LEMMA Followed ==
  ASSUME NEW u \in Seq(Row), NEW v \in Seq(Row), Len(v) = 2, Len(u) \in {0, 1}
  PROVE  /\ u \o v \in Seq(Row) /\ DOMAIN (u \o v) = 1 .. Len(u) + 2
         /\ Len(u) = 1 => (u \o v)[1] = u[1] /\ (u \o v)[2] = v[1] /\ (u \o v)[3] = v[2]
         /\ Len(u) = 0 => (u \o v)[1] = v[1] /\ (u \o v)[2] = v[2]
<1> DEFINE w == u \o v
<1>1. w \in Seq(Row) /\ DOMAIN w = 1 .. Len(u) + 2
  BY Joined
<1>2. 1 \in DOMAIN v /\ 2 \in DOMAIN v
  OBVIOUS
<1>3. w[Len(u) + 1] = v[1] /\ w[Len(u) + 2] = v[2]
  BY <1>2, Joined
<1>4. Len(u) = 1 => w[1] = u[1]
  BY Joined
<1>5. CASE Len(u) = 1
  <2>1. Len(u) + 1 = 2 /\ Len(u) + 2 = 3
    BY <1>5
  <2> HIDE DEF w
  <2> QED BY <1>1, <1>3, <1>4, <1>5, <2>1 DEF w
<1>6. CASE Len(u) = 0
  <2>1. Len(u) + 1 = 1 /\ Len(u) + 2 = 2
    BY <1>6
  <2> HIDE DEF w
  <2> QED BY <1>1, <1>3, <1>6, <2>1 DEF w
<1> QED BY <1>5, <1>6

\* Rows of d that start the series of e, and no other.
ChangesTo(es, d, e) ==
  /\ es \in Seq(Row)
  /\ \E i \in Starts(es) : Starts(es) = {i} /\ es[i] = SeriesRow(e.series, e.seed)
  /\ \A j \in DOMAIN es : es[j].type \in {"result", "ended"} =>
       es[j].series = d.series /\ es[j].seed = d.seed

LEMMA ChangeRows ==
  ASSUME NEW d \in Keeper, NEW e \in Keeper, NEW t, t = <<ResultRow(d)>> \/ t = <<>>,
         NEW es, es = t \o <<SealRow(d.series, d.seed), SeriesRow(e.series, e.seed)>>
  PROVE  ChangesTo(es, d, e)
<1> DEFINE s == e.series
           n == e.seed
<1>0. d.series \in Nat /\ d.seed \in Nat /\ s \in Nat /\ n \in Nat
  BY DEF Keeper
<1>1. /\ SeriesRow(s, n) \in Row /\ SealRow(d.series, d.seed) \in Row /\ ResultRow(d) \in Row
      /\ SeriesRow(s, n).type = "started"
      /\ SealRow(d.series, d.seed).type = "ended"
      /\ SealRow(d.series, d.seed).series = d.series /\ SealRow(d.series, d.seed).seed = d.seed
      /\ ResultRow(d).type = "result" /\ ResultRow(d).series = d.series /\ ResultRow(d).seed = d.seed
  BY <1>0 DEF SeriesRow, SealRow, ResultRow, Row
<1> DEFINE x == SealRow(d.series, d.seed)
           y == SeriesRow(s, n)
           z == ResultRow(d)
<1>2. CASE t = <<ResultRow(d)>>
  <2>1. es = <<z>> \o <<x, y>>
    BY <1>2
  <2> HIDE DEF x, y, z
  <2> DEFINE u == <<z>>
             v == <<x, y>>
  <2>2. /\ u \in Seq(Row) /\ Len(u) = 1 /\ u[1] = z
        /\ v \in Seq(Row) /\ Len(v) = 2 /\ v[1] = x /\ v[2] = y
    BY <1>1 DEF x, y, z
  <2> HIDE DEF u, v
  <2>3. es \in Seq(Row) /\ DOMAIN es = 1 .. 3 /\ es[1] = z /\ es[2] = x /\ es[3] = y
    <3>1. es = u \o v
      BY <2>1 DEF u, v
    <3>2. u \o v \in Seq(Row) /\ DOMAIN (u \o v) = 1 .. 3 /\ (u \o v)[1] = u[1] /\ (u \o v)[2] = v[1] /\ (u \o v)[3] = v[2]
      BY <2>2, Followed
    <3> QED BY <2>2, <3>1, <3>2
  <2>4. Starts(es) = {3}
    BY <1>1, <2>3 DEF Starts, x, y, z
  <2>5. \A j \in DOMAIN es : j = 1 \/ j = 2 \/ j = 3
    BY <2>3
  <2> QED BY <1>1, <2>3, <2>4, <2>5 DEF x, y, z, ChangesTo
<1>3. CASE t = <<>>
  <2>1. es = <<>> \o <<x, y>>
    BY <1>3
  <2> HIDE DEF x, y, z
  <2> DEFINE u == <<>>
             v == <<x, y>>
  <2>2. /\ u \in Seq(Row) /\ Len(u) = 0
        /\ v \in Seq(Row) /\ Len(v) = 2 /\ v[1] = x /\ v[2] = y
    BY <1>1 DEF x, y, z
  <2> HIDE DEF u, v
  <2>3. es \in Seq(Row) /\ DOMAIN es = 1 .. 2 /\ es[1] = x /\ es[2] = y
    <3>1. es = u \o v
      BY <2>1 DEF u, v
    <3>2. u \o v \in Seq(Row) /\ DOMAIN (u \o v) = 1 .. Len(u) + 2
      BY <2>2, Followed
    <3>3. (u \o v)[1] = v[1] /\ (u \o v)[2] = v[2]
      BY <2>2, Followed
    <3>4. Len(u) + 2 = 2
      BY <2>2
    <3> QED BY <2>2, <3>1, <3>2, <3>3, <3>4
  <2>4. Starts(es) = {2}
    BY <1>1, <2>3 DEF Starts, x, y, z
  <2>5. \A j \in DOMAIN es : j = 1 \/ j = 2
    BY <2>3
  <2> QED BY <1>1, <2>3, <2>4, <2>5 DEF x, y, z, ChangesTo
<1> QED BY <1>2, <1>3

LEMMA FreshKeeperKind ==
  ASSUME NEW s \in Nat, NEW n \in Nat
  PROVE  FreshKeeper(s, n) \in Keeper
BY DEF FreshKeeper, Keeper

LEMMA NextDrawKind ==
  ASSUME NEW d \in Keeper, NEW a \in {"none", "action", "trigger"}
  PROVE  /\ [d EXCEPT !.place = @ + 1, !.awaiting = a] \in Keeper
         /\ SameDealer([d EXCEPT !.place = @ + 1, !.awaiting = a], d)
<1> DEFINE f == [d EXCEPT !.place = @ + 1, !.awaiting = a]
<1>1. d.series \in Nat /\ d.seed \in Nat /\ d.place + 1 \in Nat
  BY DEF Keeper
<1>2. f.series = d.series /\ f.seed = d.seed
  BY DEF Keeper
<1>3. f.place = d.place + 1
  BY DEF Keeper
<1>4. f.awaiting = a
  BY DEF Keeper
<1>5. f = [x \in {"series", "seed", "place", "awaiting"} |-> f[x]]
  BY DEF Keeper
<1> HIDE DEF f
<1>6. f \in Keeper
  BY <1>1, <1>2, <1>3, <1>4, <1>5 DEF Keeper
<1> QED BY <1>2, <1>6 DEF f, SameDealer

LEMMA AgainFromTheFirstDraw ==
  ASSUME NEW d \in Keeper
  PROVE  [d EXCEPT !.place = 0] \in Keeper /\ SameDealer([d EXCEPT !.place = 0], d)
BY DEF Keeper, SameDealer

\* Rows of d that start no series.
RowsOf(es, d) ==
  /\ es \in Seq(Row) /\ Starts(es) = {}
  /\ \A j \in DOMAIN es : es[j].type \in {"result", "ended"} =>
       es[j].series = d.series /\ es[j].seed = d.seed

LEMMA EndRows ==
  ASSUME NEW d \in Keeper, NEW es, es = <<SealRow(d.series, d.seed), LastRow>>
  PROVE  RowsOf(es, d)
<1> DEFINE x == SealRow(d.series, d.seed)
           y == LastRow
<1>1. /\ x \in Row /\ x.type = "ended" /\ x.series = d.series /\ x.seed = d.seed
      /\ y \in Row /\ y.type = "over"
  BY DEF SealRow, LastRow, Row, Keeper
<1>2. es = <<x, y>>
  OBVIOUS
<1> HIDE DEF x, y
<1>3. es \in Seq(Row) /\ DOMAIN es = 1 .. 2 /\ es[1] = x /\ es[2] = y
  BY <1>1, <1>2
<1>4. \A j \in DOMAIN es : j = 1 \/ j = 2
  BY <1>3
<1>5. Starts(es) = {}
  BY <1>1, <1>3, <1>4 DEF Starts
<1> QED BY <1>1, <1>3, <1>4, <1>5 DEF RowsOf

-----------------------------------------------------------------------------
(* The invariant *)

\* The rows that the running deal will add.
Waits(sc) == IF sc = <<>> THEN <<>> ELSE sc[1].rows

DealerShape ==
  /\ soloGame \in SoloGame
  /\ rows \in Seq(Row) /\ rowsKept \in 1 .. Len(rows) /\ rows[1].type = "started"
  /\ keeper \in Keeper /\ keeperKept \in Keeper /\ keeperSaves \in Seq(Keeper)
  /\ changes \in Nat /\ secrets \in Nat
  /\ script = <<>> \/ \E p \in Plan : script = <<p>>

DealerFits == Fits(rows \o Waits(script), changes, keeper, keeperKept, keeperSaves)

DealerInvariant == DealerShape /\ (missteps = {} => DealerFits)

\* Whatever is appended, the first row stays and the kept rows are still a beginning.
LEMMA RowsGrow ==
  ASSUME NEW l \in Seq(Row), NEW es \in Seq(Row), NEW n \in 1 .. Len(l), l[1].type = "started"
  PROVE  /\ l \o es \in Seq(Row) /\ n \in 1 .. Len(l \o es) /\ (l \o es)[1].type = "started"
<1>1. 1 \in DOMAIN l
  OBVIOUS
<1> QED BY <1>1, Joined

LEMMA NoRows ==
  ASSUME NEW l \in Seq(Row)
  PROVE  l \o <<>> = l
BY ConcatEmptySeq

LEMMA InvariantAtFirst == SoloDealerInit => DealerInvariant
<1> SUFFICES ASSUME SoloDealerInit
             PROVE  DealerInvariant
  OBVIOUS
<1> DEFINE r == SeriesRow(1, 1)
           l == <<r>>
           d == FreshKeeper(1, 1)
<1>1. r \in Row /\ r.type = "started" /\ r.series = 1 /\ r.seed = 1
  BY DEF SeriesRow, Row
<1>2. d \in Keeper /\ d.series = 1 /\ d.seed = 1
  BY DEF FreshKeeper, Keeper
<1>3. rows = l /\ keeper = d /\ keeperKept = d
  BY DEF SoloDealerInit
<1>4. r = SeriesRow(d.series, d.seed)
  BY <1>2
<1> HIDE DEF r, d
<1>5. l \in Seq(Row) /\ Len(l) = 1 /\ DOMAIN l = {1} /\ l[1] = r
  BY <1>1
<1> HIDE DEF l
<1>6. Starts(l) = {1}
  BY <1>1, <1>5 DEF Starts
<1>7. Serves(l, 1, d)
  <2>1. AsCommitted(l)
    BY <1>1, <1>5 DEF AsCommitted
  <2>2. Committed(l, Len(l), d)
    BY <1>4, <1>5 DEF Committed
  <2>3. LastIs(l, d.series) /\ Bounded(l, 1)
    BY <1>1, <1>2, <1>5, <1>6 DEF LastIs, Bounded
  <2> QED BY <2>1, <2>2, <2>3 DEF Serves
<1>8. Knows(l, 1, d)
  BY <1>1, <1>2, <1>5, <1>6 DEF Knows
<1>9. Fits(l, 1, d, d, <<>>)
  <2>1. DOMAIN <<>> = {}
    OBVIOUS
  <2>2. Newest(d, <<>>) = d
    BY DEF Newest
  <2> QED BY <1>7, <1>8, <2>1, <2>2 DEF Fits, SameDealer
<1>10. DealerFits
  <2>1. rows \o Waits(script) = l
    BY <1>3, <1>5, NoRows DEF Waits, SoloDealerInit
  <2> QED BY <1>3, <1>9, <2>1 DEF DealerFits, SoloDealerInit
<1>11. <<>> \in Seq(Keeper)
  OBVIOUS
<1>12. DealerShape
  BY <1>1, <1>2, <1>3, <1>5, <1>11 DEF DealerShape, SoloDealerInit
<1> QED BY <1>10, <1>12 DEF DealerInvariant

\* A step of the game: the seed of what it shows is committed, now or when its pauses are over.
LEMMA StepKeeps ==
  ASSUME DealerInvariant, SendVirtual
  PROVE  DealerInvariant'
<1>1. PICK o \in StepResult[soloGame][keeper.awaiting] : SoloStep(o)
  BY DEF SendVirtual
<1>2. o.waits \in Nat /\ o.result \in BOOLEAN /\ o.rollover \in BOOLEAN
      /\ o.next \in {"none", "action", "trigger"}
  <2>1. soloGame \in SoloGame /\ keeper.awaiting \in {"none", "action", "trigger"}
    BY DEF DealerInvariant, DealerShape, Keeper
  <2> QED BY <1>1, <2>1, SoloDealerAssumption
<1> DEFINE e == IF o.rollover THEN Rotated ELSE [keeper EXCEPT !.place = @ + 1, !.awaiting = o.next]
           es == (IF o.result THEN <<ResultRow(keeper)>> ELSE <<>>) \o (IF o.rollover THEN RotationRows ELSE <<>>)
           c == IF o.rollover THEN changes + 1 ELSE changes
           q == Saved(keeperKept, keeperSaves, e)
<1>3. /\ script = <<>> /\ keeper' = e /\ keeperSaves' = q
      /\ \/ rows' = rows \o es /\ script' = <<>>
         \/ rows' = rows \o <<>> /\ script' = <<[waits |-> o.waits, rows |-> es]>>
      /\ changes' = c /\ secrets' \in Nat
      /\ UNCHANGED <<soloGame, rowsKept, keeperKept, missteps>>
  <2>1. changes' = c /\ secrets' \in Nat
    BY <1>1, <1>2 DEF SoloStep, Rolls, DealerInvariant, DealerShape
  <2> QED BY <1>1, <2>1 DEF SoloStep, AppendPersisted, Saved
<1>4. e \in Keeper /\ c \in Nat /\ es \in Seq(Row) /\ keeper \in Keeper
      /\ rows \in Seq(Row) /\ keeperKept \in Keeper /\ keeperSaves \in Seq(Keeper)
  <2>1. keeper \in Keeper /\ changes \in Nat /\ secrets \in Nat
    BY DEF DealerInvariant, DealerShape
  <2>2. e \in Keeper /\ (o.rollover => FreshKeeper(changes + 1, secrets + 1) \in Keeper)
    <3>1. changes + 1 \in Nat /\ secrets + 1 \in Nat
      BY <2>1
    <3>2. FreshKeeper(changes + 1, secrets + 1) \in Keeper
      BY <3>1, FreshKeeperKind
    <3>3. [keeper EXCEPT !.place = @ + 1, !.awaiting = o.next] \in Keeper
      BY <1>2, <2>1, NextDrawKind
    <3> QED BY <3>2, <3>3 DEF Rotated
  <2>3. es \in Seq(Row)
    <3> DEFINE t == IF o.result THEN <<ResultRow(keeper)>> ELSE <<>>
    <3>0. t = <<ResultRow(keeper)>> \/ t = <<>>
      OBVIOUS
    <3>1. CASE o.rollover
      <4>1. e = FreshKeeper(changes + 1, secrets + 1)
        BY <3>1 DEF Rotated
      <4> HIDE DEF e
      <4>2. e.series = changes + 1 /\ e.seed = secrets + 1
        BY <4>1 DEF FreshKeeper
      <4>3. es = t \o <<SealRow(keeper.series, keeper.seed), SeriesRow(e.series, e.seed)>>
        BY <3>1, <4>2 DEF RotationRows
      <4> HIDE DEF es, t
      <4>4. ChangesTo(es, keeper, e)
        BY <2>1, <2>2, <3>0, <4>3, ChangeRows
      <4> QED BY <4>4 DEF ChangesTo
    <3>2. CASE ~o.rollover
      <4>1. t \in Seq(Row)
        BY <2>1, <3>0, ResultRows
      <4>2. es = t \o <<>>
        BY <3>2
      <4> HIDE DEF es, t
      <4> QED BY <4>1, <4>2, NoRows
    <3> QED BY <3>1, <3>2
  <2> QED BY <2>1, <2>2, <2>3 DEF DealerInvariant, DealerShape
<1>5. ASSUME DealerFits
      PROVE  Fits(rows \o es, c, e, keeperKept, q)
  <2>1. Fits(rows, changes, keeper, keeperKept, keeperSaves) /\ changes \in Nat /\ secrets \in Nat
    BY <1>3, <1>4, <1>5, NoRows DEF DealerFits, Waits, DealerInvariant, DealerShape
  <2>2. CASE o.rollover
    <3>1. e = FreshKeeper(changes + 1, secrets + 1) /\ c = changes + 1
      BY <2>2 DEF Rotated
    <3> DEFINE t == IF o.result THEN <<ResultRow(keeper)>> ELSE <<>>
    <3>0. t = <<ResultRow(keeper)>> \/ t = <<>>
      OBVIOUS
    <3> HIDE DEF e, c
    <3>2. e.series = changes + 1 /\ e.seed = secrets + 1
      BY <3>1 DEF FreshKeeper
    <3>3. es = t \o <<SealRow(keeper.series, keeper.seed), SeriesRow(e.series, e.seed)>>
      BY <2>2, <3>2 DEF RotationRows
    <3> HIDE DEF es, t
    <3>4. ChangesTo(es, keeper, e)
      BY <1>4, <3>0, <3>3, ChangeRows
    <3>5. PICK i \in Starts(es) : Starts(es) = {i} /\ es[i] = SeriesRow(e.series, e.seed)
      BY <3>4 DEF ChangesTo
    <3>6. \A j \in DOMAIN es : es[j].type \in {"result", "ended"} =>
            es[j].series = keeper.series /\ es[j].seed = keeper.seed
      BY <3>4 DEF ChangesTo
    <3> QED BY <1>4, <2>1, <3>1, <3>2, <3>5, <3>6, StartsAnother
  <2>3. CASE ~o.rollover
    <3>1. SameDealer(e, keeper) /\ c = changes
      BY <1>4, <2>3 DEF SameDealer, Keeper
    <3> DEFINE x == IF o.result THEN <<ResultRow(keeper)>> ELSE <<>>
    <3>2. x \in Seq(Row) /\ Starts(x) = {}
          /\ \A j \in DOMAIN x : x[j].series = keeper.series /\ x[j].seed = keeper.seed
      <4>1. CASE o.result
        BY <1>4, <4>1, ResultRows
      <4>2. CASE ~o.result
        <5>1. x = <<>> /\ DOMAIN <<>> = {}
          BY <4>2
        <5> HIDE DEF x
        <5> QED BY <1>4, <5>1, ResultRows
      <4> QED BY <4>1, <4>2
    <3>3. es = x
      BY <2>3, <3>2, NoRows
    <3> HIDE DEF e, es, c, x
    <3> QED BY <1>4, <2>1, <3>1, <3>2, <3>3, GoesOn
  <2> QED BY <2>2, <2>3
<1> HIDE DEF e, es, c, q
<1>6. q \in Seq(Keeper)
  BY <1>4, SavingNewest DEF q
<1>7. DealerShape' /\ rows' \o Waits(script') = rows \o es
  <2>1. CASE rows' = rows \o es /\ script' = <<>>
    <3>1. rows' \in Seq(Row) /\ rowsKept \in 1 .. Len(rows') /\ rows'[1].type = "started"
      BY <1>4, <2>1, RowsGrow DEF DealerInvariant, DealerShape
    <3>2. DealerShape'
      BY <1>3, <1>4, <1>6, <2>1, <3>1 DEF DealerInvariant, DealerShape
    <3>3. rows' \o Waits(script') = rows'
      BY <2>1, <3>1, NoRows DEF Waits
    <3> QED BY <2>1, <3>2, <3>3
  <2>2. CASE rows' = rows \o <<>> /\ script' = <<[waits |-> o.waits, rows |-> es]>>
    <3>1. rows' = rows
      BY <1>4, <2>2, NoRows
    <3>2. [waits |-> o.waits, rows |-> es] \in Plan
      BY <1>2, <1>4 DEF Plan
    <3>3. DealerShape'
      BY <1>3, <1>4, <1>6, <2>2, <3>1, <3>2 DEF DealerInvariant, DealerShape
    <3>4. Waits(script') = es
      BY <2>2 DEF Waits
    <3> QED BY <3>1, <3>3, <3>4
  <2> QED BY <1>3, <2>1, <2>2
<1>8. missteps' = {} => DealerFits'
  <2> SUFFICES ASSUME missteps' = {}
               PROVE  DealerFits'
    OBVIOUS
  <2>1. DealerFits
    BY <1>3 DEF DealerInvariant
  <2>2. Fits(rows \o es, c, e, keeperKept, q)
    BY <1>5, <2>1
  <2> QED BY <1>3, <1>7, <2>2 DEF DealerFits
<1> QED BY <1>7, <1>8 DEF DealerInvariant

LEMMA ShapeTypes ==
  ASSUME DealerInvariant
  PROVE  /\ soloGame \in SoloGame
         /\ rows \in Seq(Row) /\ rowsKept \in 1 .. Len(rows) /\ rows[1].type = "started"
         /\ keeper \in Keeper /\ keeperKept \in Keeper /\ keeperSaves \in Seq(Keeper)
         /\ changes \in Nat /\ secrets \in Nat
         /\ (script = <<>> \/ \E p \in Plan : script = <<p>>)
         /\ (missteps = {} => DealerFits)
BY DEF DealerInvariant, DealerShape

\* A pause ends: the plan stays as it is.
LEMMA PauseKeeps ==
  ASSUME DealerInvariant, PauseEnds
  PROVE  DealerInvariant'
<1> DEFINE q == Saved(keeperKept, keeperSaves, keeper)
<1>1. PICK p \in Plan : script = <<p>>
  BY ShapeTypes DEF PauseEnds
<1>2. p.waits \in Nat /\ p.rows \in Seq(Row) /\ Head(script) = p /\ Waits(script) = p.rows
  <2>1. script # <<>> /\ script[1] = p /\ Head(script) = p
    BY <1>1
  <2> QED BY <2>1 DEF Waits, Plan
<1>3. /\ keeperSaves' = q /\ q \in Seq(Keeper)
      /\ UNCHANGED <<soloGame, rowsKept, keeper, keeperKept, changes, secrets, missteps>>
  <2>1. keeperSaves' = q /\ UNCHANGED <<soloGame, rowsKept, keeper, keeperKept, changes, secrets, missteps>>
    BY DEF PauseEnds, AppendPersisted, Saved
  <2> QED BY <2>1, ShapeTypes, SavingNewest
<1> HIDE DEF q
<1>4. DealerShape' /\ rows' \o Waits(script') = rows \o p.rows
  <2>1. CASE p.waits > 1
    <3>1. rows' = rows \o <<>> /\ script' = <<[p EXCEPT !.waits = @ - 1]>>
      BY <1>2, <2>1 DEF PauseEnds, AppendPersisted
    <3>2. rows' = rows
      BY <3>1, ShapeTypes, NoRows
    <3> DEFINE r == [p EXCEPT !.waits = @ - 1]
    <3>3. r \in Plan /\ r.rows = p.rows
      BY <1>2, <2>1 DEF Plan
    <3> HIDE DEF r
    <3>4. script' = <<r>>
      BY <3>1 DEF r
    <3>5. Waits(script') = p.rows
      BY <3>3, <3>4 DEF Waits
    <3>6. DealerShape'
      BY <1>3, <3>2, <3>3, <3>4, ShapeTypes DEF DealerShape
    <3> QED BY <3>2, <3>5, <3>6
  <2>2. CASE ~(p.waits > 1)
    <3>1. rows' = rows \o p.rows /\ script' = <<>>
      BY <1>2, <2>2 DEF PauseEnds, AppendPersisted
    <3>2. rows' \in Seq(Row) /\ rowsKept \in 1 .. Len(rows') /\ rows'[1].type = "started"
      BY <1>2, <3>1, ShapeTypes, RowsGrow
    <3>3. DealerShape'
      BY <1>3, <3>1, <3>2, ShapeTypes DEF DealerShape
    <3>4. rows' \o Waits(script') = rows'
      BY <3>1, <3>2, NoRows DEF Waits
    <3> QED BY <3>1, <3>3, <3>4
  <2> QED BY <2>1, <2>2
<1>5. ASSUME DealerFits
      PROVE  Fits(rows \o p.rows, changes, keeper, keeperKept, q)
  <2> DEFINE m == rows \o p.rows
  <2>1. m \in Seq(Row)
    BY <1>2, ShapeTypes, Joined
  <2>2. Fits(m, changes, keeper, keeperKept, keeperSaves)
    BY <1>2, <1>5 DEF DealerFits
  <2> HIDE DEF m
  <2>3. m \o <<>> = m /\ <<>> \in Seq(Row) /\ Starts(<<>>) = {} /\ DOMAIN <<>> = {}
    <3>1. m \o <<>> = m
      BY <2>1, NoRows
    <3>2. <<>> \in Seq(Row) /\ DOMAIN <<>> = {}
      OBVIOUS
    <3>3. Starts(<<>>) = {}
      BY <3>2 DEF Starts
    <3> QED BY <3>1, <3>2, <3>3
  <2>4. SameDealer(keeper, keeper)
    BY DEF SameDealer
  <2>5. Fits(m \o <<>>, changes, keeper, keeperKept, q)
    BY <2>1, <2>2, <2>3, <2>4, ShapeTypes, GoesOn DEF q
  <2> QED BY <2>3, <2>5 DEF m
<1>6. missteps' = {} => DealerFits'
  BY <1>3, <1>4, <1>5, ShapeTypes DEF DealerFits
<1> QED BY <1>4, <1>6 DEF DealerInvariant

\* The series is changed while no deal runs, or it is a misstep.
LEMMA ChangeKeeps ==
  ASSUME DealerInvariant, ChangeSeries
  PROVE  DealerInvariant'
<1> DEFINE e == FreshKeeper(changes + 1, secrets + 1)
           es == <<SealRow(keeper.series, keeper.seed), SeriesRow(changes + 1, secrets + 1)>>
           q == Saved(keeperKept, keeperSaves, e)
<1>1. /\ keeper' = e /\ rows' = rows \o es /\ keeperSaves' = q
      /\ changes' = changes + 1 /\ secrets' = secrets + 1 /\ missteps' = MidScript
      /\ UNCHANGED <<soloGame, rowsKept, keeperKept, script>>
  BY DEF ChangeSeries, Rolls, Rotated, RotationRows, AppendPersisted, Saved
<1>2. e.series = changes + 1 /\ e.seed = secrets + 1
  BY DEF FreshKeeper
<1>3. e \in Keeper
  <2>1. changes + 1 \in Nat /\ secrets + 1 \in Nat
    BY ShapeTypes
  <2> QED BY <2>1, FreshKeeperKind
<1> HIDE DEF e
<1>4. es = <<>> \o <<SealRow(keeper.series, keeper.seed), SeriesRow(e.series, e.seed)>>
  <2> DEFINE v == <<SealRow(keeper.series, keeper.seed), SeriesRow(e.series, e.seed)>>
  <2>1. es = v
    BY <1>2
  <2>2. v \in Seq(Row)
    <3>1. /\ e.series \in Nat /\ e.seed \in Nat
          /\ keeper.series \in Nat /\ keeper.seed \in Nat
      BY <1>3, ShapeTypes DEF Keeper
    <3>2. SealRow(keeper.series, keeper.seed) \in Row /\ SeriesRow(e.series, e.seed) \in Row
      BY <3>1 DEF SealRow, SeriesRow, Row
    <3> QED BY <3>2
  <2> HIDE DEF v
  <2>3. <<>> \o v = v
    BY <2>2, ConcatEmptySeq
  <2> QED BY <2>1, <2>3 DEF v
<1> HIDE DEF es
<1>5. ChangesTo(es, keeper, e)
  BY <1>3, <1>4, ShapeTypes, ChangeRows
<1> HIDE DEF q
<1>6. q \in Seq(Keeper)
  BY <1>3, ShapeTypes, SavingNewest DEF q
<1>7. DealerShape'
  <2>1. rows' \in Seq(Row) /\ rowsKept \in 1 .. Len(rows') /\ rows'[1].type = "started"
    BY <1>1, <1>5, ShapeTypes, RowsGrow DEF ChangesTo
  <2> QED BY <1>1, <1>3, <1>6, <2>1, ShapeTypes DEF DealerShape
<1>8. missteps' = {} => DealerFits'
  <2> SUFFICES ASSUME missteps' = {}
               PROVE  DealerFits'
    OBVIOUS
  <2>1. missteps = {} /\ script = <<>>
    BY <1>1 DEF MidScript
  <2>2. Fits(rows, changes, keeper, keeperKept, keeperSaves)
    BY <2>1, ShapeTypes, NoRows DEF DealerFits, Waits
  <2>3. PICK i \in Starts(es) : Starts(es) = {i} /\ es[i] = SeriesRow(e.series, e.seed)
    BY <1>5 DEF ChangesTo
  <2>4. es \in Seq(Row) /\ \A j \in DOMAIN es : es[j].type \in {"result", "ended"} =>
          es[j].series = keeper.series /\ es[j].seed = keeper.seed
    BY <1>5 DEF ChangesTo
  <2>5. Fits(rows \o es, changes + 1, e, keeperKept, q)
    BY <1>2, <1>3, <2>2, <2>3, <2>4, ShapeTypes, StartsAnother DEF q
  <2>6. rows' \o Waits(script') = rows \o es
    <3>1. rows' \in Seq(Row)
      BY <1>7 DEF DealerShape
    <3> QED BY <1>1, <2>1, <3>1, NoRows DEF Waits
  <2> QED BY <1>1, <2>5, <2>6 DEF DealerFits
<1> QED BY <1>7, <1>8 DEF DealerInvariant

\* So it is with the end of the session.
LEMMA CloseKeeps ==
  ASSUME DealerInvariant, CloseSession
  PROVE  DealerInvariant'
<1> DEFINE es == <<SealRow(keeper.series, keeper.seed), LastRow>>
           q == Saved(keeperKept, keeperSaves, keeper)
<1>1. /\ rows' = rows \o es /\ keeperSaves' = q /\ missteps' = MidScript
      /\ UNCHANGED <<soloGame, rowsKept, keeper, keeperKept, script, changes, secrets>>
  BY DEF CloseSession, AppendPersisted, Saved
<1>2. es = <<SealRow(keeper.series, keeper.seed), LastRow>>
  OBVIOUS
<1> HIDE DEF es, q
<1>3. /\ es \in Seq(Row) /\ Starts(es) = {}
      /\ \A j \in DOMAIN es : es[j].type \in {"result", "ended"} =>
           es[j].series = keeper.series /\ es[j].seed = keeper.seed
  <2>1. RowsOf(es, keeper)
    BY <1>2, ShapeTypes, EndRows
  <2> QED BY <2>1 DEF RowsOf
<1>4. q \in Seq(Keeper)
  BY ShapeTypes, SavingNewest DEF q
<1>5. DealerShape'
  <2>1. rows' \in Seq(Row) /\ rowsKept \in 1 .. Len(rows') /\ rows'[1].type = "started"
    BY <1>1, <1>3, ShapeTypes, RowsGrow
  <2> QED BY <1>1, <1>4, <2>1, ShapeTypes DEF DealerShape
<1>6. missteps' = {} => DealerFits'
  <2> SUFFICES ASSUME missteps' = {}
               PROVE  DealerFits'
    OBVIOUS
  <2>1. missteps = {} /\ script = <<>>
    BY <1>1 DEF MidScript
  <2>2. Fits(rows, changes, keeper, keeperKept, keeperSaves)
    BY <2>1, ShapeTypes, NoRows DEF DealerFits, Waits
  <2>3. SameDealer(keeper, keeper)
    BY DEF SameDealer
  <2>4. Fits(rows \o es, changes, keeper, keeperKept, q)
    BY <1>3, <2>2, <2>3, ShapeTypes, GoesOn DEF q
  <2>5. rows' \o Waits(script') = rows \o es
    <3>1. rows' \in Seq(Row)
      BY <1>5 DEF DealerShape
    <3> QED BY <1>1, <2>1, <3>1, NoRows DEF Waits
  <2> QED BY <1>1, <2>4, <2>5 DEF DealerFits
<1> QED BY <1>5, <1>6 DEF DealerInvariant

\* The browser writes: the dealer it has is one that was on its way.
LEMMA WritesKeep ==
  ASSUME DealerInvariant, RowsSaved \/ KeeperSaved
  PROVE  DealerInvariant'
<1>1. CASE RowsSaved
  <2>1. /\ rowsKept' = rowsKept + 1 /\ rowsKept < Len(rows)
        /\ UNCHANGED <<soloGame, rows, keeper, keeperKept, keeperSaves, script, changes, secrets, missteps>>
    BY <1>1 DEF RowsSaved, tableVars
  <2>2. rowsKept' \in 1 .. Len(rows)
    BY <2>1, ShapeTypes
  <2>3. DealerShape'
    BY <2>1, <2>2, ShapeTypes DEF DealerShape
  <2>4. missteps' = {} => DealerFits'
    BY <2>1, ShapeTypes DEF DealerFits
  <2> QED BY <2>3, <2>4 DEF DealerInvariant
<1>2. CASE KeeperSaved
  <2> DEFINE q == keeperSaves
             r == Tail(keeperSaves)
  <2>1. /\ q # <<>> /\ keeperKept' = Head(q) /\ keeperSaves' = r
        /\ UNCHANGED <<soloGame, rows, rowsKept, keeper, script, changes, secrets, missteps>>
    BY <1>2 DEF KeeperSaved
  <2>2. /\ q \in Seq(Keeper) /\ Len(q) \in Nat \ {0} /\ Head(q) = q[1] /\ 1 \in DOMAIN q /\ q[1] \in Keeper
        /\ r \in Seq(Keeper) /\ Len(r) = Len(q) - 1
        /\ \A i \in DOMAIN r : i + 1 \in DOMAIN q /\ r[i] = q[i + 1]
    <3>1. q \in Seq(Keeper) /\ q # <<>>
      BY <2>1, ShapeTypes
    <3>2. /\ Len(q) \in Nat \ {0} /\ Head(q) = q[1] /\ 1 \in DOMAIN q /\ q[1] \in Keeper
      BY <3>1, EmptySeq
    <3>3. r \in Seq(Keeper) /\ Len(r) = Len(q) - 1
      BY <3>1
    <3>4. \A i \in DOMAIN r : i + 1 \in DOMAIN q /\ r[i] = q[i + 1]
      BY <3>1
    <3> QED BY <3>1, <3>2, <3>3, <3>4
  <2> HIDE DEF r
  <2>3. DealerShape'
    BY <2>1, <2>2, ShapeTypes DEF DealerShape
  <2>4. Newest(Head(q), r) = Newest(keeperKept, q)
    <3>1. CASE r = <<>>
      <4>1. Len(r) = 0
        BY <3>1
      <4>2. Len(q) = 1
        BY <2>2, <4>1
      <4> QED BY <2>1, <2>2, <3>1, <4>2 DEF Newest
    <3>2. CASE r # <<>>
      <4>1. Len(r) \in DOMAIN r
        BY <2>2, <3>2, EmptySeq
      <4>2. r[Len(r)] = q[Len(q)]
        BY <2>2, <4>1
      <4> QED BY <2>1, <3>2, <4>2 DEF Newest
    <3> QED BY <3>1, <3>2
  <2>5. missteps' = {} => DealerFits'
    <3> DEFINE m == rows \o Waits(script)
    <3> SUFFICES ASSUME missteps' = {}
                 PROVE  DealerFits'
      OBVIOUS
    <3>1. Fits(m, changes, keeper, keeperKept, q)
      BY <2>1, ShapeTypes DEF DealerFits
    <3>2. (rows \o Waits(script))' = m
      BY <2>1
    <3> HIDE DEF m
    <3>3. Knows(m, changes, Head(q)) /\ \A i \in DOMAIN r : Knows(m, changes, r[i])
      BY <2>2, <3>1 DEF Fits
    <3>4. Fits(m, changes, keeper, Head(q), r)
      BY <2>4, <3>1, <3>3 DEF Fits
    <3> QED BY <2>1, <3>2, <3>4 DEF DealerFits
  <2> QED BY <2>3, <2>5 DEF DealerInvariant
<1> QED BY <1>1, <1>2

\* Whatever fits longer rows fits their beginning.
LEMMA Beginning ==
  ASSUME NEW l \in Seq(Row), NEW w \in Seq(Row), NEW c \in Nat, NEW d \in Keeper,
         AsCommitted(l \o w), Bounded(l \o w, c), Knows(l \o w, c, d)
  PROVE  AsCommitted(l) /\ Bounded(l, c) /\ Knows(l, c, d)
<1> DEFINE m == l \o w
<1>1. /\ DOMAIN l = 1 .. Len(l) /\ Len(l) \in Nat
      /\ \A i \in DOMAIN l : i \in DOMAIN m /\ m[i] = l[i]
  BY Joined
<1>2. \A i \in Starts(l) : i \in Starts(m) /\ m[i] = l[i]
  BY JoinedStarts
<1> HIDE DEF m
<1>3. Bounded(l, c) /\ Knows(l, c, d)
  BY <1>2 DEF Bounded, Knows, m
<1>4. ASSUME NEW i \in DOMAIN l, l[i].type \in {"result", "ended"}
      PROVE  Committed(l, i - 1, l[i])
  <2>1. Committed(m, i - 1, l[i])
    BY <1>1, <1>4 DEF AsCommitted, m
  <2>2. \A k \in 1 .. i - 1 : k \in DOMAIN l
    BY <1>1
  <2> QED BY <1>1, <2>1, <2>2 DEF Committed
<1> QED BY <1>3, <1>4 DEF AsCommitted

\* A reload, at any moment: the dealer that was saved is taken when it is at the last series of
\* the rows that were saved, and then these start its series with its seed.
LEMMA ReloadKeeps ==
  ASSUME DealerInvariant, Reload
  PROVE  DealerInvariant'
<1> DEFINE l == SubSeq(rows, 1, rowsKept)
           k == Reopened(l)
<1>1. /\ rows' = l /\ keeper' = k /\ secrets' = secrets + 1 /\ keeperSaves' = <<>> /\ script' = <<>>
      /\ UNCHANGED <<soloGame, rowsKept, keeperKept, changes>>
      /\ missteps' = {} => missteps = {} /\ keeperKept.series = LastSeries(l)
  BY DEF Reload
<1>2. l \in Seq(Row) /\ Len(l) = rowsKept /\ rowsKept \in Nat /\ 1 <= rowsKept /\ l[1] = rows[1]
  <2>1. /\ rowsKept \in Nat /\ 1 <= rowsKept /\ rowsKept <= Len(rows) /\ Len(rows) \in Nat
        /\ \A i \in 1 .. rowsKept : rows[i] \in Row
    BY ShapeTypes
  <2>2. l \in Seq(Row) /\ Len(l) = rowsKept /\ \A i \in 1 .. rowsKept : l[i] = rows[i]
    BY <2>1, SubSeqProperties
  <2> HIDE DEF l
  <2> QED BY <2>1, <2>2
<1>3. k \in Keeper /\ (keeperKept.series = LastSeries(l) => SameDealer(k, keeperKept))
  <2> HIDE DEF l
  <2>1. 1 \in Starts(l)
    BY <1>2, ShapeTypes DEF Starts
  <2>2. LastSeries(l) \in Nat /\ secrets + 1 \in Nat
    BY <1>2, <2>1, ShapeTypes, LastSeriesStarted
  <2>3. FreshKeeper(LastSeries(l), secrets + 1) \in Keeper
    BY <2>2, FreshKeeperKind
  <2>4. /\ [keeperKept EXCEPT !.place = 0] \in Keeper
        /\ SameDealer([keeperKept EXCEPT !.place = 0], keeperKept)
    BY ShapeTypes, AgainFromTheFirstDraw
  <2>5. keeperKept \in Keeper /\ SameDealer(keeperKept, keeperKept)
    BY ShapeTypes DEF SameDealer
  <2>6. CASE keeperKept.series # LastSeries(l)
    BY <2>3, <2>6 DEF Reopened
  <2>7. CASE keeperKept.series = LastSeries(l) /\ soloGame = "dice"
    BY <2>4, <2>7 DEF Reopened
  <2>8. CASE keeperKept.series = LastSeries(l) /\ soloGame # "dice"
    BY <2>5, <2>8 DEF Reopened
  <2> QED BY <2>6, <2>7, <2>8
<1> HIDE DEF k
<1>4. DealerShape'
  <2>1. <<>> \in Seq(Keeper)
    OBVIOUS
  <2>2. rowsKept \in 1 .. Len(l) /\ l[1].type = "started" /\ secrets + 1 \in Nat
    BY <1>2, ShapeTypes
  <2> HIDE DEF l
  <2> QED BY <1>1, <1>2, <1>3, <2>1, <2>2, ShapeTypes DEF DealerShape
<1>5. missteps' = {} => DealerFits'
  <2> SUFFICES ASSUME missteps' = {}
               PROVE  DealerFits'
    OBVIOUS
  <2> DEFINE w == Waits(script)
  <2>1. w \in Seq(Row)
    <3>1. CASE script = <<>>
      <4>1. w = <<>> /\ <<>> \in Seq(Row)
        BY <3>1 DEF Waits
      <4> QED BY <4>1
    <3>2. CASE \E p \in Plan : script = <<p>>
      <4>1. PICK p \in Plan : script = <<p>>
        BY <3>2
      <4>2. script # <<>> /\ script[1] = p
        BY <4>1
      <4> QED BY <4>2 DEF Waits, Plan
    <3> QED BY <3>1, <3>2, ShapeTypes
  <2>2. missteps = {} /\ keeperKept.series = LastSeries(l) /\ SameDealer(k, keeperKept)
    BY <1>1, <1>3
  <2>3. Fits(rows \o w, changes, keeper, keeperKept, keeperSaves)
    BY <2>2, ShapeTypes DEF DealerFits
  <2> HIDE DEF w
  <2>4. AsCommitted(rows \o w) /\ Bounded(rows \o w, changes) /\ Knows(rows \o w, changes, keeperKept)
    BY <2>3 DEF Fits, Serves
  <2>5. AsCommitted(rows) /\ Bounded(rows, changes) /\ Knows(rows, changes, keeperKept)
    BY <2>1, <2>4, ShapeTypes, Beginning
  <2>6. LastSeries(SubSeq(rows, 1, rowsKept)) = keeperKept.series
    BY <2>2
  <2> HIDE DEF l
  <2>7. Serves(l, changes, k) /\ Knows(l, changes, keeperKept)
    BY <1>3, <2>2, <2>5, <2>6, ShapeTypes, FirstRows DEF SameDealer, l
  <2>8. Knows(l, changes, k)
    BY <2>2, <2>7 DEF Knows, SameDealer
  <2>9. Fits(l, changes, k, keeperKept, <<>>)
    <3>1. DOMAIN <<>> = {} /\ Newest(keeperKept, <<>>) = keeperKept
      BY DEF Newest
    <3>2. SameDealer(keeperKept, k)
      BY <2>2 DEF SameDealer
    <3> QED BY <2>7, <2>8, <3>1, <3>2 DEF Fits
  <2>10. rows' \o Waits(script') = l
    BY <1>1, <1>2, NoRows DEF Waits
  <2> QED BY <1>1, <2>9, <2>10 DEF DealerFits
<1> QED BY <1>4, <1>5 DEF DealerInvariant

\* What the rows, the running deal, the dealer and the saved ones have to do with each other.
THEOREM KeeperInvariant == SoloDealerSpec => []DealerInvariant
<1>1. DealerInvariant /\ [SoloDealerNext]_soloDealerVars => DealerInvariant'
  <2> SUFFICES ASSUME DealerInvariant, [SoloDealerNext]_soloDealerVars
               PROVE  DealerInvariant'
    OBVIOUS
  <2>1. CASE SendVirtual
    BY <2>1, StepKeeps
  <2>2. CASE PauseEnds
    BY <2>2, PauseKeeps
  <2>3. CASE ChangeSeries
    BY <2>3, ChangeKeeps
  <2>4. CASE CloseSession
    BY <2>4, CloseKeeps
  <2>5. CASE RowsSaved \/ KeeperSaved
    BY <2>5, WritesKeep
  <2>6. CASE Reload
    BY <2>6, ReloadKeeps
  <2>7. CASE UNCHANGED soloDealerVars
    BY <2>7 DEF DealerInvariant, DealerShape, DealerFits, soloDealerVars, tableVars
  <2> QED BY <2>1, <2>2, <2>3, <2>4, <2>5, <2>6, <2>7 DEF SoloDealerNext
<1> QED BY <1>1, InvariantAtFirst, PTL DEF SoloDealerSpec

\* Every seed is committed before it is used, and a reload goes on with the seed of the series.
LEMMA SeedSurvivesNow ==
  ASSUME DealerInvariant
  PROVE  SeedSurvives
<1> DEFINE w == Waits(script)
<1>1. ASSUME missteps = {}
      PROVE  AsCommitted(rows)
  <2>1. Fits(rows \o w, changes, keeper, keeperKept, keeperSaves)
    BY <1>1, ShapeTypes DEF DealerFits
  <2>2. w \in Seq(Row)
    <3>1. CASE script = <<>>
      <4>1. w = <<>> /\ <<>> \in Seq(Row)
        BY <3>1 DEF Waits
      <4> QED BY <4>1
    <3>2. CASE \E p \in Plan : script = <<p>>
      <4>1. PICK p \in Plan : script = <<p>>
        BY <3>2
      <4>2. script # <<>> /\ script[1] = p
        BY <4>1
      <4> QED BY <4>2 DEF Waits, Plan
    <3> QED BY <3>1, <3>2, ShapeTypes
  <2> HIDE DEF w
  <2>3. AsCommitted(rows \o w) /\ Bounded(rows \o w, changes) /\ Knows(rows \o w, changes, keeperKept)
    BY <2>1 DEF Fits, Serves
  <2> QED BY <2>2, <2>3, ShapeTypes, Beginning
<1>2. ASSUME missteps = {}, rowsKept = Len(rows), keeperSaves = <<>>, script = <<>>
      PROVE  Reopened(rows).series = keeper.series /\ Reopened(rows).seed = keeper.seed
  <2>1. Fits(rows, changes, keeper, keeperKept, keeperSaves)
    BY <1>2, ShapeTypes, NoRows DEF DealerFits, Waits
  <2>2. keeperKept.series = keeper.series /\ keeperKept.seed = keeper.seed
    BY <1>2, <2>1 DEF Fits, Newest, SameDealer
  <2>3. LastSeries(rows) = keeper.series
    BY <2>1, ShapeTypes, LastSeriesIs DEF Fits, Serves
  <2>4. SameDealer([keeperKept EXCEPT !.place = 0], keeperKept)
    BY ShapeTypes, AgainFromTheFirstDraw
  <2>5. Reopened(rows) = IF soloGame = "dice" THEN [keeperKept EXCEPT !.place = 0] ELSE keeperKept
    BY <2>2, <2>3 DEF Reopened
  <2>6. CASE soloGame = "dice"
    BY <2>2, <2>4, <2>5, <2>6 DEF SameDealer
  <2>7. CASE soloGame # "dice"
    BY <2>2, <2>5, <2>7
  <2> QED BY <2>6, <2>7
<1> QED BY <1>1, <1>2 DEF SeedSurvives, SeedsKept, ReloadKeepsSeed

\* SeedSurvives, which the shells run checks, for every game and however often the page reloads.
THEOREM SeedAlwaysSurvives == SoloDealerSpec => []SeedSurvives
BY KeeperInvariant, SeedSurvivesNow, PTL

-----------------------------------------------------------------------------
(* The channel.  Copies of the log: numbers rise along them.                  *)

SoloKinds == {"live", "play", "on", "off", "ended", "joined", "issued", "removed", "bet", "away"}
SoloEvent == [seq : Nat \ {0}, kind : SoloKinds, who : Nat]
Rising(es) == \A i, j \in DOMAIN es : i < j => es[i].seq < es[j].seq
Copy == {es \in Seq(SoloEvent) : Rising(es)}

\* n is the number of the last event, 0 if there is none.
Ends(es, n) == n \in Nat /\ (\A i \in DOMAIN es : es[i].seq <= n) /\ (n = 0 \/ \E i \in DOMAIN es : es[i].seq = n)

LEMMA EventSeq == \A e \in SoloEvent : e.seq \in Nat /\ e.seq > 0
BY DEF SoloEvent

LEMMA EndIsLatest ==
  ASSUME NEW es \in Seq(SoloEvent), NEW n, Ends(es, n)
  PROVE  LatestSeq(es) = n
<1> DEFINE S == {0} \cup {es[i].seq : i \in DOMAIN es}
<1>1. \A i \in DOMAIN es : es[i].seq \in Nat
  BY EventSeq
<1>2. S \subseteq Nat /\ n \in Nat /\ n \in S /\ \A y \in S : y <= n
  BY <1>1 DEF Ends
<1> HIDE DEF S
<1>3. Max(S) \in S /\ \A y \in S : y <= Max(S)
  BY <1>2, MaxOfBounded
<1>4. Max(S) = n
  <2> DEFINE m == Max(S)
  <2>1. m \in S /\ n <= m
    BY <1>2, <1>3
  <2> HIDE DEF m
  <2>2. m \in Nat /\ m <= n
    BY <1>2, <2>1
  <2>3. m = n
    BY <1>2, <2>1, <2>2
  <2> QED BY <2>3 DEF m
<1> QED BY <1>4 DEF S, LatestSeq

LEMMA CopyEnds ==
  ASSUME NEW es \in Copy
  PROVE  Ends(es, LatestSeq(es))
<1>1. es \in Seq(SoloEvent) /\ Rising(es) /\ DOMAIN es = 1..Len(es) /\ Len(es) \in Nat
  BY DEF Copy
<1>2. \A i \in DOMAIN es : es[i].seq \in Nat
  BY <1>1, EventSeq
<1>3. CASE es = <<>>
  <2>1. DOMAIN es = {}
    BY <1>3
  <2>2. Ends(es, 0)
    BY <2>1 DEF Ends
  <2> QED BY <1>1, <2>2, EndIsLatest
<1>4. CASE es # <<>>
  <2> DEFINE n == es[Len(es)].seq
  <2>1. Len(es) \in DOMAIN es
    BY <1>1, <1>4
  <2>2. \A i \in DOMAIN es : es[i].seq <= n
    <3> TAKE i \in DOMAIN es
    <3>1. i = Len(es) \/ i < Len(es)
      BY <1>1
    <3> QED BY <1>1, <1>2, <2>1, <3>1 DEF Rising
  <2>3. Ends(es, n)
    BY <1>2, <2>1, <2>2 DEF Ends
  <2> HIDE DEF n
  <2> QED BY <1>1, <2>3, EndIsLatest
<1> QED BY <1>3, <1>4

LEMMA NothingIsCopy == <<>> \in Copy /\ LatestSeq(<<>>) = 0
<1>1. <<>> \in Seq(SoloEvent) /\ DOMAIN <<>> = {}
  OBVIOUS
<1>2. <<>> \in Copy
  BY <1>1 DEF Copy, Rising
<1>3. Ends(<<>>, 0)
  BY <1>1 DEF Ends
<1> DEFINE b == <<>>
<1> HIDE DEF b
<1>4. b \in Seq(SoloEvent) /\ Ends(b, 0)
  BY <1>1, <1>3 DEF b
<1>5. LatestSeq(b) = 0
  BY <1>4, EndIsLatest
<1> QED BY <1>2, <1>5, Zenon DEF b

\* A newer event is taken.
LEMMA CopyTakes ==
  ASSUME NEW es \in Copy, NEW e \in SoloEvent, e.seq > LatestSeq(es)
  PROVE  /\ Append(es, e) \in Copy /\ LatestSeq(Append(es, e)) = e.seq
         /\ ApplyEvent(es, e) = Append(es, e)
<1> DEFINE r == Append(es, e)
<1>1. es \in Seq(SoloEvent) /\ Rising(es) /\ Ends(es, LatestSeq(es)) /\ e.seq \in Nat
  BY CopyEnds, EventSeq DEF Copy
<1>2. /\ r \in Seq(SoloEvent) /\ Len(es) \in Nat
      /\ DOMAIN es = 1..Len(es) /\ DOMAIN r = 1..(Len(es) + 1)
      /\ r[Len(es) + 1] = e /\ \A i \in 1..Len(es) : r[i] = es[i]
  BY <1>1, OneMore
<1> HIDE DEF r
<1>3. \A i \in DOMAIN r : r[i].seq \in Nat
  BY <1>2, EventSeq
<1>4. \A i \in 1..Len(es) : r[i].seq < e.seq
  <2> TAKE i \in 1..Len(es)
  <2>1. es[i].seq <= LatestSeq(es) /\ es[i].seq \in Nat /\ LatestSeq(es) \in Nat
    BY <1>1, <1>2, EventSeq DEF Ends
  <2> QED BY <1>1, <1>2, <2>1
<1>5. Rising(r)
  <2> SUFFICES ASSUME NEW i \in DOMAIN r, NEW j \in DOMAIN r, i < j PROVE r[i].seq < r[j].seq
    BY DEF Rising
  <2>1. i \in 1..Len(es) /\ (j = Len(es) + 1 \/ j \in 1..Len(es))
    BY <1>2
  <2>2. CASE j = Len(es) + 1
    BY <1>2, <1>4, <2>1, <2>2
  <2>3. CASE j \in 1..Len(es)
    BY <1>1, <1>2, <2>1, <2>3 DEF Rising
  <2> QED BY <2>1, <2>2, <2>3
<1>6. Ends(r, e.seq)
  <2>1. \A i \in DOMAIN r : r[i].seq <= e.seq
    <3> TAKE i \in DOMAIN r
    <3>1. i \in 1..Len(es) \/ i = Len(es) + 1
      BY <1>2
    <3> QED BY <1>1, <1>2, <1>3, <1>4, <3>1
  <2>2. Len(es) + 1 \in DOMAIN r
    BY <1>2
  <2> QED BY <1>1, <1>2, <2>1, <2>2 DEF Ends
<1>7. r \in Copy /\ LatestSeq(r) = e.seq
  BY <1>2, <1>5, <1>6, EndIsLatest DEF Copy
<1>8. ~(e.seq <= LatestSeq(es))
  BY <1>1 DEF Ends
<1> QED BY <1>7, <1>8 DEF ApplyEvent, r

\* What is not newer is skipped.
LEMMA CopyKeeps ==
  ASSUME NEW es \in Copy, NEW e \in SoloEvent
  PROVE  ApplyEvent(es, e) \in Copy
<1>1. LatestSeq(es) \in Nat /\ e.seq \in Nat
  BY CopyEnds, EventSeq DEF Ends
<1>2. CASE e.seq <= LatestSeq(es)
  BY <1>2 DEF ApplyEvent
<1>3. CASE e.seq > LatestSeq(es)
  BY <1>3, CopyTakes
<1> QED BY <1>1, <1>2, <1>3

\* A copy without its last event.
LEMMA CopyParts ==
  ASSUME NEW s \in Seq(SoloEvent), NEW e \in SoloEvent, Append(s, e) \in Copy
  PROVE  s \in Copy /\ e.seq > LatestSeq(s)
<1> DEFINE r == Append(s, e)
<1>1. /\ Len(s) \in Nat /\ DOMAIN s = 1..Len(s) /\ DOMAIN r = 1..(Len(s) + 1)
      /\ r[Len(s) + 1] = e /\ \A i \in 1..Len(s) : r[i] = s[i]
  BY OneMore
<1>2. Rising(r)
  BY DEF Copy
<1> HIDE DEF r
<1>3. s \in Copy
  <2> SUFFICES ASSUME NEW i \in DOMAIN s, NEW j \in DOMAIN s, i < j PROVE s[i].seq < s[j].seq
    BY DEF Rising, Copy
  <2>1. i \in DOMAIN r /\ j \in DOMAIN r /\ r[i] = s[i] /\ r[j] = s[j]
    BY <1>1
  <2> QED BY <1>2, <2>1 DEF Rising
<1>4. Ends(s, LatestSeq(s))
  BY <1>3, CopyEnds
<1>5. CASE LatestSeq(s) = 0
  BY <1>3, <1>5, EventSeq
<1>6. ASSUME NEW i \in DOMAIN s, s[i].seq = LatestSeq(s) PROVE e.seq > LatestSeq(s)
  <2>1. i \in DOMAIN r /\ Len(s) + 1 \in DOMAIN r /\ i < Len(s) + 1 /\ r[i] = s[i]
    BY <1>1
  <2>2. s[i].seq < e.seq
    BY <1>1, <1>2, <2>1 DEF Rising
  <2> QED BY <1>4, <1>6, <2>2, EventSeq DEF Ends
<1> QED BY <1>3, <1>4, <1>5, <1>6 DEF Ends

\* What is selected from a copy is a copy.
LEMMA SelectedCopy ==
  ASSUME NEW T
  PROVE  \A es \in Copy : Selection(es, T) \in Copy
<1> DEFINE Y == SoloEvent
           Q == {s \in Seq(Y) : s \in Copy => /\ Selection(s, T) \in Copy
                                              /\ LatestSeq(Selection(s, T)) <= LatestSeq(s)}
<1>1. /\ Selection(<<>>, T) = <<>>
      /\ \A s \in Seq(Y) : /\ Selection(s, T) \in Seq(Y)
                           /\ \A e \in Y : Selection(Append(s, e), T) =
                                IF e \in T THEN Append(Selection(s, T), e) ELSE Selection(s, T)
  <2> HIDE DEF Y
  <2> QED BY SelectionSteps
<1>2. <<>> \in Q
  <2>1. <<>> \in Seq(Y) /\ 0 <= 0
    OBVIOUS
  <2> QED BY <1>1, <2>1, NothingIsCopy
<1>3. ASSUME NEW s \in Seq(Y), NEW e \in Y, s \in Q PROVE Append(s, e) \in Q
  <2> DEFINE r == Append(s, e)
             q == Selection(s, T)
  <2>1. r \in Seq(Y)
    OBVIOUS
  <2> SUFFICES ASSUME r \in Copy
               PROVE  Selection(r, T) \in Copy /\ LatestSeq(Selection(r, T)) <= LatestSeq(r)
    BY <2>1
  <2>2. Selection(r, T) = IF e \in T THEN Append(q, e) ELSE q
    BY <1>1
  <2>3. s \in Copy /\ e.seq > LatestSeq(s)
    BY CopyParts
  <2>4. LatestSeq(r) = e.seq
    BY <2>3, CopyTakes
  <2> HIDE DEF r
  <2>5. q \in Copy /\ LatestSeq(q) <= LatestSeq(s)
    BY <1>3, <2>3
  <2> HIDE DEF q
  <2>6. LatestSeq(q) \in Nat /\ LatestSeq(s) \in Nat /\ e.seq \in Nat
    BY <2>3, <2>5, CopyEnds, EventSeq DEF Ends
  <2>7. e.seq > LatestSeq(q)
    BY <2>3, <2>5, <2>6
  <2>8. Append(q, e) \in Copy /\ LatestSeq(Append(q, e)) = e.seq
    BY <2>5, <2>7, CopyTakes
  <2>9. CASE e \in T
    BY <2>2, <2>4, <2>6, <2>8, <2>9
  <2>10. CASE e \notin T
    BY <2>2, <2>3, <2>4, <2>5, <2>6, <2>10
  <2> QED BY <2>9, <2>10
<1>4. Seq(Y) \subseteq Q
  <2> HIDE DEF Q, Y
  <2> QED BY <1>2, <1>3, SequencesBySteps
<1>5. Copy \subseteq Seq(Y)
  BY DEF Copy
<1> QED BY <1>4, <1>5

\* The first events of a copy are a copy.
LEMMA CutCopy ==
  ASSUME NEW es \in Copy, NEW n \in 0..Len(es)
  PROVE  SubSeq(es, 1, n) \in Copy
<1> DEFINE r == SubSeq(es, 1, n)
<1>1. es \in Seq(SoloEvent) /\ Rising(es)
  BY DEF Copy
<1>2. r \in Seq(SoloEvent) /\ DOMAIN r \subseteq DOMAIN es /\ \A i \in DOMAIN r : r[i] = es[i]
  BY <1>1
<1> HIDE DEF r
<1>3. Rising(r)
  BY <1>1, <1>2 DEF Rising
<1> QED BY <1>2, <1>3 DEF r, Copy

-----------------------------------------------------------------------------
(* Messages to a follower, and what it shows when it has heard them all.      *)

Reply == [op : {"joinAck"}, ask : Nat, player : Nat] \cup [op : {"joinReject"}, ask : Nat]
Report == [op : {"event"}, event : SoloEvent] \cup [op : {"snapshot"}, events : Copy]
Post == Reply \cup Report
Asking ==
  [op : {"hello"}] \cup [op : {"join"}, ask : Nat] \cup [op : {"rejoin"}, ask : Nat, token : Nat]
    \cup [op : {"playerEvent"}, player : Nat, kind : SoloKinds]

Heard(es, m) ==
  IF m.op = "snapshot" THEN m.events ELSE IF m.op = "event" THEN ApplyEvent(es, m.event) ELSE es
HearBy == [p \in Copy \X Post |-> Heard(p[1], p[2])]
Caught(es, ms) == FoldOf(HearBy, es, ms)

LEMMA PostKinds ==
  ASSUME NEW m \in Post
  PROVE  /\ m \in Reply <=> m.op \in {"joinAck", "joinReject"}
         /\ m \in Report <=> m.op \in {"event", "snapshot"}
         /\ m.op = "event" => m.event \in SoloEvent
         /\ m.op = "snapshot" => m.events \in Copy
         /\ m.op \in {"joinAck", "joinReject"} => m.ask \in Nat
         /\ m.op = "joinAck" => m.player \in Nat
<1>1. CASE m \in [op : {"joinAck"}, ask : Nat, player : Nat]
  BY <1>1 DEF Reply, Report
<1>2. CASE m \in [op : {"joinReject"}, ask : Nat]
  BY <1>2 DEF Reply, Report
<1>3. CASE m \in [op : {"event"}, event : SoloEvent]
  BY <1>3 DEF Reply, Report
<1>4. CASE m \in [op : {"snapshot"}, events : Copy]
  BY <1>4 DEF Reply, Report
<1> QED BY <1>1, <1>2, <1>3, <1>4 DEF Post, Reply, Report

LEMMA HeardIsCopy == \A es \in Copy : \A m \in Post : Heard(es, m) \in Copy
<1> SUFFICES ASSUME NEW es \in Copy, NEW m \in Post PROVE Heard(es, m) \in Copy
  OBVIOUS
<1>1. CASE m.op = "snapshot"
  BY <1>1, PostKinds DEF Heard
<1>2. CASE m.op = "event"
  BY <1>2, PostKinds, CopyKeeps DEF Heard
<1>3. CASE m.op \notin {"snapshot", "event"}
  BY <1>3 DEF Heard
<1> QED BY <1>1, <1>2, <1>3

LEMMA CaughtSteps ==
  ASSUME NEW es \in Copy
  PROVE  /\ Caught(es, <<>>) = es
         /\ \A s \in Seq(Post) :
              /\ Caught(es, s) \in Copy
              /\ \A m \in Post : Caught(es, Append(s, m)) = Heard(Caught(es, s), m)
              /\ s # <<>> => Caught(es, s) = Caught(Heard(es, Head(s)), Tail(s))
<1> DEFINE F == HearBy
           X == Copy
           Y == Post
<1>1. Folding(F, X, Y)
  BY HeardIsCopy DEF HearBy, Folding
<1>2. \A q \in X : \A m \in Y : F[<<q, m>>] = Heard(q, m)
  BY DEF HearBy
<1>3. es \in X
  OBVIOUS
<1>4. \A q \in X : \A m \in Y : Heard(q, m) \in X
  BY HeardIsCopy
<1> HIDE DEF F, X, Y
<1>5. /\ FoldOf(F, es, <<>>) = es
      /\ \A s \in Seq(Y) : /\ FoldOf(F, es, s) \in X
                           /\ \A m \in Y : FoldOf(F, es, Append(s, m)) = F[<<FoldOf(F, es, s), m>>]
  BY <1>1, <1>3, FoldSteps
<1>6. \A s \in Seq(Y) : \A m \in Y : FoldOf(F, es, Append(s, m)) = Heard(FoldOf(F, es, s), m)
  BY <1>2, <1>5
<1>7. ASSUME NEW s \in Seq(Y), s # <<>>
      PROVE  FoldOf(F, es, s) = FoldOf(F, Heard(es, Head(s)), Tail(s))
  <2>1. Head(s) \in Y /\ Tail(s) \in Seq(Y) /\ s = <<Head(s)>> \o Tail(s)
    BY <1>7, AfterHead
  <2> DEFINE h == Head(s)
             t == Tail(s)
  <2>4. h \in Y /\ t \in Seq(Y)
    BY <2>1
  <2> HIDE DEF h, t
  <2>2. FoldOf(F, es, <<h>> \o t) = FoldOf(F, F[<<es, h>>], t)
    BY <1>1, <1>3, <2>4, FoldHead
  <2>3. F[<<es, h>>] = Heard(es, h)
    BY <1>2, <1>3, <2>4
  <2> QED BY <2>1, <2>2, <2>3 DEF h, t
<1>8. Caught(es, <<>>) = es
  BY <1>5, Zenon DEF Caught, F
<1>9. \A s \in Seq(Y) : Caught(es, s) \in X
  BY <1>5, Zenon DEF Caught, F
<1>10. \A s \in Seq(Y) : \A m \in Y : Caught(es, Append(s, m)) = Heard(Caught(es, s), m)
  BY <1>6, Zenon DEF Caught, F
<1>11. \A s \in Seq(Y) : s # <<>> => Caught(es, s) = Caught(Heard(es, Head(s)), Tail(s))
  BY <1>7, Zenon DEF Caught, F
<1> QED BY <1>8, <1>9, <1>10, <1>11, Zenon DEF X, Y

\* Events numbered on from l.
GoesOnFrom(l, r) == \A i \in DOMAIN r : r[i].seq = LatestSeq(l) + i
Told(e) == [op |-> "event", event |-> e]
News(r) == [i \in DOMAIN r |-> [op |-> "event", event |-> r[i]]]
Whole(l) == [op |-> "snapshot", events |-> l]

LEMMA NewsSteps ==
  /\ News(<<>>) = <<>>
  /\ \A r \in Seq(SoloEvent) :
       /\ News(r) \in Seq(Post)
       /\ \A e \in SoloEvent : Told(e) \in Post /\ News(Append(r, e)) = Append(News(r), Told(e))
<1>1. \A e \in SoloEvent : Told(e) \in Post
  BY DEF Told, Post, Report
<1>2. ASSUME NEW r \in Seq(SoloEvent) PROVE News(r) \in Seq(Post) /\ Len(News(r)) = Len(r)
  <2>1. Len(r) \in Nat /\ DOMAIN r = 1..Len(r) /\ \A i \in DOMAIN r : r[i] \in SoloEvent
    OBVIOUS
  <2>2. \A i \in DOMAIN r : [op |-> "event", event |-> r[i]] \in Post
    BY <1>1, <2>1 DEF Told
  <2> DEFINE P == Post
             q == News(r)
  <2>3. q = [i \in 1..Len(r) |-> [op |-> "event", event |-> r[i]]]
    BY <2>1 DEF News
  <2>4. DOMAIN q = 1..Len(r) /\ \A i \in 1..Len(r) : q[i] \in P
    BY <2>1, <2>2, <2>3
  <2>5. q \in [1..Len(r) -> P]
    BY <2>1, <2>2, <2>3
  <2> HIDE DEF q, P
  <2>6. q \in Seq(P) /\ Len(q) = Len(r)
    BY <2>1, <2>5
  <2> QED BY <2>6 DEF q, P
<1>3. ASSUME NEW r \in Seq(SoloEvent), NEW e \in SoloEvent
      PROVE  News(Append(r, e)) = Append(News(r), Told(e))
  <2> DEFINE a == Append(r, e)
             P == Post
             q == News(r)
             m == Told(e)
             b == Append(q, m)
             c == News(a)
  <2>1. /\ a \in Seq(SoloEvent) /\ Len(a) = Len(r) + 1 /\ Len(r) \in Nat /\ DOMAIN r = 1..Len(r)
        /\ DOMAIN a = 1..(Len(r) + 1) /\ a[Len(r) + 1] = e /\ \A i \in 1..Len(r) : a[i] = r[i]
    BY OneMore
  <2>2. q \in Seq(P) /\ Len(q) = Len(r) /\ m \in P
    BY <1>1, <1>2
  <2>3. \A i \in 1..Len(r) : q[i] = Told(r[i])
    BY <2>1 DEF News, Told
  <2>4. DOMAIN c = 1..(Len(r) + 1) /\ \A i \in 1..(Len(r) + 1) : c[i] = Told(a[i])
    BY <2>1 DEF News, Told
  <2>5. c \in Seq(P) /\ Len(c) = Len(r) + 1
    BY <1>2, <2>1
  <2> HIDE DEF q, c, P, a
  <2>6. b \in Seq(P) /\ Len(b) = Len(r) + 1 /\ b[Len(r) + 1] = m /\ \A i \in 1..Len(r) : b[i] = q[i]
    BY <2>2, OneMore
  <2>7. \A i \in 1..(Len(r) + 1) : b[i] = c[i]
    <3> TAKE i \in 1..(Len(r) + 1)
    <3>1. i \in 1..Len(r) \/ i = Len(r) + 1
      BY <2>1
    <3> QED BY <2>1, <2>3, <2>4, <2>6, <3>1
  <2> HIDE DEF b
  <2>8. b = c
    BY <2>1, <2>5, <2>6, <2>7
  <2> QED BY <2>8 DEF a, b, c, q
<1>4. News(<<>>) = <<>>
  <2>1. <<>> \in Seq(SoloEvent) /\ Len(<<>>) = 0
    OBVIOUS
  <2> DEFINE q == News(<<>>)
             P == Post
  <2>2. q \in Seq(P) /\ Len(q) = 0
    BY <1>2, <2>1
  <2> HIDE DEF q, P
  <2>3. q = <<>>
    BY <2>2
  <2> QED BY <2>3 DEF q
<1> QED BY <1>1, <1>2, <1>3, <1>4

\* New events make the log a longer copy, and a follower that will show the log when it has
\* heard its messages will show them, too.
LEMMA NewsArrive ==
  ASSUME NEW l \in Copy
  PROVE  \A r \in Seq(SoloEvent) : GoesOnFrom(l, r) =>
           /\ l \o r \in Copy /\ LatestSeq(l \o r) = LatestSeq(l) + Len(r)
           /\ \A es \in Copy : \A ms \in Seq(Post) : Caught(es, ms) = l => Caught(es, ms \o News(r)) = l \o r
<1> DEFINE Y == SoloEvent
           Z == Post
           Q == {r \in Seq(Y) : GoesOnFrom(l, r) =>
                  /\ l \o r \in Copy /\ LatestSeq(l \o r) = LatestSeq(l) + Len(r)
                  /\ \A es \in Copy : \A ms \in Seq(Z) : Caught(es, ms) = l => Caught(es, ms \o News(r)) = l \o r}
<1>1. l \in Seq(Y) /\ LatestSeq(l) \in Nat
  BY CopyEnds DEF Copy, Ends
<1>2. <<>> \in Q
  <2>1. <<>> \in Seq(Y) /\ Len(<<>>) = 0 /\ l \o <<>> = l
    BY <1>1
  <2>2. \A ms \in Seq(Z) : ms \o News(<<>>) = ms
    <3>1. \A ms \in Seq(Z) : ms \o <<>> = ms
      <4> HIDE DEF Z
      <4> QED OBVIOUS
    <3> QED BY <3>1, NewsSteps
  <2>3. LatestSeq(l) + 0 = LatestSeq(l)
    BY <1>1
  <2> QED BY <2>1, <2>2, <2>3
<1>3. ASSUME NEW r \in Seq(Y), NEW e \in Y, r \in Q PROVE Append(r, e) \in Q
  <2> DEFINE a == Append(r, e)
  <2>1. /\ a \in Seq(Y) /\ Len(a) = Len(r) + 1 /\ Len(r) \in Nat /\ DOMAIN r = 1..Len(r)
        /\ DOMAIN a = 1..(Len(r) + 1) /\ a[Len(r) + 1] = e /\ \A i \in 1..Len(r) : a[i] = r[i]
    BY OneMore
  <2>2. l \o a = Append(l \o r, e)
    BY <1>1, ConcatAppend
  <2>3. News(a) = Append(News(r), Told(e)) /\ News(r) \in Seq(Z) /\ Told(e) \in Z
    BY NewsSteps
  <2> SUFFICES ASSUME GoesOnFrom(l, a)
               PROVE  /\ l \o a \in Copy /\ LatestSeq(l \o a) = LatestSeq(l) + Len(a)
                      /\ \A es \in Copy : \A ms \in Seq(Z) : Caught(es, ms) = l => Caught(es, ms \o News(a)) = l \o a
    BY <2>1
  <2> HIDE DEF a, Z
  <2>4. GoesOnFrom(l, r) /\ e.seq = LatestSeq(l) + (Len(r) + 1)
    <3>1. \A i \in DOMAIN r : i \in DOMAIN a /\ a[i] = r[i]
      BY <2>1
    <3>2. Len(r) + 1 \in DOMAIN a
      BY <2>1
    <3> QED BY <2>1, <3>1, <3>2 DEF GoesOnFrom
  <2>5. /\ l \o r \in Copy /\ LatestSeq(l \o r) = LatestSeq(l) + Len(r)
        /\ \A es \in Copy : \A ms \in Seq(Z) : Caught(es, ms) = l => Caught(es, ms \o News(r)) = l \o r
    BY <1>3, <2>4
  <2> DEFINE c == l \o r
  <2> HIDE DEF c
  <2>6. c \in Copy /\ LatestSeq(c) = LatestSeq(l) + Len(r) /\ e.seq > LatestSeq(c)
    BY <1>1, <2>1, <2>4, <2>5 DEF c
  <2>7. Append(c, e) \in Copy /\ LatestSeq(Append(c, e)) = e.seq /\ ApplyEvent(c, e) = Append(c, e)
    BY <2>6, CopyTakes
  <2>8. Heard(c, Told(e)) = Append(c, e)
    BY <2>7 DEF Heard, Told
  <2>9. ASSUME NEW es \in Copy, NEW ms \in Seq(Z), Caught(es, ms) = l
        PROVE  Caught(es, ms \o News(a)) = l \o a
    <3> DEFINE n == News(r)
               m == Told(e)
    <3> HIDE DEF n, m
    <3>1. ms \o Append(n, m) = Append(ms \o n, m) /\ ms \o n \in Seq(Z)
      BY <2>3, ConcatAppend DEF n, m
    <3>2. Caught(es, ms \o n) = c
      BY <2>5, <2>9 DEF c, n
    <3> DEFINE o == ms \o n
    <3> HIDE DEF o
    <3>3. Caught(es, Append(o, m)) = Heard(Caught(es, o), m)
      BY <2>3, <3>1, CaughtSteps DEF Z, m, o
    <3> QED BY <2>2, <2>3, <2>8, <3>1, <3>2, <3>3 DEF c, n, m, o
  <2> QED BY <1>1, <2>1, <2>2, <2>4, <2>7, <2>9 DEF c
<1> HIDE DEF Q, Y
<1>4. Seq(Y) \subseteq Q
  BY <1>2, <1>3, SequencesBySteps
<1> QED BY <1>4 DEF Q, Y

-----------------------------------------------------------------------------
(* A follower that has a store, and is not apart from the log, has said hello  *)
(* again or will show the log when it has heard what is on its way; to one     *)
(* without a store only answers are on their way.                              *)

TabRecord ==
  [phase : {"closed", "form", "loading", "waiting", "playing"}, player : Nat, events : Copy, asking : SUBSET Nat]

TokensOK(ks) == ks \subseteq Nat /\ \E n \in Nat : \A k \in ks : k <= n

SoloShape ==
  /\ meeting \in Meetings /\ asks \in Nat /\ stored \in Nat
  /\ log \in Copy /\ written \in Copy
  /\ open \in BOOLEAN /\ attached \in BOOLEAN /\ (attached => open)
  /\ TokensOK(tokens) /\ apart \subseteq Follower
  /\ tabs \in [Follower -> TabRecord]
  /\ toDealer \in [Follower -> Seq(Asking)] /\ toTab \in [Follower -> Seq(Post)]

\* The dealer's tab has told everything; one that does not listen although it should has told nobody.
HostInv ==
  /\ attached => sent = LatestSeq(log)
  /\ open /\ ~attached /\ LocalPlayersOn(log) => apart = Follower

AgreedAs(r, q, p, near, l) ==
  IF r.phase \in {"waiting", "playing"} THEN near => Hello \in ToSet(q) \/ Caught(r.events, p) = l
  ELSE p \in Seq(Reply)
Near(t) == attached /\ t \notin apart
Agreed(t) == AgreedAs(tabs[t], toDealer[t], toTab[t], Near(t), log)

SoloInv == SoloShape /\ HostInv /\ \A t \in Follower : Agreed(t)

LEMMA TabParts ==
  ASSUME SoloShape, NEW t \in Follower
  PROVE  /\ tabs[t] \in TabRecord /\ tabs[t].events \in Copy /\ tabs[t].asking \in SUBSET Nat /\ tabs[t].player \in Nat
         /\ tabs[t].phase \in {"closed", "form", "loading", "waiting", "playing"}
         /\ toDealer[t] \in Seq(Asking) /\ toTab[t] \in Seq(Post)
<1>1. tabs[t] \in TabRecord /\ toDealer[t] \in Seq(Asking) /\ toTab[t] \in Seq(Post)
  BY DEF SoloShape
<1> QED BY <1>1 DEF TabRecord

LEMMA ReplyIsPost == Reply \subseteq Post /\ Seq(Reply) \subseteq Seq(Post)
<1>1. Reply \subseteq Post
  BY DEF Post
<1> QED BY <1>1

\* What a follower, alone, does to itself.
Moves(t) ==
  /\ UNCHANGED <<meeting, hostVars, apart>>
  /\ stored' \in Nat /\ asks' \in Nat
  /\ tabs' \in [Follower -> TabRecord]
  /\ toDealer' \in [Follower -> Seq(Asking)] /\ toTab' \in [Follower -> Seq(Post)]
  /\ \A u \in Follower \ {t} : tabs'[u] = tabs[u] /\ toDealer'[u] = toDealer[u] /\ toTab'[u] = toTab[u]

LEMMA FollowerMoves ==
  ASSUME SoloInv, NEW t \in Follower, Moves(t), AgreedAs(tabs'[t], toDealer'[t], toTab'[t], Near(t), log)
  PROVE  SoloInv'
<1>1. SoloShape'
  BY DEF SoloInv, SoloShape, Moves, hostVars
<1>2. HostInv'
  <2>1. log' = log /\ open' = open /\ attached' = attached /\ sent' = sent /\ apart' = apart
    BY DEF Moves, hostVars
  <2>2. LocalPlayersOn(log') = LocalPlayersOn(log) /\ LatestSeq(log') = LatestSeq(log)
    BY <2>1
  <2> QED BY <2>1, <2>2 DEF HostInv, SoloInv
<1>3. ASSUME NEW u \in Follower PROVE Agreed(u)'
  <2>1. log' = log /\ Near(u)' = Near(u)
    BY DEF Moves, hostVars, Near
  <2>2. CASE u = t
    BY <2>1, <2>2 DEF Agreed
  <2>3. CASE u # t
    <3>1. AgreedAs(tabs[u], toDealer[u], toTab[u], Near(u), log)
      BY DEF SoloInv, Agreed
    <3>2. tabs'[u] = tabs[u] /\ toDealer'[u] = toDealer[u] /\ toTab'[u] = toTab[u]
      BY <2>3 DEF Moves
    <3>3. AgreedAs(tabs'[u], toDealer'[u], toTab'[u], Near(u)', log')
      BY <2>1, <3>1, <3>2
    <3> QED BY <3>3 DEF Agreed
  <2> QED BY <2>2, <2>3
<1> QED BY <1>1, <1>2, <1>3 DEF SoloInv

LEMMA AnswersReply ==
  ASSUME NEW ms \in Seq(Post)
  PROVE  Answers(ms) \in Seq(Reply) /\ Answers(ms) \in Seq(Post)
<1> DEFINE T == {m \in ToSet(ms) : m.op \in {"joinAck", "joinReject"}}
           P == Post
           R == Reply
<1>1. \A m \in P : m \in T => m \in R
  BY PostKinds
<1>2. ms \in Seq(P)
  OBVIOUS
<1> HIDE DEF P, R, T
<1>3. Selection(ms, T) \in Seq(R)
  BY <1>1, <1>2, SelectionOf
<1> QED BY <1>3, ReplyIsPost DEF Answers, T, R

LEMMA Posting ==
  ASSUME SoloShape, NEW t \in Follower, NEW ms \in Seq(Asking), Posted(t, ms)
  PROVE  /\ toDealer' \in [Follower -> Seq(Asking)]
         /\ \A u \in Follower \ {t} : toDealer'[u] = toDealer[u]
         /\ Hello \in ToSet(toDealer[t]) => Hello \in ToSet(toDealer'[t])
         /\ attached /\ Hello \in ToSet(ms) => Hello \in ToSet(toDealer'[t])
<1> DEFINE Y == Asking
           q == toDealer[t]
           x == Hello
<1>1. toDealer \in [Follower -> Seq(Y)] /\ q \in Seq(Y) /\ ms \in Seq(Y)
  BY TabParts DEF SoloShape
<1> HIDE DEF Y
<1>2. q \o ms \in Seq(Y)
  BY <1>1
<1>3. toDealer'[t] = IF attached THEN q \o ms ELSE q
  BY <1>1 DEF Posted
<1>4. toDealer' \in [Follower -> Seq(Y)] /\ \A u \in Follower \ {t} : toDealer'[u] = toDealer[u]
  BY <1>1, <1>2 DEF Posted
<1> HIDE DEF x, q
<1>5. x \in ToSet(q) \/ x \in ToSet(ms) => x \in ToSet(q \o ms)
  BY <1>1, QueueMore
<1>6. x \in ToSet(q) => x \in ToSet(toDealer'[t])
  BY <1>3, <1>5
<1>7. attached /\ x \in ToSet(ms) => x \in ToSet(toDealer'[t])
  BY <1>3, <1>5
<1> QED BY <1>4, <1>6, <1>7 DEF Y, x, q

LEMMA AskingKinds ==
  /\ Hello \in Asking
  /\ \A n \in Nat : [op |-> "join", ask |-> n] \in Asking
  /\ \A n, k \in Nat : [op |-> "rejoin", ask |-> n, token |-> k] \in Asking
  /\ \A p \in Nat : \A k \in SoloKinds : [op |-> "playerEvent", player |-> p, kind |-> k] \in Asking
BY DEF Hello, Asking

LEMMA AskingParts ==
  ASSUME NEW m \in Asking
  PROVE  /\ m.op = "hello" <=> m = Hello
         /\ m.op \in {"join", "rejoin"} => m.ask \in Nat
         /\ m.op = "rejoin" => m.token \in Nat
         /\ m.op = "playerEvent" => m.player \in Nat /\ m.kind \in SoloKinds
<1>1. CASE m \in [op : {"hello"}]
  BY <1>1 DEF Hello
<1>2. CASE m \in [op : {"join"}, ask : Nat]
  BY <1>2 DEF Hello
<1>3. CASE m \in [op : {"rejoin"}, ask : Nat, token : Nat]
  BY <1>3 DEF Hello
<1>4. CASE m \in [op : {"playerEvent"}, player : Nat, kind : SoloKinds]
  BY <1>4 DEF Hello
<1> QED BY <1>1, <1>2, <1>3, <1>4 DEF Asking

LEMMA OnlyReplies ==
  ASSUME SoloInv, NEW t \in Follower, ~HasStore(t)
  PROVE  toTab[t] \in Seq(Reply)
BY DEF SoloInv, Agreed, AgreedAs, HasStore

LEMMA OpenPlayKeeps ==
  ASSUME SoloInv, NEW t \in Tab, OpenPlay(t), UNCHANGED meeting
  PROVE  SoloInv'
<1> USE DEF SoloInv
<1>1. t \in Follower /\ SoloShape
  BY DEF Follower
<1>2. tabs[t] \in TabRecord /\ toTab[t] \in Seq(Reply)
  BY <1>1, TabParts, OnlyReplies DEF OpenPlay, HasStore
<1>3. UNCHANGED <<meeting, hostVars, apart>> /\ stored' = stored /\ toTab' = toTab
  BY DEF OpenPlay
<1>4. CASE stored = NoPlayer
  <2>1. tabs' = [tabs EXCEPT ![t].phase = "form"] /\ asks' = asks /\ toDealer' = toDealer
    BY <1>4 DEF OpenPlay
  <2>2. [tabs[t] EXCEPT !.phase = "form"] \in TabRecord
    BY <1>2 DEF TabRecord
  <2>3. tabs' \in [Follower -> TabRecord] /\ tabs'[t].phase = "form" /\ \A u \in Follower \ {t} : tabs'[u] = tabs[u]
    BY <1>1, <1>2, <2>1, <2>2 DEF SoloShape, TabRecord
  <2>4. Moves(t)
    BY <1>1, <1>3, <2>1, <2>3 DEF Moves, SoloShape
  <2>5. AgreedAs(tabs'[t], toDealer'[t], toTab'[t], Near(t), log)
    BY <1>2, <1>3, <2>3 DEF AgreedAs
  <2> QED BY <1>1, <2>4, <2>5, FollowerMoves
<1>5. CASE stored # NoPlayer
  <2> DEFINE r == [tabs[t] EXCEPT !.phase = "loading", !.asking = {asks + 1}]
             ms == <<Hello, [op |-> "rejoin", ask |-> asks + 1, token |-> stored]>>
  <2>1. tabs' = [tabs EXCEPT ![t] = r] /\ asks' = asks + 1 /\ Posted(t, ms)
    BY <1>1, <1>5 DEF OpenPlay, SoloShape
  <2>2. asks + 1 \in Nat /\ stored \in Nat
    BY <1>1 DEF SoloShape
  <2>3. r \in TabRecord /\ r.phase = "loading"
    BY <1>2, <2>2 DEF TabRecord
  <2>4. ms \in Seq(Asking)
    <3>1. Hello \in Asking /\ [op |-> "rejoin", ask |-> asks + 1, token |-> stored] \in Asking
      BY <2>2, AskingKinds
    <3> QED BY <3>1
  <2> HIDE DEF r, ms
  <2>5. tabs' \in [Follower -> TabRecord] /\ tabs'[t].phase = "loading" /\ \A u \in Follower \ {t} : tabs'[u] = tabs[u]
    BY <1>1, <2>1, <2>3 DEF SoloShape
  <2>6. Moves(t)
    BY <1>1, <1>3, <2>1, <2>2, <2>4, <2>5, Posting DEF Moves, SoloShape
  <2>7. AgreedAs(tabs'[t], toDealer'[t], toTab'[t], Near(t), log)
    BY <1>2, <1>3, <2>5 DEF AgreedAs
  <2> QED BY <1>1, <2>6, <2>7, FollowerMoves
<1> QED BY <1>4, <1>5

LEMMA TapJoinKeeps ==
  ASSUME SoloInv, NEW t \in Tab, TapJoin(t), UNCHANGED meeting
  PROVE  SoloInv'
<1> USE DEF SoloInv
<1>1. t \in Follower /\ SoloShape
  BY DEF Follower
<1>2. tabs[t] \in TabRecord /\ toTab[t] \in Seq(Reply)
  BY <1>1, TabParts, OnlyReplies DEF TapJoin, HasStore
<1>3. UNCHANGED <<meeting, hostVars, apart>> /\ stored' = stored /\ toTab' = toTab /\ asks' = asks + 1
  BY DEF TapJoin
<1> DEFINE r == [tabs[t] EXCEPT !.asking = @ \cup {asks + 1}]
           ms == <<Hello, [op |-> "join", ask |-> asks + 1]>>
<1>4. tabs' = [tabs EXCEPT ![t] = r] /\ Posted(t, ms)
  BY <1>1 DEF TapJoin, SoloShape
<1>5. asks + 1 \in Nat
  BY <1>1 DEF SoloShape
<1>6. r \in TabRecord /\ r.phase = "form"
  BY <1>2, <1>5 DEF TabRecord, TapJoin
<1>7. ms \in Seq(Asking)
  <2>1. Hello \in Asking /\ [op |-> "join", ask |-> asks + 1] \in Asking
    BY <1>5, AskingKinds
  <2> QED BY <2>1
<1> HIDE DEF r, ms
<1>8. tabs' \in [Follower -> TabRecord] /\ tabs'[t].phase = "form" /\ \A u \in Follower \ {t} : tabs'[u] = tabs[u]
  BY <1>1, <1>4, <1>6 DEF SoloShape
<1>9. Moves(t)
  BY <1>1, <1>3, <1>4, <1>5, <1>7, <1>8, Posting DEF Moves, SoloShape
<1>10. AgreedAs(tabs'[t], toDealer'[t], toTab'[t], Near(t), log)
  BY <1>2, <1>3, <1>8 DEF AgreedAs
<1> QED BY <1>1, <1>9, <1>10, FollowerMoves

LEMMA HelloPosted == <<Hello>> \in Seq(Asking) /\ Hello \in ToSet(<<Hello>>)
<1>1. Hello \in Asking
  BY AskingKinds
<1> DEFINE q == <<Hello>>
<1>2. q \in Seq(Asking) /\ 1 \in DOMAIN q /\ q[1] = Hello
  BY <1>1
<1> QED BY <1>2 DEF ToSet

\* A page opens: the mirror asks for everything.
LEMMA OpenMirrorKeeps ==
  ASSUME SoloInv, NEW t \in Mirror, OpenMirror(t), UNCHANGED meeting
  PROVE  SoloInv'
<1> USE DEF SoloInv
<1>1. t \in Follower /\ SoloShape
  BY DEF Follower
<1>2. tabs[t] \in TabRecord
  BY <1>1, TabParts
<1>3. UNCHANGED <<meeting, hostVars, apart>> /\ stored' = stored /\ toTab' = toTab /\ asks' = asks /\ Posted(t, <<Hello>>)
  BY DEF OpenMirror
<1>4. [tabs[t] EXCEPT !.phase = "waiting"] \in TabRecord
  BY <1>2 DEF TabRecord
<1>5. tabs' \in [Follower -> TabRecord] /\ tabs'[t].phase = "waiting" /\ \A u \in Follower \ {t} : tabs'[u] = tabs[u]
  BY <1>1, <1>2, <1>4 DEF SoloShape, TabRecord, OpenMirror
<1> DEFINE ms == <<Hello>>
<1>6. ms \in Seq(Asking) /\ Hello \in ToSet(ms)
  BY HelloPosted
<1>7. Posted(t, ms)
  BY <1>3
<1> HIDE DEF ms
<1>8. Moves(t)
  BY <1>1, <1>3, <1>5, <1>6, <1>7, Posting DEF Moves, SoloShape
<1>9. attached => Hello \in ToSet(toDealer'[t])
  BY <1>1, <1>6, <1>7, Posting
<1>10. AgreedAs(tabs'[t], toDealer'[t], toTab'[t], Near(t), log)
  BY <1>5, <1>9 DEF AgreedAs, Near
<1> QED BY <1>1, <1>8, <1>10, FollowerMoves

LEMMA CloseKeepsFollowers ==
  ASSUME SoloInv, NEW t \in Follower, CloseFollower(t), UNCHANGED meeting
  PROVE  SoloInv'
<1> USE DEF SoloInv
<1>1. UNCHANGED <<meeting, hostVars, apart>> /\ stored' = stored /\ asks' = asks /\ toDealer' = toDealer
  BY DEF CloseFollower
<1>2. NoTab \in TabRecord /\ NoTab.phase = "closed"
  BY NothingIsCopy DEF NoTab, TabRecord, NoPlayer
<1>3. tabs' \in [Follower -> TabRecord] /\ tabs'[t].phase = "closed" /\ \A u \in Follower \ {t} : tabs'[u] = tabs[u]
  BY <1>2 DEF SoloShape, CloseFollower
<1>4. <<>> \in Seq(Reply) /\ <<>> \in Seq(Post)
  OBVIOUS
<1>5. toTab' \in [Follower -> Seq(Post)] /\ toTab'[t] = <<>> /\ \A u \in Follower \ {t} : toTab'[u] = toTab[u]
  <2> DEFINE S == Seq(Post)
  <2>1. toTab \in [Follower -> S] /\ <<>> \in S
    BY <1>4 DEF SoloShape
  <2> HIDE DEF S
  <2>2. toTab' \in [Follower -> S] /\ toTab'[t] = <<>> /\ \A u \in Follower \ {t} : toTab'[u] = toTab[u]
    BY <2>1 DEF CloseFollower
  <2> QED BY <2>2 DEF S
<1>6. Moves(t)
  BY <1>1, <1>3, <1>5 DEF Moves, SoloShape
<1>7. AgreedAs(tabs'[t], toDealer'[t], toTab'[t], Near(t), log)
  BY <1>3, <1>4, <1>5 DEF AgreedAs
<1> QED BY <1>6, <1>7, FollowerMoves

\* A change of one follower's tab and of what is on its way to it.
LEMMA TabChanges ==
  ASSUME SoloShape, NEW t \in Follower, NEW r \in TabRecord, tabs' = [tabs EXCEPT ![t] = r]
  PROVE  tabs' \in [Follower -> TabRecord] /\ tabs'[t] = r /\ \A u \in Follower \ {t} : tabs'[u] = tabs[u]
BY DEF SoloShape

LEMMA MailChanges ==
  ASSUME SoloShape, NEW t \in Follower, NEW p \in Seq(Post), toTab' = [toTab EXCEPT ![t] = p]
  PROVE  toTab' \in [Follower -> Seq(Post)] /\ toTab'[t] = p /\ \A u \in Follower \ {t} : toTab'[u] = toTab[u]
<1> DEFINE S == Seq(Post)
<1>1. toTab \in [Follower -> S] /\ p \in S
  BY DEF SoloShape
<1> HIDE DEF S
<1>2. toTab' \in [Follower -> S] /\ toTab'[t] = p /\ \A u \in Follower \ {t} : toTab'[u] = toTab[u]
  BY <1>1
<1> QED BY <1>2 DEF S

\* The first message on its way to a follower, and the ones behind it.
LEMMA FirstMail ==
  ASSUME SoloInv, NEW t \in Follower, toTab[t] # <<>>
  PROVE  /\ Head(toTab[t]) \in Post /\ Tail(toTab[t]) \in Seq(Post)
         /\ ~HasStore(t) => Head(toTab[t]) \in Reply /\ Tail(toTab[t]) \in Seq(Reply)
         /\ Caught(tabs[t].events, toTab[t]) = Caught(Heard(tabs[t].events, Head(toTab[t])), Tail(toTab[t]))
<1> DEFINE q == toTab[t]
           P == Post
           R == Reply
<1>1. q \in Seq(P) /\ tabs[t].events \in Copy
  BY TabParts DEF SoloInv
<1>2. ~HasStore(t) => q \in Seq(R)
  BY OnlyReplies
<1>3. q # <<>>
  OBVIOUS
<1>4. Caught(tabs[t].events, q) = Caught(Heard(tabs[t].events, Head(q)), Tail(q))
  BY <1>1, <1>3, CaughtSteps
<1> HIDE DEF q, P, R
<1>5. Head(q) \in P /\ Tail(q) \in Seq(P)
  BY <1>1, <1>3
<1>6. ~HasStore(t) => Head(q) \in R /\ Tail(q) \in Seq(R)
  BY <1>2, <1>3
<1> QED BY <1>4, <1>5, <1>6 DEF q, P, R

LEMMA ReceiveKeeps ==
  ASSUME SoloInv, NEW t \in Follower, Receive(t), UNCHANGED meeting
  PROVE  SoloInv'
<1> DEFINE m == Head(toTab[t])
           es == tabs[t].events
           p == Tail(toTab[t])
           r == [tabs[t] EXCEPT !.phase = "playing", !.events = Heard(es, m)]
<1>1. SoloShape /\ Agreed(t)
  BY DEF SoloInv
<1>2. tabs[t] \in TabRecord /\ es \in Copy
  BY <1>1, TabParts
<1>3. m \in Post /\ p \in Seq(Post) /\ Caught(es, toTab[t]) = Caught(Heard(es, m), p)
  BY FirstMail DEF Receive
<1>4. m.op \in {"snapshot", "event"} /\ tabs' = [tabs EXCEPT ![t] = r] /\ toTab' = [toTab EXCEPT ![t] = p]
  BY <1>1, <1>2 DEF Receive, SoloShape, TabRecord, Heard, ApplySnapshot
<1>5. HasStore(t)
  <2>1. CASE ~HasStore(t)
    <3>1. m \in Reply
      BY <2>1, FirstMail DEF Receive
    <3> QED BY <1>3, <1>4, <3>1, PostKinds
  <2> QED BY <2>1
<1>6. Heard(es, m) \in Copy
  BY <1>2, <1>3, HeardIsCopy
<1>7. r \in TabRecord /\ r.phase = "playing" /\ r.events = Heard(es, m)
  BY <1>2, <1>6 DEF TabRecord
<1>8. UNCHANGED <<meeting, hostVars, apart>> /\ stored' = stored /\ asks' = asks /\ toDealer' = toDealer
  BY DEF Receive
<1>9. Near(t) => Hello \in ToSet(toDealer[t]) \/ Caught(es, toTab[t]) = log
  BY <1>1, <1>5 DEF Agreed, AgreedAs, HasStore
<1> HIDE DEF m, es, p, r
<1>10. Moves(t)
  BY <1>1, <1>3, <1>4, <1>7, <1>8, TabChanges, MailChanges DEF Moves, SoloShape
<1>11. tabs'[t] = r /\ toTab'[t] = p
  BY <1>1, <1>3, <1>4, <1>7, TabChanges, MailChanges
<1>12. AgreedAs(tabs'[t], toDealer'[t], toTab'[t], Near(t), log)
  BY <1>3, <1>7, <1>8, <1>9, <1>11 DEF AgreedAs
<1> QED BY <1>10, <1>12, FollowerMoves

LEMMA HearAnswerKeeps ==
  ASSUME SoloInv, NEW t \in Follower, HearAnswer(t), UNCHANGED meeting
  PROVE  SoloInv'
<1> DEFINE m == Head(toTab[t])
           es == tabs[t].events
           p == Tail(toTab[t])
           left == tabs[t].asking \ {m.ask}
<1>1. SoloShape /\ Agreed(t)
  BY DEF SoloInv
<1>2. tabs[t] \in TabRecord /\ es \in Copy /\ left \in SUBSET Nat
  BY <1>1, TabParts
<1>3. m \in Post /\ p \in Seq(Post) /\ Caught(es, toTab[t]) = Caught(Heard(es, m), p) /\ (~HasStore(t) => p \in Seq(Reply))
  BY FirstMail DEF HearAnswer
<1>4. m.op \in {"joinAck", "joinReject"}
  BY DEF HearAnswer
<1>5. Heard(es, m) = es /\ (m.op = "joinAck" => m.player \in Nat)
  BY <1>3, <1>4, PostKinds DEF Heard
<1>6. UNCHANGED <<meeting, hostVars, apart>> /\ asks' = asks /\ stored \in Nat /\ asks \in Nat
  BY <1>1 DEF HearAnswer, SoloShape
<1>7. HasStore(t) /\ Near(t) => Hello \in ToSet(toDealer[t]) \/ Caught(es, p) = log
  BY <1>1, <1>3, <1>5 DEF Agreed, AgreedAs, HasStore
<1>8. CASE toTab' = [toTab EXCEPT ![t] = p] /\ UNCHANGED <<stored, tabs, toDealer>>
  <2> HIDE DEF m, es, p, left
  <2>1. Moves(t)
    BY <1>1, <1>3, <1>6, <1>8, MailChanges DEF Moves, SoloShape
  <2>2. toTab'[t] = p
    BY <1>1, <1>3, <1>8, MailChanges
  <2>3. AgreedAs(tabs'[t], toDealer'[t], toTab'[t], Near(t), log)
    BY <1>3, <1>7, <1>8, <2>2 DEF AgreedAs, HasStore, es
  <2> QED BY <2>1, <2>3, FollowerMoves
<1>9. CASE m.op = "joinAck" /\ stored' = m.player /\ NewStore(t, m.player, left) /\ Posted(t, <<Hello>>)
  <2> DEFINE r == [phase |-> "waiting", player |-> m.player, events |-> <<>>, asking |-> left]
             a == Answers(p)
             ms == <<Hello>>
  <2>1. tabs' = [tabs EXCEPT ![t] = r] /\ toTab' = [toTab EXCEPT ![t] = a]
    BY <1>1, <1>9 DEF NewStore, SoloShape
  <2>2. r \in TabRecord /\ r.phase = "waiting"
    BY <1>2, <1>5, <1>9, NothingIsCopy DEF TabRecord
  <2>3. a \in Seq(Post)
    BY <1>3, AnswersReply
  <2>4. ms \in Seq(Asking) /\ Hello \in ToSet(ms) /\ Posted(t, ms)
    BY <1>9, HelloPosted
  <2>5. stored' \in Nat
    BY <1>5, <1>9
  <2> HIDE DEF m, es, p, left, r, a, ms
  <2>6. Moves(t)
    BY <1>1, <1>6, <2>1, <2>2, <2>3, <2>4, <2>5, TabChanges, MailChanges, Posting DEF Moves
  <2>7. attached => Hello \in ToSet(toDealer'[t])
    BY <1>1, <2>4, Posting
  <2>8. tabs'[t] = r
    BY <1>1, <2>1, <2>2, TabChanges
  <2>9. AgreedAs(tabs'[t], toDealer'[t], toTab'[t], Near(t), log)
    BY <2>2, <2>7, <2>8 DEF AgreedAs, Near
  <2> QED BY <2>6, <2>9, FollowerMoves
<1>10. CASE /\ tabs' = [tabs EXCEPT ![t].asking = left, ![t].phase = IF HasStore(t) THEN @ ELSE "form"]
            /\ toTab' = [toTab EXCEPT ![t] = p] /\ UNCHANGED <<stored, toDealer>>
  <2> DEFINE r == [tabs[t] EXCEPT !.asking = left, !.phase = IF HasStore(t) THEN @ ELSE "form"]
  <2>1. tabs' = [tabs EXCEPT ![t] = r]
    BY <1>1, <1>2, <1>10 DEF SoloShape, TabRecord
  <2>2. /\ r \in TabRecord /\ r.events = es
        /\ r.phase \in {"waiting", "playing"} <=> HasStore(t)
    BY <1>2 DEF TabRecord, HasStore
  <2> HIDE DEF m, es, p, left, r
  <2>3. Moves(t)
    BY <1>1, <1>3, <1>6, <1>10, <2>1, <2>2, TabChanges, MailChanges DEF Moves, SoloShape
  <2>4. tabs'[t] = r /\ toTab'[t] = p
    BY <1>1, <1>3, <1>10, <2>1, <2>2, TabChanges, MailChanges
  <2>5. AgreedAs(tabs'[t], toDealer'[t], toTab'[t], Near(t), log)
    BY <1>3, <1>7, <1>10, <2>2, <2>4 DEF AgreedAs
  <2> QED BY <2>3, <2>5, FollowerMoves
<1>11. \/ toTab' = [toTab EXCEPT ![t] = p] /\ UNCHANGED <<stored, tabs, toDealer>>
       \/ m.op = "joinAck" /\ stored' = m.player /\ NewStore(t, m.player, left) /\ Posted(t, <<Hello>>)
       \/ /\ tabs' = [tabs EXCEPT ![t].asking = left, ![t].phase = IF HasStore(t) THEN @ ELSE "form"]
          /\ toTab' = [toTab EXCEPT ![t] = p] /\ UNCHANGED <<stored, toDealer>>
  <2>1. toTab' = [toTab EXCEPT ![t] = Tail(@)] => toTab' = [toTab EXCEPT ![t] = p]
    BY <1>1 DEF SoloShape
  <2> QED BY <2>1 DEF HearAnswer
<1> QED BY <1>8, <1>9, <1>10, <1>11

LEMMA GiveUpAskingKeeps ==
  ASSUME SoloInv, NEW t \in Tab, NEW ask \in tabs[t].asking, GiveUpAsking(t, ask), UNCHANGED meeting
  PROVE  SoloInv'
<1> DEFINE r == [tabs[t] EXCEPT !.asking = @ \ {ask}, !.phase = IF HasStore(t) THEN @ ELSE "form"]
<1>1. SoloShape /\ Agreed(t) /\ t \in Follower
  BY DEF SoloInv, Follower
<1>2. tabs[t] \in TabRecord
  BY <1>1, TabParts
<1>3. UNCHANGED <<meeting, hostVars, apart>> /\ asks' = asks /\ stored' = stored /\ toDealer' = toDealer /\ toTab' = toTab
  BY DEF GiveUpAsking
<1>4. tabs' = [tabs EXCEPT ![t] = r]
  BY <1>1, <1>2 DEF SoloShape, TabRecord, GiveUpAsking
<1>5. /\ r \in TabRecord /\ r.events = tabs[t].events
      /\ r.phase \in {"waiting", "playing"} <=> HasStore(t)
  BY <1>2 DEF TabRecord, HasStore
<1> HIDE DEF r
<1>6. Moves(t)
  BY <1>1, <1>3, <1>4, <1>5, TabChanges DEF Moves, SoloShape
<1>7. tabs'[t] = r
  BY <1>1, <1>4, <1>5, TabChanges
<1>8. AgreedAs(tabs'[t], toDealer'[t], toTab'[t], Near(t), log)
  BY <1>1, <1>3, <1>5, <1>7 DEF AgreedAs, Agreed, HasStore
<1> QED BY <1>1, <1>6, <1>8, FollowerMoves

LEMMA GiveUpWaitingKeeps ==
  ASSUME SoloInv, NEW t \in Follower, GiveUpWaiting(t), UNCHANGED meeting
  PROVE  SoloInv'
<1> DEFINE r == IF t \in Mirror THEN NoTab ELSE [NoTab EXCEPT !.phase = "form", !.asking = tabs[t].asking]
           a == Answers(toTab[t])
<1>1. SoloShape
  BY DEF SoloInv
<1>2. tabs[t].asking \in SUBSET Nat /\ a \in Seq(Reply) /\ a \in Seq(Post)
  BY <1>1, TabParts, AnswersReply
<1>3. UNCHANGED <<meeting, hostVars, apart>> /\ asks' = asks /\ stored' = stored /\ toDealer' = toDealer
  BY DEF GiveUpWaiting
<1>4. tabs' = [tabs EXCEPT ![t] = r] /\ toTab' = [toTab EXCEPT ![t] = a]
  BY <1>1 DEF SoloShape, GiveUpWaiting
<1>5. r \in TabRecord /\ r.phase \in {"closed", "form"}
  BY <1>2, NothingIsCopy DEF TabRecord, NoTab, NoPlayer
<1> HIDE DEF r, a
<1>6. Moves(t)
  BY <1>1, <1>2, <1>3, <1>4, <1>5, TabChanges, MailChanges DEF Moves, SoloShape
<1>7. tabs'[t] = r /\ toTab'[t] = a
  BY <1>1, <1>2, <1>4, <1>5, TabChanges, MailChanges
<1>8. AgreedAs(tabs'[t], toDealer'[t], toTab'[t], Near(t), log)
  BY <1>2, <1>5, <1>7 DEF AgreedAs
<1> QED BY <1>6, <1>8, FollowerMoves

LEMMA PlayerSendsKeeps ==
  ASSUME SoloInv, NEW t \in Tab, NEW k \in {"bet", "away"}, PlayerSends(t, k), UNCHANGED meeting
  PROVE  SoloInv'
<1> DEFINE ms == <<[op |-> "playerEvent", player |-> tabs[t].player, kind |-> k]>>
<1>1. SoloShape /\ Agreed(t) /\ t \in Follower
  BY DEF SoloInv, Follower
<1>2. /\ UNCHANGED <<meeting, hostVars, apart>> /\ asks' = asks /\ stored' = stored /\ tabs' = tabs /\ toTab' = toTab
      /\ Posted(t, ms)
  BY DEF PlayerSends
<1>3. ms \in Seq(Asking)
  <2>1. tabs[t].player \in Nat /\ k \in SoloKinds
    BY <1>1, TabParts DEF SoloKinds
  <2>2. [op |-> "playerEvent", player |-> tabs[t].player, kind |-> k] \in Asking
    BY <2>1, AskingKinds
  <2> QED BY <2>2
<1> HIDE DEF ms
<1>4. Moves(t)
  BY <1>1, <1>2, <1>3, Posting DEF Moves, SoloShape
<1>5. Hello \in ToSet(toDealer[t]) => Hello \in ToSet(toDealer'[t])
  BY <1>1, <1>2, <1>3, Posting
<1>6. AgreedAs(tabs'[t], toDealer'[t], toTab'[t], Near(t), log)
  BY <1>1, <1>2, <1>5 DEF AgreedAs, Agreed
<1> QED BY <1>1, <1>4, <1>6, FollowerMoves

-----------------------------------------------------------------------------
(* The dealer's tab *)

Said == [kind : SoloKinds, who : Nat]
Single(a) == a = <<>> \/ \E m \in Reply : a = <<m>>

\* What is broadcast reaches the stores, an answer changes nothing of what they will show.
LEMMA Delivering ==
  ASSUME SoloInv, NEW b \in Seq(Post), NEW asker, NEW a, Single(a), Deliver(b, asker, a)
  PROVE  /\ toTab' \in [Follower -> Seq(Post)]
         /\ \A t \in Follower :
              IF HasStore(t) THEN Caught(tabs[t].events, toTab'[t]) = Caught(tabs[t].events, toTab[t] \o b)
              ELSE toTab'[t] \in Seq(Reply)
<1> DEFINE P == Post
           R == Reply
           B(t) == IF HasStore(t) THEN b ELSE <<>>
           A(t) == IF t \in asker THEN a ELSE <<>>
           q(t) == toTab[t] \o B(t)
<1>1. \A t \in Follower : toTab'[t] = q(t) \o A(t)
  BY DEF Deliver
<1>2. DOMAIN toTab' = Follower /\ toTab' = [t \in Follower |-> toTab'[t]]
  BY DEF Deliver
<1>3. R \subseteq P /\ b \in Seq(P)
  BY ReplyIsPost
<1>4. \A t \in Follower : toTab[t] \in Seq(P) /\ tabs[t].events \in Copy
  BY TabParts DEF SoloInv
<1>5. \A t \in Follower : ~HasStore(t) => toTab[t] \in Seq(R)
  BY OnlyReplies
<1>6. a = <<>> \/ \E m \in R : a = <<m>>
  BY DEF Single
<1>7. \A t \in Follower : A(t) = <<>> \/ \E m \in R : A(t) = <<m>>
  BY <1>6
<1>8. ASSUME NEW c \in Copy, NEW s \in Seq(P), NEW m \in R
      PROVE  Caught(c, Append(s, m)) = Caught(c, s)
  <2>1. Caught(c, Append(s, m)) = Heard(Caught(c, s), m)
    BY <1>3, <1>8, CaughtSteps
  <2>2. m.op \in {"joinAck", "joinReject"}
    BY <1>3, PostKinds
  <2> QED BY <2>1, <2>2 DEF Heard
<1> HIDE DEF P, R, A
<1>9. ASSUME NEW t \in Follower
      PROVE  /\ toTab'[t] \in Seq(P)
             /\ IF HasStore(t) THEN Caught(tabs[t].events, toTab'[t]) = Caught(tabs[t].events, toTab[t] \o b)
                ELSE toTab'[t] \in Seq(R)
  <2> DEFINE s == toTab[t] \o B(t)
  <2>1. s \in Seq(P) /\ (~HasStore(t) => s \in Seq(R)) /\ (HasStore(t) => s = toTab[t] \o b)
    <3>1. CASE HasStore(t)
      BY <1>3, <1>4, <3>1
    <3>2. CASE ~HasStore(t)
      BY <1>4, <1>5, <3>2
    <3> QED BY <3>1, <3>2
  <2>2. toTab'[t] = s \o A(t)
    BY <1>1
  <2> HIDE DEF s
  <2>3. CASE A(t) = <<>>
    <3>1. toTab'[t] = s
      BY <2>1, <2>2, <2>3
    <3> QED BY <2>1, <3>1
  <2>4. ASSUME NEW m \in R, A(t) = <<m>>
        PROVE  /\ toTab'[t] \in Seq(P)
               /\ IF HasStore(t) THEN Caught(tabs[t].events, toTab'[t]) = Caught(tabs[t].events, toTab[t] \o b)
                  ELSE toTab'[t] \in Seq(R)
    <3>1. m \in P /\ toTab'[t] = Append(s, m)
      BY <1>3, <2>1, <2>2, <2>4
    <3>2. Append(s, m) \in Seq(P) /\ (~HasStore(t) => Append(s, m) \in Seq(R))
      BY <2>1, <3>1
    <3>3. Caught(tabs[t].events, Append(s, m)) = Caught(tabs[t].events, s)
      BY <1>4, <1>8, <2>1
    <3> QED BY <2>1, <3>1, <3>2, <3>3
  <2> QED BY <1>7, <2>3, <2>4
<1>10. toTab' \in [Follower -> Seq(P)]
  BY <1>2, <1>9
<1> QED BY <1>9, <1>10 DEF P, R

LEMMA SaidNumbered ==
  ASSUME NEW l \in Copy, NEW new \in Seq(Said)
  PROVE  /\ Numbered(LatestSeq(l), new) \in Seq(SoloEvent) /\ GoesOnFrom(l, Numbered(LatestSeq(l), new))
         /\ (new = <<>> => Numbered(LatestSeq(l), new) = <<>>)
<1> DEFINE n == LatestSeq(l)
           r == Numbered(n, new)
           Y == SoloEvent
<1>1. n \in Nat
  BY CopyEnds DEF Ends
<1> HIDE DEF n
<1>2. Len(new) \in Nat /\ DOMAIN new = 1..Len(new) /\ \A i \in DOMAIN new : new[i].kind \in SoloKinds /\ new[i].who \in Nat
  <2>1. Len(new) \in Nat /\ DOMAIN new = 1..Len(new) /\ \A i \in DOMAIN new : new[i] \in Said
    OBVIOUS
  <2>2. \A x \in Said : x.kind \in SoloKinds /\ x.who \in Nat
    BY DEF Said
  <2> QED BY <2>1, <2>2
<1>3. \A i \in DOMAIN new : [seq |-> n + i, kind |-> new[i].kind, who |-> new[i].who] \in Y
  BY <1>1, <1>2 DEF SoloEvent
<1>4. \A i \in DOMAIN new : r[i].seq = n + i
  BY DEF Numbered
<1>5. DOMAIN r = DOMAIN new /\ r \in [1..Len(new) -> Y]
  BY <1>2, <1>3 DEF Numbered
<1> HIDE DEF r, Y
<1>6. r \in Seq(Y) /\ Len(r) = Len(new)
  BY <1>2, <1>5
<1>7. GoesOnFrom(l, r)
  BY <1>4, <1>5 DEF GoesOnFrom, n
<1>8. new = <<>> => r = <<>>
  <2>1. new = <<>> => Len(new) = 0
    OBVIOUS
  <2> QED BY <1>6, <2>1
<1> QED BY <1>6, <1>7, <1>8 DEF n, r, Y

LEMMA FreshAreNew ==
  ASSUME NEW l \in Copy, NEW r \in Seq(SoloEvent), GoesOnFrom(l, r)
  PROVE  Selection(l \o r, {e \in ToSet(l \o r) : e.seq > LatestSeq(l)}) = r
<1> DEFINE Y == SoloEvent
           T == {e \in ToSet(l \o r) : e.seq > LatestSeq(l)}
<1>1. l \in Seq(Y) /\ r \in Seq(Y) /\ Ends(l, LatestSeq(l))
  BY CopyEnds DEF Copy
<1>2. \A i \in DOMAIN l : l[i] \notin T
  <2> SUFFICES ASSUME NEW i \in DOMAIN l, l[i].seq > LatestSeq(l) PROVE FALSE
    OBVIOUS
  <2>1. l[i].seq <= LatestSeq(l) /\ l[i].seq \in Nat /\ LatestSeq(l) \in Nat
    BY <1>1, EventSeq DEF Ends
  <2> QED BY <2>1
<1>3. \A i \in DOMAIN r : r[i] \in T
  <2> SUFFICES ASSUME NEW i \in DOMAIN r PROVE r[i] \in ToSet(l \o r) /\ r[i].seq > LatestSeq(l)
    OBVIOUS
  <2>1. r[i].seq = LatestSeq(l) + i /\ i \in Nat /\ i > 0 /\ LatestSeq(l) \in Nat
    BY <1>1 DEF GoesOnFrom, Ends
  <2>2. r[i] \in ToSet(r)
    BY DEF ToSet
  <2>3. r[i] \in ToSet(l \o r)
    <3> HIDE DEF Y
    <3> QED BY <1>1, <2>2, QueueMore
  <2> QED BY <2>1, <2>3
<1> HIDE DEF T, Y
<1>4. Selection(l \o r, T) = r
  BY <1>1, <1>2, <1>3, SelectNew
<1> QED BY <1>4 DEF T

\* What a step of the dealer's tab leaves alone, and the requests that still wait.
HostMoves(snapshot) ==
  /\ UNCHANGED <<meeting, written, open, attached, stored, tabs, asks>>
  /\ TokensOK(tokens')
  /\ toDealer' \in [Follower -> Seq(Asking)]
  /\ \A u \in Follower : Hello \in ToSet(toDealer[u]) => snapshot \/ Hello \in ToSet(toDealer'[u])

\* What append and broadcastNewEvents do, and the answers that need no event.
Fresh(c) == IF attached THEN Selection(c, {e \in ToSet(c) : e.seq > sent}) ELSE <<>>
Spreads(new, snapshot, asker, a) ==
  LET c == log \o Numbered(LatestSeq(log), new)
  IN /\ log' = c /\ sent' = IF attached THEN LatestSeq(log') ELSE sent
     /\ Deliver(News(Fresh(c)) \o (IF snapshot THEN <<Whole(c)>> ELSE <<>>), asker, a)
     /\ apart' = IF attached THEN (IF snapshot THEN {} ELSE apart) ELSE apart \cup (IF new = <<>> THEN {} ELSE Follower)

LEMMA EmitSpreads ==
  ASSUME NEW new, NEW snapshot, NEW asker, NEW a, Emit(new, snapshot, asker, a)
  PROVE  Spreads(new, snapshot, asker, a)
BY DEF Emit, Spreads, Fresh, Whole, News

LEMMA Spreading ==
  ASSUME SoloInv, open, NEW new \in Seq(Said), NEW snapshot \in BOOLEAN, snapshot => attached,
         NEW asker, NEW a, Single(a), Spreads(new, snapshot, asker, a), HostMoves(snapshot)
  PROVE  SoloInv'
<1> DEFINE l == log
           r == Numbered(LatestSeq(l), new)
           c == l \o r
           fresh == IF attached THEN Selection(c, {e \in ToSet(c) : e.seq > sent}) ELSE <<>>
           w == IF snapshot THEN <<Whole(c)>> ELSE <<>>
           b == News(fresh) \o w
<1>1. SoloShape /\ HostInv /\ \A t \in Follower : Agreed(t)
  BY DEF SoloInv
<1>2. l \in Copy
  BY <1>1 DEF SoloShape
<1>3. r \in Seq(SoloEvent) /\ GoesOnFrom(l, r) /\ (new = <<>> => r = <<>>)
  BY <1>2, SaidNumbered
<1>4. /\ log' = c /\ sent' = (IF attached THEN LatestSeq(log') ELSE sent)
      /\ Deliver(b, asker, a)
      /\ apart' = IF attached THEN (IF snapshot THEN {} ELSE apart) ELSE apart \cup (IF new = <<>> THEN {} ELSE Follower)
  BY DEF Spreads, Fresh
<1>5. attached => fresh = r
  BY <1>1, <1>2, <1>3, FreshAreNew DEF HostInv
<1>6. fresh \in Seq(SoloEvent)
  <2>1. <<>> \in Seq(SoloEvent)
    OBVIOUS
  <2> QED BY <1>3, <1>5, <2>1
<1> HIDE DEF r, l, fresh
<1>7. /\ c \in Copy
      /\ \A es \in Copy : \A ms \in Seq(Post) : Caught(es, ms) = l => Caught(es, ms \o News(r)) = c
  BY <1>2, <1>3, NewsArrive
<1> HIDE DEF c
<1>8. Whole(c) \in Post /\ News(fresh) \in Seq(Post)
  BY <1>6, <1>7, NewsSteps DEF Whole, Post, Report
<1>9. b \in Seq(Post)
  <2> DEFINE Y == Post
             n == News(fresh)
             x == Whole(c)
  <2>1. x \in Y /\ n \in Seq(Y)
    BY <1>8
  <2> HIDE DEF Y, n, x
  <2>2. n \o <<x>> \in Seq(Y) /\ n \o <<>> \in Seq(Y)
    BY <2>1
  <2> QED BY <2>2 DEF Y, n, x
<1>10. /\ toTab' \in [Follower -> Seq(Post)]
       /\ \A t \in Follower :
            IF HasStore(t) THEN Caught(tabs[t].events, toTab'[t]) = Caught(tabs[t].events, toTab[t] \o b)
            ELSE toTab'[t] \in Seq(Reply)
  <2> HIDE DEF b
  <2> QED BY <1>4, <1>9, Delivering
<1>11. apart' \subseteq Follower
  BY <1>1, <1>4 DEF SoloShape
<1>12. SoloShape'
  BY <1>1, <1>4, <1>7, <1>10, <1>11 DEF SoloShape, HostMoves
<1>13. HostInv'
  <2>1. attached' = attached /\ open' = open
    BY DEF HostMoves
  <2>2. CASE attached
    BY <1>4, <2>1, <2>2 DEF HostInv
  <2>3. CASE ~attached /\ new # <<>>
    <3>1. apart' = Follower
      BY <1>4, <1>11, <2>3
    <3> QED BY <2>1, <2>3, <3>1 DEF HostInv
  <2>4. CASE ~attached /\ new = <<>>
    <3>1. log' = log
      <4>1. l \o <<>> = l
        BY <1>2 DEF Copy
      <4> QED BY <1>3, <1>4, <2>4, <4>1 DEF c, l
    <3>2. apart' = apart
      BY <1>4, <2>4
    <3>3. LocalPlayersOn(log') = LocalPlayersOn(log)
      BY <3>1
    <3> QED BY <1>1, <2>1, <2>4, <3>2, <3>3 DEF HostInv
  <2> QED BY <2>2, <2>3, <2>4
<1>14. ASSUME NEW t \in Follower PROVE Agreed(t)'
  <2> DEFINE es == tabs[t].events
             q == toTab[t]
             P == Post
  <2>1. es \in Copy /\ q \in Seq(P)
    BY <1>1, TabParts
  <2>2. tabs'[t] = tabs[t] /\ attached' = attached
    BY DEF HostMoves
  <2>3. CASE ~HasStore(t)
    BY <1>10, <2>2, <2>3 DEF Agreed, AgreedAs, HasStore
  <2>4. CASE HasStore(t) /\ ~Near(t)'
    BY <2>2, <2>4 DEF Agreed, AgreedAs, HasStore
  <2>5. CASE HasStore(t) /\ Near(t)' /\ snapshot
    <3> DEFINE n == News(fresh)
               x == Whole(c)
    <3>1. n \in Seq(P) /\ x \in P /\ b = n \o <<x>>
      BY <1>8, <2>5
    <3>2. Heard(Caught(es, q \o n), x) = c
      BY DEF Heard, Whole
    <3>3. Caught(es, toTab'[t]) = Caught(es, q \o b)
      BY <1>10, <2>5
    <3>4. \A s \in Seq(P) : \A m \in P : Caught(es, Append(s, m)) = Heard(Caught(es, s), m)
      BY <2>1, CaughtSteps
    <3> HIDE DEF n, x, es, q, P, b
    <3>5. q \o b = Append(q \o n, x) /\ q \o n \in Seq(P)
      BY <2>1, <3>1
    <3>6. Caught(es, q \o b) = c
      BY <3>1, <3>2, <3>4, <3>5
    <3>7. Caught(tabs'[t].events, toTab'[t]) = log'
      BY <1>4, <2>2, <3>3, <3>6 DEF es
    <3> QED BY <2>2, <2>5, <3>7 DEF Agreed, AgreedAs, HasStore
  <2>6. CASE HasStore(t) /\ Near(t)' /\ ~snapshot
    <3>1. attached /\ Near(t)
      BY <1>4, <2>2, <2>6 DEF Near
    <3>2. Hello \in ToSet(toDealer[t]) \/ Caught(es, q) = l
      BY <1>1, <2>6, <3>1 DEF Agreed, AgreedAs, HasStore, l
    <3>3. Hello \in ToSet(toDealer[t]) => Hello \in ToSet(toDealer'[t])
      BY <2>6 DEF HostMoves
    <3>4. b = News(r)
      <4> DEFINE n == News(r)
      <4>1. n \in Seq(P) /\ b = n \o <<>>
        BY <1>5, <1>8, <2>6, <3>1
      <4> HIDE DEF n, P
      <4>2. n \o <<>> = n
        BY <4>1
      <4> HIDE DEF b
      <4> QED BY <4>1, <4>2 DEF n
    <3>5. (Caught(es, q) = l) => (Caught(es, q \o b) = c)
      BY <1>7, <2>1, <3>4
    <3>6. Caught(es, toTab'[t]) = Caught(es, q \o b)
      BY <1>10, <2>6
    <3>7. Hello \in ToSet(toDealer'[t]) \/ Caught(tabs'[t].events, toTab'[t]) = log'
      BY <1>4, <2>2, <3>2, <3>3, <3>5, <3>6
    <3> QED BY <2>2, <2>6, <3>7 DEF Agreed, AgreedAs, HasStore
  <2> QED BY <2>3, <2>4, <2>5, <2>6
<1> QED BY <1>12, <1>13, <1>14 DEF SoloInv

LEMMA OneSaid ==
  ASSUME NEW k \in SoloKinds, NEW p \in Nat
  PROVE  <<Of(k, p)>> \in Seq(Said)
<1>1. Of(k, p) \in Said
  BY DEF Of, Said
<1> QED BY <1>1

LEMMA NobodyAnswered == Single(NoAnswer)
BY DEF Single, NoAnswer

LEMMA DealerEntersKeeps ==
  ASSUME SoloInv, NEW k \in meeting.entries, DealerEnters(k), UNCHANGED meeting
  PROVE  SoloInv'
<1>1. k \in SoloKinds
  BY SoloAssumption DEF SoloInv, SoloShape, SoloKinds
<1>2. <<Of(k, NoPlayer)>> \in Seq(Said)
  BY <1>1, OneSaid DEF NoPlayer
<1>3. HostMoves(FALSE)
  BY DEF HostMoves, DealerEnters, SoloInv, SoloShape
<1>4. Spreads(<<Of(k, NoPlayer)>>, FALSE, {}, NoAnswer)
  BY EmitSpreads DEF DealerEnters
<1> DEFINE new == <<Of(k, NoPlayer)>>
           a == NoAnswer
           no == {}
<1>5. new \in Seq(Said) /\ Spreads(new, FALSE, no, a) /\ open
  BY <1>2, <1>4 DEF DealerEnters
<1> HIDE DEF new, a, no
<1> QED BY <1>3, <1>5, Spreading, NobodyAnswered DEF a

LEMMA RemovePlayerKeeps ==
  ASSUME SoloInv, NEW p \in tokens, RemovePlayer(p), UNCHANGED meeting
  PROVE  SoloInv'
<1>1. p \in Nat /\ "removed" \in SoloKinds
  BY DEF SoloInv, SoloShape, TokensOK, SoloKinds
<1>2. <<Of("removed", p)>> \in Seq(Said)
  BY <1>1, OneSaid
<1>3. HostMoves(FALSE)
  BY DEF HostMoves, RemovePlayer, SoloInv, SoloShape
<1>4. Spreads(<<Of("removed", p)>>, FALSE, {}, NoAnswer)
  BY EmitSpreads DEF RemovePlayer
<1> DEFINE new == <<Of("removed", p)>>
           a == NoAnswer
           no == {}
<1>5. new \in Seq(Said) /\ Spreads(new, FALSE, no, a) /\ open
  BY <1>2, <1>4 DEF RemovePlayer
<1> HIDE DEF new, a, no
<1> QED BY <1>3, <1>5, Spreading, NobodyAnswered DEF a

LEMMA NoRequests == <<>> \in Seq(Asking) /\ [t \in Follower |-> <<>>] \in [Follower -> Seq(Asking)]
<1>1. <<>> \in Seq(Asking)
  OBVIOUS
<1> QED BY <1>1

\* A dealer's tab that begins to listen has told nobody of the switch that made it listen.
LEMMA AttachKeeps ==
  ASSUME SoloInv, AttachOrDetach, UNCHANGED meeting
  PROVE  SoloInv'
<1> USE DEF SoloInv
<1>1. attached' = LocalPlayersOn(log) /\ attached # LocalPlayersOn(log) /\ sent' = LatestSeq(log) /\ open
  BY DEF AttachOrDetach
<1>2. UNCHANGED <<meeting, log, written, open, tokens, stored, tabs, toTab, asks, apart>>
  BY DEF AttachOrDetach
<1>3. LocalPlayersOn(log) \in BOOLEAN
  BY DEF LocalPlayersOn
<1>4. SoloShape'
  BY <1>1, <1>2, <1>3, NoRequests DEF AttachOrDetach, SoloShape
<1>5. LatestSeq(log') = LatestSeq(log) /\ LocalPlayersOn(log') = LocalPlayersOn(log)
  BY <1>2
<1>6. HostInv'
  BY <1>1, <1>2, <1>5 DEF HostInv
<1>7. attached' => apart' = Follower
  BY <1>1, <1>2, <1>3 DEF HostInv, SoloShape
<1>8. ASSUME NEW t \in Follower PROVE Agreed(t)'
  <2>1. ~Near(t)' /\ tabs'[t] = tabs[t] /\ toTab'[t] = toTab[t]
    BY <1>2, <1>7 DEF Near
  <2>2. AgreedAs(tabs[t], toDealer[t], toTab[t], Near(t), log)
    BY DEF Agreed
  <2>3. AgreedAs(tabs'[t], toDealer'[t], toTab'[t], Near(t)', log')
    BY <2>1, <2>2 DEF AgreedAs
  <2> QED BY <2>3 DEF Agreed
<1> QED BY <1>4, <1>6, <1>8

\* Steps of the dealer's tab after which nobody is told anything.
LEMMA Unheard ==
  ASSUME SoloInv, NEW t \in Follower, UNCHANGED <<tabs, toTab>>,
         ~Near(t)' \/ UNCHANGED <<toDealer, attached, apart, log>>
  PROVE  Agreed(t)'
<1>1. AgreedAs(tabs[t], toDealer[t], toTab[t], Near(t), log)
  BY DEF SoloInv, Agreed
<1>2. tabs'[t] = tabs[t] /\ toTab'[t] = toTab[t]
  OBVIOUS
<1>3. CASE ~Near(t)'
  BY <1>1, <1>2, <1>3 DEF AgreedAs, Agreed
<1>4. CASE UNCHANGED <<toDealer, attached, apart, log>>
  <2>1. Near(t)' = Near(t)
    BY <1>4 DEF Near
  <2> QED BY <1>1, <1>2, <1>4, <2>1 DEF Agreed
<1> QED BY <1>3, <1>4

LEMMA SaveArrivesKeeps ==
  ASSUME SoloInv, SaveArrives, UNCHANGED meeting
  PROVE  SoloInv'
<1> USE DEF SoloInv
<1> DEFINE k == Persisted(log)
           n == Len(written) + 1
<1>1. UNCHANGED <<meeting, log, open, attached, sent, tokens, stored, tabs, toDealer, toTab, asks, apart>>
  BY DEF SaveArrives
<1>2. log \in Copy /\ written \in Copy
  BY DEF SoloShape
<1>3. k \in Copy
  BY <1>2, SelectedCopy DEF Persisted
<1>4. n \in 0..Len(k) /\ written' = SubSeq(k, 1, n)
  <2>1. Len(written) \in Nat
    BY <1>2 DEF Copy
  <2>2. Len(k) \in Nat
    BY <1>3 DEF Copy
  <2> QED BY <2>1, <2>2 DEF SaveArrives
<1> HIDE DEF k, n
<1>5. written' \in Copy
  BY <1>3, <1>4, CutCopy
<1>6. SoloShape'
  BY <1>1, <1>5 DEF SoloShape
<1>7. HostInv'
  <2>1. LatestSeq(log') = LatestSeq(log) /\ LocalPlayersOn(log') = LocalPlayersOn(log)
    BY <1>1
  <2> QED BY <1>1, <2>1 DEF HostInv
<1> QED BY <1>1, <1>6, <1>7, Unheard

LEMMA DealerClosesKeeps ==
  ASSUME SoloInv, DealerCloses, UNCHANGED meeting
  PROVE  SoloInv'
<1> USE DEF SoloInv
<1>1. UNCHANGED <<meeting, log, written, sent, tokens, stored, tabs, toTab, asks, apart>> /\ ~open' /\ ~attached'
  BY DEF DealerCloses
<1>2. SoloShape'
  BY <1>1, NoRequests DEF SoloShape, DealerCloses
<1>3. HostInv'
  BY <1>1 DEF HostInv
<1> QED BY <1>1, <1>2, <1>3, Unheard DEF Near

LEMMA DealerReopensKeeps ==
  ASSUME SoloInv, DealerReopens, UNCHANGED meeting
  PROVE  SoloInv'
<1> USE DEF SoloInv
<1>1. /\ UNCHANGED <<meeting, written, attached, sent, tokens, stored, tabs, toDealer, toTab, asks>>
      /\ open' /\ log' = written /\ apart' = Follower /\ ~attached
  BY DEF DealerReopens, SoloShape
<1>2. SoloShape'
  BY <1>1 DEF SoloShape, DealerReopens
<1>3. HostInv'
  BY <1>1 DEF HostInv
<1> QED BY <1>1, <1>2, <1>3, Unheard DEF Near

\* One request is taken from the front of its queue; hellos stay unless a snapshot answers them.
LEMMA TakingRequest ==
  ASSUME SoloInv, NEW t \in Follower, HandleMessage(t), UNCHANGED meeting, NEW snapshot \in BOOLEAN,
         snapshot \/ Head(toDealer[t]) # Hello, TokensOK(tokens')
  PROVE  HostMoves(snapshot)
<1> DEFINE Y == Asking
           q == toDealer[t]
           x == Hello
<1>1. toDealer \in [Follower -> Seq(Y)] /\ q \in Seq(Y) /\ q # <<>>
  BY TabParts DEF SoloInv, SoloShape, HandleMessage
<1>2. toDealer' = [toDealer EXCEPT ![t] = Tail(q)]
  BY DEF HandleMessage
<1>3. UNCHANGED <<written, open, attached, stored, tabs, asks>>
  BY DEF HandleMessage
<1> HIDE DEF Y
<1>4. Tail(q) \in Seq(Y)
  BY <1>1
<1>5. toDealer' \in [Follower -> Seq(Y)]
  BY <1>1, <1>2, <1>4
<1>6. ASSUME NEW u \in Follower, Hello \in ToSet(toDealer[u]), ~snapshot PROVE Hello \in ToSet(toDealer'[u])
  <2>1. CASE u # t
    <3>1. toDealer'[u] = toDealer[u]
      BY <1>1, <1>2, <2>1
    <3> QED BY <1>6, <3>1
  <2>2. CASE u = t
    <3>1. toDealer'[t] = Tail(q)
      BY <1>1, <1>2
    <3>2. x \in ToSet(q) /\ x # Head(q)
      BY <1>6, <2>2
    <3> HIDE DEF q, x
    <3>3. x \in ToSet(Tail(q))
      BY <1>1, <3>2, QueueTail
    <3> QED BY <2>2, <3>1, <3>3 DEF x
  <2> QED BY <2>1, <2>2
<1> QED BY <1>3, <1>5, <1>6 DEF HostMoves, Y

LEMMA NextToken ==
  ASSUME NEW ks, TokensOK(ks)
  PROVE  1 + Max({0} \cup ks) \in Nat /\ TokensOK(ks \cup {1 + Max({0} \cup ks)})
<1> DEFINE S == {0} \cup ks
           M == Max(S)
<1>1. PICK n \in Nat : \A k \in ks : k <= n
  BY DEF TokensOK
<1>2. S \subseteq Nat /\ S # {} /\ \A y \in S : y <= n
  BY <1>1 DEF TokensOK
<1> HIDE DEF S
<1>3. M \in S /\ \A y \in S : y <= M
  BY <1>2, MaxOfBounded
<1> HIDE DEF M
<1>4. M \in Nat /\ 1 + M \in Nat
  BY <1>2, <1>3
<1>5. \A k \in ks : k \in Nat /\ k <= M
  BY <1>2, <1>3 DEF S
<1>6. \A k \in ks \cup {1 + M} : k \in Nat /\ k <= 1 + M
  BY <1>4, <1>5
<1>7. TokensOK(ks \cup {1 + M})
  BY <1>4, <1>6 DEF TokensOK
<1> QED BY <1>4, <1>7 DEF M, S

LEMMA OneAnswer ==
  /\ \A n, p \in Nat : Single(<<[op |-> "joinAck", ask |-> n, player |-> p]>>)
  /\ \A n \in Nat : Single(<<[op |-> "joinReject", ask |-> n]>>)
<1>1. \A n, p \in Nat : [op |-> "joinAck", ask |-> n, player |-> p] \in Reply
  BY DEF Reply
<1>2. \A n \in Nat : [op |-> "joinReject", ask |-> n] \in Reply
  BY DEF Reply
<1> QED BY <1>1, <1>2 DEF Single

\* Nothing new is told when no event is made and everything was.
LEMMA NothingFresh ==
  ASSUME SoloInv, attached
  PROVE  /\ <<>> \in Seq(Said) /\ log \o Numbered(LatestSeq(log), <<>>) = log
         /\ News(Fresh(log)) = <<>> /\ sent = LatestSeq(log)
<1>1. log \in Copy /\ sent = LatestSeq(log)
  BY DEF SoloInv, SoloShape, HostInv
<1> DEFINE no == <<>>
           r == Numbered(LatestSeq(log), no)
<1>2. no \in Seq(Said)
  OBVIOUS
<1> HIDE DEF no
<1>3. r \in Seq(SoloEvent) /\ GoesOnFrom(log, r) /\ r = <<>>
  <2>1. no = <<>>
    BY DEF no
  <2> QED BY <1>1, <1>2, <2>1, SaidNumbered
<1> HIDE DEF r
<1>4. log \o r = log
  BY <1>1, <1>3 DEF Copy
<1>5. Selection(log \o r, {e \in ToSet(log \o r) : e.seq > LatestSeq(log)}) = r
  BY <1>1, <1>3, FreshAreNew
<1>6. Fresh(log) = <<>>
  <2>1. Selection(log, {e \in ToSet(log) : e.seq > LatestSeq(log)}) = <<>>
    BY <1>3, <1>4, <1>5
  <2> QED BY <1>1, <2>1 DEF Fresh
<1>7. News(Fresh(log)) = <<>>
  BY <1>6, NewsSteps
<1> QED BY <1>1, <1>2, <1>4, <1>7 DEF r, no

\* What the dealer's tab tells together with one answer.
LEMMA Answering ==
  ASSUME SoloInv, NEW t \in Follower, HandleMessage(t), UNCHANGED meeting,
         NEW new \in Seq(Said), NEW snapshot \in BOOLEAN, snapshot \/ Head(toDealer[t]) # Hello,
         NEW asker, NEW a, Single(a), Spreads(new, snapshot, asker, a), TokensOK(tokens')
  PROVE  SoloInv'
<1>1. HostMoves(snapshot)
  BY TakingRequest
<1>2. open /\ attached
  BY DEF HandleMessage
<1> QED BY <1>1, <1>2, Spreading

LEMMA JoinKeeps ==
  ASSUME SoloInv, NEW t \in Follower, HandleMessage(t), UNCHANGED meeting, NEW ask \in Nat,
         Head(toDealer[t]) # Hello, Join(t, ask)
  PROVE  SoloInv'
<1> DEFINE p == 1 + Max({0} \cup tokens)
           asker == {t}
<1>1. TokensOK(tokens) /\ attached
  BY DEF SoloInv, SoloShape, HandleMessage
<1>2. p \in Nat /\ TokensOK(tokens \cup {p})
  BY <1>1, NextToken
<1>3. CASE LocalPlayersOn(log) /\ ~Ended(log) /\ Cardinality(AtTable(log)) < SeatsAtTable
  <2> DEFINE new == <<Of("joined", p), Of("issued", p)>>
             a == <<[op |-> "joinAck", ask |-> ask, player |-> p]>>
  <2>1. Emit(new, FALSE, asker, a) /\ tokens' = tokens \cup {p}
    BY <1>3 DEF Join
  <2>2. new \in Seq(Said)
    <3>1. Of("joined", p) \in Said /\ Of("issued", p) \in Said
      <4> HIDE DEF p
      <4> QED BY <1>2 DEF Of, Said, SoloKinds
    <3> HIDE DEF p
    <3> QED BY <3>1
  <2>3. Single(a)
    <3> HIDE DEF p
    <3> QED BY <1>2, OneAnswer
  <2> HIDE DEF new, a, p, asker
  <2>4. Spreads(new, FALSE, asker, a)
    BY <2>1, EmitSpreads
  <2>5. TokensOK(tokens')
    BY <1>2, <2>1
  <2> QED BY <2>2, <2>3, <2>4, <2>5, Answering
<1>4. CASE ~(LocalPlayersOn(log) /\ ~Ended(log) /\ Cardinality(AtTable(log)) < SeatsAtTable)
  <2> DEFINE new == <<>>
             a == <<[op |-> "joinReject", ask |-> ask]>>
  <2>1. Emit(new, FALSE, asker, a) /\ tokens' = tokens
    BY <1>4 DEF Join
  <2>2. new \in Seq(Said)
    OBVIOUS
  <2>3. Single(a)
    BY OneAnswer
  <2> HIDE DEF new, a, p, asker
  <2>4. Spreads(new, FALSE, asker, a)
    BY <2>1, EmitSpreads
  <2>5. TokensOK(tokens')
    BY <1>1, <2>1
  <2> QED BY <2>2, <2>3, <2>4, <2>5, Answering
<1> QED BY <1>3, <1>4

LEMMA RejoinKeeps ==
  ASSUME SoloInv, NEW t \in Follower, HandleMessage(t), UNCHANGED meeting, NEW ask \in Nat, NEW token \in Nat,
         Head(toDealer[t]) # Hello, Rejoin(t, ask, token)
  PROVE  SoloInv'
<1> DEFINE new == <<>>
           asker == {t}
<1>1. TokensOK(tokens') /\ attached /\ log' = log
  BY DEF SoloInv, SoloShape, HandleMessage, Rejoin
<1>2. /\ new \in Seq(Said) /\ log \o Numbered(LatestSeq(log), new) = log
      /\ News(Fresh(log)) = <<>> /\ sent = LatestSeq(log)
  BY <1>1, NothingFresh
<1>3. <<>> \o <<Whole(log)>> = <<Whole(log)>> /\ <<>> \o <<>> = <<>>
  OBVIOUS
<1>4. CASE token \in tokens \cap AtTable(log)
  <2> DEFINE a == <<[op |-> "joinAck", ask |-> ask, player |-> token]>>
  <2>1. Deliver(<<Whole(log)>>, asker, a) /\ sent' = LatestSeq(log) /\ apart' = {}
    BY <1>4 DEF Rejoin, Whole
  <2>2. Single(a)
    BY OneAnswer
  <2> HIDE DEF new, a, asker
  <2>3. News(Fresh(log)) \o (IF TRUE THEN <<Whole(log)>> ELSE <<>>) = <<Whole(log)>>
    BY <1>2, <1>3
  <2>4. Spreads(new, TRUE, asker, a)
    BY <1>1, <1>2, <2>1, <2>3 DEF Spreads
  <2> QED BY <1>1, <1>2, <2>2, <2>4, Answering
<1>5. CASE token \notin tokens \cap AtTable(log)
  <2> DEFINE a == <<[op |-> "joinReject", ask |-> ask]>>
  <2>1. Deliver(<<>>, asker, a) /\ sent' = sent /\ apart' = apart
    BY <1>5 DEF Rejoin
  <2>2. Single(a)
    BY OneAnswer
  <2> HIDE DEF new, a, asker
  <2>3. News(Fresh(log)) \o (IF FALSE THEN <<Whole(log)>> ELSE <<>>) = <<>>
    BY <1>2, <1>3
  <2>4. Spreads(new, FALSE, asker, a)
    BY <1>1, <1>2, <2>1, <2>3 DEF Spreads
  <2> QED BY <1>1, <1>2, <2>2, <2>4, Answering
<1> QED BY <1>4, <1>5

\* An event of a player is told, or passed over: then nothing but the request goes.
LEMMA PlayerEventKeeps ==
  ASSUME SoloInv, NEW t \in Follower, HandleMessage(t), UNCHANGED meeting, NEW p \in Nat, NEW k \in SoloKinds,
         Head(toDealer[t]) # Hello, PlayerEvent(p, k)
  PROVE  SoloInv'
<1>1. TokensOK(tokens')
  BY DEF SoloInv, SoloShape, PlayerEvent
<1>2. CASE k \in PlayersOwn
  <2> DEFINE new == <<Of(k, p)>>
             a == NoAnswer
             no == {}
  <2>1. new \in Seq(Said)
    BY OneSaid
  <2>2. Emit(new, FALSE, no, a)
    BY <1>2 DEF PlayerEvent
  <2>3. Single(a)
    BY NobodyAnswered
  <2> HIDE DEF new, a, no
  <2>4. Spreads(new, FALSE, no, a)
    BY <2>2, EmitSpreads
  <2> QED BY <1>1, <2>1, <2>3, <2>4, Answering
<1>3. CASE k \notin PlayersOwn
  <2>1. UNCHANGED <<log, sent, toTab, apart, tokens>>
    BY <1>3 DEF PlayerEvent
  <2>2. HostMoves(FALSE)
    BY <1>1, TakingRequest
  <2>3. /\ UNCHANGED <<meeting, written, open, attached, stored, tabs, asks>>
        /\ toDealer' \in [Follower -> Seq(Asking)]
        /\ \A u \in Follower : Hello \in ToSet(toDealer[u]) => Hello \in ToSet(toDealer'[u])
    BY <2>2 DEF HostMoves
  <2>4. SoloShape'
    BY <2>1, <2>3 DEF SoloInv, SoloShape
  <2>5. HostInv'
    <3>1. LatestSeq(log') = LatestSeq(log) /\ LocalPlayersOn(log') = LocalPlayersOn(log)
      BY <2>1
    <3> QED BY <2>1, <2>3, <3>1 DEF SoloInv, HostInv
  <2>6. ASSUME NEW u \in Follower PROVE Agreed(u)'
    <3>1. AgreedAs(tabs[u], toDealer[u], toTab[u], Near(u), log)
      BY DEF SoloInv, Agreed
    <3>2. Near(u)' = Near(u) /\ tabs'[u] = tabs[u] /\ toTab'[u] = toTab[u] /\ log' = log
      BY <2>1, <2>3 DEF Near
    <3>3. AgreedAs(tabs'[u], toDealer'[u], toTab'[u], Near(u)', log')
      BY <2>3, <3>1, <3>2 DEF AgreedAs
    <3> QED BY <3>3 DEF Agreed
  <2> QED BY <2>4, <2>5, <2>6 DEF SoloInv
<1> QED BY <1>2, <1>3

LEMMA HandleMessageKeeps ==
  ASSUME SoloInv, NEW t \in Follower, HandleMessage(t), UNCHANGED meeting
  PROVE  SoloInv'
<1> DEFINE m == Head(toDealer[t])
<1>1. m \in Asking
  <2> DEFINE Y == Asking
  <2>1. toDealer[t] \in Seq(Y) /\ toDealer[t] # <<>>
    BY TabParts DEF SoloInv, HandleMessage
  <2> HIDE DEF Y
  <2>2. m \in Y
    BY <2>1
  <2> QED BY <2>2 DEF Y
<1>2. \/ m.op = "hello" /\ Emit(<<>>, TRUE, {}, NoAnswer) /\ tokens' = tokens
      \/ m.op = "join" /\ Join(t, m.ask)
      \/ m.op = "rejoin" /\ Rejoin(t, m.ask, m.token)
      \/ m.op = "playerEvent" /\ PlayerEvent(m.player, m.kind)
  BY DEF HandleMessage
<1> HIDE DEF m
<1>3. /\ m.op = "hello" <=> m = Hello
      /\ m.op \in {"join", "rejoin"} => m.ask \in Nat
      /\ m.op = "rejoin" => m.token \in Nat
      /\ m.op = "playerEvent" => m.player \in Nat /\ m.kind \in SoloKinds
  BY <1>1, AskingParts
<1>4. CASE m.op = "hello" /\ Emit(<<>>, TRUE, {}, NoAnswer) /\ tokens' = tokens
  <2> DEFINE new == <<>>
             a == NoAnswer
             no == {}
  <2>1. new \in Seq(Said)
    OBVIOUS
  <2>2. Single(a)
    BY NobodyAnswered
  <2>3. TokensOK(tokens')
    BY <1>4 DEF SoloInv, SoloShape
  <2>4. Emit(new, TRUE, no, a)
    BY <1>4
  <2> HIDE DEF new, a, no
  <2>5. Spreads(new, TRUE, no, a)
    BY <2>4, EmitSpreads
  <2> QED BY <2>1, <2>2, <2>3, <2>5, Answering
<1>5. CASE m.op = "join" /\ Join(t, m.ask)
  <2> DEFINE ask == m.ask
  <2>1. ask \in Nat /\ Join(t, ask) /\ Head(toDealer[t]) # Hello
    BY <1>3, <1>5 DEF m
  <2> HIDE DEF ask
  <2> QED BY <2>1, JoinKeeps
<1>6. CASE m.op = "rejoin" /\ Rejoin(t, m.ask, m.token)
  <2> DEFINE ask == m.ask
             token == m.token
  <2>1. ask \in Nat /\ token \in Nat /\ Rejoin(t, ask, token) /\ Head(toDealer[t]) # Hello
    BY <1>3, <1>6 DEF m
  <2> HIDE DEF ask, token
  <2> QED BY <2>1, RejoinKeeps
<1>7. CASE m.op = "playerEvent" /\ PlayerEvent(m.player, m.kind)
  <2> DEFINE p == m.player
             k == m.kind
  <2>1. p \in Nat /\ k \in SoloKinds /\ PlayerEvent(p, k) /\ Head(toDealer[t]) # Hello
    BY <1>3, <1>7 DEF m
  <2> HIDE DEF p, k
  <2> QED BY <2>1, PlayerEventKeeps
<1> QED BY <1>2, <1>4, <1>5, <1>6, <1>7

\* The table was made: its switch is the one event of the log.
LEMMA SoloStarts == SoloInit => SoloInv
<1> SUFFICES ASSUME SoloInit PROVE SoloInv
  OBVIOUS
<1>1. /\ meeting \in Meetings /\ log = Numbered(0, <<Of("on", NoPlayer)>>) /\ written = log
      /\ open = TRUE /\ attached = TRUE /\ sent = 1 /\ tokens = {} /\ stored = NoPlayer
      /\ tabs = [t \in Follower |-> NoTab] /\ asks = 0 /\ apart = {}
      /\ toDealer = [t \in Follower |-> <<>>] /\ toTab = [t \in Follower |-> <<>>]
  BY DEF SoloInit
<1> DEFINE first == [seq |-> 1, kind |-> "on", who |-> NoPlayer]
           one == Append(<<>>, first)
<1>2. first \in SoloEvent /\ first.seq = 1
  BY DEF SoloEvent, SoloKinds, NoPlayer
<1>3. log = one
  BY <1>1 DEF Numbered, Of
<1> HIDE DEF first
<1>4. <<>> \in Copy /\ LatestSeq(<<>>) = 0
  BY NothingIsCopy
<1>5. one \in Copy /\ LatestSeq(one) = 1
  <2> DEFINE none == <<>>
  <2>1. none \in Copy /\ first.seq > LatestSeq(none)
    BY <1>2, <1>4
  <2> HIDE DEF none
  <2>2. Append(none, first) \in Copy /\ LatestSeq(Append(none, first)) = first.seq
    BY <1>2, <2>1, CopyTakes
  <2> QED BY <1>2, <2>2 DEF none
<1>6. log \in Copy /\ written \in Copy /\ sent = LatestSeq(log)
  BY <1>1, <1>3, <1>5
<1>7. TokensOK(tokens)
  BY <1>1 DEF TokensOK
<1>8. tabs \in [Follower -> TabRecord] /\ \A t \in Follower : tabs[t].phase = "closed"
  BY <1>1, <1>4 DEF NoTab, TabRecord, NoPlayer
<1>9. toTab \in [Follower -> Seq(Post)] /\ \A t \in Follower : toTab[t] \in Seq(Reply)
  <2> DEFINE S == Seq(Post)
             R == Seq(Reply)
  <2>1. <<>> \in S /\ <<>> \in R
    OBVIOUS
  <2> HIDE DEF S, R
  <2>2. toTab \in [Follower -> S] /\ \A t \in Follower : toTab[t] \in R
    BY <1>1, <2>1
  <2> QED BY <2>2 DEF S, R
<1>10. SoloShape
  BY <1>1, <1>6, <1>7, <1>8, <1>9, NoRequests DEF SoloShape, NoPlayer
<1>11. HostInv
  BY <1>1, <1>6 DEF HostInv
<1>12. \A t \in Follower : Agreed(t)
  BY <1>8, <1>9 DEF Agreed, AgreedAs
<1> QED BY <1>10, <1>11, <1>12 DEF SoloInv

LEMMA TableStep ==
  ASSUME SoloInv, [SoloNext]_soloVars
  PROVE  SoloInv'
<1>1. CASE UNCHANGED soloVars
  <2>1. UNCHANGED <<meeting, log, written, open, attached, sent, tokens, stored, tabs, toDealer, toTab, asks, apart>>
    BY <1>1 DEF soloVars, hostVars
  <2>2. SoloShape'
    BY <2>1 DEF SoloInv, SoloShape
  <2>3. HostInv'
    <3>1. LatestSeq(log') = LatestSeq(log) /\ LocalPlayersOn(log') = LocalPlayersOn(log)
      BY <2>1
    <3> QED BY <2>1, <3>1 DEF SoloInv, HostInv
  <2> QED BY <2>1, <2>2, <2>3, Unheard DEF SoloInv
<1>2. CASE DealerTab /\ UNCHANGED meeting
  <2>1. CASE \E k \in meeting.entries : DealerEnters(k)
    BY <1>2, <2>1, DealerEntersKeeps
  <2>2. CASE \E p \in tokens : RemovePlayer(p)
    BY <1>2, <2>2, RemovePlayerKeeps
  <2>3. CASE AttachOrDetach
    BY <1>2, <2>3, AttachKeeps
  <2>4. CASE SaveArrives
    BY <1>2, <2>4, SaveArrivesKeeps
  <2>5. CASE DealerCloses
    BY <1>2, <2>5, DealerClosesKeeps
  <2>6. CASE DealerReopens
    BY <1>2, <2>6, DealerReopensKeeps
  <2>7. CASE \E t \in Follower : HandleMessage(t)
    BY <1>2, <2>7, HandleMessageKeeps
  <2> QED BY <1>2, <2>1, <2>2, <2>3, <2>4, <2>5, <2>6, <2>7 DEF DealerTab
<1>3. CASE FollowerTab /\ UNCHANGED meeting
  <2>1. CASE \E t \in Tab : OpenPlay(t)
    BY <1>3, <2>1, OpenPlayKeeps
  <2>2. CASE \E t \in Tab : TapJoin(t)
    BY <1>3, <2>2, TapJoinKeeps
  <2>3. CASE \E t \in Tab : \E k \in {"bet", "away"} : PlayerSends(t, k)
    BY <1>3, <2>3, PlayerSendsKeeps
  <2>4. CASE \E t \in Mirror : OpenMirror(t)
    BY <1>3, <2>4, OpenMirrorKeeps
  <2>5. CASE \E t \in Follower : CloseFollower(t)
    BY <1>3, <2>5, CloseKeepsFollowers
  <2>6. CASE \E t \in Follower : Receive(t)
    BY <1>3, <2>6, ReceiveKeeps
  <2>7. CASE \E t \in Follower : HearAnswer(t)
    BY <1>3, <2>7, HearAnswerKeeps
  <2>8. CASE \E t \in Follower : GiveUpWaiting(t)
    BY <1>3, <2>8, GiveUpWaitingKeeps
  <2>9. CASE \E t \in Tab : \E ask \in tabs[t].asking : GiveUpAsking(t, ask)
    BY <1>3, <2>9, GiveUpAskingKeeps
  <2> QED BY <1>3, <2>1, <2>2, <2>3, <2>4, <2>5, <2>6, <2>7, <2>8, <2>9 DEF FollowerTab
<1> QED BY <1>1, <1>2, <1>3 DEF SoloNext

\* In every state of every run the dealer's tab has told its channel everything, or everybody is
\* apart; and a follower that is not apart has said hello again, or will show the log when it has
\* heard what is on its way.
THEOREM SoloInvariant == SoloSpec => []SoloInv
<1>1. SoloInit => SoloInv
  BY SoloStarts
<1>2. SoloInv /\ [SoloNext]_soloVars => SoloInv'
  BY TableStep
<1> QED BY <1>1, <1>2, PTL DEF SoloSpec

\* No number is given twice, neither by reopenTableStore after a reload that lost ephemeral events
\* nor by handleSnapshot on top of events that came before: the log and the events of every
\* follower are in the order of their numbers.
THEOREM NumbersAlwaysRise == SoloSpec => []NumbersRise
<1>1. SoloInv => NumbersRise
  <2> SUFFICES ASSUME SoloInv PROVE NumbersRise
    OBVIOUS
  <2>1. log \in Copy /\ \A t \in Follower : tabs[t].events \in Copy
    BY TabParts DEF SoloInv, SoloShape
  <2>2. Rising(log) /\ \A t \in Follower : Rising(tabs[t].events)
    BY <2>1 DEF Copy
  <2> QED BY <2>2 DEF NumbersRise, Rising
<1> QED BY <1>1, SoloInvariant, PTL

\* A follower whose messages are through shows the log of the dealer's tab, whatever tabs join,
\* come back, close, or give up meanwhile: broadcastNewEvents and the snapshots miss nothing that
\* was appended while the channel was open, and nothing arrives twice.
THEOREM FollowersAlwaysAgree == SoloSpec => []FollowersAgree
<1>1. SoloInv => FollowersAgree
  <2> SUFFICES ASSUME SoloInv, NEW t \in Follower, Follows(t), t \notin apart PROVE tabs[t].events = log
    BY DEF FollowersAgree
  <2>1. Near(t) /\ tabs[t].phase = "playing" /\ toTab[t] = <<>> /\ Hello \notin ToSet(toDealer[t])
    BY DEF Follows, Near
  <2>2. Caught(tabs[t].events, toTab[t]) = log
    BY <2>1 DEF SoloInv, Agreed, AgreedAs
  <2>3. tabs[t].events \in Copy
    BY TabParts DEF SoloInv
  <2>4. Caught(tabs[t].events, <<>>) = tabs[t].events
    BY <2>3, CaughtSteps
  <2> QED BY <2>1, <2>2, <2>4
<1> QED BY <1>1, SoloInvariant, PTL

=============================================================================
