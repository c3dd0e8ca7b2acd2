----------------------------- MODULE OutcomeProofs -----------------------------
(***************************************************************************)
(* Proofs about where outcomes come from.                                  *)
(*                                                                         *)
(* The virtual dealer, for any games and outcomes of their steps, any       *)
(* number of series, deals, timers, repeated messages, restarts and         *)
(* crashes: one deal at a time, every result from a seed the log has        *)
(* committed to and not yet revealed, and a seed for the next process.      *)
(*                                                                         *)
(* The entry of a throw, for any faces and totals that are tapped and any   *)
(* number of throws: the dice on the picker are the ones tapped since the   *)
(* series last changed, and so are those recorded.                          *)
(*                                                                         *)
(* Craps, for any players, rolls, tables, bets and stakes, and whatever is  *)
(* corrected, undone or started in mid-hand: the state of the game, the     *)
(* puck the rolls say, settlements by the rules of the catalogue, and the   *)
(* dice that go from neighbour to neighbour.                                *)
(***************************************************************************)
EXTENDS VirtualDealer, DiceEntry, Craps, DataLemmas, SequenceTheorems, TLAPS

-----------------------------------------------------------------------------
(* Logs *)

ResultRow(s) == {[type |-> "result", series |-> s, draw |-> n, process |-> p] : n \in Nat, p \in Nat}

Row == {Started(s) : s \in Nat} \cup {EndedSeries(s) : s \in Nat} \cup {Over}
         \cup UNION {ResultRow(s) : s \in Nat}

Has(l, r) == \E k \in DOMAIN l : l[k] = r

\* The last series that the log starts is s.
LastIs(l, s) ==
  \E k \in DOMAIN l : l[k] = Started(s) /\ \A j \in DOMAIN l : l[j].type = "started" => j <= k

StartsNone(l) == \A j \in DOMAIN l : l[j].type # "started"

Within(l, c) == \A i \in DOMAIN l : l[i].type # "over" => l[i].series \in 1..c

OverIn(l) == \E i \in DOMAIN l : l[i].type = "over"

CommittedIn(l) ==
  \A i \in DOMAIN l : l[i].type = "result" => \E k \in 1..(i - 1) : l[k] = Started(l[i].series)

SealedIn(l) ==
  \A i \in DOMAIN l : l[i].type = "result" =>
    \A k \in DOMAIN l : k < i => l[k] # EndedSeries(l[i].series)

\* What a row of each kind says.
LEMMA RowKinds ==
  /\ \A s \in Nat : Started(s) \in Row /\ EndedSeries(s) \in Row /\ ResultRow(s) \subseteq Row
  /\ Over \in Row /\ Over.type = "over"
  /\ \A s : Started(s).type = "started" /\ Started(s).series = s
  /\ \A s : EndedSeries(s).type = "ended" /\ EndedSeries(s).series = s
  /\ \A s : \A r \in ResultRow(s) : r.type = "result" /\ r.series = s
  /\ \A r \in Row : /\ r.type \in {"started", "ended", "result", "over"}
                    /\ r.type = "started" => r.series \in Nat /\ r = Started(r.series)
                    /\ r.type = "ended" => r.series \in Nat /\ r = EndedSeries(r.series)
                    /\ r.type = "result" => r.series \in Nat
<1>1. \A s \in Nat : Started(s) \in Row /\ EndedSeries(s) \in Row /\ ResultRow(s) \subseteq Row
  BY DEF Row
<1>2. Over \in Row /\ Over.type = "over"
  BY DEF Row, Over
<1>3. \A s : Started(s).type = "started" /\ Started(s).series = s
  BY DEF Started
<1>4. \A s : EndedSeries(s).type = "ended" /\ EndedSeries(s).series = s
  BY DEF EndedSeries
<1>5. \A s : \A r \in ResultRow(s) : r.type = "result" /\ r.series = s
  BY DEF ResultRow
<1>6. ASSUME NEW r \in Row
      PROVE  /\ r.type \in {"started", "ended", "result", "over"}
             /\ r.type = "started" => r.series \in Nat /\ r = Started(r.series)
             /\ r.type = "ended" => r.series \in Nat /\ r = EndedSeries(r.series)
             /\ r.type = "result" => r.series \in Nat
  <2>1. CASE \E s \in Nat : r = Started(s)
    BY <2>1, <1>3
  <2>2. CASE \E s \in Nat : r = EndedSeries(s)
    BY <2>2, <1>4
  <2>3. CASE r = Over
    BY <2>3, <1>2
  <2>4. CASE \E s \in Nat : r \in ResultRow(s)
    BY <2>4, <1>5
  <2> QED BY <2>1, <2>2, <2>3, <2>4 DEF Row
<1> QED BY <1>1, <1>2, <1>3, <1>4, <1>5, <1>6

\* A log and what follows it.
LEMMA Joined ==
  ASSUME NEW l \in Seq(Row), NEW es \in Seq(Row)
  PROVE  /\ l \o es \in Seq(Row)
         /\ DOMAIN l = 1..Len(l) /\ DOMAIN es = 1..Len(es) /\ Len(l) \in Nat /\ Len(es) \in Nat
         /\ DOMAIN (l \o es) = 1..(Len(l) + Len(es))
         /\ \A i \in DOMAIN l : i \in DOMAIN (l \o es) /\ (l \o es)[i] = l[i]
         /\ \A j \in DOMAIN es : Len(l) + j \in DOMAIN (l \o es) /\ (l \o es)[Len(l) + j] = es[j]
         /\ \A i \in DOMAIN (l \o es) : i \in DOMAIN l \/ \E j \in DOMAIN es : i = Len(l) + j
<1>1. /\ l \o es \in Seq(Row) /\ Len(l \o es) = Len(l) + Len(es)
      /\ \A i \in 1..(Len(l) + Len(es)) :
           (l \o es)[i] = IF i <= Len(l) THEN l[i] ELSE es[i - Len(l)]
  BY ConcatProperties
<1>2. /\ DOMAIN l = 1..Len(l) /\ DOMAIN es = 1..Len(es) /\ Len(l) \in Nat /\ Len(es) \in Nat
      /\ DOMAIN (l \o es) = 1..(Len(l) + Len(es))
  BY <1>1
<1>3. \A i \in DOMAIN l : i \in DOMAIN (l \o es) /\ (l \o es)[i] = l[i]
  BY <1>1, <1>2
<1>4. \A j \in DOMAIN es : Len(l) + j \in DOMAIN (l \o es) /\ (l \o es)[Len(l) + j] = es[j]
  <2> TAKE j \in DOMAIN es
  <2>1. j \in Nat \ {0} /\ j <= Len(es) /\ ~(Len(l) + j <= Len(l)) /\ Len(l) + j - Len(l) = j
    BY <1>2
  <2>2. Len(l) + j \in 1..(Len(l) + Len(es))
    BY <1>2, <2>1
  <2> QED BY <1>1, <1>2, <2>1, <2>2
<1>5. ASSUME NEW i \in DOMAIN (l \o es), i \notin DOMAIN l
      PROVE  \E j \in DOMAIN es : i = Len(l) + j
  <2>1. i - Len(l) \in DOMAIN es /\ i = Len(l) + (i - Len(l))
    BY <1>2, <1>5
  <2> QED BY <2>1
<1> QED BY <1>1, <1>2, <1>3, <1>4, <1>5

\* What a longer log has, says and keeps.
LEMMA JoinedHas ==
  ASSUME NEW l \in Seq(Row), NEW es \in Seq(Row)
  PROVE  /\ \A r : Has(l \o es, r) <=> Has(l, r) \/ Has(es, r)
         /\ OverIn(l \o es) <=> OverIn(l) \/ OverIn(es)
<1> DEFINE m == l \o es
<1>0. /\ \A x \in DOMAIN l : x \in DOMAIN m /\ m[x] = l[x]
      /\ \A y \in DOMAIN es : Len(l) + y \in DOMAIN m /\ m[Len(l) + y] = es[y]
      /\ \A x \in DOMAIN m : x \in DOMAIN l \/ \E y \in DOMAIN es : x = Len(l) + y
  BY Joined
<1> HIDE DEF m
<1>1. \A r : Has(m, r) <=> Has(l, r) \/ Has(es, r)
  BY <1>0 DEF Has
<1>2. OverIn(m) <=> OverIn(l) \/ OverIn(es)
  BY <1>0 DEF OverIn
<1> QED BY <1>1, <1>2 DEF m

LEMMA JoinedWithin ==
  ASSUME NEW l \in Seq(Row), NEW es \in Seq(Row), NEW c, Within(l, c), Within(es, c)
  PROVE  Within(l \o es, c)
BY Joined DEF Within

LEMMA JoinedLast ==
  ASSUME NEW l \in Seq(Row), NEW es \in Seq(Row)
  PROVE  /\ \A s : LastIs(es, s) => LastIs(l \o es, s)
         /\ StartsNone(es) => \A s : LastIs(l, s) => LastIs(l \o es, s)
<1>1. ASSUME NEW s, LastIs(es, s)
      PROVE  LastIs(l \o es, s)
  <2>1. PICK k \in DOMAIN es : es[k] = Started(s)
                               /\ \A j \in DOMAIN es : es[j].type = "started" => j <= k
    BY <1>1 DEF LastIs
  <2>2. Len(l) + k \in DOMAIN (l \o es) /\ (l \o es)[Len(l) + k] = Started(s)
    BY <2>1, Joined
  <2>3. \A i \in DOMAIN (l \o es) : (l \o es)[i].type = "started" => i <= Len(l) + k
    BY <2>1, Joined
  <2> QED BY <2>2, <2>3 DEF LastIs
<1>2. ASSUME NEW s, LastIs(l, s), StartsNone(es)
      PROVE  LastIs(l \o es, s)
  <2>1. PICK k \in DOMAIN l : l[k] = Started(s)
                              /\ \A j \in DOMAIN l : l[j].type = "started" => j <= k
    BY <1>2 DEF LastIs
  <2>2. k \in DOMAIN (l \o es) /\ (l \o es)[k] = Started(s)
    BY <2>1, Joined
  <2>3. \A i \in DOMAIN (l \o es) : (l \o es)[i].type = "started" => i <= k
    BY <1>2, <2>1, Joined DEF StartsNone
  <2> QED BY <2>2, <2>3 DEF LastIs
<1> QED BY <1>1, <1>2

LEMMA JoinedCommitted ==
  ASSUME NEW l \in Seq(Row), NEW es \in Seq(Row), CommittedIn(l),
         \A j \in DOMAIN es : es[j].type = "result" => Has(l, Started(es[j].series))
  PROVE  CommittedIn(l \o es)
<1> DEFINE m == l \o es
<1> SUFFICES ASSUME NEW i \in DOMAIN m, m[i].type = "result"
             PROVE  \E k \in 1..(i - 1) : m[k] = Started(m[i].series)
  BY DEF CommittedIn
<1>1. CASE i \in DOMAIN l
  <2>1. m[i] = l[i]
    BY <1>1, Joined
  <2>2. PICK k \in 1..(i - 1) : l[k] = Started(l[i].series)
    BY <1>1, <2>1 DEF CommittedIn
  <2>3. k \in DOMAIN l
    BY <1>1, <2>2, Joined
  <2> QED BY <2>1, <2>2, <2>3, Joined
<1>2. ASSUME NEW j \in DOMAIN es, i = Len(l) + j
      PROVE  \E k \in 1..(i - 1) : m[k] = Started(m[i].series)
  <2>1. m[i] = es[j]
    BY <1>2, Joined
  <2>2. PICK k \in DOMAIN l : l[k] = Started(es[j].series)
    BY <2>1 DEF Has
  <2>3. k \in 1..(i - 1) /\ m[k] = l[k]
    BY <1>2, Joined
  <2> QED BY <2>1, <2>2, <2>3
<1>3. i \in DOMAIN l \/ \E j \in DOMAIN es : i = Len(l) + j
  BY Joined
<1> QED BY <1>1, <1>2, <1>3

LEMMA JoinedSealed ==
  ASSUME NEW l \in Seq(Row), NEW es \in Seq(Row), SealedIn(l), SealedIn(es),
         \A j \in DOMAIN es : es[j].type = "result" => ~Has(l, EndedSeries(es[j].series))
  PROVE  SealedIn(l \o es)
<1> DEFINE m == l \o es
<1> SUFFICES ASSUME NEW i \in DOMAIN m, m[i].type = "result",
                    NEW k \in DOMAIN m, k < i, m[k] = EndedSeries(m[i].series)
             PROVE  FALSE
  BY DEF SealedIn
<1> HIDE DEF m
<1>0. /\ DOMAIN l = 1..Len(l) /\ DOMAIN es = 1..Len(es) /\ Len(l) \in Nat /\ Len(es) \in Nat
      /\ \A x \in DOMAIN l : m[x] = l[x]
      /\ \A y \in DOMAIN es : m[Len(l) + y] = es[y]
      /\ \A x \in DOMAIN m : x \in DOMAIN l \/ \E y \in DOMAIN es : x = Len(l) + y
  BY Joined DEF m
<1>1. CASE i \in DOMAIN l
  <2>1. k \in DOMAIN l
    BY <1>0, <1>1
  <2> QED BY <1>0, <1>1, <2>1 DEF SealedIn
<1>2. ASSUME NEW j \in DOMAIN es, i = Len(l) + j
      PROVE  FALSE
  <2>1. m[i] = es[j] /\ es[j].type = "result"
    BY <1>0, <1>2
  <2>2. k \notin DOMAIN l
    BY <1>0, <2>1 DEF Has
  <2>3. PICK y \in DOMAIN es : k = Len(l) + y
    BY <1>0, <2>2
  <2>4. y < j /\ es[y] = EndedSeries(es[j].series)
    BY <1>0, <1>2, <2>1, <2>3
  <2> QED BY <2>1, <2>4 DEF SealedIn
<1> QED BY <1>0, <1>1, <1>2

\* LastStarted finds the last series started.
LEMMA LastStartedIs ==
  ASSUME NEW l \in Seq(Row), NEW s, LastIs(l, s)
  PROVE  /\ LastStarted(l) = s /\ Has(l, Started(s))
         /\ \A t : LastIs(l, t) => t = s
<1>1. PICK k \in DOMAIN l : l[k] = Started(s)
                            /\ \A j \in DOMAIN l : l[j].type = "started" => j <= k
  BY DEF LastIs
<1> DEFINE starts == {i \in DOMAIN l : l[i].type = "started"}
<1>2. k \in starts /\ \A j \in starts : j <= k
  BY <1>1, RowKinds
<1>3. \A m \in starts : (\A j \in starts : j <= m) => m = k
  <2>1. \A m \in starts : m \in Int
    OBVIOUS
  <2> QED BY <1>2, <2>1
<1>4. (CHOOSE i \in starts : \A j \in starts : j <= i) = k
  BY <1>2, <1>3
<1>5. LastStarted(l) = s
  BY <1>1, <1>4, RowKinds DEF LastStarted
<1>6. ASSUME NEW t, LastIs(l, t)
      PROVE  t = s
  <2>1. PICK m \in DOMAIN l : l[m] = Started(t)
                              /\ \A j \in DOMAIN l : l[j].type = "started" => j <= m
    BY <1>6 DEF LastIs
  <2>2. m \in starts /\ \A j \in starts : j <= m
    <3>1. l[m].type = "started"
      BY <2>1, RowKinds
    <3> QED BY <2>1, <3>1
  <2>3. m = k
    BY <1>3, <2>2
  <2>4. Started(s) = Started(t) /\ Started(s).series = s /\ Started(t).series = t
    BY <1>1, <2>1, <2>3, RowKinds
  <2> QED BY <2>4
<1> QED BY <1>1, <1>5, <1>6 DEF Has

-----------------------------------------------------------------------------
(* The final events of a step *)

\* es closes a step of series s: a result or none, a change to series c or none.
Closes(es, s, c) ==
  \/ es = <<>>
  \/ \E r \in ResultRow(s) : es = <<r>>
  \/ es = <<EndedSeries(s), Started(c)>>
  \/ \E r \in ResultRow(s) : es = <<r, EndedSeries(s), Started(c)>>

Changes(es, c) == Has(es, Started(c))

\* What these events say, one by one.
LEMMA ClosesParts ==
  ASSUME NEW s \in Nat \ {0}, NEW c \in Nat \ {0}, NEW b \in Nat, s <= b, c <= b,
         NEW es, Closes(es, s, c)
  PROVE  /\ es \in Seq(Row) /\ SealedIn(es) /\ Within(es, b) /\ ~OverIn(es)
         /\ \A j \in DOMAIN es : es[j].type = "result" => es[j].series = s
         /\ \/ StartsNone(es) /\ \A x : ~Has(es, EndedSeries(x))
            \/ LastIs(es, c) /\ Changes(es, c) /\ \A x : Has(es, EndedSeries(x)) => x = s
<1>1. CASE es = <<>>
  BY <1>1 DEF SealedIn, Within, OverIn, StartsNone, Has
<1>2. ASSUME NEW r \in ResultRow(s), es = <<r>>
      PROVE  /\ es \in Seq(Row) /\ SealedIn(es) /\ Within(es, b) /\ ~OverIn(es)
             /\ \A j \in DOMAIN es : es[j].type = "result" => es[j].series = s
             /\ StartsNone(es) /\ \A x : ~Has(es, EndedSeries(x))
  <2>1. r \in Row /\ r.type = "result" /\ r.series = s /\ s \in 1..b
    BY RowKinds
  <2>2. DOMAIN es = {1} /\ es[1] = r
    BY <1>2
  <2>3. es \in Seq(Row)
    BY <1>2, <2>1
  <2>4. \A x : r # EndedSeries(x)
    BY <2>1, RowKinds
  <2> QED BY <2>1, <2>2, <2>3, <2>4 DEF SealedIn, Within, OverIn, StartsNone, Has
<1>3. CASE es = <<EndedSeries(s), Started(c)>>
  <2> DEFINE e == EndedSeries(s)  f == Started(c)
  <2>1. /\ e \in Row /\ f \in Row /\ e.type = "ended" /\ e.series = s
        /\ f.type = "started" /\ f.series = c /\ s \in 1..b /\ c \in 1..b
    BY RowKinds
  <2>2. \A x : (e = EndedSeries(x) => x = s) /\ f # EndedSeries(x)
    BY <2>1, RowKinds
  <2>3. DOMAIN es = {1, 2} /\ es[1] = e /\ es[2] = f /\ es \in Seq(Row) /\ f = Started(c)
    BY <1>3, <2>1
  <2> HIDE DEF e, f
  <2>4. LastIs(es, c) /\ Changes(es, c)
    BY <2>1, <2>3 DEF LastIs, Changes, Has
  <2>5. \A x : Has(es, EndedSeries(x)) => x = s
    BY <2>2, <2>3 DEF Has
  <2>6. SealedIn(es) /\ Within(es, b) /\ ~OverIn(es)
    BY <2>1, <2>3 DEF SealedIn, Within, OverIn
  <2> QED BY <2>1, <2>3, <2>4, <2>5, <2>6
<1>4. ASSUME NEW r \in ResultRow(s), es = <<r, EndedSeries(s), Started(c)>>
      PROVE  /\ es \in Seq(Row) /\ SealedIn(es) /\ Within(es, b) /\ ~OverIn(es)
             /\ \A j \in DOMAIN es : es[j].type = "result" => es[j].series = s
             /\ LastIs(es, c) /\ Changes(es, c) /\ \A x : Has(es, EndedSeries(x)) => x = s
  <2> DEFINE e == EndedSeries(s)  f == Started(c)
  <2>1. /\ e \in Row /\ f \in Row /\ e.type = "ended" /\ e.series = s
        /\ f.type = "started" /\ f.series = c /\ s \in 1..b /\ c \in 1..b
        /\ r \in Row /\ r.type = "result" /\ r.series = s
    BY RowKinds
  <2>2. \A x : (e = EndedSeries(x) => x = s) /\ f # EndedSeries(x) /\ r # EndedSeries(x)
    BY <2>1, RowKinds
  <2>3. /\ DOMAIN es = {1, 2, 3} /\ es[1] = r /\ es[2] = e /\ es[3] = f
        /\ es \in Seq(Row) /\ f = Started(c)
    BY <1>4, <2>1
  <2> HIDE DEF e, f
  <2>4. LastIs(es, c) /\ Changes(es, c)
    BY <2>1, <2>3 DEF LastIs, Changes, Has
  <2>5. \A x : Has(es, EndedSeries(x)) => x = s
    BY <2>2, <2>3 DEF Has
  <2>6. SealedIn(es) /\ Within(es, b) /\ ~OverIn(es)
    BY <2>1, <2>3 DEF SealedIn, Within, OverIn
  <2> QED BY <2>1, <2>3, <2>4, <2>5, <2>6
<1> QED BY <1>1, <1>2, <1>3, <1>4 DEF Closes

\* What a crash leaves of them: no start of a series, or all.
LEMMA TornParts ==
  ASSUME NEW s \in Nat \ {0}, NEW c \in Nat \ {0}, NEW b \in Nat, s <= b, c <= b,
         NEW es, Closes(es, s, c), NEW k \in DOMAIN es
  PROVE  /\ SubSeq(es, 1, k) \in Seq(Row)
         /\ \A j \in DOMAIN SubSeq(es, 1, k) :
              /\ SubSeq(es, 1, k)[j].type = "result" => SubSeq(es, 1, k)[j].series = s
              /\ SubSeq(es, 1, k)[j].type # "over" /\ SubSeq(es, 1, k)[j].series \in 1..b
         /\ StartsNone(SubSeq(es, 1, k)) \/ LastIs(SubSeq(es, 1, k), c)
<1> DEFINE t == SubSeq(es, 1, k)
<1>1. /\ es \in Seq(Row) /\ Within(es, b) /\ ~OverIn(es)
      /\ \A j \in DOMAIN es : es[j].type = "result" => es[j].series = s
      /\ StartsNone(es) \/ LastIs(es, c)
  BY ClosesParts
<1>2. k \in 1..Len(es) /\ DOMAIN es = 1..Len(es) /\ \A i \in 1..k : es[i] \in Row
  BY <1>1
<1>3. t \in Seq(Row) /\ Len(t) = k /\ \A i \in 1..k : t[i] = es[i]
  <2>1. k \in Int /\ 1 <= k /\ k - 1 + 1 = k /\ \A i : 1 + i - 1 = i \/ i \notin Int
    BY <1>2
  <2>2. t \in Seq(Row) /\ Len(t) = k
    BY <1>2, <2>1, SubSeqProperties
  <2>3. \A i \in 1..k : t[i] = es[i]
    BY <1>1, <1>2
  <2> QED BY <2>2, <2>3
<1> HIDE DEF t
<1>4. DOMAIN t = 1..k /\ 1..k \subseteq DOMAIN es
  BY <1>2, <1>3
<1>5. \A j \in DOMAIN t :
        /\ t[j].type = "result" => t[j].series = s
        /\ t[j].type # "over" /\ t[j].series \in 1..b
  BY <1>1, <1>3, <1>4 DEF Within, OverIn
<1>6. CASE StartsNone(es)
  <2>1. StartsNone(t)
    BY <1>3, <1>4, <1>6 DEF StartsNone
  <2> QED BY <1>3, <1>5, <2>1 DEF t
<1>7. CASE LastIs(es, c)
  <2>1. PICK i \in DOMAIN es : es[i] = Started(c)
                               /\ \A j \in DOMAIN es : es[j].type = "started" => j <= i
    BY <1>7 DEF LastIs
  <2>2. CASE i <= k
    <3>1. i \in DOMAIN t /\ t[i] = Started(c)
      BY <1>2, <1>3, <1>4, <2>1, <2>2
    <3>2. \A j \in DOMAIN t : t[j].type = "started" => j <= i
      BY <1>3, <1>4, <2>1
    <3>3. LastIs(t, c)
      BY <3>1, <3>2 DEF LastIs
    <3> QED BY <1>3, <1>5, <3>3 DEF t
  <2>3. CASE ~(i <= k)
    <3>1. \A j \in 1..k : es[j].type # "started"
      <4> SUFFICES ASSUME NEW j \in 1..k, es[j].type = "started" PROVE FALSE
        OBVIOUS
      <4>1. \A x \in DOMAIN es : es[x].type = "started" => x = i
        <5>1. CASE es = <<EndedSeries(s), Started(c)>>
          BY <5>1, <2>1, RowKinds
        <5>2. ASSUME NEW r \in ResultRow(s), es = <<r, EndedSeries(s), Started(c)>>
              PROVE  \A x \in DOMAIN es : es[x].type = "started" => x = i
          BY <5>2, <2>1, RowKinds
        <5>3. ASSUME NEW r \in ResultRow(s), es = <<r>>
              PROVE  FALSE
          BY <5>3, <2>1, RowKinds
        <5> QED BY <5>1, <5>2, <5>3, <2>1 DEF Closes
      <4> QED BY <1>4, <2>3, <4>1
    <3>2. StartsNone(t)
      BY <1>3, <1>4, <3>1 DEF StartsNone
    <3> QED BY <1>3, <1>5, <3>2 DEF t
  <2> QED BY <2>2, <2>3
<1> QED BY <1>1, <1>6, <1>7

-----------------------------------------------------------------------------
(* The inductive invariant.  The log alone is not enough: what it will say is  *)
(* already decided in a running deal and in the dealer's memory, and whether a *)
(* seed is known to the log depends on what went amiss.                        *)

Deal == [waits: Nat \ {0}, closing: Seq(Row)]

NotAgain == "again" \notin mishaps
Clean == mishaps \subseteq {"again"}
Quiet == mishaps \cap {"midDeal", "again", "torn"} = {}
Undisturbed == mishaps \cap {"midDeal", "torn"} = {}

DealerTypes ==
  /\ game \in Game /\ log \in Seq(Row) /\ created \in Nat \ {0} /\ Within(log, created)
  /\ host \in [series: 0..created, drawn: Nat, awaiting: Awaiting]
  /\ deals \in Seq(Deal) /\ dealing \in BOOLEAN /\ restarts \in Nat

\* The log names a series, the last one started.
SeriesKnown == \E s \in 1..created : LastIs(log, s)

\* What a deal of series s is going to append.
DealPending(es, s, c) ==
  /\ Closes(es, s, c)
  /\ NotAgain => Has(log, Started(s))
  /\ Clean => ~Has(log, EndedSeries(s))
  /\ Undisturbed => IF Changes(es, c) THEN c = host.series /\ c # s ELSE host.series = s
  /\ Quiet => Changes(es, c) \/ LastIs(log, host.series)

PendingDeals == \A i \in DOMAIN deals : \E s, c \in 1..created : DealPending(deals[i].closing, s, c)

HostCommitted ==
  Hosted /\ NotAgain => \/ Has(log, Started(host.series))
                        \/ \E i \in DOMAIN deals : Changes(deals[i].closing, host.series)

Committed == NotAgain => CommittedIn(log)

Sealed == Clean =>
  /\ SealedIn(log)
  /\ SessionOver => ~dealing
  /\ ~SessionOver /\ Hosted => ~Has(log, EndedSeries(host.series))
  /\ ~SessionOver => \A s : LastIs(log, s) => ~Has(log, EndedSeries(s))

Survives == Quiet => \A s : LastIs(log, s) => s \in seeds /\ (dealing \/ host.series = s)

VirtualInv ==
  /\ DealerTypes /\ SeriesKnown /\ OneDealAtATime /\ PendingDeals
  /\ HostCommitted /\ Committed /\ Sealed /\ Survives

\* The table starts in a state of the invariant.
LEMMA VirtualStarts == VirtualInit => VirtualInv
<1> SUFFICES ASSUME VirtualInit PROVE VirtualInv
  OBVIOUS
<1>1. /\ log = <<Started(1)>> /\ DOMAIN log = {1} /\ log[1] = Started(1) /\ log \in Seq(Row)
      /\ Started(1).type = "started" /\ Started(1).series = 1
  BY RowKinds DEF VirtualInit
<1>2. /\ created = 1 /\ host = Opened(1) /\ host.series = 1 /\ deals = <<>> /\ Len(deals) = 0
      /\ dealing = FALSE /\ mishaps = {} /\ seeds = {1} /\ restarts = 0 /\ game \in Game
      /\ host \in [series: 0..1, drawn: Nat, awaiting: Awaiting] /\ DOMAIN deals = {}
      /\ deals \in Seq(Deal)
  BY DEF VirtualInit, Opened, Awaiting
<1>3. DealerTypes
  <2>1. Within(log, created)
    BY <1>1, <1>2 DEF Within
  <2>2. host \in [series: 0..created, drawn: Nat, awaiting: Awaiting]
    BY <1>2
  <2>3. created \in Nat \ {0} /\ restarts \in Nat
    BY <1>2
  <2>4. dealing \in BOOLEAN
    BY <1>2
  <2> QED BY <1>1, <1>2, <2>1, <2>2, <2>3, <2>4 DEF DealerTypes
<1>4. LastIs(log, 1) /\ Has(log, Started(1)) /\ \A x : ~Has(log, EndedSeries(x))
  BY <1>1, RowKinds DEF LastIs, Has
<1>5. \A x : LastIs(log, x) => x = 1
  BY <1>1, <1>4, LastStartedIs
<1>6. CommittedIn(log) /\ SealedIn(log) /\ ~SessionOver
  BY <1>1 DEF CommittedIn, SealedIn, SessionOver
<1>7. OneDealAtATime /\ PendingDeals /\ HostCommitted /\ Committed /\ SeriesKnown
  BY <1>2, <1>4, <1>6 DEF OneDealAtATime, PendingDeals, HostCommitted, Committed, SeriesKnown
<1>8. Sealed /\ Survives
  BY <1>2, <1>4, <1>5, <1>6 DEF Sealed, Survives
<1> QED BY <1>3, <1>7, <1>8 DEF VirtualInv

\* What the invariant says of the last series and of what the log has.
LEMMA LastKnown ==
  ASSUME DealerTypes, SeriesKnown
  PROVE  /\ LastStarted(log) \in 1..created /\ LastIs(log, LastStarted(log))
         /\ Has(log, Started(LastStarted(log)))
         /\ \A s : LastIs(log, s) => s = LastStarted(log)
         /\ \A s \in Nat : s > created => ~Has(log, EndedSeries(s)) /\ ~Has(log, Started(s))
<1>1. PICK s \in 1..created : LastIs(log, s)
  BY DEF SeriesKnown
<1>2. LastStarted(log) = s /\ Has(log, Started(s)) /\ \A t : LastIs(log, t) => t = s
  BY <1>1, LastStartedIs DEF DealerTypes
<1>3. ASSUME NEW x \in Nat, x > created
      PROVE  ~Has(log, EndedSeries(x)) /\ ~Has(log, Started(x))
  <2>1. /\ EndedSeries(x).type = "ended" /\ EndedSeries(x).series = x
        /\ Started(x).type = "started" /\ Started(x).series = x
    BY RowKinds
  <2>2. x \notin 1..created
    BY <1>3 DEF DealerTypes
  <2> QED BY <2>1, <2>2 DEF Has, Within, DealerTypes
<1> QED BY <1>1, <1>2, <1>3

\* No deal runs exactly when the dealer is not dealing.
LEMMA IdleDealer ==
  ASSUME DealerTypes, OneDealAtATime
  PROVE  /\ ~dealing <=> deals = <<>>
         /\ ~dealing => DOMAIN deals = {}
         /\ dealing => Len(deals) = 1 /\ DOMAIN deals = {1} /\ deals[1] \in Deal
<1>1. Len(deals) \in Nat /\ DOMAIN deals = 1..Len(deals) /\ (deals = <<>> <=> Len(deals) = 0)
  BY DEF DealerTypes
<1>2. CASE dealing
  BY <1>1, <1>2 DEF OneDealAtATime, DealerTypes
<1>3. CASE ~dealing
  BY <1>1, <1>3 DEF OneDealAtATime
<1> QED BY <1>2, <1>3

\* Three rows, put together of one and two.
LEMMA OneAndTwo == \A x, y, z : <<x>> \o <<y, z>> = <<x, y, z>>
<1> TAKE x, y, z
<1> DEFINE S == {x, y, z}
           a == <<x>>
           b == <<y, z>>
           t == <<x, y, z>>
<1>1. a \in Seq(S) /\ b \in Seq(S) /\ t \in Seq(S) /\ Len(a) = 1 /\ Len(b) = 2 /\ Len(t) = 3
  OBVIOUS
<1>2. /\ a \o b \in Seq(S) /\ Len(a \o b) = 3
      /\ \A i \in 1..3 : (a \o b)[i] = IF i <= 1 THEN a[i] ELSE b[i - 1]
  BY <1>1, ConcatProperties
<1>3. (a \o b)[1] = x /\ (a \o b)[2] = y /\ (a \o b)[3] = z
  BY <1>2
<1>4. \A i \in 1..Len(a \o b) : (a \o b)[i] = t[i]
  BY <1>2, <1>3
<1> HIDE DEF a, b, t
<1>5. a \o b = t
  BY <1>1, <1>2, <1>4, SeqEqual
<1> QED BY <1>5 DEF a, b, t

\* A step's final events close it.
LEMMA ClosingCloses ==
  ASSUME NEW o, o.result \in BOOLEAN, o.rollover \in BOOLEAN, NEW s \in Nat, NEW n \in Nat,
         restarts \in Nat, NEW c, o.rollover => c = created + 1
  PROVE  /\ Closes(Closing(o, s, n), s, c)
         /\ o.rollover => Changes(Closing(o, s, n), c)
         /\ ~o.rollover => StartsNone(Closing(o, s, n))
<1> DEFINE r == ResultOf(s, n)
           es == Closing(o, s, n)
<1>1. r \in ResultRow(s) /\ r.type = "result"
  BY DEF ResultOf, ResultRow
<1>2. CASE o.result /\ o.rollover
  <2>0. es = <<r>> \o <<EndedSeries(s), Started(c)>>
    BY <1>2 DEF Closing
  <2>1. es = <<r, EndedSeries(s), Started(c)>>
    BY <2>0, OneAndTwo
  <2>2. 3 \in DOMAIN es /\ es[3] = Started(c)
    BY <2>1
  <2> QED BY <1>1, <1>2, <2>1, <2>2 DEF Closes, Changes, Has
<1>3. CASE o.result /\ ~o.rollover
  <2>1. es = <<r>>
    BY <1>3 DEF Closing
  <2> QED BY <1>1, <1>3, <2>1 DEF Closes, StartsNone
<1>4. CASE ~o.result /\ o.rollover
  <2>1. es = <<EndedSeries(s), Started(c)>>
    BY <1>4 DEF Closing
  <2>2. 2 \in DOMAIN es /\ es[2] = Started(c)
    BY <2>1
  <2> QED BY <1>4, <2>1, <2>2 DEF Closes, Changes, Has
<1>5. CASE ~o.result /\ ~o.rollover
  <2>1. es = <<>>
    BY <1>5 DEF Closing
  <2> QED BY <1>5, <2>1 DEF Closes, StartsNone
<1> QED BY <1>2, <1>3, <1>4, <1>5

-----------------------------------------------------------------------------
(* The steps of the game *)

\* The log after the final events of a step of series s.
LEMMA ClosingAppended ==
  ASSUME NEW l \in Seq(Row), NEW b \in Nat, Within(l, b), NEW x \in 1..b, LastIs(l, x),
         NEW s \in 1..b, NEW c \in 1..b, NEW es, Closes(es, s, c)
  PROVE  /\ l \o es \in Seq(Row) /\ Within(l \o es, b)
         /\ IF Changes(es, c) THEN LastIs(l \o es, c) ELSE LastIs(l \o es, x)
         /\ \E y \in 1..b : LastIs(l \o es, y)
         /\ OverIn(l \o es) <=> OverIn(l)
         /\ CommittedIn(l) /\ Has(l, Started(s)) => CommittedIn(l \o es)
         /\ SealedIn(l) /\ ~Has(l, EndedSeries(s)) => SealedIn(l \o es)
         /\ \A r : Has(l \o es, r) <=> Has(l, r) \/ Has(es, r)
         /\ \A y : Has(es, EndedSeries(y)) => Changes(es, c) /\ y = s
         /\ ~Changes(es, c) => StartsNone(es)
<1>1. s \in Nat \ {0} /\ c \in Nat \ {0} /\ s <= b /\ c <= b
  OBVIOUS
<1>2. /\ es \in Seq(Row) /\ SealedIn(es) /\ Within(es, b) /\ ~OverIn(es)
      /\ \A j \in DOMAIN es : es[j].type = "result" => es[j].series = s
      /\ \/ StartsNone(es) /\ \A y : ~Has(es, EndedSeries(y))
         \/ LastIs(es, c) /\ Changes(es, c) /\ \A y : Has(es, EndedSeries(y)) => y = s
  BY <1>1, ClosesParts
<1>3. l \o es \in Seq(Row) /\ Within(l \o es, b)
  BY <1>2, Joined, JoinedWithin
<1>4. (OverIn(l \o es) <=> OverIn(l)) /\ \A r : Has(l \o es, r) <=> Has(l, r) \/ Has(es, r)
  BY <1>2, JoinedHas
<1>5. CommittedIn(l) /\ Has(l, Started(s)) => CommittedIn(l \o es)
  BY <1>2, JoinedCommitted
<1>6. SealedIn(l) /\ ~Has(l, EndedSeries(s)) => SealedIn(l \o es)
  BY <1>2, JoinedSealed
<1>7. StartsNone(es) => ~Changes(es, c)
  BY RowKinds DEF StartsNone, Changes, Has
<1>8. IF Changes(es, c) THEN LastIs(l \o es, c) ELSE LastIs(l \o es, x)
  BY <1>2, <1>7, JoinedLast
<1>9. \A y : Has(es, EndedSeries(y)) => Changes(es, c) /\ y = s
  BY <1>2
<1> QED BY <1>2, <1>3, <1>4, <1>5, <1>6, <1>8, <1>9

\* A step of the game, closed at once or after its pauses.
LEMMA StepKeeps ==
  ASSUME VirtualInv, NEW o \in Outcome[game][host.awaiting], Step(o), restarts' = restarts
  PROVE  VirtualInv'
<1> DEFINE s == host.series
           c == IF o.rollover THEN created + 1 ELSE created
           es == Closing(o, s, NextDraw)
<1> USE DEF VirtualInv
<1>1. /\ o.waits \in Nat /\ o.result \in BOOLEAN /\ o.rollover \in BOOLEAN /\ o.next \in Awaiting
  BY OutcomeAssumption DEF DealerTypes
<1>2. /\ ~dealing /\ deals = <<>> /\ DOMAIN deals = {} /\ Len(deals) = 0
      /\ s \in 1..created /\ NextDraw \in Nat /\ created \in Nat \ {0}
  BY IdleDealer DEF Step, Hosted, NextDraw, DealerTypes
<1>3. /\ created' = c /\ c \in Nat \ {0} /\ created <= c /\ c \in 1..c /\ s \in 1..c
      /\ (o.rollover => c > created)
  BY <1>1, <1>2 DEF Step
<1>4. Closes(es, s, c) /\ (o.rollover <=> Changes(es, c))
  <2>0. (o.rollover => c = created + 1) /\ s \in Nat /\ restarts \in Nat
    BY <1>2 DEF DealerTypes
  <2> HIDE DEF c
  <2>a. PICK x, n : x = s /\ n = NextDraw
    OBVIOUS
  <2>b. Closes(Closing(o, x, n), x, c) /\ (o.rollover => Changes(Closing(o, x, n), c))
          /\ (~o.rollover => StartsNone(Closing(o, x, n)))
    BY <1>1, <1>2, <2>0, <2>a, ClosingCloses
  <2>1. /\ Closes(es, s, c) /\ (o.rollover => Changes(es, c)) /\ (~o.rollover => StartsNone(es))
    BY <2>a, <2>b
  <2>2. StartsNone(es) => ~Changes(es, c)
    BY RowKinds DEF StartsNone, Changes, Has
  <2> QED BY <2>1, <2>2
<1>5. /\ host'.series = IF o.rollover THEN c ELSE s
      /\ host' \in [series: 0..created', drawn: Nat, awaiting: Awaiting]
  <2>1. CASE o.rollover
    <3>1. host' = Opened(c)
      BY <2>1 DEF Step
    <3> QED BY <1>3, <2>1, <3>1 DEF Opened, Awaiting
  <2>2. CASE ~o.rollover
    <3>1. host' = [host EXCEPT !.drawn = @ + 1, !.awaiting = o.next] /\ created' = created
      BY <2>2 DEF Step
    <3>2. host \in [series: 0..created, drawn: Nat, awaiting: Awaiting] /\ host.drawn + 1 \in Nat
      BY DEF DealerTypes
    <3>3. host' \in [series: 0..created, drawn: Nat, awaiting: Awaiting] /\ host'.series = host.series
      BY <1>1, <3>1, <3>2
    <3> QED BY <2>2, <3>1, <3>3
  <2> QED BY <2>1, <2>2
<1>6. /\ mishaps' = IF SessionOver THEN mishaps \cup {"afterEnd"} ELSE mishaps
      /\ UNCHANGED game
  BY DEF Step
<1>7. /\ (NotAgain' <=> NotAgain) /\ (Quiet' <=> Quiet) /\ (Undisturbed' <=> Undisturbed)
      /\ Clean' => Clean /\ ~SessionOver
  BY <1>6 DEF NotAgain, Quiet, Undisturbed, Clean
<1> HIDE DEF es
<1>8. PICK x \in 1..created : LastIs(log, x)
  BY DEF SeriesKnown
<1>9. Within(log, c) /\ x \in 1..c
  BY <1>3 DEF DealerTypes, Within
<1>10. /\ Has(log, Started(s)) \/ ~NotAgain
       /\ Clean' => SealedIn(log) /\ ~Has(log, EndedSeries(s)) /\ ~Has(log, EndedSeries(x))
       /\ Quiet => x \in seeds /\ s = x
       /\ \A y : LastIs(log, y) => y = x
  <2>1. Hosted
    BY DEF Step
  <2>2. Has(log, Started(s)) \/ ~NotAgain
    BY <1>2, <2>1 DEF HostCommitted
  <2>3. Clean' => SealedIn(log) /\ ~Has(log, EndedSeries(s)) /\ ~Has(log, EndedSeries(x))
    BY <1>7, <1>8, <2>1 DEF Sealed
  <2>4. Quiet => x \in seeds /\ s = x
    BY <1>2, <1>8 DEF Survives
  <2> QED BY <1>8, <2>2, <2>3, <2>4, LastKnown
<1>11. o.rollover => ~Has(log, EndedSeries(c)) /\ ~Has(log, Started(c))
  BY <1>3, LastKnown
<1>12. /\ log \o es \in Seq(Row) /\ Within(log \o es, c)
       /\ IF Changes(es, c) THEN LastIs(log \o es, c) ELSE LastIs(log \o es, x)
       /\ \E y \in 1..c : LastIs(log \o es, y)
       /\ OverIn(log \o es) <=> OverIn(log)
       /\ CommittedIn(log) /\ Has(log, Started(s)) => CommittedIn(log \o es)
       /\ SealedIn(log) /\ ~Has(log, EndedSeries(s)) => SealedIn(log \o es)
       /\ \A r : Has(log \o es, r) <=> Has(log, r) \/ Has(es, r)
       /\ \A y : Has(es, EndedSeries(y)) => Changes(es, c) /\ y = s
       /\ es \in Seq(Row)
  <2>1. es \in Seq(Row)
    BY <1>3, <1>4, ClosesParts
  <2> QED BY <1>3, <1>4, <1>8, <1>9, <2>1, ClosingAppended DEF DealerTypes
<1>13. ASSUME o.waits = 0
       PROVE  VirtualInv'
  <2>1. /\ log' = log \o es /\ UNCHANGED <<dealing, deals>>
        /\ seeds' = IF \E i \in DOMAIN es : es[i].type = "started"
                      THEN seeds \cup {host'.series} ELSE seeds
    BY <1>13 DEF Step, AppendPaced, es
  <2>2. DealerTypes'
    BY <1>3, <1>5, <1>6, <1>12, <2>1 DEF DealerTypes
  <2>3. SeriesKnown' /\ OneDealAtATime' /\ PendingDeals'
    BY <1>2, <1>3, <1>12, <2>1 DEF SeriesKnown, OneDealAtATime, PendingDeals
  <2>4. HostCommitted'
    <3>1. NotAgain => Has(log \o es, Started(host'.series))
      BY <1>4, <1>5, <1>10, <1>12 DEF Changes
    <3> QED BY <1>7, <2>1, <3>1 DEF HostCommitted
  <2>5. Committed'
    BY <1>7, <1>10, <1>12, <2>1 DEF Committed
  <2>6. Sealed'
    <3> SUFFICES ASSUME Clean' PROVE /\ SealedIn(log') /\ ~dealing'
                                     /\ ~Has(log', EndedSeries(host'.series))
                                     /\ \A y : LastIs(log', y) => ~Has(log', EndedSeries(y))
      BY DEF Sealed
    <3>1. SealedIn(log') /\ ~dealing'
      BY <1>2, <1>10, <1>12, <2>1
    <3>2. ~Has(log', EndedSeries(host'.series))
      <4>1. CASE o.rollover
        <5>1. host'.series = c /\ c # s /\ ~Has(log, EndedSeries(c))
          BY <1>2, <1>3, <1>5, <1>11, <4>1
        <5>2. ~Has(es, EndedSeries(c))
          BY <1>12, <5>1
        <5> QED BY <1>12, <2>1, <5>1, <5>2
      <4>2. CASE ~o.rollover
        <5>1. host'.series = s /\ ~Has(es, EndedSeries(s)) /\ ~Has(log, EndedSeries(s))
          BY <1>4, <1>5, <1>10, <1>12, <4>2
        <5> QED BY <1>12, <2>1, <5>1
      <4> QED BY <4>1, <4>2
    <3>3. \A y : LastIs(log', y) => y = IF Changes(es, c) THEN c ELSE x
      BY <1>12, <2>1, LastStartedIs
    <3>4. ~Has(log', EndedSeries(IF Changes(es, c) THEN c ELSE x))
      <4>1. CASE Changes(es, c)
        <5>1. c # s /\ ~Has(log, EndedSeries(c))
          BY <1>2, <1>3, <1>4, <1>11, <4>1
        <5>2. ~Has(es, EndedSeries(c))
          BY <1>12, <5>1
        <5> QED BY <1>12, <2>1, <4>1, <5>1, <5>2
      <4>2. CASE ~Changes(es, c)
        BY <1>10, <1>12, <2>1, <4>2
      <4> QED BY <4>1, <4>2
    <3> QED BY <3>1, <3>2, <3>3, <3>4
  <2>7. Survives'
    <3> SUFFICES ASSUME Quiet, NEW y, LastIs(log', y)
                 PROVE  y \in seeds' /\ host'.series = y
      BY <1>7 DEF Survives
    <3>1. y = IF Changes(es, c) THEN c ELSE x
      BY <1>12, <2>1, LastStartedIs
    <3>2. CASE Changes(es, c)
      <4>1. \E i \in DOMAIN es : es[i].type = "started"
        BY <3>2, RowKinds DEF Changes, Has
      <4> QED BY <1>4, <1>5, <2>1, <3>1, <3>2, <4>1
    <3>3. CASE ~Changes(es, c)
      BY <1>4, <1>5, <1>10, <2>1, <3>1, <3>3
    <3> QED BY <3>2, <3>3
  <2> QED BY <2>2, <2>3, <2>4, <2>5, <2>6, <2>7
<1>14. ASSUME o.waits # 0
       PROVE  VirtualInv'
  <2> DEFINE d == [waits |-> o.waits, closing |-> es]
  <2>1. dealing' = TRUE /\ deals' = Append(deals, d) /\ UNCHANGED <<log, seeds>>
    BY <1>14 DEF Step, es
  <2>2. d \in Deal
    BY <1>1, <1>12, <1>14 DEF Deal
  <2>3. deals' = <<d>> /\ deals' \in Seq(Deal) /\ Len(deals') = 1 /\ DOMAIN deals' = {1} /\ deals'[1] = d
    BY <1>2, <2>1, <2>2
  <2>4. d.closing = es
    OBVIOUS
  <2> HIDE DEF d
  <2>5. DealerTypes'
    BY <1>3, <1>5, <1>6, <1>9, <2>1, <2>3 DEF DealerTypes
  <2>6. SeriesKnown' /\ OneDealAtATime'
    BY <1>3, <1>8, <1>9, <2>1, <2>3 DEF SeriesKnown, OneDealAtATime
  <2>7. /\ Closes(es, s, c) /\ (NotAgain' => Has(log', Started(s)))
        /\ (Clean' => ~Has(log', EndedSeries(s)))
        /\ IF Changes(es, c) THEN c = host'.series /\ c # s ELSE host'.series = s
        /\ Quiet' => Changes(es, c) \/ LastIs(log', host'.series)
    <3>1. /\ Closes(es, s, c) /\ (NotAgain' => Has(log', Started(s)))
          /\ (Clean' => ~Has(log', EndedSeries(s)))
      BY <1>4, <1>7, <1>10, <2>1
    <3>2. IF Changes(es, c) THEN c = host'.series /\ c # s ELSE host'.series = s
      BY <1>2, <1>3, <1>4, <1>5
    <3>3. Quiet' => Changes(es, c) \/ LastIs(log', host'.series)
      BY <1>4, <1>5, <1>7, <1>8, <1>10, <2>1
    <3> QED BY <3>1, <3>2, <3>3
  <2>8. PendingDeals'
    BY <1>3, <2>3, <2>4, <2>7 DEF PendingDeals, DealPending
  <2>9. HostCommitted'
    <3>1. o.rollover => Changes(deals'[1].closing, host'.series)
      BY <1>4, <1>5, <2>3, <2>4
    <3>2. ~o.rollover /\ NotAgain => Has(log', Started(host'.series))
      BY <1>5, <1>10, <2>1
    <3> QED BY <1>7, <2>3, <3>1, <3>2 DEF HostCommitted
  <2>10. Committed'
    BY <1>7, <2>1 DEF Committed
  <2>11. Sealed'
    <3> SUFFICES ASSUME Clean' PROVE /\ SealedIn(log) /\ ~SessionOver'
                                     /\ ~Has(log, EndedSeries(host'.series))
                                     /\ \A y : LastIs(log, y) => ~Has(log, EndedSeries(y))
      BY <2>1 DEF Sealed
    <3>1. SealedIn(log) /\ ~SessionOver'
      BY <1>7, <1>10, <2>1 DEF SessionOver
    <3>2. ~Has(log, EndedSeries(host'.series))
      BY <1>5, <1>10, <1>11
    <3>3. \A y : LastIs(log, y) => ~Has(log, EndedSeries(y))
      BY <1>10
    <3> QED BY <3>1, <3>2, <3>3
  <2>12. Survives'
    BY <1>7, <1>10, <2>1 DEF Survives
  <2> QED BY <2>5, <2>6, <2>8, <2>9, <2>10, <2>11, <2>12
<1> QED BY <1>13, <1>14

-----------------------------------------------------------------------------
(* The paced deals *)

\* Another card of the running deal is shown.
LEMMA PauseKeeps ==
  ASSUME VirtualInv, NEW i \in DOMAIN deals, deals[i].waits > 1,
         deals' = [deals EXCEPT ![i].waits = @ - 1],
         UNCHANGED <<game, log, seeds, host, dealing, created, restarts, mishaps>>
  PROVE  VirtualInv'
<1> USE DEF VirtualInv
<1>1. deals \in Seq(Deal) /\ deals[i] \in Deal /\ DOMAIN deals = 1..Len(deals)
  BY DEF DealerTypes
<1>2. deals[i].waits - 1 \in Nat \ {0}
  BY <1>1 DEF Deal
<1>3. [deals[i] EXCEPT !.waits = @ - 1] \in Deal
  BY <1>1, <1>2 DEF Deal
<1>4. deals' = [deals EXCEPT ![i] = [deals[i] EXCEPT !.waits = @ - 1]]
  OBVIOUS
<1>5. deals' \in Seq(Deal) /\ Len(deals') = Len(deals) /\ DOMAIN deals' = DOMAIN deals
  BY <1>1, <1>3, <1>4, ExceptSeq
<1>6. \A j \in DOMAIN deals : deals'[j].closing = deals[j].closing
  BY <1>1, <1>4 DEF Deal
<1>7. /\ (NotAgain' <=> NotAgain) /\ (Quiet' <=> Quiet) /\ (Undisturbed' <=> Undisturbed)
      /\ (Clean' <=> Clean) /\ (SessionOver' <=> SessionOver) /\ (Hosted' <=> Hosted)
  BY DEF NotAgain, Quiet, Undisturbed, Clean, SessionOver, Hosted
<1>8. DealerTypes' /\ SeriesKnown' /\ OneDealAtATime'
  BY <1>5 DEF DealerTypes, SeriesKnown, OneDealAtATime
<1>9. PendingDeals'
  BY <1>5, <1>6, <1>7 DEF PendingDeals, DealPending
<1>10. HostCommitted'
  BY <1>5, <1>6, <1>7 DEF HostCommitted
<1>11. Committed' /\ Sealed' /\ Survives'
  BY <1>7 DEF Committed, Sealed, Survives
<1> QED BY <1>8, <1>9, <1>10, <1>11

\* A sequence of one element without it.
LEMMA NothingLeft ==
  ASSUME NEW S, NEW q \in Seq(S), Len(q) = 1
  PROVE  RemoveAt(q, 1) = <<>>
<1>1. SubSeq(q, 1, 0) = <<>> /\ SubSeq(q, 2, 1) = <<>>
  BY SubSeqEmpty
<1>2. <<>> \o <<>> = <<>>
  <2>1. <<>> \in Seq(S)
    OBVIOUS
  <2> QED BY <2>1, ConcatEmptySeq
<1>3. RemoveAt(q, 1) = SubSeq(q, 1, 0) \o SubSeq(q, 2, 1)
  BY DEF RemoveAt
<1> QED BY <1>1, <1>2, <1>3

\* The last pause ends, and the events of the deal are appended.
LEMMA DealEndKeeps ==
  ASSUME VirtualInv, NEW i \in DOMAIN deals, AppendPaced(deals[i].closing, host),
         deals' = RemoveAt(deals, i), FinishDeal(deals[i]),
         UNCHANGED <<game, host, created, restarts, mishaps>>
  PROVE  VirtualInv'
<1> USE DEF VirtualInv
<1> DEFINE es == deals[i].closing
<1>1. dealing /\ Len(deals) = 1 /\ i = 1 /\ deals \in Seq(Deal)
  BY IdleDealer DEF DealerTypes
<1>2. deals' = <<>> /\ DOMAIN deals' = {} /\ Len(deals') = 0 /\ ~dealing' /\ dealing' \in BOOLEAN
      /\ deals' \in Seq(Deal)
  <2>1. deals' = <<>>
    BY <1>1, NothingLeft
  <2>2. ~dealing' /\ dealing' \in BOOLEAN
    BY DEF FinishDeal
  <2> QED BY <2>1, <2>2
<1>3. PICK s \in 1..created, c \in 1..created : DealPending(es, s, c)
  BY DEF PendingDeals
<1>4. /\ Closes(es, s, c) /\ (NotAgain => Has(log, Started(s))) /\ (Clean => ~Has(log, EndedSeries(s)))
      /\ Undisturbed => IF Changes(es, c) THEN c = host.series /\ c # s ELSE host.series = s
      /\ Quiet => Changes(es, c) \/ LastIs(log, host.series)
  BY <1>3 DEF DealPending
<1>5. /\ log' = log \o es
      /\ seeds' = IF \E j \in DOMAIN es : es[j].type = "started"
                    THEN seeds \cup {host.series} ELSE seeds
  BY DEF AppendPaced
<1> HIDE DEF es
<1>6. PICK x \in 1..created : LastIs(log, x)
  BY DEF SeriesKnown
<1>7. /\ log' \in Seq(Row) /\ Within(log', created)
      /\ IF Changes(es, c) THEN LastIs(log', c) ELSE LastIs(log', x)
      /\ \E y \in 1..created : LastIs(log', y)
      /\ OverIn(log') <=> OverIn(log)
      /\ CommittedIn(log) /\ Has(log, Started(s)) => CommittedIn(log')
      /\ SealedIn(log) /\ ~Has(log, EndedSeries(s)) => SealedIn(log')
      /\ \A r : Has(log', r) <=> Has(log, r) \/ Has(es, r)
      /\ \A y : Has(es, EndedSeries(y)) => Changes(es, c) /\ y = s
  BY <1>4, <1>5, <1>6, ClosingAppended DEF DealerTypes
<1>8. /\ (NotAgain' <=> NotAgain) /\ (Quiet' <=> Quiet) /\ (Clean' <=> Clean)
      /\ (SessionOver' <=> SessionOver) /\ (Hosted' <=> Hosted)
      /\ (Clean => Undisturbed) /\ (Quiet => Undisturbed)
  <2>1. Clean => Undisturbed
    BY DEF Clean, Undisturbed
  <2>2. Quiet => Undisturbed
    BY DEF Quiet, Undisturbed
  <2>3. SessionOver' <=> SessionOver
    BY <1>7 DEF SessionOver, OverIn
  <2> QED BY <2>1, <2>2, <2>3 DEF NotAgain, Quiet, Clean, Hosted
<1>9. \A y : LastIs(log, y) => y = x
  BY <1>6, LastKnown
<1>10. \A y : LastIs(log', y) => y = IF Changes(es, c) THEN c ELSE x
  BY <1>7, LastStartedIs
<1>11. DealerTypes'
  BY <1>2, <1>7 DEF DealerTypes
<1>12. SeriesKnown' /\ OneDealAtATime' /\ PendingDeals'
  BY <1>2, <1>7 DEF SeriesKnown, OneDealAtATime, PendingDeals
<1>13. HostCommitted'
  <2> SUFFICES ASSUME Hosted, NotAgain PROVE Has(log', Started(host.series))
    BY <1>8 DEF HostCommitted
  <2>1. CASE Has(log, Started(host.series))
    BY <1>7, <2>1
  <2>2. CASE \E j \in DOMAIN deals : Changes(deals[j].closing, host.series)
    <3>1. Changes(es, host.series)
      BY <1>1, <2>2, IdleDealer DEF es
    <3> QED BY <1>7, <3>1 DEF Changes
  <2> QED BY <2>1, <2>2 DEF HostCommitted
<1>14. Committed'
  BY <1>4, <1>7, <1>8 DEF Committed
<1>15. Sealed'
  <2> SUFFICES ASSUME Clean PROVE /\ SealedIn(log')
                                  /\ Hosted => ~Has(log', EndedSeries(host.series))
                                  /\ \A y : LastIs(log', y) => ~Has(log', EndedSeries(y))
    BY <1>2, <1>8 DEF Sealed
  <2>1. /\ ~SessionOver /\ SealedIn(log) /\ (Hosted => ~Has(log, EndedSeries(host.series)))
        /\ ~Has(log, EndedSeries(x))
    BY <1>1, <1>6 DEF Sealed
  <2>2. CASE Changes(es, c)
    <3>1. c = host.series /\ c # s /\ Hosted
      BY <1>4, <1>8, <2>2 DEF Hosted
    <3>2. ~Has(log', EndedSeries(c))
      BY <1>7, <2>1, <3>1
    <3> QED BY <1>4, <1>7, <1>10, <2>1, <2>2, <3>1, <3>2
  <2>3. CASE ~Changes(es, c)
    BY <1>4, <1>7, <1>10, <2>1, <2>3
  <2> QED BY <2>2, <2>3
<1>16. Survives'
  <2> SUFFICES ASSUME Quiet, NEW y, LastIs(log', y)
               PROVE  y \in seeds' /\ host.series = y
    BY <1>8 DEF Survives
  <2>1. CASE Changes(es, c)
    <3>1. \E j \in DOMAIN es : es[j].type = "started"
      BY <2>1, RowKinds DEF Changes, Has
    <3> QED BY <1>4, <1>5, <1>8, <1>10, <2>1, <3>1
  <2>2. CASE ~Changes(es, c)
    BY <1>4, <1>5, <1>6, <1>9, <1>10, <2>2 DEF Survives
  <2> QED BY <2>1, <2>2
<1> QED BY <1>11, <1>12, <1>13, <1>14, <1>15, <1>16

-----------------------------------------------------------------------------
(* The dealer's messages *)

\* The dealer's next series.
LEMMA SeriesStartedKeeps ==
  ASSUME VirtualInv, HandleSeriesStarted
  PROVE  VirtualInv'
<1> USE DEF VirtualInv
<1> DEFINE s == host.series
           c == created + 1
           es == <<EndedSeries(s), Started(c)>>
<1>1. /\ created' = c /\ host' = Opened(c) /\ UNCHANGED <<game, deals, dealing, restarts>>
      /\ log' = log \o es /\ seeds' = seeds \cup {c} /\ ~SessionOver
      /\ mishaps' = MidDeal /\ s \in 1..created /\ created \in Nat \ {0}
  BY DEF HandleSeriesStarted, RotateSeries, dealVars, countVars, Hosted, DealerTypes
<1>2. c \in Nat \ {0} /\ s \in 1..c /\ c \in 1..c /\ c # s /\ c > created /\ created <= c
  BY <1>1
<1>3. Closes(es, s, c) /\ Changes(es, c)
  <2>1. 2 \in DOMAIN es /\ es[2] = Started(c)
    OBVIOUS
  <2> QED BY <2>1 DEF Closes, Changes, Has
<1> HIDE DEF es
<1>4. PICK x \in 1..created : LastIs(log, x)
  BY DEF SeriesKnown
<1>5. Within(log, c) /\ x \in 1..c
  BY <1>1, <1>2 DEF DealerTypes, Within
<1>6. /\ log' \in Seq(Row) /\ Within(log', c) /\ LastIs(log', c)
      /\ OverIn(log') <=> OverIn(log)
      /\ SealedIn(log) /\ ~Has(log, EndedSeries(s)) => SealedIn(log')
      /\ \A r : Has(log', r) <=> Has(log, r) \/ Has(es, r)
      /\ \A y : Has(es, EndedSeries(y)) => y = s
  BY <1>1, <1>2, <1>3, <1>4, <1>5, ClosingAppended DEF DealerTypes
<1>7. /\ NotAgain' => NotAgain
      /\ Clean' => Clean /\ ~dealing
      /\ Quiet' => Quiet /\ ~dealing
      /\ Undisturbed' => Undisturbed /\ ~dealing
  BY <1>1 DEF NotAgain, Clean, Quiet, Undisturbed, MidDeal
<1>8. /\ host'.series = c /\ host' \in [series: 0..c, drawn: Nat, awaiting: Awaiting]
      /\ ~Has(log', EndedSeries(c)) /\ Has(log', Started(c))
  <2>1. ~Has(log, EndedSeries(c))
    BY <1>2, LastKnown
  <2> QED BY <1>1, <1>2, <1>3, <1>6, <2>1 DEF Opened, Awaiting, Changes
<1>9. \A y : LastIs(log', y) => y = c
  BY <1>6, LastStartedIs
<1>10. DealerTypes'
  BY <1>1, <1>2, <1>6, <1>8 DEF DealerTypes
<1>11. SeriesKnown' /\ OneDealAtATime'
  BY <1>1, <1>2, <1>6 DEF SeriesKnown, OneDealAtATime
<1>12. PendingDeals'
  <2> SUFFICES ASSUME NEW i \in DOMAIN deals
               PROVE  \E y, z \in 1..c : DealPending(deals[i].closing, y, z)'
    BY <1>1 DEF PendingDeals
  <2>1. dealing
    BY IdleDealer
  <2>2. PICK y \in 1..created, z \in 1..created : DealPending(deals[i].closing, y, z)
    BY DEF PendingDeals
  <2>3. y \in 1..c /\ z \in 1..c
    BY <1>1, <1>2
  <2>4. DealPending(deals[i].closing, y, z)'
    BY <1>1, <1>6, <1>7, <2>1, <2>2 DEF DealPending, Quiet, Undisturbed
  <2> QED BY <2>3, <2>4
<1>13. HostCommitted'
  BY <1>8 DEF HostCommitted
<1>14. Committed'
  <2> SUFFICES ASSUME NotAgain' PROVE CommittedIn(log')
    BY DEF Committed
  <2>1. CommittedIn(log)
    BY <1>7 DEF Committed
  <2>2. es \in Seq(Row) /\ \A j \in DOMAIN es : es[j].type # "result"
    <3>1. DOMAIN es = {1, 2} /\ es[1].type = "ended" /\ es[2].type = "started"
      BY RowKinds DEF es
    <3>2. es \in Seq(Row)
      BY <1>1, <1>2, RowKinds DEF es
    <3> QED BY <3>1, <3>2
  <2> QED BY <1>1, <2>1, <2>2, JoinedCommitted DEF DealerTypes
<1>15. Sealed'
  <2> SUFFICES ASSUME Clean' PROVE /\ SealedIn(log') /\ ~SessionOver'
                                   /\ ~Has(log', EndedSeries(host'.series))
                                   /\ \A y : LastIs(log', y) => ~Has(log', EndedSeries(y))
    BY DEF Sealed
  <2>1. ~SessionOver'
    BY <1>1, <1>6 DEF SessionOver, OverIn
  <2>2. SealedIn(log) /\ ~Has(log, EndedSeries(s))
    BY <1>1, <1>7 DEF Sealed, Hosted
  <2> QED BY <1>6, <1>8, <1>9, <2>1, <2>2
<1>16. Survives'
  BY <1>1, <1>8, <1>9 DEF Survives
<1> QED BY <1>10, <1>11, <1>12, <1>13, <1>14, <1>15, <1>16

\* The message once more: the seed changes and the log does not.
LEMMA AgainKeeps ==
  ASSUME VirtualInv, HandleSeriesStartedAgain
  PROVE  VirtualInv'
<1> USE DEF VirtualInv
<1> DEFINE c == created + 1
<1>1. /\ created' = c /\ host' = Opened(c) /\ UNCHANGED <<game, log, seeds, deals, dealing, restarts>>
      /\ mishaps' = MidDeal \cup {"again"} /\ ~SessionOver /\ created \in Nat \ {0}
  BY DEF HandleSeriesStartedAgain, RotateSeries, dealVars, DealerTypes
<1>2. /\ c \in Nat \ {0} /\ c > created /\ created <= c
      /\ host'.series = c /\ host' \in [series: 0..c, drawn: Nat, awaiting: Awaiting]
  BY <1>1 DEF Opened, Awaiting
<1>3. /\ ~NotAgain' /\ ~Quiet' /\ (Clean' => Clean /\ ~dealing) /\ (Undisturbed' => ~dealing)
  BY <1>1 DEF NotAgain, Quiet, Clean, Undisturbed, MidDeal
<1>4. Within(log, c) /\ (\E x \in 1..c : LastIs(log, x)) /\ ~Has(log, EndedSeries(c))
  <2>1. ~Has(log, EndedSeries(c))
    BY <1>2, LastKnown
  <2> QED BY <1>1, <1>2, <2>1 DEF DealerTypes, SeriesKnown, Within
<1>5. DealerTypes' /\ SeriesKnown' /\ OneDealAtATime'
  BY <1>1, <1>2, <1>4 DEF DealerTypes, SeriesKnown, OneDealAtATime
<1>6. PendingDeals'
  <2> SUFFICES ASSUME NEW i \in DOMAIN deals
               PROVE  \E y, z \in 1..c : DealPending(deals[i].closing, y, z)'
    BY <1>1 DEF PendingDeals
  <2>1. dealing
    BY IdleDealer
  <2>2. PICK y \in 1..created, z \in 1..created : DealPending(deals[i].closing, y, z)
    BY DEF PendingDeals
  <2>3. y \in 1..c /\ z \in 1..c
    BY <1>1, <1>2
  <2>4. DealPending(deals[i].closing, y, z)'
    BY <1>1, <1>3, <2>1, <2>2 DEF DealPending
  <2> QED BY <2>3, <2>4
<1>7. HostCommitted' /\ Committed' /\ Survives'
  BY <1>3 DEF HostCommitted, Committed, Survives
<1>8. Sealed'
  <2>1. SessionOver' <=> SessionOver
    BY <1>1 DEF SessionOver
  <2> QED BY <1>1, <1>2, <1>3, <1>4, <2>1 DEF Sealed
<1> QED BY <1>5, <1>6, <1>7, <1>8

\* The end of the session.
LEMMA SessionEndedKeeps ==
  ASSUME VirtualInv, HandleSessionEnded
  PROVE  VirtualInv'
<1> USE DEF VirtualInv
<1> DEFINE es == <<EndedSeries(host.series), Over>>
<1>1. /\ log' = log \o es /\ mishaps' = MidDeal /\ ~SessionOver /\ host.series \in 1..created
      /\ UNCHANGED <<game, seeds, host, deals, dealing, created, restarts>>
  BY DEF HandleSessionEnded, Hosted, dealVars, countVars, DealerTypes
<1>2. /\ es \in Seq(Row) /\ StartsNone(es) /\ Within(es, created) /\ OverIn(es) /\ SealedIn(es)
      /\ \A j \in DOMAIN es : es[j].type # "result"
  <2>1. /\ DOMAIN es = {1, 2} /\ es[1].type = "ended" /\ es[2].type = "over"
        /\ es[1].series = host.series /\ es[1] \in Row /\ es[2] \in Row
    BY <1>1, RowKinds
  <2>2. es \in Seq(Row)
    BY <2>1
  <2> HIDE DEF es
  <2> QED BY <1>1, <2>1, <2>2 DEF StartsNone, Within, OverIn, SealedIn
<1> HIDE DEF es
<1>3. /\ log' \in Seq(Row) /\ Within(log', created) /\ OverIn(log')
      /\ (CommittedIn(log) => CommittedIn(log')) /\ (SealedIn(log) => SealedIn(log'))
      /\ \A r : Has(log, r) => Has(log', r)
      /\ \A y : LastIs(log, y) => LastIs(log', y)
  <2>1. log' \in Seq(Row) /\ Within(log', created)
    BY <1>1, <1>2, Joined, JoinedWithin DEF DealerTypes
  <2>2. OverIn(log') /\ \A r : Has(log, r) => Has(log', r)
    BY <1>1, <1>2, JoinedHas DEF DealerTypes
  <2>3. CommittedIn(log) => CommittedIn(log')
    BY <1>1, <1>2, JoinedCommitted DEF DealerTypes
  <2>4. SealedIn(log) => SealedIn(log')
    BY <1>1, <1>2, JoinedSealed DEF DealerTypes
  <2>5. \A y : LastIs(log, y) => LastIs(log', y)
    BY <1>1, <1>2, JoinedLast DEF DealerTypes
  <2> QED BY <2>1, <2>2, <2>3, <2>4, <2>5
<1>4. SessionOver'
  BY <1>3 DEF SessionOver, OverIn
<1>5. /\ (NotAgain' => NotAgain) /\ (Clean' => Clean /\ ~dealing)
      /\ (Quiet' => Quiet /\ ~dealing) /\ (Undisturbed' => ~dealing)
  BY <1>1 DEF NotAgain, Quiet, Clean, Undisturbed, MidDeal
<1>6. \A y : LastIs(log', y) => LastIs(log, y)
  BY <1>3, LastKnown, LastStartedIs
<1>7. DealerTypes' /\ SeriesKnown' /\ OneDealAtATime'
  BY <1>1, <1>3 DEF DealerTypes, SeriesKnown, OneDealAtATime
<1>8. PendingDeals'
  <2> SUFFICES ASSUME NEW i \in DOMAIN deals
               PROVE  \E y, z \in 1..created : DealPending(deals[i].closing, y, z)'
    BY <1>1 DEF PendingDeals
  <2>1. dealing
    BY IdleDealer
  <2>2. PICK y \in 1..created, z \in 1..created : DealPending(deals[i].closing, y, z)
    BY DEF PendingDeals
  <2>3. DealPending(deals[i].closing, y, z)'
    BY <1>1, <1>3, <1>5, <2>1, <2>2 DEF DealPending
  <2> QED BY <2>3
<1>9. HostCommitted'
  BY <1>1, <1>3, <1>5 DEF HostCommitted, Hosted
<1>10. Committed'
  BY <1>3, <1>5 DEF Committed
<1>11. Sealed'
  BY <1>1, <1>3, <1>4, <1>5 DEF Sealed
<1>12. Survives'
  BY <1>1, <1>5, <1>6 DEF Survives
<1> QED BY <1>7, <1>8, <1>9, <1>10, <1>11, <1>12

-----------------------------------------------------------------------------
(* The process *)

\* What the next process finds.
LEMMA RestoredParts ==
  ASSUME NEW l \in Seq(Row), NEW b \in Nat, NEW x \in 1..b, LastIs(l, x)
  PROVE  /\ Restored(l) \in [series: 0..b, drawn: Nat, awaiting: Awaiting]
         /\ Restored(l).series = IF x \in seeds THEN x ELSE 0
<1>1. LastStarted(l) = x
  BY LastStartedIs
<1>2. Restored(l) = IF x \in seeds THEN Opened(x) ELSE Opened(0)
  BY <1>1 DEF Restored
<1> QED BY <1>2 DEF Opened, Awaiting

\* The process ends between two handlers.
LEMMA RestartKeeps ==
  ASSUME VirtualInv, Restart
  PROVE  VirtualInv'
<1> USE DEF VirtualInv
<1>1. /\ UNCHANGED <<game, log, seeds, created, mishaps>> /\ host' = Restored(log)
      /\ dealing' = FALSE /\ deals' = <<>> /\ restarts' = restarts + 1
  BY DEF Restart, LoseProcess
<1>2. PICK x \in 1..created : LastIs(log, x)
  BY DEF SeriesKnown
<1>3. /\ host' \in [series: 0..created, drawn: Nat, awaiting: Awaiting]
      /\ host'.series = IF x \in seeds THEN x ELSE 0
  BY <1>1, <1>2, RestoredParts DEF DealerTypes
<1>4. \A y : LastIs(log, y) => y = x /\ Has(log, Started(x))
  BY <1>2, LastStartedIs DEF DealerTypes
<1>5. /\ (NotAgain' <=> NotAgain) /\ (Quiet' <=> Quiet) /\ (Clean' <=> Clean)
      /\ (SessionOver' <=> SessionOver)
  BY <1>1 DEF NotAgain, Quiet, Clean, SessionOver
<1>6. deals' \in Seq(Deal) /\ Len(deals') = 0 /\ DOMAIN deals' = {} /\ dealing' \in BOOLEAN
  <2>1. dealing' \in BOOLEAN
    BY <1>1
  <2>2. deals' \in Seq(Deal) /\ Len(deals') = 0 /\ DOMAIN deals' = {}
    BY <1>1
  <2> QED BY <2>1, <2>2
<1>7. DealerTypes' /\ SeriesKnown' /\ OneDealAtATime' /\ PendingDeals'
  <2>1. restarts' \in Nat
    BY <1>1 DEF DealerTypes
  <2> QED BY <1>1, <1>2, <1>3, <1>6, <2>1 DEF DealerTypes, SeriesKnown, OneDealAtATime, PendingDeals
<1>8. HostCommitted'
  BY <1>1, <1>2, <1>3, <1>4, <1>5 DEF HostCommitted, Hosted
<1>9. Committed'
  BY <1>1, <1>5 DEF Committed
<1>10. Sealed'
  <2> SUFFICES ASSUME Clean, ~SessionOver
               PROVE  /\ host'.series # 0 => ~Has(log, EndedSeries(host'.series))
                      /\ \A y : LastIs(log, y) => ~Has(log, EndedSeries(y))
    BY <1>1, <1>5 DEF Sealed, Hosted
  <2>1. \A y : LastIs(log, y) => ~Has(log, EndedSeries(y))
    BY DEF Sealed
  <2>2. host'.series # 0 => host'.series = x
    BY <1>3
  <2> QED BY <1>2, <2>1, <2>2
<1>11. Survives'
  BY <1>1, <1>2, <1>3, <1>4, <1>5 DEF Survives
<1> QED BY <1>7, <1>8, <1>9, <1>10, <1>11

\* The rows that were written when the process died: the types of the log, what it commits
\* to, and its last series.
LEMMA TornLog ==
  ASSUME VirtualInv, NEW es \in Appending, NEW k \in DOMAIN es,
         log' = log \o SubSeq(es, 1, k),
         created' = IF es[k].type = "started" /\ es[k].series > created
                      THEN created + 1 ELSE created
  PROVE  /\ created' \in Nat /\ created <= created' /\ log' \in Seq(Row) /\ Within(log', created')
         /\ NotAgain => CommittedIn(log')
         /\ \E x \in 1..created' : LastIs(log', x)
<1> USE DEF VirtualInv
<1> DEFINE t == SubSeq(es, 1, k)
<1>0. PICK x \in 1..created : LastIs(log, x)
  BY DEF SeriesKnown
<1>b. PICK b \in Nat : b = created'
  BY DEF DealerTypes
<1>1. created \in Nat \ {0} /\ b \in Nat /\ created <= b /\ x \in 1..b
      /\ b \in {created, created + 1} /\ log \in Seq(Row)
  BY <1>b DEF DealerTypes
<1>2. Within(log, b)
  BY <1>1 DEF DealerTypes, Within
<1>3. ASSUME NEW s \in 1..b, NEW c \in 1..b, Closes(es, s, c),
             \/ NotAgain => Has(log, Started(s))
             \/ \A j \in DOMAIN es : es[j].type # "result"
      PROVE  /\ log' \in Seq(Row) /\ Within(log', b)
             /\ NotAgain => CommittedIn(log')
             /\ \E y \in 1..b : LastIs(log', y)
  <2>0. s \in Nat \ {0} /\ c \in Nat \ {0} /\ s <= b /\ c <= b
    BY <1>1
  <2>1. /\ t \in Seq(Row)
        /\ \A j \in DOMAIN t :
             /\ t[j].type = "result" => t[j].series = s
             /\ t[j].type # "over" /\ t[j].series \in 1..b
        /\ StartsNone(t) \/ LastIs(t, c)
    BY <1>1, <1>3, <2>0, TornParts
  <2>2. \A j \in DOMAIN t : t[j].type = "result" => \E i \in DOMAIN es : es[i].type = "result"
    <3>1. es \in Seq(Row)
      BY <1>1, <1>3, <2>0, ClosesParts
    <3>2. k \in 1..Len(es) /\ DOMAIN es = 1..Len(es)
      BY <3>1
    <3>3. DOMAIN t = 1..k /\ \A j \in 1..k : t[j] = es[j]
      BY <3>1, <3>2
    <3> QED BY <3>2, <3>3
  <2> HIDE DEF t
  <2>3. log' = log \o t
    BY DEF t
  <2>4. Within(t, b)
    BY <2>1 DEF Within
  <2>5. log' \in Seq(Row) /\ Within(log', b)
    <3>1. log \o t \in Seq(Row)
      BY <1>1, <2>1, Joined
    <3>2. Within(log \o t, b)
      BY <1>1, <1>2, <2>1, <2>4, JoinedWithin
    <3> QED BY <2>3, <3>1, <3>2
  <2>6. NotAgain => CommittedIn(log')
    <3> SUFFICES ASSUME NotAgain PROVE CommittedIn(log')
      OBVIOUS
    <3>1. \A j \in DOMAIN t : t[j].type = "result" => Has(log, Started(t[j].series))
      BY <1>3, <2>1, <2>2
    <3>2. CommittedIn(log)
      BY DEF Committed
    <3> QED BY <1>1, <2>1, <2>3, <3>1, <3>2, JoinedCommitted
  <2>7. \E y \in 1..b : LastIs(log', y)
    BY <1>0, <1>1, <2>1, <2>3, JoinedLast
  <2> QED BY <2>5, <2>6, <2>7
<1>4. CASE \E i \in DOMAIN deals : deals[i].waits = 1 /\ es = deals[i].closing
  <2>1. PICK i \in DOMAIN deals : deals[i].waits = 1 /\ es = deals[i].closing
    BY <1>4
  <2>2. PICK s \in 1..created, c \in 1..created : DealPending(es, s, c)
    BY <2>1 DEF PendingDeals
  <2>3. s \in 1..b /\ c \in 1..b
    BY <1>1
  <2> QED BY <1>b, <1>1, <1>3, <2>2, <2>3 DEF DealPending
<1>5. CASE Hosted /\ es = <<EndedSeries(host.series), Started(created + 1)>>
  <2> DEFINE s == host.series
             c == created + 1
  <2>1. s \in 1..created /\ es = <<EndedSeries(s), Started(c)>> /\ DOMAIN es = {1, 2}
    BY <1>5 DEF Hosted, DealerTypes
  <2>2. /\ es[1].type = "ended" /\ es[2].type = "started" /\ es[1].series = s /\ es[2].series = c
        /\ es[1] \in Row /\ es[2] \in Row /\ es \in Seq(Row)
    BY <1>1, <2>1, RowKinds
  <2>3. CASE k = 2
    <3>1. b = c /\ s \in 1..b /\ c \in 1..b
      BY <1>b, <1>1, <2>1, <2>2, <2>3
    <3>2. Closes(es, s, c) /\ \A j \in DOMAIN es : es[j].type # "result"
      BY <2>1, <2>2 DEF Closes
    <3> QED BY <1>b, <1>1, <1>3, <3>1, <3>2
  <2>4. CASE k = 1
    <3>1. b = created
      BY <1>b, <2>2, <2>4
    <3>2. t \in Seq(Row) /\ DOMAIN t = {1} /\ t[1] = es[1]
      <4>1. t \in Seq(Row) /\ Len(t) = 1 /\ t[1] = es[1]
        BY <2>2, <2>4
      <4> QED BY <4>1
    <3> HIDE DEF t
    <3>3. Within(t, created) /\ StartsNone(t) /\ \A j \in DOMAIN t : t[j].type # "result"
      BY <2>1, <2>2, <3>2 DEF Within, StartsNone
    <3>4. log' = log \o t
      BY DEF t
    <3>5. log' \in Seq(Row) /\ Within(log', b)
      <4>1. log \o t \in Seq(Row)
        BY <1>1, <3>2, Joined
      <4>2. Within(log \o t, b)
        BY <1>1, <1>2, <3>1, <3>2, <3>3, JoinedWithin
      <4> QED BY <3>4, <4>1, <4>2
    <3>6. NotAgain => CommittedIn(log')
      BY <1>1, <3>2, <3>3, <3>4, JoinedCommitted DEF Committed
    <3>7. LastIs(log', x)
      BY <1>0, <1>1, <3>2, <3>3, <3>4, JoinedLast
    <3> QED BY <1>b, <1>1, <3>5, <3>6, <3>7
  <2> QED BY <2>1, <2>3, <2>4
<1>6. CASE Hosted /\ es = <<EndedSeries(host.series), Over>>
  <2>1. host.series \in 1..created /\ DOMAIN es = {1, 2} /\ es[1] = EndedSeries(host.series) /\ es[2] = Over
    BY <1>6 DEF Hosted, DealerTypes
  <2>2. /\ es[1].type = "ended" /\ es[2].type = "over" /\ es[1].series = host.series
        /\ es[1] \in Row /\ es[2] \in Row
    BY <1>1, <2>1, RowKinds
  <2>3. es \in Seq(Row) /\ Len(es) = 2
    BY <1>6, <2>1, <2>2
  <2>4. b = created
    BY <1>b, <2>1, <2>2
  <2>5. t \in Seq(Row) /\ DOMAIN t = 1..k /\ \A j \in 1..k : t[j] = es[j] /\ j \in DOMAIN es
    <3>1. k \in 1..2
      BY <2>1
    <3>2. \A j \in 1..k : j \in DOMAIN es /\ es[j] \in Row
      BY <2>1, <2>2, <3>1
    <3>3. t \in Seq(Row) /\ Len(t) = k
      BY <3>1, <3>2, SubSeqProperties
    <3>4. \A j \in 1..k : t[j] = es[1 + j - 1]
      BY <2>3, <3>1, <3>2, SubSeqProperties
    <3>5. \A j \in 1..k : t[j] = es[j]
      BY <3>1, <3>4
    <3> QED BY <3>2, <3>3, <3>5
  <2> HIDE DEF t
  <2>6. Within(t, created) /\ StartsNone(t) /\ \A j \in DOMAIN t : t[j].type # "result"
    BY <2>1, <2>2, <2>5 DEF Within, StartsNone
  <2>7. log' = log \o t
    BY DEF t
  <2>8. log' \in Seq(Row) /\ Within(log', b)
    <3>1. log \o t \in Seq(Row)
      BY <1>1, <2>5, Joined
    <3>2. Within(log \o t, b)
      BY <1>1, <1>2, <2>4, <2>5, <2>6, JoinedWithin
    <3> QED BY <2>7, <3>1, <3>2
  <2>9. NotAgain => CommittedIn(log')
    BY <1>1, <2>5, <2>6, <2>7, JoinedCommitted DEF Committed
  <2>10. LastIs(log', x)
    BY <1>0, <1>1, <2>5, <2>6, <2>7, JoinedLast
  <2> QED BY <1>b, <1>1, <2>8, <2>9, <2>10
<1> QED BY <1>b, <1>1, <1>4, <1>5, <1>6 DEF Appending

\* The process dies between two rows.
LEMMA CrashKeeps ==
  ASSUME VirtualInv, CrashWhileAppending
  PROVE  VirtualInv'
<1> USE DEF VirtualInv
<1>1. PICK es \in Appending : \E k \in DOMAIN es :
        /\ log' = log \o SubSeq(es, 1, k)
        /\ created' = IF es[k].type = "started" /\ es[k].series > created
                        THEN created + 1 ELSE created
  BY DEF CrashWhileAppending
<1>2. /\ created' \in Nat /\ created <= created' /\ log' \in Seq(Row) /\ Within(log', created')
      /\ NotAgain => CommittedIn(log')
      /\ \E x \in 1..created' : LastIs(log', x)
  BY <1>1, TornLog
<1>3. /\ mishaps' = mishaps \cup {"torn"} /\ host' = Restored(log') /\ dealing' = FALSE
      /\ deals' = <<>> /\ restarts' = restarts + 1 /\ UNCHANGED <<game, seeds>>
  BY DEF CrashWhileAppending, LoseProcess
<1>4. PICK x \in 1..created' : LastIs(log', x)
  BY <1>2
<1>5. /\ host' \in [series: 0..created', drawn: Nat, awaiting: Awaiting]
      /\ host'.series = (IF x \in seeds THEN x ELSE 0) /\ Has(log', Started(x))
  BY <1>2, <1>3, <1>4, RestoredParts, LastStartedIs
<1>6. (NotAgain' => NotAgain) /\ ~Clean' /\ ~Quiet'
  BY <1>3 DEF NotAgain, Clean, Quiet
<1>7. deals' \in Seq(Deal) /\ Len(deals') = 0 /\ DOMAIN deals' = {} /\ dealing' \in BOOLEAN
  <2>1. dealing' \in BOOLEAN
    BY <1>3
  <2>2. deals' \in Seq(Deal) /\ Len(deals') = 0 /\ DOMAIN deals' = {}
    BY <1>3
  <2> QED BY <2>1, <2>2
<1>8. restarts' \in Nat /\ created' \in Nat \ {0} /\ game' \in Game
  BY <1>2, <1>3 DEF DealerTypes
<1>9. DealerTypes' /\ SeriesKnown' /\ PendingDeals'
  BY <1>2, <1>4, <1>5, <1>7, <1>8 DEF DealerTypes, SeriesKnown, PendingDeals
<1>10. OneDealAtATime'
  BY <1>3, <1>7 DEF OneDealAtATime
<1>11. HostCommitted' /\ Committed' /\ Sealed' /\ Survives'
  BY <1>2, <1>5, <1>6 DEF HostCommitted, Hosted, Committed, Sealed, Survives
<1> QED BY <1>9, <1>10, <1>11

\* Steps that touch only timers and counts.
LEMMA OthersKeep ==
  ASSUME VirtualInv, UNCHANGED <<game, log, seeds, host, dealing, deals, created, restarts, mishaps>>
  PROVE  VirtualInv'
<1>1. /\ (NotAgain' <=> NotAgain) /\ (Quiet' <=> Quiet) /\ (Undisturbed' <=> Undisturbed)
      /\ (Clean' <=> Clean) /\ (SessionOver' <=> SessionOver) /\ (Hosted' <=> Hosted)
  BY DEF NotAgain, Quiet, Undisturbed, Clean, SessionOver, Hosted
<1>2. DealerTypes' /\ SeriesKnown' /\ OneDealAtATime' /\ PendingDeals'
  BY <1>1 DEF VirtualInv, DealerTypes, SeriesKnown, OneDealAtATime, PendingDeals, DealPending
<1>3. HostCommitted' /\ Committed' /\ Sealed' /\ Survives'
  BY <1>1 DEF VirtualInv, HostCommitted, Committed, Sealed, Survives
<1> QED BY <1>2, <1>3 DEF VirtualInv

\* The invariant is inductive.
LEMMA VirtualStep == VirtualInv /\ [VirtualNext]_virtualVars => VirtualInv'
<1> SUFFICES ASSUME VirtualInv, [VirtualNext]_virtualVars
             PROVE  VirtualInv'
  OBVIOUS
<1>1. CASE UNCHANGED virtualVars
  BY <1>1, OthersKeep DEF virtualVars, dealVars, countVars
<1>2. CASE HandleVirtual \/ ActionTimerFires
  BY <1>2, StepKeeps DEF HandleVirtual, ActionTimerFires, countVars
<1>3. CASE AutoTriggerFires
  BY <1>3, StepKeeps, OthersKeep DEF AutoTriggerFires, countVars, dealVars
<1>4. CASE HandleBetsClosed
  BY <1>4, OthersKeep DEF HandleBetsClosed, dealVars
<1>5. CASE Reveal
  <2>1. PICK i \in DOMAIN deals :
          IF deals[i].waits > 1
            THEN /\ deals' = [deals EXCEPT ![i].waits = @ - 1]
                 /\ UNCHANGED <<log, seeds, dealing, timer>>
            ELSE /\ AppendPaced(deals[i].closing, host)
                 /\ deals' = RemoveAt(deals, i)
                 /\ FinishDeal(deals[i])
                 /\ timer' = (timer \/ ArmTimer(host))
    BY <1>5 DEF Reveal
  <2>2. UNCHANGED <<game, host, created, restarts, mishaps>>
    BY <1>5 DEF Reveal, countVars
  <2>3. CASE deals[i].waits > 1
    BY <2>1, <2>2, <2>3, PauseKeeps
  <2>4. CASE ~(deals[i].waits > 1)
    BY <2>1, <2>2, <2>4, DealEndKeeps
  <2> QED BY <2>3, <2>4
<1>6. CASE HandleSeriesStarted \/ HandleSeriesStartedAgain \/ HandleSessionEnded
  BY <1>6, SeriesStartedKeeps, AgainKeeps, SessionEndedKeeps
<1>7. CASE Restart \/ CrashWhileAppending
  BY <1>7, RestartKeeps, CrashKeeps
<1> QED BY <1>1, <1>2, <1>3, <1>4, <1>5, <1>6, <1>7 DEF VirtualNext, TimersFire

-----------------------------------------------------------------------------
\* Whatever the dealer, the timers and the network do, and whenever the process ends, the
\* log, the running deal and the dealer in memory fit together.
THEOREM VirtualInvariant == VirtualSpec => []VirtualInv
BY VirtualStarts, VirtualStep, PTL DEF VirtualSpec

\* One deal runs at a time, and every result was drawn from a seed that the log has
\* committed to before, unless a repeated message changed the series without an event.
THEOREM DealsAlwaysCommitted == VirtualSpec => []DealsCommitted
<1>1. VirtualInv => DealsCommitted
  BY DEF VirtualInv, DealsCommitted, DrawsCommitted, Results, Committed, CommittedIn, NotAgain
<1> QED BY <1>1, VirtualInvariant, PTL

\* No result follows the event that reveals its seed, unless the dealer ended the series or
\* the session during a deal, somebody went on after the session, or the process died
\* between two rows.
THEOREM SeriesAlwaysSealed == VirtualSpec => []SeriesSealed
<1>1. VirtualInv => SeriesSealed
  BY DEF VirtualInv, SeriesSealed, Results, Sealed, SealedIn, Clean
<1> QED BY <1>1, VirtualInvariant, PTL

\* Whenever the process ends, the next one finds the seed of the series that is played,
\* unless something went amiss.
THEOREM DealerAlwaysSurvives == VirtualSpec => []DealerSurvives
<1>1. VirtualInv => DealerSurvives
  BY LastKnown DEF VirtualInv, DealerSurvives, Survives, Quiet
<1> QED BY <1>1, VirtualInvariant, PTL

-----------------------------------------------------------------------------
(* The entry of a throw *)

\* A throw as the page records it: the faces, none if only the total was entered.
Throw == [faces: [Die -> 0 .. 6], total: 0 .. 12, hard: {"hard", "easy", "unknown"}]

\* The types, and the throws, which EntryTypeOK leaves to the game.
EntryShape == EntryTypeOK /\ thrown \in Seq(Throw)

\* The strengthening.  RollsFromTheDice speaks of the step that records; what it needs of
\* the state before is that the dice shown were tapped since the series last changed or were
\* kept through that change by a synced store, that the log has these dice or none, and that
\* betting is closed while a die is shown, unless it was opened again.
EntryInv ==
  /\ EntryShape
  /\ \A d \in Die : dice[d] # 0 => dice[d] \in anew[d] \/ (synced /\ d \in left)
  /\ (dice # NoDice /\ bets) => reopened
  /\ (logged = dice \/ logged = NoDice) /\ (over \/ dice = logged) /\ (over => synced)

\* All of a sequence but its last element.
LEMMA FrontParts ==
  ASSUME NEW S, NEW s \in Seq(S), s # <<>>
  PROVE  Front(s) \in Seq(S) /\ Len(Front(s)) = Len(s) - 1
<1>1. Len(s) \in Nat \ {0} /\ \A i \in 1 .. Len(s) : s[i] \in S
  OBVIOUS
<1>2. PICK n \in Nat : n = Len(s) - 1
  BY <1>1
<1>3. \A i \in 1 .. n : s[i] \in S
  BY <1>1, <1>2
<1>4. SubSeq(s, 1, n) \in Seq(S)
  BY <1>3, SubSeqProperties
<1>5. Len(SubSeq(s, 1, n)) = n
  BY <1>3, SubSeqProperties
<1> QED BY <1>2, <1>4, <1>5 DEF Front

\* A full pair gives a throw with these faces.
LEMMA FacesGiveAThrow ==
  ASSUME NEW p \in [Die -> Face]
  PROVE  FromFaces(p) \in Throw /\ FromFaces(p).faces = p /\ p # NoDice
<1>0. /\ Face \subseteq 0 .. 6 /\ \A f \in Face : f \in 1 .. 6
  BY DiceEntryAssumption
<1>1. p["A"] \in 1 .. 6 /\ p["B"] \in 1 .. 6 /\ p \in [Die -> 0 .. 6]
  BY <1>0 DEF Die
<1>2. p["A"] + p["B"] \in 0 .. 12
  BY <1>1
<1>3. p # NoDice
  BY <1>1 DEF NoDice, Die
<1> QED BY <1>1, <1>2, <1>3 DEF FromFaces, Throw

\* A total gives a throw without faces.
LEMMA TotalGivesAThrow ==
  ASSUME NEW t \in 0 .. 12, NEW h \in {"hard", "easy", "unknown"}
  PROVE  FromTotal(t, h) \in Throw /\ FromTotal(t, h).faces = NoDice
BY DEF FromTotal, Throw, NoDice, Die

\* The picker's next die is a die.
LEMMA PendingIsADie ==
  ASSUME NEW p, NEW now \in Die
  PROVE  Pending(p, now) \in Die
BY DEF Pending, Die

\* A pair that is full is two faces.
LEMMA FullPair ==
  ASSUME EntryShape, Full
  PROVE  dice \in [Die -> Face]
BY DEF EntryShape, EntryTypeOK, Full, Die

\* The first state is a state of the invariant.
LEMMA EntryStarts == EntryInit => EntryInv
<1> SUFFICES ASSUME EntryInit PROVE EntryInv
  OBVIOUS
<1>1. thrown = <<>> /\ Len(thrown) = 0 /\ thrown \in Seq(Throw)
  BY DEF EntryInit
<1>2. dice \in [Die -> Face \cup {0}] /\ anew \in [Die -> SUBSET Face] /\ nextDie \in Die
  BY DEF EntryInit, NoDice, NotTapped, Die
<1>3. /\ totalMode \in BOOLEAN /\ express \in BOOLEAN /\ bets \in BOOLEAN /\ reopened \in BOOLEAN
      /\ synced \in BOOLEAN /\ over \in BOOLEAN /\ left \subseteq Die /\ logged = dice
  BY DEF EntryInit
<1>4. editing \in 0 .. Len(thrown) /\ written \in 0 .. MaxWrites /\ Len(thrown) <= written
  BY <1>1, DiceEntryAssumption DEF EntryInit
<1>5. EntryTypeOK
  BY <1>2, <1>3, <1>4 DEF EntryTypeOK
<1> QED BY <1>1, <1>5 DEF EntryInit, EntryInv, EntryShape, NoDice, Die

\* A change of the series: the dice that stay are those a synced store holds.
LEMMA ChangeShows ==
  ASSUME EntryInv, Change(thrown') \/ ChangeAndClear(thrown')
  PROVE  /\ Write(thrown') /\ logged' = NoDice /\ over' \in BOOLEAN /\ (over' => synced)
         /\ NoDice \in [Die -> Face \cup {0}] /\ dice' \in [Die -> Face \cup {0}]
         /\ left' \subseteq Die /\ (over' \/ dice' = NoDice)
         /\ \A d \in Die : dice'[d] # 0 => synced /\ d \in left'
         /\ dice' = dice \/ dice' = NoDice
         /\ nextDie' \in Die
<1>1. /\ NoDice \in [Die -> Face \cup {0}] /\ \A d \in Die : NoDice[d] = 0
      /\ synced \in BOOLEAN /\ over \in BOOLEAN /\ dice \in [Die -> Face \cup {0}] /\ nextDie \in Die
  BY DEF NoDice, EntryInv, EntryShape, EntryTypeOK
<1>2. CASE Change(thrown')
  <2>1. CASE over
    <3>1. /\ dice' = dice /\ left' = {d \in Die : dice[d] # 0} /\ over' = over /\ logged' = NoDice
          /\ Write(thrown') /\ synced
      BY <1>2, <2>1 DEF Change, DiceAfterLog, EntryInv
    <3>2. nextDie' \in Die
      BY <1>1, <1>2, PendingIsADie DEF Change
    <3> QED BY <1>1, <2>1, <3>1, <3>2
  <2>2. CASE ~over
    <3>1. /\ dice' = NoDice /\ left' = {} /\ over' = over /\ logged' = NoDice /\ Write(thrown')
      BY <1>2, <2>2 DEF Change, DiceAfterLog
    <3>2. nextDie' \in Die
      BY <1>1, <1>2, PendingIsADie DEF Change
    <3> QED BY <1>1, <2>2, <3>1, <3>2
  <2> QED BY <2>1, <2>2
<1>3. CASE ChangeAndClear(thrown')
  <2>1. /\ dice' = NoDice /\ left' = {} /\ over' = synced /\ logged' = NoDice /\ Write(thrown')
        /\ nextDie' = "A" /\ "A" \in Die
    BY <1>3 DEF ChangeAndClear, EmitLive, Die
  <2> QED BY <1>1, <2>1
<1> QED BY <1>2, <1>3

\* The count of the writes and the history of the taps after a change.
LEMMA WriteCounts ==
  ASSUME EntryShape, Write(thrown'), thrown' \in Seq(Throw), Len(thrown') <= Len(thrown) + 1
  PROVE  /\ anew' \in [Die -> SUBSET Face]
         /\ written' \in 0 .. MaxWrites /\ Len(thrown') <= written'
<1>1. written' \in 0 .. MaxWrites /\ Len(thrown') <= written'
  <2>1. Len(thrown) \in Nat /\ Len(thrown') \in Nat /\ written \in Nat /\ MaxWrites \in Nat
    BY DiceEntryAssumption DEF EntryShape, EntryTypeOK
  <2> QED BY <2>1 DEF Write, EntryShape, EntryTypeOK
<1> QED BY <1>1 DEF Write, NotTapped

\* One step of the page: the invariant goes on, and what it records was tapped.
FairThrow ==
  Recorded => /\ \A d \in Die : Last(thrown').faces[d] \in anew[d] \/ (synced /\ d \in left)
              /\ bets => reopened

\* A throw added to the series with the faces that are shown.
LEMMA PairRecorded ==
  ASSUME EntryInv, Full, Write(Append(thrown, FromFaces(dice)))
  PROVE  /\ FairThrow /\ thrown' \in Seq(Throw) /\ Len(thrown) \in Nat
         /\ Len(thrown') = Len(thrown) + 1 /\ thrown' = Append(thrown, FromFaces(dice))
<1>1. /\ dice \in [Die -> Face] /\ dice # NoDice
      /\ FromFaces(dice) \in Throw /\ FromFaces(dice).faces = dice
  BY FullPair, FacesGiveAThrow DEF EntryInv
<1>2. thrown \in Seq(Throw)
  BY DEF EntryInv, EntryShape
<1>3. /\ thrown' = Append(thrown, FromFaces(dice)) /\ thrown' \in Seq(Throw)
      /\ Len(thrown') = Len(thrown) + 1 /\ Len(thrown) \in Nat
      /\ Last(thrown') = FromFaces(dice)
  BY <1>1, <1>2 DEF Write, Last
<1>4. \A d \in Die : dice[d] \in anew[d] \/ (synced /\ d \in left)
  <2>1. dice["A"] # 0 /\ dice["B"] # 0
    BY DEF Full
  <2> QED BY <2>1 DEF EntryInv, Die
<1> QED BY <1>1, <1>3, <1>4 DEF FairThrow, EntryInv

\* The state after a change of the series is one of the invariant, whatever else it leaves.
LEMMA ChangeKeeps ==
  ASSUME EntryInv, Change(thrown') \/ ChangeAndClear(thrown'), thrown' \in Seq(Throw),
         Len(thrown') <= Len(thrown) + 1, synced' = synced,
         totalMode' \in BOOLEAN, express' \in BOOLEAN, editing' \in 0 .. Len(thrown'),
         bets' \in BOOLEAN, reopened' \in BOOLEAN,
         bets' => reopened' \/ (bets /\ (reopened => reopened'))
  PROVE  EntryInv'
<1>1. /\ Write(thrown') /\ logged' = NoDice /\ over' \in BOOLEAN /\ (over' => synced)
      /\ NoDice \in [Die -> Face \cup {0}] /\ dice' \in [Die -> Face \cup {0}]
      /\ left' \subseteq Die /\ (over' \/ dice' = NoDice)
      /\ \A d \in Die : dice'[d] # 0 => synced /\ d \in left'
      /\ dice' = dice \/ dice' = NoDice
      /\ nextDie' \in Die
  BY ChangeShows
<1>2. /\ anew' \in [Die -> SUBSET Face]
      /\ written' \in 0 .. MaxWrites /\ Len(thrown') <= written'
  BY <1>1, WriteCounts DEF EntryInv
<1>3. EntryShape'
  BY <1>1, <1>2 DEF EntryInv, EntryShape, EntryTypeOK
<1>4. NoDice' = NoDice
  BY DEF NoDice
<1>5. (dice' # NoDice /\ bets') => reopened'
  BY <1>1 DEF EntryInv
<1>6. \A d \in Die : dice'[d] # 0 => dice'[d] \in anew'[d] \/ (synced' /\ d \in left')
  BY <1>1
<1>7. (logged' = dice' \/ logged' = NoDice) /\ (over' \/ dice' = logged') /\ (over' => synced')
  BY <1>1
<1> QED BY <1>3, <1>4, <1>5, <1>6, <1>7 DEF EntryInv

-----------------------------------------------------------------------------
(* The steps *)

\* A face that is tapped: shown to the displays, or, with a full pair in express mode, the
\* pair recorded.
LEMMA FaceStep ==
  ASSUME EntryInv, NEW d \in Die, NEW f \in Face, FaceSelected(d, f)
  PROVE  EntryInv' /\ FairThrow
<1> DEFINE tapped == [dice EXCEPT ![d] = f]
<1>1. /\ UNCHANGED <<synced, totalMode, express, editing>> /\ reopened' = (editing # 0)
      /\ totalMode' \in BOOLEAN /\ express' \in BOOLEAN /\ reopened' \in BOOLEAN
      /\ editing' \in 0 .. Len(thrown) /\ Len(thrown) \in Nat /\ bets \in BOOLEAN
      /\ bets' = (bets /\ editing # 0) /\ bets' \in BOOLEAN
  BY DEF FaceSelected, modeVars, BetsAfterEntry, EntryInv, EntryShape, EntryTypeOK
<1>2. CASE Full /\ ChangeAndClear(Append(thrown, FromFaces(dice)))
  <2>1. /\ FairThrow /\ thrown' \in Seq(Throw)
        /\ Len(thrown) \in Nat /\ Len(thrown') = Len(thrown) + 1
    BY <1>2, PairRecorded DEF ChangeAndClear
  <2>2. editing' \in 0 .. Len(thrown') /\ ChangeAndClear(thrown')
    BY <1>1, <1>2, <2>1 DEF ChangeAndClear, Write
  <2>3. Len(thrown') <= Len(thrown) + 1
    BY <2>1
  <2> QED BY <1>1, <2>1, <2>2, <2>3, ChangeKeeps
<1>3. CASE /\ EmitLive(tapped) /\ left' = left \ {d}
           /\ nextDie' = Pending(tapped, IF d = "A" THEN "B" ELSE nextDie)
           /\ anew' = [anew EXCEPT ![d] = @ \cup {f}]
           /\ UNCHANGED <<thrown, written>>
  <2>1. /\ dice' = tapped /\ tapped \in [Die -> Face \cup {0}]
        /\ logged' = tapped /\ over' = synced /\ left' \subseteq Die
    BY <1>3 DEF EmitLive, EntryInv, EntryShape, EntryTypeOK
  <2>2. anew' \in [Die -> SUBSET Face]
    BY <1>3 DEF EntryInv, EntryShape, EntryTypeOK
  <2>3. nextDie' \in Die
    BY <1>3, PendingIsADie DEF EntryInv, EntryShape, EntryTypeOK, Die
  <2>4. EntryShape'
    BY <1>1, <1>3, <2>1, <2>2, <2>3 DEF EntryInv, EntryShape, EntryTypeOK
  <2>5. \A e \in Die : dice'[e] # 0 => dice'[e] \in anew'[e] \/ (synced' /\ e \in left')
    BY <1>1, <1>3, <2>1 DEF EntryInv, EntryShape, EntryTypeOK
  <2>6. bets' => reopened'
    BY <1>1
  <2>7. FairThrow
    BY <1>3 DEF FairThrow, Recorded, EntryInv, EntryShape
  <2>8. (logged' = dice' \/ logged' = NoDice') /\ (over' \/ dice' = logged') /\ (over' => synced')
    BY <1>1, <2>1
  <2> QED BY <2>4, <2>5, <2>6, <2>7, <2>8 DEF EntryInv
<1> QED BY <1>2, <1>3 DEF FaceSelected

\* The picker's own buttons: the pair recorded past the page, or cleared.
LEMMA PickerButtons ==
  ASSUME EntryInv, PickerCommit \/ PickerClear
  PROVE  EntryInv' /\ FairThrow
<1>1. CASE PickerCommit
  <2>1. /\ FairThrow /\ thrown' \in Seq(Throw) /\ Len(thrown') = Len(thrown) + 1
        /\ thrown' = Append(thrown, FromFaces(dice)) /\ Len(thrown) \in Nat
    BY <1>1, PairRecorded DEF PickerCommit, ChangeAndClear
  <2>2. /\ bets' \in BOOLEAN /\ totalMode' \in BOOLEAN /\ express' \in BOOLEAN
        /\ reopened' \in BOOLEAN /\ editing' = editing /\ synced' = synced
        /\ (bets' => bets) /\ reopened' = reopened
        /\ editing \in 0 .. Len(thrown) /\ Len(thrown) \in Nat
    BY <1>1 DEF PickerCommit, modeVars, BetsAfterEntry, EntryInv, EntryShape, EntryTypeOK
  <2>3. editing' \in 0 .. Len(thrown') /\ Len(thrown') <= Len(thrown) + 1
    BY <2>1, <2>2
  <2>4. ChangeAndClear(thrown')
    BY <1>1, <2>1 DEF PickerCommit
  <2> QED BY <2>1, <2>2, <2>3, <2>4, ChangeKeeps
<1>2. CASE PickerClear
  <2>1. /\ dice' = NoDice /\ NoDice \in [Die -> Face \cup {0}] /\ nextDie' = "A" /\ "A" \in Die
        /\ UNCHANGED <<synced, totalMode, express, editing, thrown, written, anew, reopened>>
        /\ bets' = (bets /\ editing # 0) /\ logged' = NoDice /\ over' = synced /\ left' = {}
    BY <1>2 DEF PickerClear, EmitLive, modeVars, BetsAfterEntry, NoDice, Die
  <2>2. EntryShape'
    BY <2>1 DEF EntryInv, EntryShape, EntryTypeOK
  <2>3. NoDice' = NoDice /\ \A e \in Die : dice'[e] = 0
    BY <2>1 DEF NoDice
  <2>4. FairThrow
    BY <2>1 DEF FairThrow, Recorded, EntryInv, EntryShape
  <2> QED BY <2>1, <2>2, <2>3, <2>4 DEF EntryInv
<1> QED BY <1>1, <1>2

\* The chips: a total without faces, whatever the picker shows.
LEMMA QuickStepKeeps ==
  ASSUME EntryInv, QuickStep
  PROVE  EntryInv' /\ FairThrow
<1>1. ASSUME NEW t \in 0 .. 12, NEW h \in {"hard", "easy", "unknown"}, QuickEntry(t, h)
      PROVE  EntryInv' /\ FairThrow
  <2> DEFINE th == FromTotal(t, h)
  <2>1. th \in Throw /\ th.faces = NoDice
    BY TotalGivesAThrow
  <2> HIDE DEF th
  <2>2. /\ thrown \in Seq(Throw) /\ thrown' = Append(thrown, th) /\ Len(thrown) \in Nat
        /\ Append(thrown, th) \in Seq(Throw) /\ Len(Append(thrown, th)) = Len(thrown) + 1
        /\ Change(Append(thrown, th)) /\ Change(thrown')
    BY <1>1, <2>1 DEF QuickEntry, Change, Write, th, EntryInv, EntryShape
  <2>3. /\ totalMode' \in BOOLEAN /\ express' \in BOOLEAN /\ bets' \in BOOLEAN
        /\ synced' = synced /\ bets' = bets /\ reopened' = reopened
        /\ reopened' \in BOOLEAN /\ editing' \in 0 .. Len(thrown)
    BY <1>1 DEF QuickEntry, modeVars, EntryInv, EntryShape, EntryTypeOK
  <2>4. EntryInv'
    <3>1. /\ editing' \in 0 .. Len(thrown') /\ thrown' \in Seq(Throw)
          /\ Len(thrown') <= Len(thrown) + 1
      BY <2>2, <2>3
    <3> QED BY <2>2, <2>3, <3>1, ChangeKeeps
  <2>5. Last(thrown') = th
    BY <2>1, <2>2 DEF Last
  <2> QED BY <2>1, <2>4, <2>5 DEF FairThrow, Recorded
<1>2. CASE ToggleTotals
  <2>1. nextDie' \in Die
    BY <1>2, PendingIsADie DEF ToggleTotals, Die
  <2>2. EntryShape'
    BY <1>2, <2>1 DEF ToggleTotals, liveVars, EntryInv, EntryShape, EntryTypeOK
  <2>3. FairThrow
    BY <1>2 DEF ToggleTotals, FairThrow, Recorded, EntryInv, EntryShape
  <2> QED BY <1>2, <2>2, <2>3 DEF ToggleTotals, liveVars, EntryInv, NoDice
<1>3. CASE SevenOut
  BY <1>1, <1>3 DEF SevenOut
<1>4. CASE \E t \in Total : TotalChip(t) \/ HardChip(t)
  <2>1. Total \subseteq 0 .. 12
    BY DiceEntryAssumption
  <2> QED BY <1>1, <1>4, <2>1 DEF TotalChip, HardChip
<1> QED BY <1>2, <1>3, <1>4 DEF QuickStep

\* The page's confirmation: the pair recorded, or put in the place of the throw under edit.
LEMMA ConfirmStep ==
  ASSUME EntryInv, PageConfirm
  PROVE  EntryInv' /\ FairThrow
<1>1. /\ Full /\ editing' = 0 /\ UNCHANGED <<synced, totalMode, express, reopened>>
      /\ (bets' => bets)
      /\ bets' \in BOOLEAN /\ totalMode' \in BOOLEAN /\ express' \in BOOLEAN
      /\ reopened' \in BOOLEAN /\ editing \in 0 .. Len(thrown)
      /\ thrown \in Seq(Throw) /\ Len(thrown) \in Nat
  BY DEF PageConfirm, modeVars, BetsAfterEntry, EntryInv, EntryShape, EntryTypeOK
<1>2. FromFaces(dice) \in Throw
  BY <1>1, FullPair, FacesGiveAThrow DEF EntryInv
<1>3. CASE editing = 0
  <2>1. Change(Append(thrown, FromFaces(dice))) /\ Write(Append(thrown, FromFaces(dice)))
    BY <1>3 DEF PageConfirm, Change
  <2>2. /\ FairThrow /\ thrown' \in Seq(Throw) /\ thrown' = Append(thrown, FromFaces(dice))
        /\ Len(thrown) \in Nat /\ Len(thrown') = Len(thrown) + 1
    BY <1>1, <2>1, PairRecorded
  <2>3. editing' \in 0 .. Len(thrown') /\ Len(thrown') <= Len(thrown) + 1 /\ Change(thrown')
    BY <1>1, <2>1, <2>2
  <2> QED BY <1>1, <2>2, <2>3, ChangeKeeps
<1>4. CASE editing # 0
  <2> DEFINE ts == [thrown EXCEPT ![editing] = FromFaces(dice)]
  <2>1. ChangeAndClear(thrown') /\ thrown' = ts
    BY <1>4 DEF PageConfirm, ChangeAndClear, Write
  <2>2. ts \in Seq(Throw) /\ Len(ts) = Len(thrown)
    BY <1>1, <1>2, <1>4, ExceptSeq
  <2>3. editing' \in 0 .. Len(thrown') /\ Len(thrown') <= Len(thrown) + 1
    BY <1>1, <2>1, <2>2
  <2>4. EntryInv'
    BY <1>1, <2>1, <2>2, <2>3, ChangeKeeps
  <2>5. FairThrow
    BY <2>1, <2>2, <1>1 DEF FairThrow, Recorded
  <2> QED BY <2>4, <2>5
<1> QED BY <1>3, <1>4

\* The undo of the last throw records nothing.
LEMMA UndoStep ==
  ASSUME EntryInv, UndoThrow
  PROVE  EntryInv' /\ FairThrow
<1>1. /\ thrown \in Seq(Throw) /\ thrown # <<>> /\ editing' = 0
      /\ totalMode' \in BOOLEAN /\ express' \in BOOLEAN /\ bets' \in BOOLEAN
      /\ synced' = synced /\ bets' = bets /\ reopened' = reopened
      /\ reopened' \in BOOLEAN /\ Change(thrown') /\ thrown' = Front(thrown)
  BY DEF UndoThrow, Change, Write, modeVars, EntryInv, EntryShape, EntryTypeOK
<1>2. Front(thrown) \in Seq(Throw) /\ Len(Front(thrown)) = Len(thrown) - 1
  BY <1>1, FrontParts
<1>3. Len(thrown) \in Nat /\ Len(thrown') <= Len(thrown) + 1 /\ editing' \in 0 .. Len(thrown')
  <2>1. Len(thrown) \in Nat \ {0}
    BY <1>1
  <2> QED BY <1>1, <1>2, <2>1
<1>4. EntryInv'
  BY <1>1, <1>2, <1>3, ChangeKeeps
<1>5. FairThrow
  BY <1>1, <1>2, <1>3 DEF FairThrow, Recorded
<1> QED BY <1>4, <1>5

\* An edit that is cancelled: the dice are those of the log.
LEMMA CancelStep ==
  ASSUME EntryInv, CancelEdit
  PROVE  EntryInv' /\ FairThrow
<1>1. /\ dice' = logged /\ logged' = logged /\ over' = FALSE /\ left' = left /\ editing' = 0
      /\ UNCHANGED <<synced, totalMode, express, bets, thrown, written, anew, reopened>>
  BY DEF CancelEdit, modeVars
<1>2. nextDie' \in Die
  BY PendingIsADie DEF CancelEdit, EntryInv, EntryShape, EntryTypeOK
<1>3. EntryShape'
  <2>1. editing' \in 0 .. Len(thrown)
    BY <1>1 DEF EntryInv, EntryShape, EntryTypeOK
  <2> QED BY <1>1, <1>2, <2>1 DEF EntryInv, EntryShape, EntryTypeOK
<1>4. NoDice' = NoDice /\ \A d \in Die : NoDice[d] = 0
  BY DEF NoDice
<1>5. \A d \in Die : dice'[d] # 0 => dice'[d] \in anew'[d] \/ (synced' /\ d \in left')
  BY <1>1, <1>4 DEF EntryInv
<1>6. (dice' # NoDice /\ bets') => reopened'
  BY <1>1 DEF EntryInv
<1>7. FairThrow
  BY <1>1 DEF FairThrow, Recorded, EntryInv, EntryShape
<1> QED BY <1>1, <1>3, <1>4, <1>5, <1>6, <1>7 DEF EntryInv

\* The rest of the page touches neither the dice nor the series.
LEMMA PageStepKeeps ==
  ASSUME EntryInv, PageStep
  PROVE  EntryInv' /\ FairThrow
<1>1. CASE \/ OpenBets \/ SetExpress \/ \E i \in DOMAIN thrown : BeginEdit(i)
  <2>1. UNCHANGED <<synced, dice, logged, over, left, nextDie, totalMode, thrown, written, anew>>
    BY <1>1 DEF OpenBets, SetExpress, BeginEdit, modeVars, liveVars
  <2>2. /\ express' \in BOOLEAN /\ bets' \in BOOLEAN /\ reopened' \in BOOLEAN
        /\ editing' \in 0 .. Len(thrown)
    <3>1. Len(thrown) \in Nat /\ DOMAIN thrown = 1 .. Len(thrown) /\ editing \in 0 .. Len(thrown)
      BY DEF EntryInv, EntryShape, EntryTypeOK
    <3>2. editing' = editing \/ editing' \in DOMAIN thrown
      BY <1>1 DEF OpenBets, SetExpress, BeginEdit
    <3>3. editing' \in 0 .. Len(thrown)
      BY <3>1, <3>2
    <3>4. express' \in BOOLEAN /\ bets' \in BOOLEAN /\ reopened' \in BOOLEAN
      BY <1>1 DEF OpenBets, SetExpress, BeginEdit, modeVars, EntryInv, EntryShape, EntryTypeOK
    <3> QED BY <3>3, <3>4
  <2>3. EntryShape'
    BY <2>1, <2>2 DEF EntryInv, EntryShape, EntryTypeOK
  <2>4. (dice' # NoDice' /\ bets') => reopened'
    BY <1>1, <2>1 DEF OpenBets, SetExpress, BeginEdit, EntryInv, NoDice
  <2>5. FairThrow
    BY <2>1 DEF FairThrow, Recorded, EntryInv, EntryShape
  <2>6. NoDice' = NoDice
    BY DEF NoDice
  <2> QED BY <2>1, <2>3, <2>4, <2>5, <2>6 DEF EntryInv
<1> QED BY <1>1, CancelStep, ConfirmStep, UndoStep DEF PageStep

\* Every step keeps the invariant and records only what was tapped.
LEMMA EntryStep == EntryInv /\ [EntryNext]_entryVars => EntryInv' /\ (FairThrow \/ UNCHANGED entryVars)
<1> SUFFICES ASSUME EntryInv, [EntryNext]_entryVars
             PROVE  EntryInv' /\ (FairThrow \/ UNCHANGED entryVars)
  OBVIOUS
<1>1. CASE UNCHANGED entryVars
  BY <1>1 DEF entryVars, modeVars, liveVars, EntryInv, EntryShape, EntryTypeOK, NoDice
<1>2. CASE PickerStep
  BY <1>2, PickerButtons, FaceStep DEF PickerStep, Digit, TapFace, EntryInv, EntryShape, EntryTypeOK
<1>3. CASE QuickStep
  BY <1>3, QuickStepKeeps
<1>4. CASE PageStep
  BY <1>4, PageStepKeeps
<1> QED BY <1>1, <1>2, <1>3, <1>4 DEF EntryNext

-----------------------------------------------------------------------------
\* However the dealer taps, corrects, undoes and changes modes, the picker shows faces that
\* were tapped since the series last changed or that a synced store has kept through that
\* change, and betting is closed while it shows any, unless the dealer opened it again or is
\* editing.
THEOREM EntryInvariant == EntrySpec => []EntryInv
<1>1. EntryInv /\ [EntryNext]_entryVars => EntryInv'
  BY EntryStep
<1> QED BY <1>1, EntryStarts, PTL DEF EntrySpec

\* A throw whose faces are recorded was tapped for it, each die since the series last
\* changed unless a synced store has kept it, and no bet could be made since its last die,
\* unless the dealer opened the bets again or was editing: whatever was cleared, taken back
\* or confirmed in between.
THEOREM RollsFromTheDiceAlways == EntrySpec => RollsFromTheDice
<1>1. EntryInv /\ [EntryNext]_entryVars => [FairThrow]_entryVars
  BY EntryStep
<1>2. FairThrow <=> (Recorded => /\ \A d \in Die : Last(thrown').faces[d] \in anew[d] \/ (synced /\ d \in left)
                                 /\ bets => reopened)
  BY DEF FairThrow
<1> QED BY <1>1, <1>2, EntryInvariant, PTL DEF EntrySpec, RollsFromTheDice

-----------------------------------------------------------------------------
(* Craps: rolls and boards *)

ThrownRow == [total: 2 .. 12, hard: {"hard", "easy", "unknown"}, round: BOOLEAN]

Decisions == {"natural", "craps", "point_established", "point_made", "seven_out", "none"}

RollRow == [total: 2 .. 12, hard: {"hard", "easy", "unknown"}, round: BOOLEAN,
            phase: {"come_out", "point"}, before: Point \cup {0}, decision: Decisions]

Thrown == ThrownRow \cup RollRow

ShooterCount == [rolls: Nat, points: SUBSET Point, totals: SUBSET (2 .. 12)]

CrapsBoard == [phase: {"come_out", "point"}, point: Point \cup {0}, shooter: ShooterCount, rolls: Seq(RollRow)]

\* The record of roll d after board b.
RowOf(b, d) == [total |-> d.total, hard |-> d.hard, round |-> d.round, phase |-> b.phase, before |-> b.point,
                decision |-> Decision(d.total, b.phase, b.point)]

LEMMA DecisionTypes ==
  ASSUME NEW total \in 2 .. 12, NEW phase \in {"come_out", "point"}, NEW point \in Point \cup {0}
  PROVE  LET decision == Decision(total, phase, point) IN
         /\ decision \in Decisions
         /\ decision = "point_made" => point \in Point
         /\ Puck(decision, total, phase, point)[1] \in {"come_out", "point"}
         /\ Puck(decision, total, phase, point)[2] \in Point \cup {0}
<1>1. Decision(total, phase, point) \in Decisions
  BY DEF Decision, Decisions
<1>2. Decision(total, phase, point) = "point_made" => point \in Point
  BY DEF Decision, Point
<1>3. Decision(total, phase, point) = "point_established" => total \in Point
  BY DEF Decision
<1>4. /\ Puck(Decision(total, phase, point), total, phase, point)[1] \in {"come_out", "point"}
      /\ Puck(Decision(total, phase, point), total, phase, point)[2] \in Point \cup {0}
  BY <1>1, <1>3 DEF Puck
<1> QED BY <1>1, <1>2, <1>4

LEMMA ThrownParts ==
  ASSUME NEW d \in Thrown
  PROVE  d.total \in 2 .. 12 /\ d.hard \in {"hard", "easy", "unknown"} /\ d.round \in BOOLEAN
<1>1. CASE d \in ThrownRow
  BY <1>1 DEF ThrownRow
<1>2. CASE d \in RollRow
  BY <1>2 DEF RollRow
<1> QED BY <1>1, <1>2 DEF Thrown

LEMMA AddRollTypes ==
  ASSUME NEW b \in CrapsBoard, NEW d \in Thrown
  PROVE  LET y == AddRoll(b, d)
             puck == Puck(Decision(d.total, b.phase, b.point), d.total, b.phase, b.point) IN
         /\ y \in CrapsBoard
         /\ RowOf(b, d) \in RollRow
         /\ y.phase = puck[1] /\ y.point = puck[2]
         /\ y.rolls = Append(b.rolls, RowOf(b, d))
<1> DEFINE decision == Decision(d.total, b.phase, b.point)
           puck == Puck(decision, d.total, b.phase, b.point)
           sh == AddToShooter(b.shooter, decision, d.total, b.point)
           row == RowOf(b, d)
<1>1. /\ b.phase \in {"come_out", "point"} /\ b.point \in Point \cup {0}
      /\ b.shooter \in ShooterCount /\ b.rolls \in Seq(RollRow)
  BY DEF CrapsBoard
<1>2. d.total \in 2 .. 12 /\ d.hard \in {"hard", "easy", "unknown"} /\ d.round \in BOOLEAN
  BY ThrownParts
<1>3. /\ decision \in Decisions
      /\ decision = "point_made" => b.point \in Point
      /\ puck[1] \in {"come_out", "point"} /\ puck[2] \in Point \cup {0}
  BY <1>1, <1>2, DecisionTypes
<1>4. AddRoll(b, d) = [phase |-> puck[1], point |-> puck[2], shooter |-> sh, rolls |-> Append(b.rolls, row)]
  BY DEF AddRoll, RowOf
<1>5. row \in RollRow
  BY <1>1, <1>2, <1>3 DEF RowOf, RollRow
<1>6. sh \in ShooterCount
  <2> HIDE DEF decision
  <2>1. CASE decision = "point_made"
    BY <2>1, <1>1, <1>2, <1>3 DEF AddToShooter, ShooterCount
  <2>2. CASE decision # "point_made"
    BY <2>2, <1>1, <1>2 DEF AddToShooter, ShooterCount
  <2> QED BY <2>1, <2>2
<1> HIDE DEF decision, puck, sh, row
<1>7. Append(b.rolls, row) \in Seq(RollRow)
  BY <1>1, <1>5
<1>8. AddRoll(b, d) \in CrapsBoard
  BY <1>3, <1>4, <1>6, <1>7 DEF CrapsBoard
<1>9. /\ AddRoll(b, d).phase = puck[1] /\ AddRoll(b, d).point = puck[2]
      /\ AddRoll(b, d).rolls = Append(b.rolls, row)
  BY <1>4
<1> QED BY <1>5, <1>8, <1>9 DEF decision, puck, row

(* The board of a list of rolls *)

AddRollBy == [p \in CrapsBoard \X Thrown |-> AddRoll(p[1], p[2])]

\* The function by which FoldLeft classifies the rolls.
RollFolder(g, s) ==
  g = [S \in SUBSET DOMAIN s |-> IF S = {} THEN EmptyBoard ELSE AddRoll(g[S \ {Max(S)}], s[Max(S)])]

LEMMA RebuiltIsChosen ==
  ASSUME NEW s
  PROVE  Rebuilt(s) = (CHOOSE g : RollFolder(g, s))[DOMAIN s]
BY DEF Rebuilt, FoldLeft, MapThenFoldSet, RollFolder

LEMMA EmptyBoardType == EmptyBoard \in CrapsBoard
<1>1. NoRolls \in ShooterCount
  BY DEF NoRolls, ShooterCount
<1> QED BY <1>1 DEF EmptyBoard, CrapsBoard

LEMMA RebuiltFolds ==
  ASSUME NEW s \in Seq(Thrown)
  PROVE  /\ Folding(AddRollBy, CrapsBoard, Thrown)
         /\ Rebuilt(s) = FoldOf(AddRollBy, EmptyBoard, s)
<1> DEFINE F == AddRollBy
           X == CrapsBoard
           Y == Thrown
           b == EmptyBoard
           c == CHOOSE g : RollFolder(g, s)
<1>0. b \in X
  BY EmptyBoardType
<1>1. Folding(F, X, Y)
  BY AddRollTypes DEF AddRollBy, Folding
<1>2. \A q \in X, e \in Y : F[<<q, e>>] = AddRoll(q, e)
  BY DEF AddRollBy
<1>3. Len(s) \in Nat /\ DOMAIN s = 1..Len(s) /\ s \in Seq(Y)
  OBVIOUS
<1>9. \A g : RollFolder(g, s) <=>
        g = [S \in SUBSET DOMAIN s |-> IF S = {} THEN b ELSE AddRoll(g[S \ {Max(S)}], s[Max(S)])]
  BY DEF RollFolder
<1> HIDE DEF F, b, X, Y
<1>4. ASSUME NEW S \in SUBSET DOMAIN s, S # {}
      PROVE  s[Max(S)] \in Y /\ S \ {Max(S)} \in SUBSET DOMAIN s
  <2> DEFINE n == Len(s)
  <2>1. n \in Nat /\ S \in SUBSET (1..n)
    BY <1>3
  <2> HIDE DEF n
  <2>2. Max(S) \in S
    BY <1>4, <2>1, MaxOfPart
  <2> QED BY <2>2, <1>3
<1>5. RollFolder(c, s)
  <2>1. PICK g : Folder(g, F, b, s) /\ \A S \in SUBSET DOMAIN s : g[S] \in X
    BY <1>0, <1>1, <1>3, TypedFolder
  <2>2. ASSUME NEW S \in SUBSET DOMAIN s
        PROVE  (IF S = {} THEN b ELSE F[<<g[S \ {Max(S)}], s[Max(S)]>>])
             = (IF S = {} THEN b ELSE AddRoll(g[S \ {Max(S)}], s[Max(S)]))
    BY <1>2, <1>4, <2>1
  <2>3. RollFolder(g, s)
    BY <2>1, <2>2, <1>9 DEF Folder
  <2> QED BY <2>3
<1>6. Rebuilt(s) = c[DOMAIN s]
  BY RebuiltIsChosen
<1> HIDE DEF c
<1>7. FoldsBy(c, F, b, s, Len(s), X)
  <2>1. c[{}] = b
    BY <1>5, <1>9
  <2>2. ASSUME NEW S \in SUBSET (1..Len(s)), S # {}, c[S \ {Max(S)}] \in X
        PROVE  c[S] = F[<<c[S \ {Max(S)}], s[Max(S)]>>]
    <3>1. S \in SUBSET DOMAIN s
      BY <1>3
    <3>2. c[S] = AddRoll(c[S \ {Max(S)}], s[Max(S)])
      BY <1>5, <1>9, <2>2, <3>1
    <3>3. s[Max(S)] \in Y
      BY <1>4, <2>2, <3>1
    <3> QED BY <1>2, <2>2, <3>2, <3>3
  <2> QED BY <2>1, <2>2 DEF FoldsBy
<1>8. c[DOMAIN s] = FoldOf(F, b, s)
  BY <1>0, <1>1, <1>3, <1>7, FoldByFunction
<1> QED BY <1>1, <1>6, <1>8 DEF F, b, X, Y

LEMMA RebuiltSteps ==
  /\ Rebuilt(<<>>) = EmptyBoard
  /\ \A s \in Seq(Thrown) : /\ Rebuilt(s) \in CrapsBoard
                            /\ \A e \in Thrown : Rebuilt(Append(s, e)) = AddRoll(Rebuilt(s), e)
<1> DEFINE F == AddRollBy
           X == CrapsBoard
           Y == Thrown
           b == EmptyBoard
<1>1. <<>> \in Seq(Y) /\ \A s \in Seq(Y), e \in Y : Append(s, e) \in Seq(Y)
  OBVIOUS
<1>2. Folding(F, X, Y) /\ b \in X
  BY <1>1, RebuiltFolds, EmptyBoardType
<1>3. \A s \in Seq(Y) : Rebuilt(s) = FoldOf(F, b, s)
  BY RebuiltFolds
<1>4. \A q \in X, e \in Y : F[<<q, e>>] = AddRoll(q, e)
  BY DEF AddRollBy
<1> HIDE DEF F, X, Y, b
<1>5. /\ FoldOf(F, b, <<>>) = b
      /\ \A s \in Seq(Y) : /\ FoldOf(F, b, s) \in X
                           /\ \A e \in Y : FoldOf(F, b, Append(s, e)) = F[<<FoldOf(F, b, s), e>>]
  BY <1>2, FoldSteps
<1>6. ASSUME NEW s \in Seq(Y)
      PROVE  Rebuilt(s) \in X /\ \A e \in Y : Rebuilt(Append(s, e)) = AddRoll(Rebuilt(s), e)
  <2>1. Rebuilt(s) = FoldOf(F, b, s) /\ Rebuilt(s) \in X
    BY <1>3, <1>5
  <2>2. ASSUME NEW e \in Y PROVE Rebuilt(Append(s, e)) = AddRoll(Rebuilt(s), e)
    <3>1. Rebuilt(Append(s, e)) = FoldOf(F, b, Append(s, e))
      BY <1>1, <1>3
    <3>2. Rebuilt(Append(s, e)) = F[<<Rebuilt(s), e>>]
      BY <1>5, <2>1, <3>1
    <3> QED BY <1>4, <2>1, <3>2
  <2> QED BY <2>1, <2>2
<1>7. Rebuilt(<<>>) = b
  BY <1>1, <1>3, <1>5
<1> QED BY <1>6, <1>7 DEF X, Y, b

\* A board rebuilt from the rows it shows is the same board, and its puck is on a number or off.
LEMMA RebuiltAgain ==
  ASSUME NEW s \in Seq(Thrown)
  PROVE  /\ Rebuilt(s) \in CrapsBoard
         /\ Rebuilt(Rebuilt(s).rolls) = Rebuilt(s)
         /\ Rebuilt(s).rolls \in Seq(RollRow)
         /\ Len(Rebuilt(s).rolls) = Len(s)
         /\ (Rebuilt(s).phase = "come_out") <=> (Rebuilt(s).point = 0)
<1> DEFINE Q == {r \in Seq(Thrown) : /\ Rebuilt(Rebuilt(r).rolls) = Rebuilt(r)
                                     /\ Len(Rebuilt(r).rolls) = Len(r)
                                     /\ (Rebuilt(r).phase = "come_out") <=> (Rebuilt(r).point = 0)}
<1>1. <<>> \in Q
  <2>1. Rebuilt(<<>>).rolls = <<>> /\ Rebuilt(<<>>).phase = "come_out" /\ Rebuilt(<<>>).point = 0
    BY RebuiltSteps DEF EmptyBoard
  <2> QED BY <2>1
<1>2. ASSUME NEW r \in Seq(Thrown), NEW e \in Thrown, r \in Q
      PROVE  Append(r, e) \in Q
  <2> DEFINE b == Rebuilt(r)
             row == RowOf(b, e)
             y == AddRoll(b, e)
  <2>1. b \in CrapsBoard /\ Rebuilt(Append(r, e)) = y /\ Append(r, e) \in Seq(Thrown)
    BY RebuiltSteps
  <2>2. b.rolls \in Seq(RollRow)
    BY <2>1 DEF CrapsBoard
  <2>3. row \in RollRow /\ y.rolls = Append(b.rolls, row)
    BY <2>1, AddRollTypes
  <2>4. row \in Thrown /\ b.rolls \in Seq(Thrown)
    BY <2>2, <2>3 DEF Thrown
  <2>5. Rebuilt(b.rolls) = b /\ Len(b.rolls) = Len(r) /\ ((b.phase = "come_out") <=> (b.point = 0))
    BY <1>2
  <2>6. row.total = e.total /\ row.hard = e.hard /\ row.round = e.round
    BY DEF RowOf
  <2>7. AddRoll(b, row) = y
    BY <2>6 DEF AddRoll
  <2>8. (y.phase = "come_out") <=> (y.point = 0)
    <3> DEFINE decision == Decision(e.total, b.phase, b.point)
               puck == Puck(decision, e.total, b.phase, b.point)
    <3>1. y.phase = puck[1] /\ y.point = puck[2]
      BY <2>1, AddRollTypes
    <3>2. e.total \in 2 .. 12
      BY ThrownParts
    <3> HIDE DEF decision
    <3>3. (puck[1] = "come_out") <=> (puck[2] = 0)
      BY <2>5, <3>2 DEF Puck
    <3> QED BY <3>1, <3>3
  <2> HIDE DEF b, row, y
  <2>9. Rebuilt(Append(b.rolls, row)) = AddRoll(Rebuilt(b.rolls), row)
    BY <2>4, RebuiltSteps
  <2>10. Len(Append(b.rolls, row)) = Len(Append(r, e))
    BY <2>2, <2>5
  <2> QED BY <2>1, <2>3, <2>5, <2>7, <2>8, <2>9, <2>10
<1> HIDE DEF Q
<1>3. s \in Q
  BY <1>1, <1>2, SequencesBySteps
<1>4. Rebuilt(s) \in CrapsBoard
  BY RebuiltSteps
<1> QED BY <1>3, <1>4 DEF Q, CrapsBoard

(* Settlements *)

SlipState == [kind: BetId, target: Point \cup {0}, line: Lines, amount: Nat \ {0}, working: BOOLEAN, asked: BOOLEAN,
              from: Point \cup {0}, outcome: {"none", "win", "lose", "push", "stay"},
              at: {"open", "closed", "settled"}]

\* A bet of the player: on a number it has one; a line or a proposition has none.
OnSlip == {s \in SlipState : /\ s.target # 0 => s.kind \in PlaceLike \cup {"come", "dont_come"}
                             /\ s.kind \in PlaceLike => s.target # 0}

LEMMA Bets ==
  ASSUME NEW s \in OnSlip
  PROVE  /\ s.kind \in BetId /\ s.target \in Point \cup {0} /\ s.line \in Lines
         /\ s.working \in BOOLEAN /\ s.asked \in BOOLEAN
         /\ s.target # 0 => s.kind \in PlaceLike \cup {"come", "dont_come"}
         /\ s.kind \in PlaceLike => s.target # 0
BY DEF OnSlip, SlipState

\* What a decision says.
LEMMA DecisionSays ==
  ASSUME NEW total \in 2 .. 12, NEW phase \in {"come_out", "point"}, NEW point \in Point \cup {0}
  PROVE  LET decision == Decision(total, phase, point) IN
         /\ decision = "natural" <=> phase = "come_out" /\ total \in Natural
         /\ decision = "craps" <=> phase = "come_out" /\ total \in CrapsTotal
         /\ decision = "point_established" <=> phase = "come_out" /\ total \in Point
         /\ decision = "point_made" <=> phase = "point" /\ total = point
         /\ decision = "seven_out" <=> phase = "point" /\ total = 7
<1>1. CASE phase = "come_out"
  BY <1>1 DEF Decision, Natural, CrapsTotal, Point
<1>2. CASE phase = "point"
  BY <1>2 DEF Decision, Natural, CrapsTotal, Point
<1> QED BY <1>1, <1>2

\* What a settlement that is a win, a loss or a stay says and leaves.
LEMMA ResolveSays ==
  ASSUME NEW b, NEW wins \in BOOLEAN, NEW loses \in BOOLEAN, NEW num, NEW den
  PROVE  LET r == Resolve(b, wins, loses, num, den) IN
         /\ r.outcome = IF wins THEN "win" ELSE IF loses THEN "lose" ELSE "stay"
         /\ r.target = b.target
         /\ \A v : [r EXCEPT !.returned = v].outcome = r.outcome /\ [r EXCEPT !.returned = v].target = r.target
<1>1. CASE wins
  BY <1>1 DEF Resolve, Win
<1>2. CASE ~wins /\ loses
  BY <1>2 DEF Resolve, Lose
<1>3. CASE ~wins /\ ~loses
  BY <1>3 DEF Resolve, Stay, StayOn
<1> QED BY <1>1, <1>2, <1>3

LEMMA OthersSay ==
  ASSUME NEW b, NEW t
  PROVE  /\ Push(b).outcome = "push" /\ Push(b).target = b.target
         /\ Stay(b).outcome = "stay" /\ Stay(b).target = b.target
         /\ StayOn(b, t).outcome = "stay" /\ StayOn(b, t).target = t
         /\ Win(b, 1, 1).outcome = "win" /\ Win(b, 1, 1).target = b.target
         /\ Lose(b).outcome = "lose" /\ Lose(b).target = b.target
BY DEF Push, Stay, StayOn, Win, Lose

\* x is a board before a roll and r the row of the roll after it.
Follows(x, r) ==
  /\ r \in RollRow /\ x.phase \in {"come_out", "point"} /\ x.point \in Point \cup {0}
  /\ (x.phase = "come_out") <=> (x.point = 0)
  /\ r.phase = x.phase /\ r.before = x.point
  /\ r.decision = Decision(r.total, x.phase, x.point)

\* Bet b meets roll d, of row r, between boards x and y; s is the bet of the rule.
Settling(b, d, x, y, r, s) ==
  /\ Follows(x, r) /\ r.total = d.total /\ r.hard = d.hard /\ Decided(y) = r.decision
  /\ s.kind = b.kind /\ s.target = b.target /\ s.asked = b.asked /\ s.from = b.target
  /\ b.kind \in PlaceLike => b.working = b.asked

LEMMA RowSays ==
  ASSUME NEW b, NEW d, NEW x, NEW y, NEW r, NEW s, Settling(b, d, x, y, r, s)
  PROVE  /\ r.total = d.total /\ r.hard = d.hard /\ Decided(y) = r.decision
         /\ r.total \in 2 .. 12 /\ r.hard \in {"hard", "easy", "unknown"}
         /\ x.phase \in {"come_out", "point"} /\ r.phase = x.phase
         /\ (x.phase = "come_out") <=> (x.point = 0)
         /\ r.decision = "natural" <=> x.phase = "come_out" /\ r.total \in Natural
         /\ r.decision = "craps" <=> x.phase = "come_out" /\ r.total \in CrapsTotal
         /\ r.decision = "point_established" <=> x.phase = "come_out" /\ r.total \in Point
         /\ r.decision = "point_made" <=> x.phase = "point" /\ r.total = x.point
         /\ r.decision = "seven_out" <=> x.phase = "point" /\ r.total = 7
<1> DEFINE total == r.total
           phase == x.phase
           point == x.point
<1>1. /\ total \in 2 .. 12 /\ r.hard \in {"hard", "easy", "unknown"}
      /\ phase \in {"come_out", "point"} /\ point \in Point \cup {0} /\ r.phase = phase
      /\ (phase = "come_out") <=> (point = 0)
      /\ r.decision = Decision(total, phase, point)
  BY DEF Settling, Follows, RollRow
<1> HIDE DEF total, phase, point
<1>2. /\ r.decision = "natural" <=> phase = "come_out" /\ total \in Natural
      /\ r.decision = "craps" <=> phase = "come_out" /\ total \in CrapsTotal
      /\ r.decision = "point_established" <=> phase = "come_out" /\ total \in Point
      /\ r.decision = "point_made" <=> phase = "point" /\ total = point
      /\ r.decision = "seven_out" <=> phase = "point" /\ total = 7
  BY <1>1, DecisionSays
<1>3. r.total = d.total /\ r.hard = d.hard /\ Decided(y) = r.decision
  BY DEF Settling
<1> QED BY <1>1, <1>2, <1>3 DEF total, phase, point

LEMMA NamedBets ==
  /\ DOMAIN Prop = {"any_seven", "any_craps", "two", "twelve", "three", "eleven"}
  /\ DOMAIN HornHigh = {"horn_high_2", "horn_high_3", "horn_high_11", "horn_high_12"}
BY DEF Prop, HornHigh

LEMMA LineBets ==
  ASSUME NEW b \in OnSlip, NEW d \in Dice, NEW x, NEW y, NEW r, NEW s,
         Settling(b, d, x, y, r, s), b.kind \in {"pass", "dont_pass"}
  PROVE  SettleCraps(b, d, x, y).outcome = OutcomeByRule(s, r)
<1>1. b.target = 0 /\ ~OffByRule(s, r)
  BY Bets DEF OffByRule, Settling, PlaceLike
<1>2. s.kind = b.kind /\ s.target = 0 /\ s.from = 0
  BY <1>1 DEF Settling
<1>3. CrapsRules.bar \in {2, 12}
  BY CrapsRulesAssumption
<1>4. CASE b.kind = "pass"
  <2>1. SettleCraps(b, d, x, y) = SettlePass(b, d, x, y)
    BY <1>4, NamedBets DEF SettleCraps
  <2>2. OutcomeByRule(s, r) = IF r.decision \in {"natural", "point_made"} THEN "win"
                              ELSE IF r.decision \in {"craps", "seven_out"} THEN "lose" ELSE "stay"
    BY <1>1, <1>2, <1>4 DEF OutcomeByRule, WinsByRule, LosesByRule
  <2>3. CASE x.phase = "come_out"
    <3>1. SettlePass(b, d, x, y) = Resolve(b, d.total \in Natural, d.total \in CrapsTotal, 1, 1)
      BY <2>3 DEF SettlePass
    <3> QED BY <2>1, <2>2, <2>3, <3>1, RowSays DEF Resolve, Win, Lose, Stay, StayOn, Natural, CrapsTotal
  <2>4. CASE x.phase # "come_out"
    <3>1. SettlePass(b, d, x, y) = Resolve(b, r.decision = "point_made", r.decision = "seven_out", 1, 1)
      BY <2>4, RowSays DEF SettlePass
    <3> QED BY <2>1, <2>2, <2>4, <3>1, RowSays DEF Resolve, Win, Lose, Stay, StayOn, Natural, CrapsTotal
  <2> QED BY <2>3, <2>4
<1>5. CASE b.kind = "dont_pass"
  <2>1. SettleCraps(b, d, x, y) = SettleDontPass(b, d, x, y)
    BY <1>5, NamedBets DEF SettleCraps
  <2>2. OutcomeByRule(s, r) = IF r.decision = "seven_out" \/ (r.decision = "craps" /\ r.total # CrapsRules.bar) THEN "win"
                              ELSE IF r.decision \in {"natural", "point_made"} THEN "lose"
                              ELSE IF r.total = CrapsRules.bar /\ r.decision = "craps" THEN "push" ELSE "stay"
    BY <1>1, <1>2, <1>5 DEF OutcomeByRule, WinsByRule, LosesByRule
  <2>3. CASE x.phase = "come_out" /\ d.total = CrapsRules.bar
    <3>1. SettleDontPass(b, d, x, y) = Push(b)
      BY <2>3 DEF SettleDontPass
    <3>2. r.decision = "craps"
      BY <1>3, <2>3, RowSays DEF CrapsTotal
    <3> QED BY <2>1, <2>2, <2>3, <3>1, <3>2, RowSays DEF Push
  <2>4. CASE x.phase = "come_out" /\ d.total # CrapsRules.bar
    <3>1. SettleDontPass(b, d, x, y) = Resolve(b, d.total \in CrapsTotal, d.total \in Natural, 1, 1)
      BY <2>4 DEF SettleDontPass
    <3> QED BY <2>1, <2>2, <2>4, <3>1, RowSays DEF Resolve, Win, Lose, Stay, StayOn, Natural, CrapsTotal
  <2>5. CASE x.phase # "come_out"
    <3>1. SettleDontPass(b, d, x, y) = Resolve(b, r.decision = "seven_out", r.decision = "point_made", 1, 1)
      BY <2>5, RowSays DEF SettleDontPass
    <3> QED BY <2>1, <2>2, <2>5, <3>1, RowSays DEF Resolve, Win, Lose, Stay, StayOn, Natural, CrapsTotal
  <2> QED BY <2>3, <2>4, <2>5
<1> QED BY <1>4, <1>5

LEMMA ComeBets ==
  ASSUME NEW b \in OnSlip, NEW d \in Dice, NEW x, NEW y, NEW r, NEW s,
         Settling(b, d, x, y, r, s), b.kind \in {"come", "dont_come"}
  PROVE  SettleCraps(b, d, x, y).outcome = OutcomeByRule(s, r)
<1>1. b.target \in Point \cup {0} /\ ~OffByRule(s, r)
  BY Bets DEF OffByRule, Settling, PlaceLike
<1>2. s.kind = b.kind /\ s.target = b.target /\ s.from = b.target
  BY DEF Settling
<1>3. CrapsRules.bar \in {2, 12}
  BY CrapsRulesAssumption
<1>4. d.total \in 2 .. 12 /\ r.total = d.total
  BY RowSays
<1>5. CASE b.kind = "come"
  <2>1. SettleCraps(b, d, x, y) = SettleCome(b, d)
    BY <1>5, NamedBets DEF SettleCraps
  <2>2. OutcomeByRule(s, r) =
          IF IF b.target = 0 THEN d.total \in Natural ELSE d.total = b.target THEN "win"
          ELSE IF IF b.target = 0 THEN d.total \in CrapsTotal ELSE d.total = 7 THEN "lose" ELSE "stay"
    BY <1>1, <1>2, <1>4, <1>5 DEF OutcomeByRule, WinsByRule, LosesByRule
  <2>3. CASE b.target = 0
    BY <1>4, <2>1, <2>2, <2>3 DEF SettleCome, Win, Lose, StayOn, Natural, CrapsTotal, Point
  <2>4. CASE b.target # 0
    BY <1>4, <2>1, <2>2, <2>4 DEF SettleCome, Resolve, Win, Lose, Stay, StayOn
  <2> QED BY <2>3, <2>4
<1>6. CASE b.kind = "dont_come"
  <2>1. SettleCraps(b, d, x, y) = SettleDontCome(b, d)
    BY <1>6, NamedBets DEF SettleCraps
  <2>2. OutcomeByRule(s, r) =
          IF IF b.target = 0 THEN d.total \in CrapsTotal \ {CrapsRules.bar} ELSE d.total = 7 THEN "win"
          ELSE IF IF b.target = 0 THEN d.total \in Natural ELSE d.total = b.target THEN "lose"
          ELSE IF b.target = 0 /\ d.total = CrapsRules.bar THEN "push" ELSE "stay"
    BY <1>1, <1>2, <1>4, <1>6 DEF OutcomeByRule, WinsByRule, LosesByRule
  <2>3. CASE b.target = 0
    BY <1>3, <1>4, <2>1, <2>2, <2>3 DEF SettleDontCome, Win, Lose, Push, StayOn, Natural, CrapsTotal, Point
  <2>4. CASE b.target # 0
    BY <1>4, <2>1, <2>2, <2>4 DEF SettleDontCome, Resolve, Win, Lose, Stay, StayOn
  <2> QED BY <2>3, <2>4
<1> QED BY <1>5, <1>6

LEMMA OddsBets ==
  ASSUME NEW b \in OnSlip, NEW d \in Dice, NEW x, NEW y, NEW r, NEW s,
         Settling(b, d, x, y, r, s), b.kind \in {"pass_odds", "dont_odds"}
  PROVE  SettleCraps(b, d, x, y).outcome = OutcomeByRule(s, r)
<1>1. ~OffByRule(s, r) /\ s.kind = b.kind
  BY DEF OffByRule, Settling, PlaceLike
<1>2. CASE b.kind = "pass_odds"
  <2>1. SettleCraps(b, d, x, y) = SettleOdds(b, x, y, TRUE)
    BY <1>2, NamedBets DEF SettleCraps
  <2>2. OutcomeByRule(s, r) = IF r.decision = "point_made" THEN "win"
                              ELSE IF r.decision = "seven_out" THEN "lose" ELSE "stay"
    BY <1>1, <1>2 DEF OutcomeByRule, WinsByRule, LosesByRule
  <2>3. CASE x.phase = "come_out"
    BY <2>1, <2>2, <2>3, RowSays DEF SettleOdds, Stay, StayOn
  <2>4. CASE x.phase # "come_out"
    BY <2>1, <2>2, <2>4, RowSays DEF SettleOdds, OddsOff, Resolve, Win, Lose, Stay, StayOn
  <2> QED BY <2>3, <2>4
<1>3. CASE b.kind = "dont_odds"
  <2>1. SettleCraps(b, d, x, y) = SettleOdds(b, x, y, FALSE)
    BY <1>3, NamedBets DEF SettleCraps
  <2>2. OutcomeByRule(s, r) = IF r.decision = "seven_out" THEN "win"
                              ELSE IF r.decision = "point_made" THEN "lose" ELSE "stay"
    BY <1>1, <1>3 DEF OutcomeByRule, WinsByRule, LosesByRule
  <2>3. CASE x.phase = "come_out"
    BY <2>1, <2>2, <2>3, RowSays DEF SettleOdds, Stay, StayOn
  <2>4. CASE x.phase # "come_out"
    BY <2>1, <2>2, <2>4, RowSays DEF SettleOdds, OddsOff, Resolve, Win, Lose, Stay, StayOn
  <2> QED BY <2>3, <2>4
<1> QED BY <1>2, <1>3

\* The bets on a number: off on the come-out or resolved by the total.
LEMMA NumberBets ==
  ASSUME NEW b \in OnSlip, NEW d \in Dice, NEW x, NEW y, NEW r, NEW s,
         Settling(b, d, x, y, r, s), b.kind \in PlaceLike
  PROVE  SettleCraps(b, d, x, y).outcome = OutcomeByRule(s, r)
<1>1. b.target \in Point /\ s.kind = b.kind /\ s.target = b.target /\ s.asked = b.asked /\ b.working = b.asked
  BY Bets DEF Settling
<1>2. r.total = d.total /\ d.total \in 2 .. 12 /\ r.hard = d.hard /\ r.phase = x.phase
  BY RowSays
<1>3. OffByRule(s, r) <=> PlaceOff(b, x)
  <2>1. b.working \in BOOLEAN /\ b.asked \in BOOLEAN
    BY Bets
  <2> QED BY <1>1, <1>2, <2>1 DEF OffByRule, PlaceOff
<1>4. CASE PlaceOff(b, x)
  <2>1. OutcomeByRule(s, r) = "stay"
    BY <1>3, <1>4 DEF OutcomeByRule
  <2>2. SettleCraps(b, d, x, y) \in {SettlePlace(b, d, x), SettleBuy(b, d, x), SettleLay(b, d, x), SettleHard(b, d, x)}
    BY NamedBets DEF SettleCraps, PlaceLike
  <2>3. \A v \in {SettlePlace(b, d, x), SettleBuy(b, d, x), SettleLay(b, d, x), SettleHard(b, d, x)} : v = Stay(b)
    BY <1>4 DEF SettlePlace, SettleBuy, SettleLay, SettleHard
  <2> QED BY <2>1, <2>2, <2>3 DEF Stay, StayOn
<1>5. CASE ~PlaceOff(b, x)
  <2>1. CASE b.kind = "place"
    <3>1. SettleCraps(b, d, x, y) = SettlePlace(b, d, x)
      BY <2>1, NamedBets DEF SettleCraps
    <3>2. OutcomeByRule(s, r) = IF d.total = b.target THEN "win" ELSE IF d.total = 7 THEN "lose" ELSE "stay"
      BY <1>1, <1>2, <1>3, <1>5, <2>1 DEF OutcomeByRule, WinsByRule, LosesByRule
    <3>3. PICK num, den : SettlePlace(b, d, x) = Resolve(b, d.total = b.target, d.total = 7, num, den)
      BY <1>1, <1>5 DEF SettlePlace, Point
    <3> QED BY <3>1, <3>2, <3>3 DEF Resolve, Win, Lose, Stay, StayOn
  <2>2. CASE b.kind = "buy"
    <3>1. SettleCraps(b, d, x, y) = SettleBuy(b, d, x)
      BY <2>2, NamedBets DEF SettleCraps
    <3>2. OutcomeByRule(s, r) = IF d.total = b.target THEN "win" ELSE IF d.total = 7 THEN "lose" ELSE "stay"
      BY <1>1, <1>2, <1>3, <1>5, <2>2 DEF OutcomeByRule, WinsByRule, LosesByRule
    <3> QED BY <1>5, <3>1, <3>2 DEF SettleBuy, Resolve, Win, Lose, Stay, StayOn
  <2>3. CASE b.kind = "lay"
    <3>1. SettleCraps(b, d, x, y) = SettleLay(b, d, x)
      BY <2>3, NamedBets DEF SettleCraps
    <3>2. OutcomeByRule(s, r) = IF d.total = 7 THEN "win" ELSE IF d.total = b.target THEN "lose" ELSE "stay"
      BY <1>1, <1>2, <1>3, <1>5, <2>3 DEF OutcomeByRule, WinsByRule, LosesByRule
    <3> QED BY <1>5, <3>1, <3>2 DEF SettleLay, Resolve, Win, Lose, Stay, StayOn
  <2>4. CASE b.kind = "hard"
    <3>1. SettleCraps(b, d, x, y) = SettleHard(b, d, x)
      BY <2>4, NamedBets DEF SettleCraps
    <3>2. OutcomeByRule(s, r) = IF d.total = b.target /\ d.hard = "hard" THEN "win"
                                ELSE IF d.total = 7 \/ (d.total = b.target /\ d.hard = "easy") THEN "lose" ELSE "stay"
      BY <1>1, <1>2, <1>3, <1>5, <2>4 DEF OutcomeByRule, WinsByRule, LosesByRule
    <3> QED BY <1>5, <3>1, <3>2 DEF SettleHard, Resolve, Win, Lose, Stay, StayOn
  <2> QED BY <2>1, <2>2, <2>3, <2>4 DEF PlaceLike
<1> QED BY <1>4, <1>5

LEMMA FieldBets ==
  ASSUME NEW b \in OnSlip, NEW d \in Dice, NEW x, NEW y, NEW r, NEW s,
         Settling(b, d, x, y, r, s), b.kind = "field"
  PROVE  SettleCraps(b, d, x, y).outcome = OutcomeByRule(s, r)
<1>1. ~OffByRule(s, r) /\ s.kind = "field"
  BY DEF OffByRule, Settling, PlaceLike
<1>2. r.total = d.total /\ d.total \in 2 .. 12
  BY RowSays
<1>3. SettleCraps(b, d, x, y) = SettleField(b, d)
  BY NamedBets DEF SettleCraps
<1>4. OutcomeByRule(s, r) = IF d.total \notin 5 .. 8 THEN "win" ELSE "lose"
  BY <1>1, <1>2 DEF OutcomeByRule, WinsByRule, LosesByRule
<1>5. d.total \notin 5 .. 8 <=> d.total \in {2, 3, 4, 9, 10, 11, 12}
  BY <1>2
<1> QED BY <1>3, <1>4, <1>5 DEF SettleField, Resolve, Win, Lose

\* Every bet of the catalogue that the rule covers is settled by it.
LEMMA SettledByTheRules ==
  ASSUME NEW b \in OnSlip, NEW d \in Dice, NEW x, NEW y, NEW r, NEW s,
         Settling(b, d, x, y, r, s), b.kind \in Covered
  PROVE  SettleCraps(b, d, x, y).outcome = OutcomeByRule(s, r)
BY LineBets, ComeBets, OddsBets, NumberBets, FieldBets DEF Covered, PlaceLike

\* What any settlement is, and where it leaves the bet.
Settles(b, r) ==
  /\ r.outcome \in {"win", "lose", "push", "stay"}
  /\ r.target = b.target \/ (b.kind \in {"come", "dont_come"} /\ r.target \in Point)

LEMMA SettlementTypes ==
  ASSUME NEW b \in OnSlip, NEW d, NEW x, NEW y
  PROVE  Settles(b, SettleCraps(b, d, x, y))
<1>1. ASSUME NEW wins, NEW loses, NEW num, NEW den
      PROVE  Settles(b, Resolve(b, wins, loses, num, den))
  BY DEF Settles, Resolve, Win, Lose, Stay, StayOn
<1>2. Settles(b, Stay(b)) /\ Settles(b, Push(b)) /\ Settles(b, Lose(b)) /\ Settles(b, Win(b, 1, 1))
  BY DEF Settles, Stay, StayOn, Push, Lose, Win
<1>3. CASE b.kind \in {"pass", "dont_pass"}
  <2>1. SettleCraps(b, d, x, y) \in {SettlePass(b, d, x, y), SettleDontPass(b, d, x, y)}
    BY <1>3, NamedBets DEF SettleCraps
  <2>2. Settles(b, SettlePass(b, d, x, y))
    BY DEF SettlePass, Settles, Resolve, Win, Lose, Stay, StayOn
  <2>3. Settles(b, SettleDontPass(b, d, x, y))
    BY DEF SettleDontPass, Settles, Push, Resolve, Win, Lose, Stay, StayOn
  <2> QED BY <2>1, <2>2, <2>3
<1>4. CASE b.kind \in {"come", "dont_come"}
  <2>1. SettleCraps(b, d, x, y) \in {SettleCome(b, d), SettleDontCome(b, d)}
    BY <1>4, NamedBets DEF SettleCraps
  <2>2. Settles(b, SettleCome(b, d))
    BY <1>4 DEF SettleCome, Settles, Resolve, Win, Lose, Stay, StayOn, Natural, CrapsTotal, Point
  <2>3. Settles(b, SettleDontCome(b, d))
    <3>1. CrapsRules.bar \in {2, 12}
      BY CrapsRulesAssumption
    <3> QED BY <1>4, <3>1 DEF SettleDontCome, Settles, Push, Resolve, Win, Lose, Stay, StayOn, Natural, CrapsTotal, Point
  <2> QED BY <2>1, <2>2, <2>3
<1>5. CASE b.kind \in {"pass_odds", "dont_odds"}
  <2>1. SettleCraps(b, d, x, y) \in {SettleOdds(b, x, y, TRUE), SettleOdds(b, x, y, FALSE)}
    BY <1>5, NamedBets DEF SettleCraps
  <2>2. Settles(b, SettleOdds(b, x, y, TRUE)) /\ Settles(b, SettleOdds(b, x, y, FALSE))
    BY DEF SettleOdds, Settles, Resolve, Win, Lose, Stay, StayOn
  <2> QED BY <2>1, <2>2
<1>6. CASE b.kind \in PlaceLike
  <2>1. SettleCraps(b, d, x, y) \in {SettlePlace(b, d, x), SettleBuy(b, d, x), SettleLay(b, d, x), SettleHard(b, d, x)}
    BY <1>6, NamedBets DEF SettleCraps, PlaceLike
  <2>2. Settles(b, SettlePlace(b, d, x))
    <3>1. b.target \in Point
      BY <1>6, Bets
    <3> QED BY <3>1 DEF SettlePlace, Settles, Resolve, Win, Lose, Stay, StayOn, Point
  <2>3. Settles(b, SettleBuy(b, d, x))
    BY DEF SettleBuy, Settles, Resolve, Win, Lose, Stay, StayOn
  <2>4. Settles(b, SettleLay(b, d, x))
    BY DEF SettleLay, Settles, Resolve, Win, Lose, Stay, StayOn
  <2>5. Settles(b, SettleHard(b, d, x))
    BY DEF SettleHard, Settles, Resolve, Win, Lose, Stay, StayOn
  <2> QED BY <2>1, <2>2, <2>3, <2>4, <2>5
<1>7. CASE b.kind = "field"
  <2>1. SettleCraps(b, d, x, y) = SettleField(b, d)
    BY <1>7, NamedBets DEF SettleCraps
  <2> QED BY <2>1 DEF SettleField, Settles, Resolve, Win, Lose, Stay, StayOn
<1>8. CASE b.kind \in DOMAIN Prop
  <2>1. SettleCraps(b, d, x, y) = SettleProp(b, d)
    BY <1>8, NamedBets DEF SettleCraps
  <2> QED BY <2>1 DEF SettleProp, Settles, Resolve, Win, Lose, Stay, StayOn
<1>9. CASE b.kind = "fire"
  <2>1. SettleCraps(b, d, x, y) = SettleFire(b, y)
    BY <1>9, NamedBets DEF SettleCraps
  <2> QED BY <2>1 DEF SettleFire, Settles, Win, Lose, Stay, StayOn
<1>10. CASE b.kind \in {"ats_small", "ats_tall", "ats_all"}
  <2>1. SettleCraps(b, d, x, y) = SettleAts(b, d, y)
    BY <1>10, NamedBets DEF SettleCraps
  <2> QED BY <2>1 DEF SettleAts, Settles, Resolve, Win, Lose, Stay, StayOn
<1>11. CASE b.kind \in {"horn", "ce"} \cup DOMAIN HornHigh
  <2>1. SettleCraps(b, d, x, y) = SettleHorn(b, d)
    BY <1>11, NamedBets DEF SettleCraps
  <2> QED BY <2>1 DEF SettleHorn, Settles, Resolve, Win, Lose, Stay, StayOn
<1>12. b.kind \in BetId
  BY Bets
<1> QED BY <1>3, <1>4, <1>5, <1>6, <1>7, <1>8, <1>9, <1>10, <1>11, <1>12, NamedBets DEF BetId, RoundKind

\* The bet after a settlement.
LEMMA SettleSlipTypes ==
  ASSUME NEW b \in OnSlip, NEW d, NEW x, NEW y
  PROVE  LET s == SettleSlip(b, d, x, y) IN
         /\ s \in OnSlip /\ s.at = "settled" /\ s.kind = b.kind /\ s.from = b.target /\ s.asked = b.asked
         /\ s.outcome = SettleCraps(b, d, x, y).outcome
<1> DEFINE r == SettleCraps(b, d, x, y)
<1>1. Settles(b, r)
  BY SettlementTypes
<1> HIDE DEF r
<1> DEFINE s == [b EXCEPT !.from = b.target, !.target = r.target, !.outcome = r.outcome,
                          !.working = @ \/ r.outcome = "stay", !.at = "settled"]
<1>2. SettleSlip(b, d, x, y) = s
  BY DEF SettleSlip, r
<1>3. b \in SlipState
  BY DEF OnSlip
<1>4. s.at = "settled" /\ s.kind = b.kind /\ s.from = b.target /\ s.asked = b.asked /\ s.outcome = r.outcome
      /\ s.target = r.target
  BY <1>3 DEF SlipState
<1>5. s \in SlipState
  <2>1. r.target \in Point \cup {0} /\ r.outcome \in {"none", "win", "lose", "push", "stay"}
    BY <1>1, Bets DEF Settles
  <2>2. (b.working \/ r.outcome = "stay") \in BOOLEAN
    OBVIOUS
  <2> QED BY <1>3, <2>1, <2>2 DEF SlipState
<1> HIDE DEF s
<1>6. s \in OnSlip
  <2>1. s.target # 0 => s.kind \in PlaceLike \cup {"come", "dont_come"}
    BY <1>1, <1>4, Bets DEF Settles
  <2>2. s.kind \in PlaceLike => s.target # 0
    BY <1>1, <1>4, Bets DEF Settles, Point
  <2> QED BY <1>5, <2>1, <2>2 DEF OnSlip
<1> QED BY <1>2, <1>4, <1>6 DEF r

(* The invariant *)

\* The board is what its rolls say, or a new shooter was started in mid-hand.
BoardInv ==
  /\ board \in CrapsBoard
  /\ (board.phase = "come_out") <=> (board.point = 0)
  /\ board.rolls = Rebuilt(board.rolls).rolls
  /\ \/ board.phase = Rebuilt(board.rolls).phase /\ board.point = Rebuilt(board.rolls).point
     \/ board.shooter = NoRolls /\ board.point = 0 /\ "midHand" \in clumsy
  /\ series \in 0 .. Len(board.rolls) /\ Len(board.rolls) <= MaxRolls

SlipInv == slip = NoSlip \/ slip \in OnSlip

\* Until the next shooter is named, the dice are where they were thrown from.
DiceInv ==
  /\ source \in {"physical", "virtual"}
  /\ order \in Seq(Seat) /\ shooting \in Seat \cup {NoSeat} /\ thrower \in Seat \cup {NoSeat}
  /\ seated \subseteq Seat
  /\ due \in BOOLEAN /\ clumsy \subseteq CrapsMishap
  /\ due => source = "physical" /\ board.phase = "come_out"
  /\ due /\ "passed" \notin clumsy /\ thrower # NoSeat => shooting = thrower

CrapsInv == BoardInv /\ SlipInv /\ DiceInv

LEMMA CrapsInvInit == CrapsInit => CrapsInv
<1> SUFFICES ASSUME CrapsInit PROVE CrapsInv
  OBVIOUS
<1>1. BoardInv
  <2>1. board = EmptyBoard /\ series = 0
    BY DEF CrapsInit
  <2>2. board \in CrapsBoard /\ board = Rebuilt(<<>>)
    BY <2>1, EmptyBoardType, RebuiltSteps
  <2>3. board.rolls = <<>> /\ board.phase = "come_out" /\ board.point = 0
    BY <2>1 DEF EmptyBoard
  <2>4. Len(board.rolls) = 0 /\ MaxRolls \in Nat
    BY <2>3, CrapsBoundAssumption
  <2> QED BY <2>1, <2>2, <2>3, <2>4 DEF BoardInv
<1>2. SlipInv
  BY DEF CrapsInit, SlipInv
<1>3. DiceInv
  <2>1. order \in Seq(Seat) /\ clumsy \subseteq CrapsMishap /\ seated \subseteq Seat
    BY DEF CrapsInit
  <2> QED BY <2>1 DEF CrapsInit, DiceInv
<1> QED BY <1>1, <1>2, <1>3 DEF CrapsInv

\* Where the rolls come from does not matter to the board.
LEMMA BoardOfRolls ==
  ASSUME NEW rs \in Seq(Thrown), board' = Rebuilt(rs), Len(rs) <= MaxRolls, series' \in 0 .. Len(rs)
  PROVE  BoardInv'
<1>1. /\ board' \in CrapsBoard /\ board' = Rebuilt(board'.rolls) /\ Len(board'.rolls) = Len(rs)
      /\ (board'.phase = "come_out") <=> (board'.point = 0)
  BY RebuiltAgain
<1> QED BY <1>1 DEF BoardInv

\* A series that starts keeps the rolls.
LEMMA BoardOfSeries ==
  ASSUME BoardInv, board' = ResetShooter(board), series' = Len(board.rolls),
         board.phase = "point" => "midHand" \in clumsy', "midHand" \in clumsy => "midHand" \in clumsy'
  PROVE  BoardInv' /\ board'.phase = "come_out"
<1>1. board \in CrapsBoard /\ board.phase \in {"come_out", "point"}
  BY DEF BoardInv, CrapsBoard
<1>2. NoRolls \in ShooterCount
  BY DEF NoRolls, ShooterCount
<1>3. /\ board' \in CrapsBoard /\ board'.phase = "come_out" /\ board'.point = 0
      /\ board'.shooter = NoRolls /\ board'.rolls = board.rolls
  BY <1>1, <1>2 DEF ResetShooter, CrapsBoard
<1>4. Len(board.rolls) \in Nat
  BY <1>1 DEF CrapsBoard
<1>5. series' \in 0 .. Len(board'.rolls) /\ Len(board'.rolls) <= MaxRolls
  BY <1>3, <1>4 DEF BoardInv
<1>6. CASE board.phase = "come_out"
  BY <1>3, <1>5, <1>6 DEF BoardInv
<1>7. CASE board.phase = "point"
  BY <1>3, <1>5, <1>7 DEF BoardInv
<1> QED BY <1>1, <1>3, <1>6, <1>7

\* One roll more.
LEMMA OneRollMore ==
  ASSUME BoardInv, NEW e \in ThrownRow
  PROVE  LET y == Rebuilt(Append(board.rolls, e))
             x == Rebuilt(board.rolls) IN
         /\ Append(board.rolls, e) \in Seq(Thrown) /\ Len(Append(board.rolls, e)) = Len(board.rolls) + 1
         /\ y = AddRoll(x, e) /\ x \in CrapsBoard
         /\ RowOf(x, e) \in RollRow /\ y.rolls = Append(board.rolls, RowOf(x, e))
<1>1. board.rolls \in Seq(RollRow) /\ e \in Thrown
  BY DEF BoardInv, CrapsBoard, Thrown
<1>2. board.rolls \in Seq(Thrown)
  BY <1>1 DEF Thrown
<1>3. Append(board.rolls, e) \in Seq(Thrown) /\ Len(Append(board.rolls, e)) = Len(board.rolls) + 1
  BY <1>1, <1>2
<1>4. Rebuilt(board.rolls) \in CrapsBoard /\ Rebuilt(Append(board.rolls, e)) = AddRoll(Rebuilt(board.rolls), e)
  BY <1>1, <1>2, RebuiltSteps
<1>5. board.rolls = Rebuilt(board.rolls).rolls
  BY DEF BoardInv
<1>6. /\ RowOf(Rebuilt(board.rolls), e) \in RollRow
      /\ AddRoll(Rebuilt(board.rolls), e).rolls = Append(Rebuilt(board.rolls).rolls, RowOf(Rebuilt(board.rolls), e))
  <2> DEFINE b == Rebuilt(board.rolls)
  <2>1. b \in CrapsBoard
    BY <1>4
  <2> HIDE DEF b
  <2>2. RowOf(b, e) \in RollRow /\ AddRoll(b, e).rolls = Append(b.rolls, RowOf(b, e))
    BY <1>1, <2>1, AddRollTypes
  <2> QED BY <2>2 DEF b
<1> QED BY <1>3, <1>4, <1>5, <1>6

\* A roll is recorded for the round or past it.
RollOf(d, round) == [total |-> d.total, hard |-> d.hard, round |-> round]

LEMMA RollOfType ==
  ASSUME NEW d \in Dice, NEW round \in BOOLEAN
  PROVE  RollOf(d, round) \in ThrownRow
<1>1. d \in [total: 2 .. 12, hard: {"hard", "easy", "unknown"}]
  BY DiceAssumption
<1> QED BY <1>1 DEF RollOf, ThrownRow

LEMMA RolledBoard ==
  ASSUME BoardInv, NEW d \in Dice, NEW round \in BOOLEAN, Len(board.rolls) < MaxRolls,
         board' = Rebuilt(Append(board.rolls, RollOf(d, round))), UNCHANGED series
  PROVE  /\ BoardInv'
         /\ SevenOutShown(d) => board'.phase = "come_out"
<1>1. PICK e \in ThrownRow : e = RollOf(d, round)
  BY RollOfType
<1>2. e.total = d.total
  BY <1>1 DEF RollOf
<1>3. PICK rs : rs = Append(board.rolls, e)
  OBVIOUS
<1>4. PICK x : x = Rebuilt(board.rolls)
  OBVIOUS
<1>5. /\ rs \in Seq(Thrown) /\ Len(rs) = Len(board.rolls) + 1 /\ board' = Rebuilt(rs)
      /\ Rebuilt(rs) = AddRoll(x, e) /\ x \in CrapsBoard
  BY <1>1, <1>3, <1>4, OneRollMore
<1>6. Len(board.rolls) \in Nat /\ MaxRolls \in Nat /\ series \in 0 .. Len(board.rolls)
  <2>1. board.rolls \in Seq(RollRow)
    BY DEF BoardInv, CrapsBoard
  <2> QED BY <2>1, CrapsBoundAssumption DEF BoardInv
<1>7. Len(rs) <= MaxRolls /\ series' \in 0 .. Len(rs)
  BY <1>5, <1>6
<1>8. BoardInv'
  BY <1>5, <1>7, BoardOfRolls
<1>9. ASSUME SevenOutShown(d) PROVE board'.phase = "come_out"
  <2>1. d.total \in 2 .. 12
    BY DiceAssumption
  <2>2. board.phase \in {"come_out", "point"} /\ board.point \in Point \cup {0}
    BY DEF BoardInv, CrapsBoard
  <2>3. board.phase = "point"
    <3>1. PICK total, phase, point : total = d.total /\ phase = board.phase /\ point = board.point
      OBVIOUS
    <3>2. Decision(total, phase, point) = "seven_out"
      BY <1>9, <3>1 DEF SevenOutShown
    <3>3. phase = "point"
      BY <2>1, <2>2, <3>1, <3>2, DecisionSays
    <3> QED BY <3>1, <3>3
  <2>4. x.phase = board.phase /\ x.point = board.point
    BY <1>4, <2>3 DEF BoardInv
  <2>5. Decision(e.total, x.phase, x.point) = "seven_out"
    BY <1>2, <1>9, <2>4 DEF SevenOutShown
  <2>6. AddRoll(x, e).phase = Puck("seven_out", e.total, x.phase, x.point)[1]
    BY <2>5 DEF AddRoll
  <2>7. AddRoll(x, e).phase = "come_out"
    BY <2>6 DEF Puck
  <2> QED BY <1>5, <2>7
<1> QED BY <1>8, <1>9

LEMMA RolledSlip ==
  ASSUME SlipInv, NEW d, NEW x, NEW y, slip' = SettleSlip(slip, d, x, y), slip.at \in {"open", "closed"}
  PROVE  SlipInv'
<1>1. slip \in OnSlip
  BY DEF SlipInv, NoSlip
<1>2. PICK b \in OnSlip : b = slip
  BY <1>1
<1>3. SettleSlip(b, d, x, y) \in OnSlip
  BY SettleSlipTypes
<1> QED BY <1>2, <1>3 DEF SlipInv

LEMMA RollStepKeeps ==
  ASSUME CrapsInv, RollStep
  PROVE  CrapsInv'
<1>1. PICK d \in Dice : ConfirmRoll(d) \/ QuickRoll(d) \/ VirtualRoll(d)
  BY DEF RollStep
<1>2. InRound \in BOOLEAN /\ Entry(d) = RollOf(d, InRound)
  BY DEF InRound, Entry, RollOf
<1>3. ASSUME Rolled(d) PROVE BoardInv' /\ SlipInv' /\ (SevenOutShown(d) => board'.phase = "come_out")
  <2>1. BoardInv' /\ (SevenOutShown(d) => board'.phase = "come_out")
    <3>1. PICK round \in BOOLEAN : round = InRound
      BY <1>2
    <3>2. Len(board.rolls) < MaxRolls /\ board' = Rebuilt(Append(board.rolls, RollOf(d, round))) /\ UNCHANGED series
      BY <1>2, <1>3, <3>1 DEF Rolled
    <3> QED BY <3>2, RolledBoard DEF CrapsInv
  <2>2. SlipInv'
    <3>1. CASE InRound
      <4>1. PICK x, y : x = board /\ y = board'
        OBVIOUS
      <4>2. slip' = SettleSlip(slip, d, x, y) /\ slip.at \in {"open", "closed"}
        BY <1>3, <3>1, <4>1 DEF Rolled, InRound
      <4> QED BY <4>2, RolledSlip DEF CrapsInv
    <3>2. CASE ~InRound
      BY <1>3, <3>2 DEF Rolled, CrapsInv, SlipInv
    <3> QED BY <3>1, <3>2
  <2> QED BY <2>1, <2>2
<1>4. CASE ConfirmRoll(d)
  <2>1. Rolled(d) /\ ~due /\ source = "physical" /\ (due' => SevenOutShown(d)) /\ due' \in BOOLEAN
    BY <1>4 DEF ConfirmRoll
  <2>2. thrower' = shooting /\ UNCHANGED <<source, diceVars, clumsy>>
    BY <2>1 DEF Rolled
  <2>3. DiceInv'
    BY <1>3, <2>1, <2>2 DEF CrapsInv, DiceInv, diceVars
  <2> QED BY <1>3, <2>1, <2>3 DEF CrapsInv
<1>5. CASE VirtualRoll(d)
  <2>1. Rolled(d) /\ source = "virtual" /\ UNCHANGED due
    BY <1>5 DEF VirtualRoll
  <2>2. thrower' = shooting /\ UNCHANGED <<source, diceVars, clumsy>>
    BY <2>1 DEF Rolled
  <2>3. DiceInv'
    BY <1>3, <2>1, <2>2 DEF CrapsInv, DiceInv, diceVars
  <2> QED BY <1>3, <2>1, <2>3 DEF CrapsInv
<1>6. CASE QuickRoll(d)
  <2>1. PICK closed \in BOOLEAN : closed = (slip.at = "closed")
    OBVIOUS
  <2>2. /\ ~due /\ Len(board.rolls) < MaxRolls /\ board' = Rebuilt(Append(board.rolls, RollOf(d, closed)))
        /\ slip' = IF closed THEN SettleSlip(slip, d, board, board') ELSE slip
        /\ thrower' = shooting /\ UNCHANGED <<source, series, due, diceVars, clumsy>>
    BY <1>6, <2>1 DEF QuickRoll, RollOf
  <2>3. BoardInv'
    BY <2>2, RolledBoard DEF CrapsInv
  <2>4. SlipInv'
    <3>1. CASE closed
      <4>1. PICK x, y : x = board /\ y = board'
        OBVIOUS
      <4>2. slip' = SettleSlip(slip, d, x, y) /\ slip.at \in {"open", "closed"}
        BY <2>1, <2>2, <3>1, <4>1
      <4> QED BY <4>2, RolledSlip DEF CrapsInv
    <3>2. CASE ~closed
      BY <2>2, <3>2 DEF CrapsInv, SlipInv
    <3> QED BY <3>1, <3>2
  <2>5. DiceInv'
    BY <2>2 DEF CrapsInv, DiceInv, diceVars
  <2> QED BY <2>3, <2>4, <2>5 DEF CrapsInv
<1> QED BY <1>1, <1>4, <1>5, <1>6

LEMMA NextShooterType ==
  ASSUME order \in Seq(Seat), NEW s
  PROVE  /\ NextShooter(s) \in Seat \cup {NoSeat}
         /\ s \in ToSet(order) => \E i \in DOMAIN order :
              order[i] = s /\ NextShooter(s) = order[IF i = Len(order) THEN 1 ELSE i + 1]
<1>1. CASE order = <<>>
  BY <1>1 DEF NextShooter, ToSet
<1>2. CASE order # <<>> /\ s \notin ToSet(order)
  <2>1. order[1] \in Seat
    BY <1>2
  <2> QED BY <1>2, <2>1 DEF NextShooter
<1>3. CASE order # <<>> /\ s \in ToSet(order)
  <2> DEFINE i == CHOOSE j \in DOMAIN order : order[j] = s
             n == Len(order)
  <2>1. i \in DOMAIN order /\ order[i] = s
    BY <1>3 DEF ToSet
  <2>2. NextShooter(s) = order[(i % n) + 1]
    BY <1>3 DEF NextShooter
  <2>3. n \in Nat /\ DOMAIN order = 1 .. n
    OBVIOUS
  <2> HIDE DEF i, n
  <2>4. (i % n) + 1 = IF i = n THEN 1 ELSE i + 1
    <3>1. i \in 1 .. n
      BY <2>1, <2>3
    <3>2. CASE i = n
      BY <2>3, <3>1, <3>2
    <3>3. CASE i < n
      BY <2>3, <3>1, <3>3
    <3> QED BY <2>3, <3>1, <3>2, <3>3
  <2>5. order[(i % n) + 1] \in Seat
    <3>1. (i % n) + 1 \in 1 .. n
      BY <2>1, <2>3, <2>4
    <3> QED BY <2>3, <3>1
  <2> QED BY <2>1, <2>2, <2>4, <2>5 DEF n
<1> QED BY <1>1, <1>2, <1>3

LEMMA SeriesStepKeeps ==
  ASSUME CrapsInv, SeriesStep
  PROVE  CrapsInv'
<1>0. board.phase \in {"come_out", "point"}
  BY DEF CrapsInv, BoardInv, CrapsBoard
<1>1. CASE AutoSeries
  <2>1. /\ due /\ due' = FALSE /\ board' = ResetShooter(board) /\ series' = Len(board.rolls)
        /\ shooting' = Rotate /\ clumsy' = clumsy \ {"passed"} /\ UNCHANGED <<source, order, seated, slip, thrower>>
    BY <1>1 DEF AutoSeries, SeriesOnBoard
  <2>2. board.phase = "come_out"
    BY <2>1 DEF CrapsInv, DiceInv
  <2>3. BoardInv'
    BY <2>1, <2>2, BoardOfSeries DEF CrapsInv
  <2>4. Rotate \in Seat \cup {NoSeat}
    BY NextShooterType DEF CrapsInv, DiceInv, Rotate
  <2>5. DiceInv'
    BY <2>1, <2>4 DEF CrapsInv, DiceInv
  <2>6. SlipInv'
    BY <2>1 DEF CrapsInv, SlipInv
  <2> QED BY <2>3, <2>5, <2>6 DEF CrapsInv
<1>2. CASE NewShooter
  <2>1. /\ ~due /\ board' = ResetShooter(board) /\ series' = Len(board.rolls)
        /\ clumsy' = IF board.phase = "point" THEN clumsy \cup {"midHand"} ELSE clumsy
        /\ UNCHANGED <<source, due, diceVars, slip, thrower>>
    BY <1>2 DEF NewShooter, SeriesOnBoard
  <2>2. BoardInv'
    BY <2>1, BoardOfSeries DEF CrapsInv
  <2>3. DiceInv'
    BY <2>1 DEF CrapsInv, DiceInv, diceVars, CrapsMishap
  <2>4. SlipInv'
    BY <2>1 DEF CrapsInv, SlipInv
  <2> QED BY <2>2, <2>3, <2>4 DEF CrapsInv
<1>3. CASE RotateVirtualSeries
  <2>1. /\ source = "virtual" /\ board' = EmptyBoard /\ series' = 0 /\ order' = <<>> /\ shooting' = NoSeat
        /\ clumsy' = IF board.phase = "point" THEN clumsy \cup {"midHand"} ELSE clumsy
        /\ UNCHANGED <<source, due, seated, slip, thrower>>
    BY <1>3 DEF RotateVirtualSeries
  <2>2. BoardInv'
    <3>1. <<>> \in Seq(Thrown) /\ Len(<<>>) = 0 /\ MaxRolls \in Nat
      BY CrapsBoundAssumption
    <3>2. PICK rs : rs = <<>>
      OBVIOUS
    <3>3. rs \in Seq(Thrown) /\ board' = Rebuilt(rs) /\ Len(rs) <= MaxRolls /\ series' \in 0 .. Len(rs)
      BY <2>1, <3>1, <3>2, RebuiltSteps
    <3> QED BY <3>3, BoardOfRolls
  <2>3. DiceInv'
    <3>1. <<>> \in Seq(Seat)
      OBVIOUS
    <3> QED BY <2>1, <3>1 DEF CrapsInv, DiceInv, CrapsMishap
  <2>4. SlipInv'
    BY <2>1 DEF CrapsInv, SlipInv
  <2> QED BY <2>2, <2>3, <2>4 DEF CrapsInv
<1> QED BY <1>1, <1>2, <1>3 DEF SeriesStep

\* What a correction takes back of the bet.
LEMMA UnsettledSlip ==
  ASSUME SlipInv, NEW i, slip' = IF SettlingRoll(i) THEN Unsettled(slip) ELSE slip
  PROVE  SlipInv'
<1>1. CASE SettlingRoll(i)
  <2>1. slip \in OnSlip
    BY <1>1 DEF SettlingRoll, SlipInv, NoSlip
  <2>2. slip' = [slip EXCEPT !.outcome = "none", !.at = "closed"]
    BY <1>1 DEF Unsettled
  <2> QED BY <2>1, <2>2 DEF SlipInv, OnSlip, SlipState
<1>2. CASE ~SettlingRoll(i)
  BY <1>2 DEF SlipInv
<1> QED BY <1>1, <1>2

LEMMA ChangeStepKeeps ==
  ASSUME CrapsInv, ChangeStep
  PROVE  CrapsInv'
<1>1. PICK l : l = board.rolls
  OBVIOUS
<1>2. l \in Seq(RollRow) /\ l \in Seq(Thrown) /\ Len(l) <= MaxRolls /\ MaxRolls \in Nat /\ series \in 0 .. Len(l)
  <2>1. l \in Seq(RollRow)
    BY <1>1 DEF CrapsInv, BoardInv, CrapsBoard
  <2> QED BY <1>1, <2>1, CrapsBoundAssumption DEF CrapsInv, BoardInv, Thrown
<1>3. ASSUME NEW i, Corrects(i) PROVE DiceInv' /\ UNCHANGED series /\ i > series
  <2>1. ~due /\ i > series /\ UNCHANGED <<source, series, due, diceVars, thrower, clumsy>>
    BY <1>3 DEF Corrects
  <2> QED BY <2>1 DEF CrapsInv, DiceInv, diceVars
<1>4. ASSUME NEW i \in DOMAIN l, Corrects(i), Without(i) PROVE CrapsInv'
  <2>1. PICK rs : rs = RemoveAt(l, i)
    OBVIOUS
  <2>2. board' = Rebuilt(rs) /\ slip' = IF SettlingRoll(i) THEN Unsettled(slip) ELSE slip
    BY <1>1, <1>4, <2>1 DEF Without
  <2>3. rs \in Seq(Thrown) /\ Len(rs) = Len(l) - 1
    BY <1>2, <1>4, <2>1 DEF RemoveAt
  <2>4. Len(rs) <= MaxRolls /\ series' \in 0 .. Len(rs)
    <3>1. i > series /\ i \in 1 .. Len(l) /\ series' = series
      BY <1>2, <1>3, <1>4
    <3> QED BY <1>2, <2>3, <3>1
  <2>5. BoardInv'
    BY <2>2, <2>3, <2>4, BoardOfRolls
  <2>6. SlipInv'
    BY <2>2, UnsettledSlip DEF CrapsInv
  <2> QED BY <1>3, <1>4, <2>5, <2>6 DEF CrapsInv
<1>5. CASE UndoRoll
  <2>1. Len(l) > 0 /\ Corrects(Len(l)) /\ Without(Len(l))
    BY <1>1, <1>5 DEF UndoRoll
  <2>2. Len(l) \in DOMAIN l
    BY <1>2, <2>1
  <2> QED BY <1>4, <2>1, <2>2
<1>6. ASSUME NEW i \in DOMAIN l, DeleteRoll(i) PROVE CrapsInv'
  BY <1>4, <1>6 DEF DeleteRoll
<1>7. ASSUME NEW i \in DOMAIN l, NEW d \in Dice, EditRoll(i, d) PROVE CrapsInv'
  <2>1. Corrects(i)
    BY <1>7 DEF EditRoll
  <2>2. PICK rs : rs = [l EXCEPT ![i].total = d.total, ![i].hard = d.hard]
    OBVIOUS
  <2>3. board' = Rebuilt(rs) /\ slip' = IF SettlingRoll(i) THEN Unsettled(slip) ELSE slip
    BY <1>1, <1>7, <2>2 DEF EditRoll
  <2>4. rs \in Seq(Thrown) /\ Len(rs) = Len(l)
    <3>1. d.total \in 2 .. 12 /\ d.hard \in {"hard", "easy", "unknown"}
      BY DiceAssumption
    <3>2. l[i] \in RollRow
      BY <1>2
    <3>3. PICK e : e = [[l[i] EXCEPT !.total = d.total] EXCEPT !.hard = d.hard]
      OBVIOUS
    <3>4. e \in RollRow
      BY <3>1, <3>2, <3>3 DEF RollRow
    <3>5. rs = [l EXCEPT ![i] = e]
      BY <1>2, <2>2, <3>3
    <3>6. e \in Thrown
      BY <3>4 DEF Thrown
    <3> QED BY <1>2, <3>5, <3>6
  <2>5. BoardInv'
    <3>1. Len(rs) <= MaxRolls /\ series' \in 0 .. Len(rs)
      BY <1>2, <1>3, <2>1, <2>4
    <3> QED BY <2>3, <2>4, <3>1, BoardOfRolls
  <2>6. SlipInv'
    BY <2>3, UnsettledSlip DEF CrapsInv
  <2> QED BY <1>3, <2>1, <2>5, <2>6 DEF CrapsInv
<1> QED BY <1>1, <1>5, <1>6, <1>7 DEF ChangeStep

LEMMA SeatStepKeeps ==
  ASSUME CrapsInv, SeatStep
  PROVE  CrapsInv'
<1>1. UNCHANGED <<source, board, series, due, slip, thrower>> /\ (UNCHANGED clumsy \/ PassDice)
  BY DEF SeatStep, SeatJoins, SeatLeaves, AssignShooter, PassDice
<1>2. BoardInv' /\ SlipInv'
  <2>1. "midHand" \in clumsy => "midHand" \in clumsy'
    BY <1>1 DEF PassDice
  <2> QED BY <1>1, <2>1 DEF CrapsInv, BoardInv, SlipInv
<1>3. ASSUME NEW p \in Seat, SeatJoins(p) PROVE DiceInv'
  <2>1. /\ seated' = seated \cup {p} /\ order' \in {order, Append(order, p)}
        /\ shooting' = IF shooting = NoSeat THEN p ELSE shooting
        /\ UNCHANGED <<source, board, due, thrower, clumsy>>
    BY <1>3 DEF SeatJoins
  <2>2. order' \in Seq(Seat)
    BY <2>1 DEF CrapsInv, DiceInv
  <2> QED BY <2>1, <2>2 DEF CrapsInv, DiceInv
<1>4. ASSUME NEW p \in Seat, SeatLeaves(p) PROVE DiceInv'
  <2>1. /\ ~due /\ seated' = seated \ {p} /\ order' = Selection(order, Seat \ {p})
        /\ shooting' = IF shooting # p THEN shooting ELSE IF order' = <<>> THEN NoSeat ELSE order'[1]
        /\ UNCHANGED <<source, board, due, thrower, clumsy>>
    BY <1>4 DEF SeatLeaves
  <2>2. order' \in Seq(Seat)
    <3>1. PICK T : T = Seat \ {p}
      OBVIOUS
    <3>2. order \in Seq(Seat)
      BY DEF CrapsInv, DiceInv
    <3>3. Selection(order, T) \in Seq(Seat)
      BY <3>2, SelectionSteps
    <3> QED BY <2>1, <3>1, <3>3
  <2>3. shooting' \in Seat \cup {NoSeat}
    <3>1. order' # <<>> => order'[1] \in Seat
      BY <2>2
    <3> QED BY <2>1, <3>1 DEF CrapsInv, DiceInv
  <2> QED BY <2>1, <2>2, <2>3 DEF CrapsInv, DiceInv
<1>5. ASSUME NEW p \in Seat, AssignShooter(p) PROVE DiceInv'
  BY <1>5 DEF CrapsInv, DiceInv, AssignShooter
<1>6. CASE PassDice
  <2>1. /\ shooting' = NextShooter(shooting) /\ clumsy' = IF due THEN clumsy \cup {"passed"} ELSE clumsy
        /\ UNCHANGED <<source, board, due, order, seated, thrower>>
    BY <1>6 DEF PassDice
  <2>2. shooting' \in Seat \cup {NoSeat}
    BY <2>1, NextShooterType DEF CrapsInv, DiceInv
  <2>3. CASE due
    BY <1>2, <2>1, <2>2, <2>3 DEF CrapsInv, DiceInv, CrapsMishap
  <2>4. CASE ~due
    BY <1>2, <2>1, <2>2, <2>4 DEF CrapsInv, DiceInv, CrapsMishap
  <2> QED BY <2>3, <2>4
<1> QED BY <1>2, <1>3, <1>4, <1>5, <1>6 DEF SeatStep, CrapsInv

LEMMA SlipStepKeeps ==
  ASSUME CrapsInv, SlipStep
  PROVE  CrapsInv'
<1>1. UNCHANGED <<source, board, series, due, diceVars, thrower, clumsy>>
  BY DEF SlipStep, Ride, ToggleWorking, TakeDown, TapZone, TapBox, TapMenu, TapOdds, PlaceWager, SlipOnly
<1>2. BoardInv' /\ DiceInv'
  BY <1>1 DEF CrapsInv, BoardInv, DiceInv, diceVars
<1>3. CASE Ride
  <2>1. slip \in OnSlip
    BY <1>3 DEF Ride, CrapsInv, SlipInv, NoSlip
  <2>2. [slip EXCEPT !.at = "open", !.outcome = "none"] \in OnSlip
    BY <2>1 DEF OnSlip, SlipState
  <2> QED BY <1>2, <1>3, <2>2 DEF Ride, SlipInv, CrapsInv
<1>4. CASE ToggleWorking
  <2>1. slip \in OnSlip
    BY <1>4 DEF ToggleWorking, CrapsInv, SlipInv, NoSlip
  <2>2. [slip EXCEPT !.working = ~slip.working, !.asked = ~slip.working] \in OnSlip
    BY <2>1 DEF OnSlip, SlipState
  <2> QED BY <1>2, <1>4, <2>2 DEF ToggleWorking, SlipInv, CrapsInv
<1>5. CASE TakeDown
  BY <1>2, <1>5 DEF TakeDown, SlipInv, CrapsInv
<1>6. ASSUME NEW w \in Wager, NEW n \in Stake, TapZone(w, n) \/ TapBox(w, n) \/ TapMenu(w, n) \/ TapOdds(w, n)
      PROVE  SlipInv'
  <2>1. w.kind \in PlaceLike => w.target # 0
    BY <1>6 DEF TapZone, TapBox, TapMenu, TapOdds, PlaceLike
  <2>2. w.kind \in BetId /\ w.target \in Point \cup {0} /\ w.line \in Lines /\ (w.target # 0 => w.kind \in PlaceLike)
    BY WagerAssumption
  <2>3. n \in Nat \ {0}
    BY StakeAssumption
  <2>4. DefaultWorking(w.kind) \in BOOLEAN
    BY CrapsRulesAssumption DEF DefaultWorking
  <2>5. slip' = [kind |-> w.kind, target |-> w.target, line |-> w.line, amount |-> n,
                 working |-> DefaultWorking(w.kind), asked |-> FALSE, from |-> w.target, outcome |-> "none", at |-> "open"]
    BY <1>6 DEF TapZone, TapBox, TapMenu, TapOdds, PlaceWager
  <2>6. slip' \in SlipState
    BY <2>2, <2>3, <2>4, <2>5 DEF SlipState
  <2>7. slip' \in OnSlip
    BY <2>1, <2>2, <2>5, <2>6 DEF OnSlip
  <2> QED BY <2>7 DEF SlipInv
<1> QED BY <1>2, <1>3, <1>4, <1>5, <1>6 DEF SlipStep, CrapsInv

LEMMA CrapsInvKept == CrapsInv /\ [CrapsNext]_crapsVars => CrapsInv'
<1> SUFFICES ASSUME CrapsInv, [CrapsNext]_crapsVars PROVE CrapsInv'
  OBVIOUS
<1>1. CASE CrapsNext
  BY <1>1, RollStepKeeps, SeriesStepKeeps, ChangeStepKeeps, SeatStepKeeps, SlipStepKeeps DEF CrapsNext
<1>2. CASE UNCHANGED crapsVars
  BY <1>2 DEF crapsVars, diceVars, CrapsInv, BoardInv, SlipInv, DiceInv
<1> QED BY <1>1, <1>2

LEMMA CrapsInvAlways == CrapsSpec => []CrapsInv
<1>1. CrapsInit => CrapsInv
  BY CrapsInvInit
<1>2. CrapsInv /\ [CrapsNext]_crapsVars => CrapsInv'
  BY CrapsInvKept
<1> QED BY <1>1, <1>2, PTL DEF CrapsSpec

\* The state of the game is always of its type.
THEOREM CrapsTyped == CrapsSpec => []CrapsTypeOK
<1>1. ASSUME CrapsInv PROVE CrapsTypeOK
  <2>1. /\ board.phase \in {"come_out", "point"} /\ board.point \in Point \cup {0}
        /\ board.shooter.points \subseteq Point /\ board.shooter.totals \subseteq 2 .. 12
        /\ series \in 0 .. Len(board.rolls) /\ Len(board.rolls) <= MaxRolls
    BY <1>1 DEF CrapsInv, BoardInv, CrapsBoard, ShooterCount
  <2>2. slip = NoSlip \/ slip.outcome \in {"none", "win", "lose", "push", "stay"}
    BY <1>1 DEF CrapsInv, SlipInv, OnSlip, SlipState
  <2> QED BY <1>1, <2>1, <2>2 DEF CrapsInv, DiceInv, CrapsTypeOK
<1> QED BY <1>1, CrapsInvAlways, PTL

\* A roll recorded while a bet is in the round.
LEMMA RollSettlesByTheRules ==
  ASSUME CrapsInv, NEW d \in Dice, board' = Rebuilt(Append(board.rolls, RollOf(d, TRUE))),
         slip' = SettleSlip(slip, d, board, board'), slip.at \in {"open", "closed"},
         slip.kind \in Covered, AsAsked(slip), "midHand" \notin clumsy
  PROVE  slip'.outcome = OutcomeByRule(AsPlaced(slip'), Last(board'.rolls))
<1>1. PICK b \in OnSlip : b = slip
  BY DEF CrapsInv, SlipInv, NoSlip
<1>2. PICK e \in ThrownRow : e = RollOf(d, TRUE)
  BY RollOfType
<1>3. PICK x, y, z : x = board /\ y = board' /\ z = Rebuilt(board.rolls)
  OBVIOUS
<1>4. PICK r : r = RowOf(z, e)
  OBVIOUS
<1>5. z.phase = x.phase /\ z.point = x.point
  BY <1>3 DEF CrapsInv, BoardInv
<1>6. r \in RollRow /\ y.rolls = Append(x.rolls, r) /\ x.rolls \in Seq(RollRow)
  BY <1>2, <1>3, <1>4, OneRollMore DEF CrapsInv, BoardInv, CrapsBoard
<1>7. Last(y.rolls) = r /\ y.rolls # <<>>
  BY <1>6 DEF Last
<1>8. PICK s : s = AsPlaced(slip')
  OBVIOUS
<1>9. PICK t : t = SettleSlip(b, d, x, y)
  OBVIOUS
<1>10. /\ t \in OnSlip /\ t.kind = b.kind /\ t.from = b.target /\ t.asked = b.asked
       /\ t.outcome = SettleCraps(b, d, x, y).outcome
  BY <1>9, SettleSlipTypes
<1>11. t = slip' /\ s = [t EXCEPT !.target = t.from]
  BY <1>1, <1>3, <1>8, <1>9 DEF AsPlaced
<1>12. s.kind = b.kind /\ s.target = b.target /\ s.asked = b.asked /\ s.from = b.target
  BY <1>10, <1>11 DEF OnSlip, SlipState
<1>13. Settling(b, d, x, y, r, s)
  <2>1. Follows(x, r)
    <3>1. x.phase \in {"come_out", "point"} /\ x.point \in Point \cup {0} /\ ((x.phase = "come_out") <=> (x.point = 0))
      BY <1>3 DEF CrapsInv, BoardInv, CrapsBoard
    <3>2. r.total = e.total /\ r.phase = x.phase /\ r.before = x.point /\ r.decision = Decision(e.total, x.phase, x.point)
      BY <1>4, <1>5 DEF RowOf
    <3> QED BY <1>6, <3>1, <3>2 DEF Follows
  <2>2. r.total = d.total /\ r.hard = d.hard
    BY <1>2, <1>4 DEF RowOf, RollOf
  <2>3. Decided(y) = r.decision
    BY <1>7 DEF Decided
  <2>4. b.kind \in PlaceLike => b.working = b.asked
    BY <1>1 DEF AsAsked
  <2> QED BY <1>12, <2>1, <2>2, <2>3, <2>4 DEF Settling
<1>14. SettleCraps(b, d, x, y).outcome = OutcomeByRule(s, r)
  BY <1>1, <1>13, SettledByTheRules
<1> QED BY <1>3, <1>7, <1>8, <1>10, <1>11, <1>14

\* A recorded roll settles the bet as the catalogue says for the phase that the log gives
\* that roll, for any tables, bets, corrections and new shooters (settleRound, settleCraps).
THEOREM RollsSettleByTheRules == CrapsSpec => OutcomesByTheRules
<1> DEFINE Met == /\ InRound /\ slip'.at = "settled" /\ slip.kind \in Covered /\ AsAsked(slip)
                  /\ "midHand" \notin clumsy
           ByRule == Met => slip'.outcome = OutcomeByRule(AsPlaced(slip'), Last(board'.rolls))
<1>1. ASSUME CrapsInv, CrapsNext, Met PROVE slip'.outcome = OutcomeByRule(AsPlaced(slip'), Last(board'.rolls))
  <2>0. slip.at \in {"open", "closed"} /\ slip # NoSlip /\ slip' # slip /\ slip'.at = "settled" /\ slip \in OnSlip
    BY <1>1 DEF InRound, NoSlip, CrapsInv, SlipInv
  <2>1. ASSUME NEW d \in Dice, Rolled(d) PROVE ByRule
    <3>1. board' = Rebuilt(Append(board.rolls, RollOf(d, TRUE))) /\ slip' = SettleSlip(slip, d, board, board')
      BY <1>1, <2>1 DEF Rolled, Entry, RollOf
    <3> QED BY <1>1, <2>0, <3>1, RollSettlesByTheRules
  <2>2. ASSUME NEW d \in Dice, QuickRoll(d) PROVE ByRule
    <3>1. slip.at = "closed"
      BY <2>0, <2>2 DEF QuickRoll
    <3>2. board' = Rebuilt(Append(board.rolls, RollOf(d, TRUE))) /\ slip' = SettleSlip(slip, d, board, board')
      BY <2>2, <3>1 DEF QuickRoll, RollOf
    <3> QED BY <1>1, <2>0, <3>2, RollSettlesByTheRules
  <2>3. RollStep => ByRule
    BY <2>1, <2>2 DEF RollStep, ConfirmRoll, VirtualRoll
  <2>4. ~SeriesStep /\ ~SeatStep
    BY <2>0 DEF SeriesStep, AutoSeries, NewShooter, RotateVirtualSeries, SeatStep, SeatJoins, SeatLeaves, AssignShooter, PassDice
  <2>5. ~ChangeStep
    BY <2>0 DEF ChangeStep, UndoRoll, DeleteRoll, EditRoll, Without, SettlingRoll
  <2>6. ~SlipStep
    <3>1. ~Ride /\ ~TakeDown
      BY <2>0 DEF Ride, TakeDown, NoSlip
    <3>2. ~ToggleWorking
      BY <2>0 DEF ToggleWorking, OnSlip, SlipState
    <3>3. \A w, n : ~TapZone(w, n) /\ ~TapBox(w, n) /\ ~TapMenu(w, n) /\ ~TapOdds(w, n)
      BY <2>0 DEF TapZone, TapBox, TapMenu, TapOdds, PlaceWager
    <3> QED BY <3>1, <3>2, <3>3 DEF SlipStep
  <2> QED BY <1>1, <2>3, <2>4, <2>5, <2>6 DEF CrapsNext
<1>2. CrapsInv /\ [CrapsNext]_crapsVars => [ByRule]_crapsVars
  BY <1>1
<1> QED BY <1>2, CrapsInvAlways, PTL DEF CrapsSpec, OutcomesByTheRules

\* After a seven-out the dice go to the neighbour of the player who threw it, whoever joins
\* meanwhile (executeConfirm, rotateShooterAfterSevenOut).
THEOREM DiceGoRound == CrapsSpec => DiceGoToNext
<1> DEFINE Ring == Append(order, order[1])
           Next1 == \E i \in DOMAIN order : Ring[i] = thrower /\ Ring[i + 1] = shooting'
           GoesOn == due /\ ~due' /\ thrower \in ToSet(order) /\ "passed" \notin clumsy => Next1
<1>1. ASSUME CrapsInv, CrapsNext, due, ~due', thrower \in ToSet(order), "passed" \notin clumsy PROVE Next1
  <2>1. AutoSeries
    BY <1>1 DEF CrapsNext, RollStep, ConfirmRoll, QuickRoll, VirtualRoll, SeriesStep, NewShooter, RotateVirtualSeries,
       ChangeStep, UndoRoll, DeleteRoll, EditRoll, Corrects, SeatStep, SeatJoins, SeatLeaves, AssignShooter, PassDice,
       SlipStep, Ride, ToggleWorking, TakeDown, TapZone, TapBox, TapMenu, TapOdds, PlaceWager, SlipOnly
  <2>2. order \in Seq(Seat) /\ order # <<>> /\ thrower \in Seat
    BY <1>1 DEF CrapsInv, DiceInv, ToSet
  <2>3. shooting = thrower
    BY <1>1, <2>2, SeatAssumption DEF CrapsInv, DiceInv
  <2>4. shooting' = NextShooter(thrower)
    BY <2>1, <2>2, <2>3 DEF AutoSeries, Rotate
  <2>5. PICK i \in DOMAIN order :
          order[i] = thrower /\ NextShooter(thrower) = order[IF i = Len(order) THEN 1 ELSE i + 1]
    <3>1. PICK p : p = thrower
      OBVIOUS
    <3> QED BY <1>1, <2>2, <3>1, NextShooterType
  <2>6. Ring[i] = order[i] /\ Ring[i + 1] = order[IF i = Len(order) THEN 1 ELSE i + 1]
    BY <2>2
  <2> QED BY <2>4, <2>5, <2>6
<1>2. CrapsInv /\ [CrapsNext]_crapsVars => [GoesOn]_crapsVars
  BY <1>1
<1> QED BY <1>2, CrapsInvAlways, PTL DEF CrapsSpec, DiceGoToNext

(* The puck *)

PointAt(l, e) == l[e].decision = "point_established"

\* The puck is on p after the first n rolls: p is the one number that was set and not settled.
PuckAt(l, n, p) ==
  /\ p = 0 => \A e \in 1 .. n : PointAt(l, e) => Settled(l, e, n)
  /\ p # 0 => \E e \in 1 .. n : /\ PointAt(l, e) /\ ~Settled(l, e, n) /\ l[e].total = p
                                /\ \A f \in 1 .. n : PointAt(l, f) /\ ~Settled(l, f, n) => f = e

\* Every roll is decided by the puck as the rolls before it left it.
Told(l) ==
  \A i \in DOMAIN l : /\ (l[i].phase = "come_out") <=> (l[i].before = 0)
                      /\ l[i].decision = Decision(l[i].total, l[i].phase, l[i].before)
                      /\ PuckAt(l, i - 1, l[i].before)

\* One roll more settles what it settles.
LEMMA SettledMore ==
  ASSUME NEW l \in Seq(RollRow), NEW n \in Nat, n + 1 \in DOMAIN l
  PROVE  /\ \A e \in 1 .. n : Settled(l, e, n + 1) <=> (Settled(l, e, n) \/ l[n + 1].total \in {7, l[e].total})
         /\ ~Settled(l, n + 1, n + 1)
<1>1. ASSUME NEW e \in 1 .. n
      PROVE  Settled(l, e, n + 1) <=> (Settled(l, e, n) \/ l[n + 1].total \in {7, l[e].total})
  <2>1. \A k : k \in e + 1 .. n + 1 <=> (k \in e + 1 .. n \/ k = n + 1)
    OBVIOUS
  <2> QED BY <2>1 DEF Settled
<1>2. ~Settled(l, n + 1, n + 1)
  <2>1. (n + 1) + 1 .. n + 1 = {}
    OBVIOUS
  <2> QED BY <2>1 DEF Settled
<1> QED BY <1>1, <1>2

LEMMA PuckMoves ==
  ASSUME NEW l \in Seq(RollRow), NEW n \in Nat, n + 1 \in DOMAIN l,
         NEW phase \in {"come_out", "point"}, NEW p \in Point \cup {0}, (phase = "come_out") <=> (p = 0),
         PuckAt(l, n, p), l[n + 1].decision = Decision(l[n + 1].total, phase, p)
  PROVE  PuckAt(l, n + 1, Puck(l[n + 1].decision, l[n + 1].total, phase, p)[2])
<1> DEFINE total == l[n + 1].total
           decision == l[n + 1].decision
           q == Puck(decision, total, phase, p)[2]
<1>1. total \in 2 .. 12
  <2>1. l[n + 1] \in RollRow
    OBVIOUS
  <2> QED BY <2>1 DEF RollRow
<1>2. /\ decision = "point_established" <=> phase = "come_out" /\ total \in Point
      /\ decision = "point_made" <=> phase = "point" /\ total = p
      /\ decision = "seven_out" <=> phase = "point" /\ total = 7
  <2> HIDE DEF total
  <2>1. Decision(total, phase, p) = decision
    BY DEF total
  <2> QED BY <1>1, <2>1, DecisionSays
<1>3. q = IF decision = "point_established" THEN total
          ELSE IF decision \in {"point_made", "seven_out"} THEN 0 ELSE p
  BY DEF Puck
<1>4. \A e : PointAt(l, e) <=> l[e].decision = "point_established"
  BY DEF PointAt
<1>5. PointAt(l, n + 1) <=> phase = "come_out" /\ total \in Point
  BY <1>2, <1>4
<1>6. \A e \in 1 .. n : Settled(l, e, n + 1) <=> (Settled(l, e, n) \/ total \in {7, l[e].total})
  BY SettledMore
<1>7. ~Settled(l, n + 1, n + 1)
  BY SettledMore
<1>8. \A e : e \in 1 .. n + 1 <=> (e \in 1 .. n \/ e = n + 1)
  OBVIOUS
<1>9. \A e \in 1 .. n : e # n + 1
  OBVIOUS
<1>10. 0 \notin Point /\ 7 \notin Point
  BY DEF Point
<1>11. total = l[n + 1].total
  OBVIOUS
<1> HIDE DEF total, decision, q
<1>12. CASE p = 0
  <2>1. \A e \in 1 .. n : PointAt(l, e) => Settled(l, e, n + 1)
    BY <1>6, <1>12 DEF PuckAt
  <2>2. CASE total \in Point
    <3>1. q = total /\ q # 0 /\ PointAt(l, n + 1)
      BY <1>2, <1>3, <1>5, <1>10, <1>12, <2>2
    <3>2. \A f \in 1 .. n + 1 : PointAt(l, f) /\ ~Settled(l, f, n + 1) => f = n + 1
      BY <1>8, <2>1
    <3>3. n + 1 \in 1 .. n + 1
      OBVIOUS
    <3> QED BY <1>7, <1>11, <3>1, <3>2, <3>3 DEF PuckAt, q, decision, total
  <2>3. CASE total \notin Point
    <3>1. q = 0 /\ ~PointAt(l, n + 1)
      BY <1>2, <1>3, <1>5, <1>12, <2>3
    <3>2. \A e \in 1 .. n + 1 : PointAt(l, e) => Settled(l, e, n + 1)
      BY <1>8, <2>1, <3>1
    <3> QED BY <3>1, <3>2 DEF PuckAt, q, decision, total
  <2> QED BY <2>2, <2>3
<1>13. CASE p # 0
  <2>1. PICK e \in 1 .. n : /\ PointAt(l, e) /\ ~Settled(l, e, n) /\ l[e].total = p
                            /\ \A f \in 1 .. n : PointAt(l, f) /\ ~Settled(l, f, n) => f = e
    BY <1>13 DEF PuckAt
  <2>2. phase = "point" /\ ~PointAt(l, n + 1)
    BY <1>5, <1>13
  <2>3. CASE total \in {7, p}
    <3>1. q = 0
      BY <1>2, <1>3, <2>2, <2>3
    <3>2. \A f \in 1 .. n + 1 : PointAt(l, f) => Settled(l, f, n + 1)
      BY <1>6, <1>8, <2>1, <2>2, <2>3
    <3> QED BY <3>1, <3>2 DEF PuckAt, q, decision, total
  <2>4. CASE total \notin {7, p}
    <3>1. q = p
      BY <1>2, <1>3, <2>2, <2>4
    <3>2. ~Settled(l, e, n + 1) /\ e \in 1 .. n + 1
      BY <1>6, <1>8, <2>1, <2>4
    <3>3. \A f \in 1 .. n + 1 : PointAt(l, f) /\ ~Settled(l, f, n + 1) => f = e
      BY <1>6, <1>8, <2>1, <2>2
    <3> QED BY <1>13, <2>1, <3>1, <3>2, <3>3 DEF PuckAt, q, decision, total
  <2> QED BY <2>3, <2>4
<1> QED BY <1>12, <1>13 DEF q, decision, total

\* What is said of the first n rolls stays as it is when one is added.
LEMMA PuckAtPart ==
  ASSUME NEW l \in Seq(RollRow), NEW row \in RollRow, NEW n \in 0 .. Len(l), NEW p
  PROVE  PuckAt(Append(l, row), n, p) <=> PuckAt(l, n, p)
<1> DEFINE m == Append(l, row)
<1>1. \A i \in 1 .. n : m[i] = l[i]
  OBVIOUS
<1> HIDE DEF m
<1>2. ASSUME NEW e \in 1 .. n PROVE Settled(m, e, n) <=> Settled(l, e, n)
  <2>1. e + 1 .. n \subseteq 1 .. n
    OBVIOUS
  <2> QED BY <1>1, <2>1 DEF Settled
<1>3. \A e \in 1 .. n : PointAt(m, e) <=> PointAt(l, e)
  BY <1>1 DEF PointAt
<1>4. PuckAt(m, n, p) <=> PuckAt(l, n, p)
  BY <1>1, <1>2, <1>3 DEF PuckAt
<1> QED BY <1>4 DEF m

LEMMA RebuiltTells ==
  ASSUME NEW s \in Seq(Thrown)
  PROVE  LET y == Rebuilt(s) IN Told(y.rolls) /\ PuckAt(y.rolls, Len(y.rolls), y.point)
<1> DEFINE Q == {r \in Seq(Thrown) : LET y == Rebuilt(r) IN Told(y.rolls) /\ PuckAt(y.rolls, Len(y.rolls), y.point)}
<1>1. <<>> \in Q
  <2>1. Rebuilt(<<>>).rolls = <<>> /\ Rebuilt(<<>>).point = 0
    BY RebuiltSteps DEF EmptyBoard
  <2>2. <<>> \in Seq(Thrown) /\ Told(<<>>)
    BY DEF Told
  <2>3. PuckAt(<<>>, Len(<<>>), 0)
    <3>1. 1 .. Len(<<>>) = {}
      OBVIOUS
    <3> QED BY <3>1 DEF PuckAt
  <2> QED BY <2>1, <2>2, <2>3
<1>2. ASSUME NEW r \in Seq(Thrown), NEW d \in Thrown, r \in Q
      PROVE  Append(r, d) \in Q
  <2>1. PICK b : b = Rebuilt(r)
    OBVIOUS
  <2>2. PICK y : y = AddRoll(b, d)
    OBVIOUS
  <2>3. PICK row : row = RowOf(b, d)
    OBVIOUS
  <2>4. b \in CrapsBoard /\ Rebuilt(Append(r, d)) = y /\ ((b.phase = "come_out") <=> (b.point = 0))
    BY <2>1, <2>2, RebuiltSteps, RebuiltAgain
  <2>5. /\ row \in RollRow /\ y.rolls = Append(b.rolls, row)
        /\ y.point = Puck(Decision(d.total, b.phase, b.point), d.total, b.phase, b.point)[2]
    BY <2>2, <2>3, <2>4, AddRollTypes
  <2>6. PICK l, n : l = b.rolls /\ n = Len(l)
    OBVIOUS
  <2>7. PICK m : m = Append(l, row)
    OBVIOUS
  <2>8. /\ l \in Seq(RollRow) /\ n \in Nat /\ m \in Seq(RollRow) /\ Len(m) = n + 1 /\ n + 1 \in DOMAIN m
        /\ m[n + 1] = row /\ DOMAIN m = 1 .. n + 1 /\ DOMAIN l = 1 .. n
        /\ \A i \in 1 .. n : m[i] = l[i]
    BY <2>4, <2>5, <2>6, <2>7 DEF CrapsBoard
  <2>9. Told(l) /\ PuckAt(l, n, b.point)
    BY <1>2, <2>1, <2>6
  <2>10. \A i \in 0 .. n : \A p : PuckAt(m, i, p) <=> PuckAt(l, i, p)
    BY <2>5, <2>6, <2>7, <2>8, PuckAtPart
  <2>11. /\ row.phase = b.phase /\ row.before = b.point /\ row.total = d.total
         /\ row.decision = Decision(row.total, b.phase, b.point)
    BY <2>3 DEF RowOf
  <2>12. Told(m)
    <3> SUFFICES ASSUME NEW i \in 1 .. n + 1
                 PROVE  /\ (m[i].phase = "come_out") <=> (m[i].before = 0)
                        /\ m[i].decision = Decision(m[i].total, m[i].phase, m[i].before)
                        /\ PuckAt(m, i - 1, m[i].before)
      BY <2>8 DEF Told
    <3>1. CASE i = n + 1
      <4>1. n \in 0 .. n /\ i - 1 = n
        BY <2>8, <3>1
      <4> QED BY <2>4, <2>8, <2>9, <2>10, <2>11, <3>1, <4>1
    <3>2. CASE i \in 1 .. n
      <4>1. i - 1 \in 0 .. n
        BY <2>8, <3>2
      <4> QED BY <2>8, <2>9, <2>10, <3>2, <4>1 DEF Told
    <3> QED BY <2>8, <3>1, <3>2
  <2>13. PuckAt(m, n + 1, y.point)
    <3>1. b.phase \in {"come_out", "point"} /\ b.point \in Point \cup {0}
      BY <2>4 DEF CrapsBoard
    <3>2. PICK phase, p : phase = b.phase /\ p = b.point
      OBVIOUS
    <3>3. PuckAt(m, n, p)
      <4>1. n \in 0 .. n
        BY <2>8
      <4> QED BY <2>9, <2>10, <3>2, <4>1
    <3>4. m[n + 1].decision = Decision(m[n + 1].total, phase, p)
      BY <2>8, <2>11, <3>2
    <3>5. PuckAt(m, n + 1, Puck(m[n + 1].decision, m[n + 1].total, phase, p)[2])
      BY <2>4, <2>8, <3>1, <3>2, <3>3, <3>4, PuckMoves
    <3>6. y.point = Puck(m[n + 1].decision, m[n + 1].total, phase, p)[2]
      BY <2>5, <2>8, <2>11, <3>2
    <3> QED BY <3>5, <3>6
  <2>14. Append(r, d) \in Seq(Thrown)
    OBVIOUS
  <2> QED BY <2>4, <2>5, <2>6, <2>7, <2>8, <2>12, <2>13, <2>14
<1> HIDE DEF Q
<1>3. s \in Q
  BY <1>1, <1>2, SequencesBySteps
<1> QED BY <1>3 DEF Q

\* The rolls that set a point, as PointRolls describes them.
SetPoints(l, E) ==
  \A i \in DOMAIN l : (i \in E) <=> (l[i].total \in Point /\ \A e \in E : e < i => Settled(l, e, i - 1))

LEMMA OnePointSet ==
  ASSUME NEW l \in Seq(RollRow), NEW E \in SUBSET DOMAIN l, NEW G \in SUBSET DOMAIN l,
         SetPoints(l, E), SetPoints(l, G)
  PROVE  E = G
<1> DEFINE D == {i \in DOMAIN l : ~(i \in E <=> i \in G)}
<1>1. CASE D = {}
  BY <1>1
<1>2. CASE D # {}
  <2>0. DOMAIN l \subseteq Nat
    OBVIOUS
  <2>1. D \subseteq Nat
    BY <2>0
  <2>2. \A i \in D : i \in DOMAIN l /\ ~(i \in E <=> i \in G)
    OBVIOUS
  <2>3. \A i \in DOMAIN l : i \notin D => (i \in E <=> i \in G)
    OBVIOUS
  <2> HIDE DEF D
  <2>4. PICK i \in D : \A j \in D : i <= j
    BY <1>2, <2>1, LeastNatural
  <2>5. \A j \in DOMAIN l : j < i => (j \in E <=> j \in G)
    BY <2>0, <2>1, <2>3, <2>4
  <2>6. i \in DOMAIN l
    BY <2>2
  <2>7. (\A e \in E : e < i => Settled(l, e, i - 1)) <=> (\A e \in G : e < i => Settled(l, e, i - 1))
    BY <2>5
  <2>8. (i \in E) <=> (i \in G)
    BY <2>6, <2>7 DEF SetPoints
  <2> QED BY <2>2, <2>8
<1> QED BY <1>1, <1>2

\* A told log shows its own points.
LEMMA PointsOfLog ==
  ASSUME NEW l \in Seq(RollRow), Told(l)
  PROVE  PointRolls(l) = {e \in DOMAIN l : PointAt(l, e)}
<1> DEFINE E == {e \in DOMAIN l : PointAt(l, e)}
<1>1. E \in SUBSET DOMAIN l /\ \A e \in DOMAIN l : e \in E <=> PointAt(l, e)
  OBVIOUS
<1> HIDE DEF E
<1>2. SetPoints(l, E)
  <2> SUFFICES ASSUME NEW i \in DOMAIN l
               PROVE  (i \in E) <=> (l[i].total \in Point /\ \A e \in E : e < i => Settled(l, e, i - 1))
    BY DEF SetPoints
  <2>1. PICK total, phase, p : total = l[i].total /\ phase = l[i].phase /\ p = l[i].before
    OBVIOUS
  <2>2. total \in 2 .. 12 /\ phase \in {"come_out", "point"} /\ p \in Point \cup {0}
    <3>1. l[i] \in RollRow
      OBVIOUS
    <3> QED BY <2>1, <3>1 DEF RollRow
  <2>3. /\ (phase = "come_out") <=> (p = 0)
        /\ l[i].decision = Decision(total, phase, p) /\ PuckAt(l, i - 1, p)
    BY <2>1 DEF Told
  <2>4. i \in E <=> phase = "come_out" /\ total \in Point
    BY <1>1, <2>2, <2>3, DecisionSays DEF PointAt
  <2>5. \A e \in DOMAIN l : e < i <=> e \in 1 .. i - 1
    OBVIOUS
  <2>6. 1 .. i - 1 \subseteq DOMAIN l
    OBVIOUS
  <2>7. (\A e \in E : e < i => Settled(l, e, i - 1)) <=> (\A e \in 1 .. i - 1 : PointAt(l, e) => Settled(l, e, i - 1))
    BY <1>1, <2>5, <2>6
  <2>8. (p = 0) <=> (\A e \in 1 .. i - 1 : PointAt(l, e) => Settled(l, e, i - 1))
    BY <2>3 DEF PuckAt
  <2> QED BY <2>1, <2>3, <2>4, <2>7, <2>8
<1>3. PointRolls(l) = CHOOSE G \in SUBSET DOMAIN l : SetPoints(l, G)
  BY DEF PointRolls, SetPoints
<1>4. PointRolls(l) \in SUBSET DOMAIN l /\ SetPoints(l, PointRolls(l))
  BY <1>1, <1>2, <1>3
<1>5. PICK G : G = PointRolls(l)
  OBVIOUS
<1>6. E = G
  BY <1>1, <1>2, <1>4, <1>5, OnePointSet
<1> QED BY <1>5, <1>6 DEF E

\* The decisions of a told log.
LEMMA DecisionsOfLog ==
  ASSUME NEW l \in Seq(RollRow), Told(l), NEW i \in DOMAIN l
  PROVE  LET On == {e \in PointRolls(l) : e <= i - 1 /\ ~Settled(l, e, i - 1)} IN
         /\ (l[i].decision = "seven_out") <=> (l[i].total = 7 /\ On # {})
         /\ (l[i].decision = "point_made") <=> (\E e \in On : l[e].total = l[i].total)
<1> DEFINE On == {e \in PointRolls(l) : e <= i - 1 /\ ~Settled(l, e, i - 1)}
<1>1. PICK total, phase, p : total = l[i].total /\ phase = l[i].phase /\ p = l[i].before
  OBVIOUS
<1>2. total \in 2 .. 12 /\ phase \in {"come_out", "point"} /\ p \in Point \cup {0}
  <2>1. l[i] \in RollRow
    OBVIOUS
  <2> QED BY <1>1, <2>1 DEF RollRow
<1>3. /\ (phase = "come_out") <=> (p = 0)
      /\ l[i].decision = Decision(total, phase, p) /\ PuckAt(l, i - 1, p)
  BY <1>1 DEF Told
<1>4. /\ l[i].decision = "seven_out" <=> phase = "point" /\ total = 7
      /\ l[i].decision = "point_made" <=> phase = "point" /\ total = p
  BY <1>2, <1>3, DecisionSays
<1>5. 1 .. i - 1 \subseteq DOMAIN l /\ \A e \in DOMAIN l : e <= i - 1 <=> e \in 1 .. i - 1
  OBVIOUS
<1>6. \A e : e \in On <=> e \in 1 .. i - 1 /\ PointAt(l, e) /\ ~Settled(l, e, i - 1)
  BY <1>5, PointsOfLog
<1> HIDE DEF On
<1>7. CASE p = 0
  <2>1. On = {}
    BY <1>3, <1>6, <1>7 DEF PuckAt
  <2> QED BY <1>3, <1>4, <1>7, <2>1 DEF On
<1>8. CASE p # 0
  <2>1. PICK e \in On : l[e].total = p /\ \A f \in On : f = e
    BY <1>3, <1>6, <1>8 DEF PuckAt
  <2> QED BY <1>1, <1>2, <1>3, <1>4, <1>8, <2>1 DEF On
<1> QED BY <1>7, <1>8

\* After any rolls, corrections and new shooters the puck and the decisions are what the
\* rolls alone say (rebuildFromResults).
THEOREM PuckAsRolled == CrapsSpec => []PuckFollowsRolls
<1>1. ASSUME CrapsInv PROVE PuckFollowsRolls
  <2>1. PICK l : l = board.rolls
    OBVIOUS
  <2>2. PICK y : y = Rebuilt(l)
    OBVIOUS
  <2>3. PICK n, E : n = Len(l) /\ E = PointRolls(l)
    OBVIOUS
  <2>4. l \in Seq(RollRow) /\ l \in Seq(Thrown) /\ n \in Nat /\ DOMAIN l = 1 .. n
    <3>1. l \in Seq(RollRow)
      BY <1>1, <2>1 DEF CrapsInv, BoardInv, CrapsBoard
    <3> QED BY <2>3, <3>1 DEF Thrown
  <2>5. y.rolls = l
    BY <1>1, <2>1, <2>2 DEF CrapsInv, BoardInv
  <2>6. Told(l) /\ PuckAt(l, n, y.point)
    BY <2>2, <2>3, <2>4, <2>5, RebuiltTells
  <2>7. E = {e \in DOMAIN l : PointAt(l, e)}
    BY <2>3, <2>4, <2>6, PointsOfLog
  <2>8. PICK On : On = {e \in E : e <= n /\ ~Settled(l, e, n)}
    OBVIOUS
  <2>9. \A e : e \in On <=> e \in 1 .. n /\ PointAt(l, e) /\ ~Settled(l, e, n)
    BY <2>4, <2>7, <2>8
  <2>10. y.point = IF On = {} THEN 0 ELSE l[CHOOSE e \in On : TRUE].total
    <3>1. CASE y.point = 0
      BY <2>6, <2>9, <3>1 DEF PuckAt
    <3>2. CASE y.point # 0
      <4>1. PICK e \in On : l[e].total = y.point /\ \A f \in On : f = e
        BY <2>6, <2>9, <3>2 DEF PuckAt
      <4>2. PICK c : c = CHOOSE f \in On : TRUE
        OBVIOUS
      <4>3. c \in On
        BY <4>1, <4>2
      <4>4. c = e /\ On # {}
        BY <4>1, <4>3
      <4> QED BY <4>1, <4>2, <4>4
    <3> QED BY <3>1, <3>2
  <2>11. \/ board.point = y.point
         \/ board.shooter = NoRolls /\ board.point = 0 /\ "midHand" \in clumsy
    BY <1>1, <2>1, <2>2 DEF CrapsInv, BoardInv
  <2>12. (board.phase = "point") <=> (board.point # 0)
    BY <1>1 DEF CrapsInv, BoardInv, CrapsBoard
  <2>13. ASSUME NEW i \in DOMAIN l
         PROVE  LET Before == {e \in E : e <= i - 1 /\ ~Settled(l, e, i - 1)} IN
                /\ (l[i].decision = "seven_out") <=> (l[i].total = 7 /\ Before # {})
                /\ (l[i].decision = "point_made") <=> (\E e \in Before : l[e].total = l[i].total)
    BY <2>3, <2>4, <2>6, DecisionsOfLog
  <2> QED BY <2>1, <2>3, <2>8, <2>10, <2>11, <2>12, <2>13 DEF PuckFollowsRolls
<1> QED BY <1>1, CrapsInvAlways, PTL
=============================================================================
