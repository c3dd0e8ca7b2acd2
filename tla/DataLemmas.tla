------------------------------ MODULE DataLemmas -------------------------------
(***************************************************************************)
(* Facts about numbers, finite sets, sums and sequences that the proofs of  *)
(* several components need: induction in steps, the maximum of a bounded    *)
(* set, division, sums over finite sets, the parts of sequences, and what   *)
(* folds and selections of them do when one element is added at the end.    *)
(***************************************************************************)
EXTENDS Integers, Sequences, FiniteSets, FiniteSetsExt, Lists, FiniteSetTheorems, SequenceTheorems,
        WellFoundedInduction, TLAPS

(* Induction, for sets of naturals and for finite sets, from the fact that the
   naturals are well-founded.                                                  *)

\* A set of naturals that is not empty has a least element.
LEMMA LeastNatural ==
  ASSUME NEW S, S \subseteq Nat, S # {}
  PROVE  \E x \in S : \A y \in S : x <= y
<1> DEFINE R == {ss \in Nat \X Nat : ss[1] < ss[2]}
<1>1. IsWellFoundedOn(R, Nat)
  BY NatLessThanWellFounded DEF OpToRel
<1>2. \A x, y \in Nat : <<x, y>> \notin R => y <= x
  OBVIOUS
<1> HIDE DEF R
<1>3. PICK x \in S : \A y \in S : ~(<<y, x>> \in R)
  BY <1>1, WFMin
<1> QED BY <1>2, <1>3

\* Induction over the naturals, and over a finite set by adding elements, for sets.
LEMMA NaturalsBySteps ==
  ASSUME NEW T, 0 \in T, \A n \in Nat : n \in T => n + 1 \in T
  PROVE  Nat \subseteq T
<1> SUFFICES ASSUME Nat \ T # {}
             PROVE  FALSE
  OBVIOUS
<1>1. PICK m \in Nat \ T : \A y \in Nat \ T : m <= y
  BY LeastNatural
<1>2. m # 0 /\ m - 1 \in Nat
  BY <1>1
<1>3. m - 1 \in T
  BY <1>1, <1>2
<1>4. (m - 1) + 1 = m
  BY <1>1
<1> QED BY <1>1, <1>2, <1>3, <1>4

LEMMA FiniteParts ==
  ASSUME NEW S, IsFiniteSet(S), NEW s \in SUBSET S
  PROVE  /\ IsFiniteSet(s) /\ Cardinality(s) \in Nat /\ Cardinality(s) <= Cardinality(S)
         /\ Cardinality(s) = 0 <=> s = {}
         /\ \A x \in s : s \ {x} \in SUBSET S /\ Cardinality(s \ {x}) = Cardinality(s) - 1
<1>1. IsFiniteSet(s) /\ Cardinality(s) <= Cardinality(S)
  BY FS_Subset
<1>2. Cardinality(s) \in Nat /\ (Cardinality(s) = 0 <=> s = {})
  BY <1>1, FS_CardinalityType, FS_EmptySet
<1>3. ASSUME NEW x \in s
      PROVE  Cardinality(s \ {x}) = Cardinality(s) - 1
  BY <1>1, FS_RemoveElement
<1> QED BY <1>1, <1>2, <1>3

LEMMA FiniteBySteps ==
  ASSUME NEW S, IsFiniteSet(S), NEW F, {} \in F,
         \A s \in SUBSET S : \A x \in S \ s : s \in F => s \cup {x} \in F
  PROVE  S \in F
<1> DEFINE T == {n \in Nat : \A s \in SUBSET S : Cardinality(s) = n => s \in F}
<1>1. \A s \in SUBSET S : Cardinality(s) \in Nat /\ (Cardinality(s) = 0 <=> s = {})
  BY FiniteParts
<1>2. 0 \in T
  BY <1>1
<1>3. ASSUME NEW n \in Nat, n \in T
      PROVE  n + 1 \in T
  <2> SUFFICES ASSUME NEW s \in SUBSET S, Cardinality(s) = n + 1
               PROVE  s \in F
    OBVIOUS
  <2>1. PICK x \in s : TRUE
    <3>1. s # {}
      BY <1>1
    <3> QED BY <3>1
  <2>2. Cardinality(s \ {x}) = n /\ s \ {x} \in SUBSET S
    <3>1. Cardinality(s \ {x}) = Cardinality(s) - 1
      BY FiniteParts
    <3> QED BY <3>1
  <2>3. s \ {x} \in F
    BY <1>3, <2>2
  <2>4. s = (s \ {x}) \cup {x}
    BY <2>1
  <2> QED BY <2>1, <2>3, <2>4
<1> HIDE DEF T
<1>4. Nat \subseteq T
  BY <1>2, <1>3, NaturalsBySteps
<1> QED BY <1>1, <1>4 DEF T

\* A set of naturals that is bounded and not empty has a maximum.
LEMMA MaxOfBounded ==
  ASSUME NEW S, S \subseteq Nat, S # {}, NEW n \in Nat, \A y \in S : y <= n
  PROVE  Max(S) \in S /\ \A y \in S : y <= Max(S)
<1> DEFINE T == {n - y : y \in S}
<1>1. T \subseteq Nat /\ T # {}
  <2>1. \A y \in S : n - y \in Nat
    OBVIOUS
  <2> QED BY <2>1
<1>2. PICK t \in T : \A u \in T : t <= u
  <2> HIDE DEF T
  <2> QED BY <1>1, LeastNatural
<1>3. PICK x \in S : t = n - x
  OBVIOUS
<1>4. \A y \in S : x >= y
  <2> TAKE y \in S
  <2>1. n - y \in T
    OBVIOUS
  <2> HIDE DEF T
  <2> QED BY <1>2, <1>3, <2>1
<1> QED BY <1>4 DEF Max

-----------------------------------------------------------------------------
(* Division *)

\* What is left over is less than the divisor; a larger number is divided into no less.
LEMMA DivParts ==
  ASSUME NEW x \in Nat, NEW d \in Nat \ {0}
  PROVE  /\ x \div d \in Nat /\ d * (x \div d) <= x /\ x < d * (x \div d) + d
OBVIOUS

LEMMA TimesMore ==
  ASSUME NEW x \in Nat, NEW y \in Nat, NEW d \in Nat, x <= y
  PROVE  d * x <= d * y /\ d * x \in Nat
OBVIOUS

LEMMA DivMore ==
  ASSUME NEW x \in Nat, NEW y \in Nat, NEW d \in Nat \ {0}, x <= y
  PROVE  x \div d <= y \div d
<1> DEFINE p == x \div d
           q == y \div d
<1>1. p \in Nat /\ q \in Nat /\ d * p <= x /\ y < d * q + d
  BY DivParts
<1> HIDE DEF p, q
<1>2. CASE p >= q + 1
  <2>1. d * (q + 1) <= d * p
    BY <1>1, <1>2, TimesMore
  <2>2. d * (q + 1) = d * q + d
    BY <1>1
  <2>3. d * p \in Nat /\ d * q \in Nat
    BY <1>1, TimesMore
  <2> QED BY <1>1, <2>1, <2>2, <2>3
<1>3. CASE p <= q
  BY <1>3 DEF p, q
<1> QED BY <1>1, <1>2, <1>3

-----------------------------------------------------------------------------
(* Sums *)

Pick(s) == CHOOSE x \in s : TRUE

\* g is the function by which MapThenSumSet adds up f over S.
Adds(g, f, S) == g = [s \in SUBSET S |-> IF s = {} THEN 0 ELSE f[Pick(s)] + g[s \ {Pick(s)}]]
SumOf(f, S) == MapThenSumSet(LAMBDA x : f[x], S)

LEMMA AdderExists ==
  ASSUME NEW S, IsFiniteSet(S), NEW f
  PROVE  \E g : Adds(g, f, S)
<1> DEFINE Upto(g, n) == \A s \in SUBSET S : Cardinality(s) <= n =>
                           g[s] = IF s = {} THEN 0 ELSE f[Pick(s)] + g[s \ {Pick(s)}]
           T == {n \in Nat : \E g : Upto(g, n)}
<1>1. \A s \in SUBSET S : Cardinality(s) \in Nat /\ (Cardinality(s) = 0 <=> s = {})
  BY FiniteParts
<1>2. ASSUME NEW s \in SUBSET S, s # {}
      PROVE  Pick(s) \in s /\ s \ {Pick(s)} \in SUBSET S /\ Cardinality(s \ {Pick(s)}) = Cardinality(s) - 1
  <2>1. Pick(s) \in s
    BY <1>2 DEF Pick
  <2>2. s \ {Pick(s)} \in SUBSET S /\ Cardinality(s \ {Pick(s)}) = Cardinality(s) - 1
    BY <2>1, FiniteParts
  <2> QED BY <2>1, <2>2
<1>3. 0 \in T
  <2> DEFINE g == [s \in SUBSET S |-> 0]
  <2>1. \A s \in SUBSET S : Cardinality(s) <= 0 => s = {}
    BY <1>1
  <2>2. Upto(g, 0)
    BY <2>1
  <2> QED BY <2>2
<1>4. ASSUME NEW n \in Nat, n \in T
      PROVE  n + 1 \in T
  <2>1. PICK g : Upto(g, n)
    BY <1>4
  <2> DEFINE h == [s \in SUBSET S |-> IF Cardinality(s) <= n THEN g[s] ELSE f[Pick(s)] + g[s \ {Pick(s)}]]
  <2>2. ASSUME NEW s \in SUBSET S, Cardinality(s) <= n + 1
        PROVE  h[s] = IF s = {} THEN 0 ELSE f[Pick(s)] + h[s \ {Pick(s)}]
    <3>1. CASE s = {}
      <4>1. Cardinality(s) <= n
        BY <1>1, <3>1
      <4> QED BY <2>1, <3>1, <4>1
    <3>2. CASE s # {}
      <4>1. Cardinality(s \ {Pick(s)}) <= n /\ s \ {Pick(s)} \in SUBSET S
        BY <1>1, <1>2, <2>2, <3>2
      <4>2. h[s \ {Pick(s)}] = g[s \ {Pick(s)}]
        BY <4>1
      <4>3. h[s] = f[Pick(s)] + g[s \ {Pick(s)}]
        BY <2>1, <3>2
      <4> QED BY <3>2, <4>2, <4>3
    <3> QED BY <3>1, <3>2
  <2> HIDE DEF h
  <2>3. Upto(h, n + 1)
    BY <2>2
  <2> QED BY <2>3
<1> HIDE DEF T
<1>5. Cardinality(S) \in T
  BY <1>1, <1>3, <1>4, NaturalsBySteps
<1>6. PICK g : Upto(g, Cardinality(S))
  BY <1>5 DEF T
<1> DEFINE h == [s \in SUBSET S |-> g[s]]
<1>7. \A s \in SUBSET S : Cardinality(s) <= Cardinality(S)
  BY FiniteParts
<1>8. \A s \in SUBSET S : h[s] = IF s = {} THEN 0 ELSE f[Pick(s)] + h[s \ {Pick(s)}]
  <2> TAKE s \in SUBSET S
  <2>1. g[s] = IF s = {} THEN 0 ELSE f[Pick(s)] + g[s \ {Pick(s)}]
    BY <1>6, <1>7
  <2>2. s \ {Pick(s)} \in SUBSET S
    OBVIOUS
  <2> QED BY <2>1, <2>2
<1> QED BY <1>8 DEF Adds

\* What it adds up are integers, and it does not matter in which order.
LEMMA AdderType ==
  ASSUME NEW S, IsFiniteSet(S), NEW f, \A x \in S : f[x] \in Int, NEW g, Adds(g, f, S)
  PROVE  g[{}] = 0 /\ \A s \in SUBSET S : g[s] \in Int
<1> DEFINE T == {n \in Nat : \A s \in SUBSET S : Cardinality(s) = n => g[s] \in Int}
<1>1. \A s \in SUBSET S : Cardinality(s) \in Nat /\ (Cardinality(s) = 0 <=> s = {})
  BY FiniteParts
<1>2. g[{}] = 0
  BY DEF Adds
<1>3. 0 \in T
  BY <1>1, <1>2
<1>4. ASSUME NEW n \in Nat, n \in T
      PROVE  n + 1 \in T
  <2> SUFFICES ASSUME NEW s \in SUBSET S, Cardinality(s) = n + 1
               PROVE  g[s] \in Int
    OBVIOUS
  <2>0. s # {}
    BY <1>1
  <2>1. Pick(s) \in s
    BY <2>0 DEF Pick
  <2>2. g[s] = f[Pick(s)] + g[s \ {Pick(s)}]
    BY <2>0 DEF Adds
  <2>3. s \ {Pick(s)} \in SUBSET S /\ Cardinality(s \ {Pick(s)}) = Cardinality(s) - 1
    BY <2>1, FiniteParts
  <2>4. g[s \ {Pick(s)}] \in Int
    BY <1>4, <2>3
  <2>5. f[Pick(s)] \in Int
    BY <2>1
  <2> QED BY <2>2, <2>4, <2>5
<1> HIDE DEF T
<1>5. Nat \subseteq T
  BY <1>3, <1>4, NaturalsBySteps
<1> QED BY <1>1, <1>2, <1>5 DEF T

LEMMA AnyOrder ==
  ASSUME NEW S, IsFiniteSet(S), NEW f, \A x \in S : f[x] \in Int, NEW g, Adds(g, f, S)
  PROVE  \A s \in SUBSET S : \A y \in s : g[s] = f[y] + g[s \ {y}]
<1> DEFINE Good(s) == \A y \in s : g[s] = f[y] + g[s \ {y}]
           T == {n \in Nat : \A s \in SUBSET S : Cardinality(s) = n => Good(s)}
<1>1. \A s \in SUBSET S : Cardinality(s) \in Nat /\ (Cardinality(s) = 0 <=> s = {})
  BY FiniteParts
<1>2. \A s \in SUBSET S : g[s] \in Int
  BY AdderType
<1>3. 0 \in T
  <2>1. \A s \in SUBSET S : Cardinality(s) = 0 => s = {}
    BY <1>1
  <2>2. Good({})
    OBVIOUS
  <2> HIDE DEF Good
  <2> QED BY <2>1, <2>2
<1>4. ASSUME NEW n \in Nat, n \in T
      PROVE  n + 1 \in T
  <2> SUFFICES ASSUME NEW s \in SUBSET S, Cardinality(s) = n + 1
               PROVE  Good(s)
    OBVIOUS
  <2>1. s # {}
    BY <1>1
  <2>2. \A y \in s : Cardinality(s \ {y}) = n /\ s \ {y} \in SUBSET S
    <3>1. \A y \in s : Cardinality(s \ {y}) = Cardinality(s) - 1
      BY FiniteParts
    <3> QED BY <3>1
  <2>3. \A y \in s : Good(s \ {y})
    <3> HIDE DEF Good
    <3> QED BY <1>4, <2>2
  <2> DEFINE p == Pick(s)
  <2>4. p \in s /\ g[s] = f[p] + g[s \ {p}]
    BY <2>1 DEF Adds, Pick
  <2> HIDE DEF p
  <2>5. ASSUME NEW y \in s, y # p
        PROVE  g[s] = f[y] + g[s \ {y}]
    <3>1. g[s \ {p}] = f[y] + g[(s \ {p}) \ {y}]
      BY <2>3, <2>4, <2>5
    <3>2. g[s \ {y}] = f[p] + g[(s \ {y}) \ {p}]
      BY <2>3, <2>4, <2>5
    <3>3. (s \ {p}) \ {y} = (s \ {y}) \ {p}
      OBVIOUS
    <3>4. g[(s \ {p}) \ {y}] \in Int /\ f[p] \in Int /\ f[y] \in Int
      <4>1. (s \ {p}) \ {y} \in SUBSET S /\ p \in S /\ y \in S
        BY <2>4
      <4> QED BY <1>2, <4>1
    <3> DEFINE a == g[(s \ {p}) \ {y}]
    <3>5. a \in Int /\ g[s \ {p}] = f[y] + a /\ g[s \ {y}] = f[p] + a
      BY <3>1, <3>2, <3>3, <3>4
    <3> HIDE DEF a
    <3> QED BY <2>4, <3>4, <3>5
  <2> QED BY <2>4, <2>5
<1> HIDE DEF T
<1>5. Nat \subseteq T
  BY <1>3, <1>4, NaturalsBySteps
<1> QED BY <1>1, <1>5 DEF T

\* What MapThenSumSet computes: the sum does not depend on the set it is a part of.
LEMMA SumByAdder ==
  ASSUME NEW S, IsFiniteSet(S), NEW f, \A x \in S : f[x] \in Int,
         NEW g, Adds(g, f, S), NEW s \in SUBSET S
  PROVE  SumOf(f, s) = g[s]
<1>1. \E h : Adds(h, f, s)
  BY FiniteParts, AdderExists
<1> DEFINE h == CHOOSE h : Adds(h, f, s)
<1>2. Adds(h, f, s)
  BY <1>1
<1>3. SumOf(f, s) = h[s]
  BY DEF SumOf, MapThenSumSet, MapThenFoldSet, Adds, Pick
<1> HIDE DEF h
<1> DEFINE F == {x \in SUBSET s : h[x] = g[x]}
<1>4. IsFiniteSet(s)
  BY FiniteParts
<1>5. {} \in F
  BY <1>2, <1>4, AdderType
<1>6. ASSUME NEW x \in SUBSET s, NEW y \in s \ x, x \in F
      PROVE  x \cup {y} \in F
  <2>1. x \cup {y} \in SUBSET s /\ y \in x \cup {y} /\ (x \cup {y}) \ {y} = x
    BY <1>6
  <2>2. h[x \cup {y}] = f[y] + h[(x \cup {y}) \ {y}]
    BY <1>2, <1>4, <2>1, AnyOrder
  <2>3. g[x \cup {y}] = f[y] + g[(x \cup {y}) \ {y}]
    BY <2>1, AnyOrder
  <2> QED BY <1>6, <2>1, <2>2, <2>3
<1> HIDE DEF F
<1>7. s \in F
  BY <1>4, <1>5, <1>6, FiniteBySteps
<1> QED BY <1>3, <1>7 DEF F

LEMMA SumSteps ==
  ASSUME NEW S, IsFiniteSet(S), NEW f, \A x \in S : f[x] \in Int
  PROVE  /\ SumOf(f, {}) = 0
         /\ SumOf(f, S) \in Int
         /\ \A y \in S : SumOf(f, S) = f[y] + SumOf(f, S \ {y})
<1>1. PICK g : Adds(g, f, S)
  BY AdderExists
<1>2. \A s \in SUBSET S : SumOf(f, s) = g[s]
  BY <1>1, SumByAdder
<1>3. g[{}] = 0 /\ g[S] \in Int
  BY <1>1, AdderType
<1>4. \A y \in S : g[S] = f[y] + g[S \ {y}]
  BY <1>1, AnyOrder
<1> QED BY <1>2, <1>3, <1>4

\* Sums of functions that agree on the set are the same.
LEMMA SumSame ==
  ASSUME NEW S, IsFiniteSet(S), NEW f, NEW h, \A x \in S : f[x] \in Int /\ h[x] = f[x]
  PROVE  SumOf(h, S) = SumOf(f, S)
<1> DEFINE F == {s \in SUBSET S : SumOf(h, s) = SumOf(f, s)}
<1>1. {} \in F
  BY SumSteps
<1>2. ASSUME NEW s \in SUBSET S, NEW x \in S \ s, s \in F
      PROVE  s \cup {x} \in F
  <2>1. IsFiniteSet(s \cup {x}) /\ (s \cup {x}) \ {x} = s /\ x \in s \cup {x} /\ s \cup {x} \in SUBSET S
    BY <1>2, FiniteParts
  <2>2. SumOf(f, s \cup {x}) = f[x] + SumOf(f, s)
    BY <2>1, SumSteps
  <2>3. SumOf(h, s \cup {x}) = h[x] + SumOf(h, s)
    BY <2>1, SumSteps
  <2> QED BY <1>2, <2>1, <2>2, <2>3
<1> HIDE DEF F
<1>3. S \in F
  BY <1>1, <1>2, FiniteBySteps
<1> QED BY <1>3 DEF F

\* The sum over two disjoint sets.
LEMMA SumParts ==
  ASSUME NEW S, IsFiniteSet(S), NEW f, \A x \in S : f[x] \in Int, NEW A \in SUBSET S
  PROVE  SumOf(f, S) = SumOf(f, A) + SumOf(f, S \ A)
<1> DEFINE F == {s \in SUBSET A : SumOf(f, s \cup (S \ A)) = SumOf(f, s) + SumOf(f, S \ A)}
<1>0. \A s \in SUBSET S : IsFiniteSet(s) /\ SumOf(f, s) \in Int
  BY FiniteParts, SumSteps
<1>1. {} \in F
  <2>1. {} \cup (S \ A) = S \ A /\ S \ A \in SUBSET S
    OBVIOUS
  <2>2. SumOf(f, {}) = 0
    BY SumSteps
  <2>3. SumOf(f, S \ A) \in Int
    BY <1>0, <2>1
  <2> QED BY <2>1, <2>2, <2>3
<1>2. ASSUME NEW s \in SUBSET A, NEW x \in A \ s, s \in F
      PROVE  s \cup {x} \in F
  <2> DEFINE t == (s \cup {x}) \cup (S \ A)
             u == s \cup {x}
  <2>1. t \in SUBSET S /\ x \in t /\ t \ {x} = s \cup (S \ A)
    BY <1>2
  <2>2. u \in SUBSET S /\ x \in u /\ u \ {x} = s
    BY <1>2
  <2> HIDE DEF t, u
  <2>3. SumOf(f, t) = f[x] + SumOf(f, s \cup (S \ A))
    <3>1. IsFiniteSet(t) /\ \A y \in t : f[y] \in Int
      BY <1>0, <2>1
    <3> QED BY <2>1, <3>1, SumSteps
  <2>4. SumOf(f, u) = f[x] + SumOf(f, s)
    <3>1. IsFiniteSet(u) /\ \A y \in u : f[y] \in Int
      BY <1>0, <2>2
    <3> QED BY <2>2, <3>1, SumSteps
  <2>5. SumOf(f, s) \in Int /\ SumOf(f, S \ A) \in Int /\ f[x] \in Int
    <3>1. s \in SUBSET S /\ S \ A \in SUBSET S /\ x \in S
      OBVIOUS
    <3> QED BY <1>0, <3>1
  <2>6. SumOf(f, t) = SumOf(f, u) + SumOf(f, S \ A)
    BY <1>2, <2>3, <2>4, <2>5
  <2> QED BY <2>6 DEF t, u
<1> HIDE DEF F
<1>3. IsFiniteSet(A)
  BY FiniteParts
<1>4. A \in F
  BY <1>1, <1>2, <1>3, FiniteBySteps
<1>5. A \cup (S \ A) = S
  OBVIOUS
<1> QED BY <1>4, <1>5 DEF F

\* The sum of sums, term by term.
TermByTerm(e, f, h, S) == \A x \in S : f[x] \in Int /\ h[x] \in Int /\ e[x] = f[x] + h[x]

LEMMA SumPlus ==
  ASSUME NEW S, IsFiniteSet(S), NEW f, NEW h, NEW e, TermByTerm(e, f, h, S)
  PROVE  SumOf(e, S) = SumOf(f, S) + SumOf(h, S)
<1> USE DEF TermByTerm
<1> DEFINE F == {s \in SUBSET S : SumOf(e, s) = SumOf(f, s) + SumOf(h, s)}
<1>0. \A s \in SUBSET S : IsFiniteSet(s) /\ SumOf(f, s) \in Int /\ SumOf(h, s) \in Int
  BY FiniteParts, SumSteps
<1>1. {} \in F
  <2>1. SumOf(f, {}) = 0 /\ SumOf(h, {}) = 0 /\ SumOf(e, {}) = 0
    BY SumSteps
  <2> QED BY <2>1
<1>2. ASSUME NEW s \in SUBSET S, NEW x \in S \ s, s \in F
      PROVE  s \cup {x} \in F
  <2> DEFINE u == s \cup {x}
  <2>1. u \in SUBSET S /\ x \in u /\ u \ {x} = s
    BY <1>2
  <2> HIDE DEF u
  <2>2. IsFiniteSet(u)
    BY <1>0, <2>1
  <2>3. SumOf(f, u) = f[x] + SumOf(f, s)
    BY <2>1, <2>2, SumSteps
  <2>4. SumOf(h, u) = h[x] + SumOf(h, s)
    BY <2>1, <2>2, SumSteps
  <2>5. SumOf(e, u) = e[x] + SumOf(e, s)
    BY <2>1, <2>2, SumSteps
  <2>6. SumOf(e, u) = SumOf(f, u) + SumOf(h, u)
    BY <1>0, <1>2, <2>3, <2>4, <2>5
  <2> QED BY <2>6 DEF u
<1> HIDE DEF F
<1>3. S \in F
  BY <1>1, <1>2, FiniteBySteps
<1> QED BY <1>3 DEF F

LEMMA FiniteImage ==
  ASSUME NEW S, IsFiniteSet(S), NEW m
  PROVE  IsFiniteSet({m[x] : x \in S})
<1> DEFINE F == {s \in SUBSET S : IsFiniteSet({m[x] : x \in s})}
<1>1. {} \in F
  <2>1. {m[x] : x \in {}} = {}
    OBVIOUS
  <2> QED BY <2>1, FS_EmptySet
<1>2. ASSUME NEW s \in SUBSET S, NEW x \in S \ s, s \in F
      PROVE  s \cup {x} \in F
  <2>1. {m[y] : y \in s \cup {x}} = {m[y] : y \in s} \cup {m[x]}
    OBVIOUS
  <2>2. IsFiniteSet({m[y] : y \in s} \cup {m[x]})
    BY <1>2, FS_AddElement
  <2> QED BY <2>1, <2>2
<1> HIDE DEF F
<1>3. S \in F
  BY <1>1, <1>2, FiniteBySteps
<1> QED BY <1>3 DEF F

\* The sum over an image, term by term.
LEMMA SumImage ==
  ASSUME NEW S, IsFiniteSet(S), NEW m, \A x, y \in S : m[x] = m[y] => x = y,
         NEW f, \A x \in S : f[m[x]] \in Int
  PROVE  SumOf([x \in S |-> f[m[x]]], S) = SumOf(f, {m[x] : x \in S})
<1> DEFINE h == [x \in S |-> f[m[x]]]
           Im(s) == {m[x] : x \in s}
           F == {s \in SUBSET S : SumOf(h, s) = SumOf(f, Im(s))}
<1>0. \A s \in SUBSET S : IsFiniteSet(s) /\ IsFiniteSet(Im(s))
  BY FiniteParts, FiniteImage
<1>1. {} \in F
  <2>1. Im({}) = {}
    OBVIOUS
  <2>2. SumOf(h, {}) = 0 /\ SumOf(f, {}) = 0
    <3>1. \A x \in {} : h[x] \in Int /\ f[x] \in Int
      OBVIOUS
    <3> QED BY <1>0, <3>1, SumSteps
  <2> QED BY <2>1, <2>2
<1>2. ASSUME NEW s \in SUBSET S, NEW x \in S \ s, s \in F
      PROVE  s \cup {x} \in F
  <2> DEFINE u == s \cup {x}
             v == Im(u)
  <2>1. u \in SUBSET S /\ x \in u /\ u \ {x} = s
    BY <1>2
  <2>2. m[x] \in v /\ v \ {m[x]} = Im(s)
    BY <1>2
  <2>3. \A z \in v : f[z] \in Int
    BY <2>1
  <2>4. \A z \in u : h[z] \in Int
    BY <2>1
  <2>5. h[x] = f[m[x]]
    OBVIOUS
  <2>6. IsFiniteSet(u) /\ IsFiniteSet(v)
    BY <1>0, <2>1
  <2> DEFINE y == m[x]
  <2> HIDE DEF u, v, h, Im
  <2>7. SumOf(h, u) = h[x] + SumOf(h, s)
    BY <2>1, <2>4, <2>6, SumSteps
  <2>8. SumOf(f, v) = f[m[x]] + SumOf(f, Im(s))
    <3>1. y \in v /\ v \ {y} = Im(s)
      BY <2>2
    <3> HIDE DEF y
    <3>2. SumOf(f, v) = f[y] + SumOf(f, Im(s))
      BY <2>3, <2>6, <3>1, SumSteps
    <3> QED BY <3>2 DEF y
  <2>9. SumOf(h, u) = SumOf(f, v)
    BY <1>2, <2>5, <2>7, <2>8
  <2> QED BY <2>1, <2>9 DEF u, v
<1> HIDE DEF F, h
<1>3. S \in F
  BY <1>1, <1>2, FiniteBySteps
<1> QED BY <1>3 DEF F, h

-----------------------------------------------------------------------------
(* Folds over sequences, by a function of what is there and of the next element. *)

\* F takes what is there, in X, and an element, of Y.
Folding(F, X, Y) == F \in [X \X Y -> X]

FoldOf(F, b, s) == FoldLeft(LAMBDA x, y : F[<<x, y>>], b, s)

\* g folds the parts of the first n elements of s, as long as the results stay in X.
FoldsBy(g, F, b, s, n, X) ==
  /\ g[{}] = b
  /\ \A S \in SUBSET (1..n) : S # {} /\ g[S \ {Max(S)}] \in X => g[S] = F[<<g[S \ {Max(S)}], s[Max(S)]>>]

\* g is the function that FoldLeft chooses.
Folder(g, F, b, s) ==
  g = [S \in SUBSET DOMAIN s |-> IF S = {} THEN b ELSE F[<<g[S \ {Max(S)}], s[Max(S)]>>]]

LEMMA FoldIsChosen ==
  ASSUME NEW F, NEW b, NEW s
  PROVE  FoldOf(F, b, s) = (CHOOSE g : Folder(g, F, b, s))[DOMAIN s]
BY DEF FoldOf, FoldLeft, MapThenFoldSet, Folder

LEMMA MaxOfPart ==
  ASSUME NEW n \in Nat, NEW S \in SUBSET (1..n), S # {}
  PROVE  /\ Max(S) \in S /\ \A x \in S : x <= Max(S)
         /\ S \ {Max(S)} \in SUBSET (1..(n - 1))
<1>1. Max(S) \in S /\ \A x \in S : x <= Max(S)
  <2>1. S \subseteq Nat /\ \A x \in S : x <= n
    OBVIOUS
  <2> QED BY <2>1, MaxOfBounded
<1>2. ASSUME NEW x \in S \ {Max(S)} PROVE x \in 1..(n - 1)
  <2>1. x \in 1..n /\ Max(S) \in 1..n /\ x <= Max(S) /\ x # Max(S)
    BY <1>1
  <2> QED BY <2>1
<1> QED BY <1>1, <1>2

LEMMA FoldsAgree ==
  ASSUME NEW X, NEW Y, NEW F \in [X \X Y -> X], NEW b \in X, NEW n \in Nat, NEW s,
         \A i \in 1..n : s[i] \in Y,
         NEW g, FoldsBy(g, F, b, s, n, X), NEW h, FoldsBy(h, F, b, s, n, X)
  PROVE  \A S \in SUBSET (1..n) : g[S] = h[S] /\ g[S] \in X
<1> DEFINE T == {k \in Nat : k <= n => \A S \in SUBSET (1..k) : g[S] = h[S] /\ g[S] \in X}
<1>1. 0 \in T
  <2>1. \A S \in SUBSET (1..0) : S = {}
    OBVIOUS
  <2> QED BY <2>1 DEF FoldsBy
<1>2. ASSUME NEW k \in Nat, k \in T PROVE k + 1 \in T
  <2>0. g[{}] = h[{}] /\ g[{}] \in X
    BY DEF FoldsBy
  <2> SUFFICES ASSUME k + 1 <= n, NEW S \in SUBSET (1..(k + 1))
               PROVE  g[S] = h[S] /\ g[S] \in X
    OBVIOUS
  <2> SUFFICES ASSUME S # {} PROVE g[S] = h[S] /\ g[S] \in X
    BY <2>0
  <2> DEFINE m == Max(S)
             R == S \ {m}
  <2>1. m \in S /\ R \in SUBSET (1..((k + 1) - 1))
    <3> DEFINE l == k + 1
    <3>1. l \in Nat
      OBVIOUS
    <3> HIDE DEF l
    <3>2. S \in SUBSET (1..l)
      BY DEF l
    <3>3. m \in S /\ R \in SUBSET (1..(l - 1))
      BY <3>1, <3>2, MaxOfPart
    <3> QED BY <3>3 DEF l
  <2>2. R \in SUBSET (1..k) /\ m \in 1..n /\ S \in SUBSET (1..n)
    <3> HIDE DEF m, R
    <3> QED BY <2>1
  <2>3. g[R] = h[R] /\ g[R] \in X
    <3> HIDE DEF m, R
    <3> QED BY <1>2, <2>2
  <2>4. g[S] = F[<<g[R], s[m]>>] /\ h[S] = F[<<h[R], s[m]>>]
    BY <2>2, <2>3 DEF FoldsBy
  <2>5. s[m] \in Y
    <3> HIDE DEF m
    <3> QED BY <2>2
  <2> HIDE DEF m, R
  <2> QED BY <2>3, <2>4, <2>5
<1> HIDE DEF T
<1>3. Nat \subseteq T
  BY <1>1, <1>2, NaturalsBySteps
<1> QED BY <1>3 DEF T

\* g folds the parts of the first k elements of s.
FoldsUpto(g, F, b, s, k, X) ==
  /\ g \in [SUBSET (1..k) -> X]
  /\ \A S \in SUBSET (1..k) : g[S] = IF S = {} THEN b ELSE F[<<g[S \ {Max(S)}], s[Max(S)]>>]

LEMMA FolderExists ==
  ASSUME NEW X, NEW Y, NEW F \in [X \X Y -> X], NEW b \in X, NEW s \in Seq(Y)
  PROVE  \E g : Folder(g, F, b, s)
<1> DEFINE T == {k \in Nat : k <= Len(s) => \E g : FoldsUpto(g, F, b, s, k, X)}
<1>1. 0 \in T
  <2> DEFINE g == [S \in SUBSET (1..0) |-> b]
  <2>1. \A S \in SUBSET (1..0) : S = {}
    OBVIOUS
  <2>2. FoldsUpto(g, F, b, s, 0, X)
    BY <2>1 DEF FoldsUpto
  <2> QED BY <2>2
<1>2. ASSUME NEW k \in Nat, k \in T PROVE k + 1 \in T
  <2> SUFFICES ASSUME k + 1 <= Len(s) PROVE \E g : FoldsUpto(g, F, b, s, k + 1, X)
    OBVIOUS
  <2>1. PICK g : FoldsUpto(g, F, b, s, k, X)
    BY <1>2
  <2> DEFINE h == [S \in SUBSET (1..(k + 1)) |-> IF k + 1 \in S THEN F[<<g[S \ {k + 1}], s[k + 1]>>] ELSE g[S]]
  <2>2. s[k + 1] \in Y
    OBVIOUS
  <2>3. ASSUME NEW S \in SUBSET (1..(k + 1)) PROVE S \ {k + 1} \in SUBSET (1..k)
    OBVIOUS
  <2>4. ASSUME NEW S \in SUBSET (1..(k + 1)), k + 1 \notin S PROVE S \in SUBSET (1..k)
    BY <2>4
  <2>5. \A S \in SUBSET (1..(k + 1)) : h[S] = IF k + 1 \in S THEN F[<<g[S \ {k + 1}], s[k + 1]>>] ELSE g[S]
    OBVIOUS
  <2>6. h \in [SUBSET (1..(k + 1)) -> X]
    BY <2>1, <2>2, <2>3, <2>4 DEF FoldsUpto
  <2> HIDE DEF h
  <2>7. ASSUME NEW S \in SUBSET (1..(k + 1))
        PROVE  h[S] = IF S = {} THEN b ELSE F[<<h[S \ {Max(S)}], s[Max(S)]>>]
    <3>1. CASE k + 1 \in S
      <4> DEFINE m == Max(S)
                 l == k + 1
      <4>0. l \in Nat /\ S # {}
        BY <3>1
      <4>1. m \in S /\ \A x \in S : x <= m
        <5> HIDE DEF l
        <5>1. S \in SUBSET (1..l)
          BY DEF l
        <5> QED BY <4>0, <5>1, MaxOfPart
      <4>2. m = k + 1
        <5> HIDE DEF m
        <5>1. m \in 1..(k + 1) /\ k + 1 <= m
          BY <3>1, <4>1
        <5> QED BY <5>1
      <4>3. h[S \ {k + 1}] = g[S \ {k + 1}]
        BY <2>5
      <4> QED BY <2>5, <3>1, <4>2, <4>3
    <3>2. CASE S = {}
      <4>1. S \in SUBSET (1..k)
        BY <3>2
      <4>2. g[S] = b
        BY <2>1, <3>2, <4>1 DEF FoldsUpto
      <4> QED BY <2>5, <3>2, <4>2
    <3>3. CASE k + 1 \notin S /\ S # {}
      <4> DEFINE m == Max(S)
      <4> HIDE DEF m
      <4>1. S \in SUBSET (1..k) /\ S \ {m} \in SUBSET (1..(k + 1)) /\ k + 1 \notin S \ {m}
        BY <2>4, <3>3
      <4>2. g[S] = F[<<g[S \ {m}], s[m]>>]
        BY <2>1, <3>3, <4>1 DEF m, FoldsUpto
      <4>3. h[S] = g[S] /\ h[S \ {m}] = g[S \ {m}]
        BY <2>5, <3>3, <4>1
      <4> QED BY <3>3, <4>2, <4>3 DEF m
    <3> QED BY <3>1, <3>2, <3>3
  <2>8. FoldsUpto(h, F, b, s, k + 1, X)
    BY <2>6, <2>7 DEF FoldsUpto
  <2> QED BY <2>8
<1> HIDE DEF T
<1>3. Len(s) \in T
  <2>1. Nat \subseteq T
    BY <1>1, <1>2, NaturalsBySteps
  <2> QED BY <2>1
<1>4. PICK g : FoldsUpto(g, F, b, s, Len(s), X)
  BY <1>3 DEF T
<1>5. DOMAIN s = 1..Len(s)
  OBVIOUS
<1>6. Folder(g, F, b, s)
  BY <1>4, <1>5 DEF Folder, FoldsUpto
<1> QED BY <1>6

LEMMA FolderFolds ==
  ASSUME NEW X, NEW F, NEW b, NEW s, NEW n \in Nat, 1..n \subseteq DOMAIN s, NEW g, Folder(g, F, b, s)
  PROVE  FoldsBy(g, F, b, s, n, X)
<1>1. ASSUME NEW S \in SUBSET (1..n)
      PROVE  g[S] = IF S = {} THEN b ELSE F[<<g[S \ {Max(S)}], s[Max(S)]>>]
  BY DEF Folder
<1> QED BY <1>1 DEF FoldsBy

\* What a fold of a sequence is, and what one more element does.
LEMMA FoldSteps ==
  ASSUME NEW X, NEW Y, NEW F, Folding(F, X, Y), NEW b \in X
  PROVE  /\ FoldOf(F, b, <<>>) = b
         /\ \A s \in Seq(Y) : /\ FoldOf(F, b, s) \in X
                              /\ \A e \in Y : FoldOf(F, b, Append(s, e)) = F[<<FoldOf(F, b, s), e>>]
<1>0. F \in [X \X Y -> X]
  BY DEF Folding
<1> DEFINE G(s) == CHOOSE g : Folder(g, F, b, s)
<1>1. ASSUME NEW s \in Seq(Y)
      PROVE  Folder(G(s), F, b, s) /\ FoldOf(F, b, s) = G(s)[1..Len(s)]
  <2>1. \E g : Folder(g, F, b, s)
    BY <1>0, FolderExists
  <2>2. Folder(G(s), F, b, s)
    BY <2>1
  <2>3. DOMAIN s = 1..Len(s)
    OBVIOUS
  <2> QED BY <2>2, <2>3, FoldIsChosen
<1> HIDE DEF G
<1>2. FoldOf(F, b, <<>>) = b
  <2>1. <<>> \in Seq(Y) /\ 1..Len(<<>>) = {}
    OBVIOUS
  <2>2. Folder(G(<<>>), F, b, <<>>) /\ FoldOf(F, b, <<>>) = G(<<>>)[{}]
    BY <1>1, <2>1
  <2> QED BY <2>2 DEF Folder
<1>3. ASSUME NEW s \in Seq(Y) PROVE FoldOf(F, b, s) \in X
  <2> DEFINE n == Len(s)
             g == G(s)
  <2>1. n \in Nat /\ 1..n = DOMAIN s /\ \A i \in 1..n : s[i] \in Y
    OBVIOUS
  <2>2. Folder(g, F, b, s) /\ FoldOf(F, b, s) = g[1..n]
    BY <1>1
  <2> HIDE DEF n, g
  <2>3. FoldsBy(g, F, b, s, n, X)
    BY <2>1, <2>2, FolderFolds
  <2>4. \A i \in 1..n : s[i] \in Y
    BY <2>1
  <2>5. \A S \in SUBSET (1..n) : g[S] \in X
    BY <2>1, <2>3, <2>4, <1>0, FoldsAgree
  <2> QED BY <2>2, <2>5
<1>4. ASSUME NEW s \in Seq(Y), NEW e \in Y
      PROVE  FoldOf(F, b, Append(s, e)) = F[<<FoldOf(F, b, s), e>>]
  <2> DEFINE n == Len(s)
             t == Append(s, e)
             g == G(s)
             h == G(t)
  <2>1. /\ n \in Nat /\ 1..n = DOMAIN s /\ \A i \in 1..n : s[i] \in Y /\ t[i] = s[i]
        /\ t \in Seq(Y) /\ Len(t) = n + 1 /\ DOMAIN t = 1..(n + 1) /\ t[n + 1] = e
    OBVIOUS
  <2>2. Folder(g, F, b, s) /\ FoldOf(F, b, s) = g[1..n]
    BY <1>1
  <2>3. Folder(h, F, b, t) /\ FoldOf(F, b, t) = h[1..(n + 1)]
    BY <1>1, <2>1
  <2> HIDE DEF n, g, h, t
  <2>4. FoldsBy(g, F, b, s, n, X) /\ FoldsBy(h, F, b, t, n, X)
    <3>1. 1..n \subseteq DOMAIN s /\ 1..n \subseteq DOMAIN t
      BY <2>1
    <3> QED BY <2>1, <2>2, <2>3, <3>1, FolderFolds
  <2>5. FoldsBy(h, F, b, s, n, X)
    <3>1. ASSUME NEW S \in SUBSET (1..n), S # {} PROVE s[Max(S)] = t[Max(S)]
      <4>1. Max(S) \in S
        BY <2>1, <3>1, MaxOfPart
      <4> QED BY <2>1, <4>1
    <3> QED BY <2>4, <3>1 DEF FoldsBy
  <2>6. g[1..n] = h[1..n]
    <3>0. \A i \in 1..n : s[i] \in Y
      BY <2>1
    <3>1. n \in Nat /\ FoldsBy(g, F, b, s, n, X)
      BY <2>1, <2>4
    <3>2. \A S \in SUBSET (1..n) : g[S] = h[S] /\ g[S] \in X
      BY <2>5, <3>0, <3>1, <1>0, FoldsAgree
    <3>3. 1..n \in SUBSET (1..n)
      OBVIOUS
    <3> QED BY <3>2, <3>3
  <2>7. h[1..(n + 1)] = F[<<h[1..n], e>>]
    <3> DEFINE S == 1..(n + 1)
    <3>0. n \in Nat
      BY <2>1
    <3>1. S \in SUBSET (1..(n + 1)) /\ S # {} /\ n + 1 \in S /\ S \ {n + 1} = 1..n
      <4>0. n + 1 \in S
        BY <3>0
      <4>1. n + 1 \in S /\ S # {}
        BY <4>0
      <4>2. ASSUME NEW x PROVE x \in S \ {n + 1} <=> x \in 1..n
        <5>1. CASE x \in Int
          BY <3>0, <5>1
        <5>2. CASE x \notin Int
          BY <5>2
        <5> QED BY <5>1, <5>2
      <4>3. S \ {n + 1} = 1..n
        BY <4>2
      <4> QED BY <4>1, <4>3
    <3>2. Max(S) = n + 1
      <4> DEFINE l == n + 1
      <4>0. l \in Nat /\ S \in SUBSET (1..l) /\ S # {}
        BY <2>1
      <4> HIDE DEF S, l
      <4>1. Max(S) \in S /\ \A x \in S : x <= Max(S)
        BY <4>0, MaxOfPart
      <4>2. Max(S) \in 1..(n + 1) /\ n + 1 <= Max(S)
        BY <3>1, <4>1
      <4> QED BY <2>1, <4>2
    <3>3. h[S] = F[<<h[S \ {Max(S)}], t[Max(S)]>>]
      BY <2>1, <2>3, <3>1 DEF Folder
    <3> QED BY <2>1, <3>1, <3>2, <3>3
  <2> QED BY <2>2, <2>3, <2>6, <2>7 DEF t
<1> QED BY <1>2, <1>3, <1>4

LEMMA TypedFolder ==
  ASSUME NEW X, NEW Y, NEW F, Folding(F, X, Y), NEW b \in X, NEW s \in Seq(Y)
  PROVE  \E g : Folder(g, F, b, s) /\ \A S \in SUBSET DOMAIN s : g[S] \in X
<1>0. F \in [X \X Y -> X]
  BY DEF Folding
<1> DEFINE n == Len(s)
<1>1. n \in Nat /\ DOMAIN s = 1..n /\ 1..n \subseteq DOMAIN s /\ \A i \in 1..n : s[i] \in Y
  OBVIOUS
<1>2. PICK g : Folder(g, F, b, s)
  BY <1>0, FolderExists
<1> HIDE DEF n
<1>3. FoldsBy(g, F, b, s, n, X)
  BY <1>1, <1>2, FolderFolds
<1>4. \A S \in SUBSET (1..n) : g[S] = g[S] /\ g[S] \in X
  BY <1>1, <1>3, <1>0, FoldsAgree
<1> QED BY <1>1, <1>2, <1>4

\* A fold by an operator that does what F does is the fold by F.
LEMMA FoldByFunction ==
  ASSUME NEW X, NEW Y, NEW F, Folding(F, X, Y), NEW b \in X, NEW s \in Seq(Y),
         NEW g, FoldsBy(g, F, b, s, Len(s), X)
  PROVE  g[DOMAIN s] = FoldOf(F, b, s)
<1>0. F \in [X \X Y -> X]
  BY DEF Folding
<1> DEFINE n == Len(s)
           c == CHOOSE h : Folder(h, F, b, s)
<1>1. n \in Nat /\ DOMAIN s = 1..n /\ 1..n \subseteq DOMAIN s /\ \A i \in 1..n : s[i] \in Y
  OBVIOUS
<1>2. Folder(c, F, b, s)
  BY <1>0, FolderExists
<1>3. FoldOf(F, b, s) = c[1..n]
  BY <1>1, FoldIsChosen
<1>4. FoldsBy(g, F, b, s, n, X)
  OBVIOUS
<1> HIDE DEF n, c
<1>5. FoldsBy(c, F, b, s, n, X)
  BY <1>1, <1>2, FolderFolds
<1>6. \A S \in SUBSET (1..n) : g[S] = c[S] /\ g[S] \in X
  BY <1>1, <1>4, <1>5, <1>0, FoldsAgree
<1>7. 1..n \in SUBSET (1..n)
  OBVIOUS
<1> QED BY <1>1, <1>3, <1>6, <1>7

-----------------------------------------------------------------------------
(* Sequences *)

\* Induction over sequences, by adding elements at the end.
LEMMA SequencesBySteps ==
  ASSUME NEW Y, NEW Q, <<>> \in Q, \A s \in Seq(Y) : \A e \in Y : s \in Q => Append(s, e) \in Q
  PROVE  Seq(Y) \subseteq Q
<1> DEFINE T == {n \in Nat : \A s \in Seq(Y) : Len(s) = n => s \in Q}
<1>1. 0 \in T
  <2>1. \A s \in Seq(Y) : Len(s) = 0 => s = <<>>
    OBVIOUS
  <2> QED BY <2>1
<1>2. ASSUME NEW n \in Nat, n \in T PROVE n + 1 \in T
  <2> SUFFICES ASSUME NEW s \in Seq(Y), Len(s) = n + 1 PROVE s \in Q
    OBVIOUS
  <2> DEFINE r == SubSeq(s, 1, n)
  <2>1. r \in Seq(Y) /\ Len(r) = n /\ s[n + 1] \in Y /\ s = Append(r, s[n + 1])
    OBVIOUS
  <2> HIDE DEF r
  <2>2. r \in Q
    BY <1>2, <2>1
  <2> QED BY <2>1, <2>2
<1> HIDE DEF T
<1>3. Nat \subseteq T
  BY <1>1, <1>2, NaturalsBySteps
<1>4. \A s \in Seq(Y) : Len(s) \in Nat
  OBVIOUS
<1> QED BY <1>3, <1>4 DEF T

\* The function by which FoldLeft selects.
Selector(g, s, T) ==
  g = [S \in SUBSET DOMAIN s |->
         IF S = {} THEN <<>>
         ELSE IF s[Max(S)] \in T THEN Append(g[S \ {Max(S)}], s[Max(S)]) ELSE g[S \ {Max(S)}]]

LEMMA SelectionIsChosen ==
  ASSUME NEW s, NEW T
  PROVE  Selection(s, T) = (CHOOSE g : Selector(g, s, T))[DOMAIN s]
BY DEF Selection, FoldLeft, MapThenFoldSet, Selector

SelectBy(Y, T) == [p \in Seq(Y) \X Y |-> IF p[2] \in T THEN Append(p[1], p[2]) ELSE p[1]]

LEMMA SelectionFolds ==
  ASSUME NEW Y, NEW T, NEW s \in Seq(Y)
  PROVE  /\ Folding(SelectBy(Y, T), Seq(Y), Y)
         /\ Selection(s, T) = FoldOf(SelectBy(Y, T), <<>>, s)
<1> DEFINE F == SelectBy(Y, T)
           c == CHOOSE g : Selector(g, s, T)
<1>1. Folding(F, Seq(Y), Y)
  BY DEF SelectBy, Folding
<1>2. \A q \in Seq(Y), e \in Y : F[<<q, e>>] = IF e \in T THEN Append(q, e) ELSE q
  BY DEF SelectBy
<1>3. <<>> \in Seq(Y) /\ Len(s) \in Nat /\ DOMAIN s = 1..Len(s)
  OBVIOUS
<1> HIDE DEF F
<1>4. ASSUME NEW S \in SUBSET DOMAIN s, S # {}
      PROVE  s[Max(S)] \in Y /\ S \ {Max(S)} \in SUBSET DOMAIN s
  <2> DEFINE n == Len(s)
  <2>1. n \in Nat /\ S \in SUBSET (1..n)
    BY <1>3
  <2> HIDE DEF n
  <2>2. Max(S) \in S
    BY <1>4, <2>1, MaxOfPart
  <2> QED BY <2>2
<1>5. Selector(c, s, T)
  <2>1. PICK g : Folder(g, F, <<>>, s) /\ \A S \in SUBSET DOMAIN s : g[S] \in Seq(Y)
    BY <1>1, <1>3, TypedFolder
  <2>2. ASSUME NEW S \in SUBSET DOMAIN s
        PROVE  (IF S = {} THEN <<>> ELSE F[<<g[S \ {Max(S)}], s[Max(S)]>>])
             = (IF S = {} THEN <<>>
                ELSE IF s[Max(S)] \in T THEN Append(g[S \ {Max(S)}], s[Max(S)]) ELSE g[S \ {Max(S)}])
    BY <1>2, <1>4, <2>1
  <2>3. Selector(g, s, T)
    BY <2>1, <2>2 DEF Folder, Selector
  <2> QED BY <2>3
<1>6. Selection(s, T) = c[DOMAIN s]
  BY SelectionIsChosen
<1> HIDE DEF c
<1>7. FoldsBy(c, F, <<>>, s, Len(s), Seq(Y))
  <2>1. c[{}] = <<>>
    BY <1>5 DEF Selector
  <2>2. ASSUME NEW S \in SUBSET (1..Len(s)), S # {}, c[S \ {Max(S)}] \in Seq(Y)
        PROVE  c[S] = F[<<c[S \ {Max(S)}], s[Max(S)]>>]
    <3>1. S \in SUBSET DOMAIN s
      BY <1>3
    <3>2. c[S] = IF s[Max(S)] \in T THEN Append(c[S \ {Max(S)}], s[Max(S)]) ELSE c[S \ {Max(S)}]
      BY <1>5, <2>2, <3>1 DEF Selector
    <3>3. s[Max(S)] \in Y
      BY <1>4, <2>2, <3>1
    <3> QED BY <1>2, <2>2, <3>2, <3>3
  <2> QED BY <2>1, <2>2 DEF FoldsBy
<1>8. c[DOMAIN s] = FoldOf(F, <<>>, s)
  <2> DEFINE b == <<>>
             X == Seq(Y)
  <2>1. b \in X /\ Folding(F, X, Y) /\ FoldsBy(c, F, b, s, Len(s), X)
    BY <1>1, <1>3, <1>7
  <2> HIDE DEF b, X
  <2>2. c[DOMAIN s] = FoldOf(F, b, s)
    BY <2>1, FoldByFunction
  <2> QED BY <2>2, Zenon DEF b
<1> QED BY <1>1, <1>6, <1>8 DEF F

\* What is selected from a sequence with one element more.
LEMMA SelectionSteps ==
  ASSUME NEW Y, NEW T
  PROVE  /\ Selection(<<>>, T) = <<>>
         /\ \A s \in Seq(Y) : /\ Selection(s, T) \in Seq(Y)
                              /\ \A e \in Y : Selection(Append(s, e), T) =
                                   IF e \in T THEN Append(Selection(s, T), e) ELSE Selection(s, T)
<1> DEFINE F == SelectBy(Y, T)
<1>1. <<>> \in Seq(Y) /\ \A s \in Seq(Y), e \in Y : Append(s, e) \in Seq(Y)
  OBVIOUS
<1>2. Folding(F, Seq(Y), Y)
  BY <1>1, SelectionFolds
<1>3. \A s \in Seq(Y) : Selection(s, T) = FoldOf(F, <<>>, s)
  BY SelectionFolds
<1>4. \A q \in Seq(Y), e \in Y : F[<<q, e>>] = IF e \in T THEN Append(q, e) ELSE q
  BY DEF SelectBy
<1> HIDE DEF F
<1>5. /\ FoldOf(F, <<>>, <<>>) = <<>>
      /\ \A s \in Seq(Y) : /\ FoldOf(F, <<>>, s) \in Seq(Y)
                           /\ \A e \in Y : FoldOf(F, <<>>, Append(s, e)) = F[<<FoldOf(F, <<>>, s), e>>]
  <2> DEFINE b == <<>>
             X == Seq(Y)
  <2>1. b \in X /\ Folding(F, X, Y)
    BY <1>1, <1>2
  <2> HIDE DEF b, X
  <2>2. /\ FoldOf(F, b, <<>>) = b
        /\ \A s \in Seq(Y) : /\ FoldOf(F, b, s) \in X
                             /\ \A e \in Y : FoldOf(F, b, Append(s, e)) = F[<<FoldOf(F, b, s), e>>]
    BY <2>1, FoldSteps
  <2> QED BY <2>2, Zenon DEF b, X
<1>6. ASSUME NEW s \in Seq(Y), NEW e \in Y
      PROVE  Selection(Append(s, e), T) = IF e \in T THEN Append(Selection(s, T), e) ELSE Selection(s, T)
  <2>1. Selection(Append(s, e), T) = FoldOf(F, <<>>, Append(s, e))
    BY <1>1, <1>3
  <2>2. Selection(s, T) = FoldOf(F, <<>>, s) /\ FoldOf(F, <<>>, s) \in Seq(Y)
    BY <1>3, <1>5
  <2>3. Selection(Append(s, e), T) = F[<<Selection(s, T), e>>]
    BY <1>5, <2>1, <2>2
  <2> QED BY <1>4, <2>2, <2>3
<1> QED BY <1>1, <1>3, <1>5, <1>6

-----------------------------------------------------------------------------
(* Sequences at their ends: what is added, taken or selected.                *)

\* One element more, at the end and at the beginning.
LEMMA OneMore ==
  ASSUME NEW Y, NEW s \in Seq(Y), NEW e \in Y
  PROVE  /\ Append(s, e) \in Seq(Y) /\ Len(Append(s, e)) = Len(s) + 1 /\ Len(s) \in Nat
         /\ DOMAIN s = 1..Len(s) /\ DOMAIN Append(s, e) = 1..(Len(s) + 1)
         /\ Append(s, e)[Len(s) + 1] = e /\ \A i \in 1..Len(s) : Append(s, e)[i] = s[i]
OBVIOUS

LEMMA ConcatAppend ==
  ASSUME NEW Y, NEW r \in Seq(Y), NEW s \in Seq(Y), NEW e \in Y
  PROVE  /\ r \o <<>> = r /\ r \o s \in Seq(Y) /\ r \o Append(s, e) = Append(r \o s, e)
         /\ Len(r \o s) = Len(r) + Len(s)
OBVIOUS

LEMMA AfterHead ==
  ASSUME NEW Y, NEW s \in Seq(Y), s # <<>>
  PROVE  /\ Head(s) \in Y /\ Tail(s) \in Seq(Y) /\ s = <<Head(s)>> \o Tail(s)
OBVIOUS

\* A fold begins with the first element.
LEMMA FoldHead ==
  ASSUME NEW X, NEW Y, NEW F, Folding(F, X, Y)
  PROVE  \A s \in Seq(Y) : \A b \in X : \A e \in Y : FoldOf(F, b, <<e>> \o s) = FoldOf(F, F[<<b, e>>], s)
<1> DEFINE Q == {s \in Seq(Y) : \A b \in X : \A e \in Y : FoldOf(F, b, <<e>> \o s) = FoldOf(F, F[<<b, e>>], s)}
<1>0. \A b \in X : \A e \in Y : F[<<b, e>>] \in X
  BY DEF Folding
<1>1. \A b \in X : /\ FoldOf(F, b, <<>>) = b
                   /\ \A s \in Seq(Y) : /\ FoldOf(F, b, s) \in X
                                        /\ \A e \in Y : FoldOf(F, b, Append(s, e)) = F[<<FoldOf(F, b, s), e>>]
  BY FoldSteps
<1>2. <<>> \in Q
  <2> SUFFICES ASSUME NEW b \in X, NEW e \in Y PROVE FoldOf(F, b, <<e>> \o <<>>) = FoldOf(F, F[<<b, e>>], <<>>)
    OBVIOUS
  <2>1. <<>> \in Seq(Y) /\ <<e>> \o <<>> = Append(<<>>, e)
    OBVIOUS
  <2>2. FoldOf(F, b, Append(<<>>, e)) = F[<<FoldOf(F, b, <<>>), e>>]
    BY <1>1, <2>1
  <2> QED BY <1>0, <1>1, <2>1, <2>2
<1>3. ASSUME NEW s \in Seq(Y), NEW x \in Y, s \in Q PROVE Append(s, x) \in Q
  <2> SUFFICES ASSUME NEW b \in X, NEW e \in Y
               PROVE  FoldOf(F, b, <<e>> \o Append(s, x)) = FoldOf(F, F[<<b, e>>], Append(s, x))
    OBVIOUS
  <2>1. <<e>> \o Append(s, x) = Append(<<e>> \o s, x) /\ <<e>> \o s \in Seq(Y)
    OBVIOUS
  <2>2. FoldOf(F, b, <<e>> \o s) = FoldOf(F, F[<<b, e>>], s)
    BY <1>3
  <2> DEFINE a == <<e>> \o s
             c == F[<<b, e>>]
  <2>3. a \in Seq(Y) /\ c \in X
    BY <1>0, <2>1
  <2> HIDE DEF a, c
  <2>4. FoldOf(F, b, Append(a, x)) = F[<<FoldOf(F, b, a), x>>]
    BY <1>1, <2>3
  <2>5. FoldOf(F, c, Append(s, x)) = F[<<FoldOf(F, c, s), x>>]
    BY <1>1, <2>3
  <2> QED BY <2>1, <2>2, <2>4, <2>5 DEF a, c
<1> HIDE DEF Q
<1>4. Seq(Y) \subseteq Q
  BY <1>2, <1>3, SequencesBySteps
<1> QED BY <1>4 DEF Q

\* What is selected is in the set; of new elements behind old ones the new ones are selected.
LEMMA SelectionOf ==
  ASSUME NEW Y, NEW T, NEW Z, \A e \in Y : e \in T => e \in Z
  PROVE  \A s \in Seq(Y) : Selection(s, T) \in Seq(Z)
<1> DEFINE Q == {s \in Seq(Y) : Selection(s, T) \in Seq(Z)}
<1>1. /\ Selection(<<>>, T) = <<>>
      /\ \A s \in Seq(Y) : /\ Selection(s, T) \in Seq(Y)
                           /\ \A e \in Y : Selection(Append(s, e), T) =
                                IF e \in T THEN Append(Selection(s, T), e) ELSE Selection(s, T)
  BY SelectionSteps
<1>2. <<>> \in Q
  <2>1. <<>> \in Seq(Y) /\ <<>> \in Seq(Z)
    OBVIOUS
  <2> QED BY <1>1, <2>1
<1>3. ASSUME NEW s \in Seq(Y), NEW e \in Y, s \in Q PROVE Append(s, e) \in Q
  <2>1. Append(s, e) \in Seq(Y)
    OBVIOUS
  <2>2. Selection(s, T) \in Seq(Z)
    BY <1>3
  <2>3. e \in T => Append(Selection(s, T), e) \in Seq(Z)
    BY <2>2
  <2>4. Selection(Append(s, e), T) \in Seq(Z)
    BY <1>1, <2>2, <2>3
  <2> QED BY <2>1, <2>4
<1> HIDE DEF Q
<1>4. Seq(Y) \subseteq Q
  BY <1>2, <1>3, SequencesBySteps
<1> QED BY <1>4 DEF Q

LEMMA SelectNone ==
  ASSUME NEW Y, NEW T
  PROVE  \A s \in Seq(Y) : (\A i \in DOMAIN s : s[i] \notin T) => Selection(s, T) = <<>>
<1> DEFINE Q == {s \in Seq(Y) : (\A i \in DOMAIN s : s[i] \notin T) => Selection(s, T) = <<>>}
<1>1. /\ Selection(<<>>, T) = <<>>
      /\ \A s \in Seq(Y) : /\ Selection(s, T) \in Seq(Y)
                           /\ \A e \in Y : Selection(Append(s, e), T) =
                                IF e \in T THEN Append(Selection(s, T), e) ELSE Selection(s, T)
  BY SelectionSteps
<1>2. <<>> \in Q
  <2>1. <<>> \in Seq(Y)
    OBVIOUS
  <2> QED BY <1>1, <2>1
<1>3. ASSUME NEW s \in Seq(Y), NEW e \in Y, s \in Q PROVE Append(s, e) \in Q
  <2>1. Append(s, e) \in Seq(Y)
    OBVIOUS
  <2> SUFFICES ASSUME \A i \in DOMAIN Append(s, e) : Append(s, e)[i] \notin T
               PROVE  Selection(Append(s, e), T) = <<>>
    BY <2>1
  <2>2. e \notin T /\ \A i \in DOMAIN s : s[i] \notin T
    BY OneMore
  <2> QED BY <1>1, <1>3, <2>2
<1> HIDE DEF Q
<1>4. Seq(Y) \subseteq Q
  BY <1>2, <1>3, SequencesBySteps
<1> QED BY <1>4 DEF Q

LEMMA SelectNew ==
  ASSUME NEW Y, NEW T, NEW l \in Seq(Y), \A i \in DOMAIN l : l[i] \notin T
  PROVE  \A r \in Seq(Y) : (\A i \in DOMAIN r : r[i] \in T) => Selection(l \o r, T) = r
<1> DEFINE Q == {r \in Seq(Y) : (\A i \in DOMAIN r : r[i] \in T) => Selection(l \o r, T) = r}
<1>1. \A s \in Seq(Y) : \A e \in Y : Selection(Append(s, e), T) =
                                IF e \in T THEN Append(Selection(s, T), e) ELSE Selection(s, T)
  BY SelectionSteps
<1>2. <<>> \in Q
  <2>1. <<>> \in Seq(Y) /\ l \o <<>> = l
    OBVIOUS
  <2> QED BY <2>1, SelectNone
<1>3. ASSUME NEW r \in Seq(Y), NEW e \in Y, r \in Q PROVE Append(r, e) \in Q
  <2>1. Append(r, e) \in Seq(Y)
    OBVIOUS
  <2> SUFFICES ASSUME \A i \in DOMAIN Append(r, e) : Append(r, e)[i] \in T
               PROVE  Selection(l \o Append(r, e), T) = Append(r, e)
    BY <2>1
  <2>2. e \in T /\ \A i \in DOMAIN r : r[i] \in T
    BY OneMore
  <2>3. l \o Append(r, e) = Append(l \o r, e) /\ l \o r \in Seq(Y)
    BY ConcatAppend
  <2>4. Selection(Append(l \o r, e), T) = Append(Selection(l \o r, T), e)
    BY <1>1, <2>2, <2>3
  <2> QED BY <1>3, <2>2, <2>3, <2>4
<1> HIDE DEF Q
<1>4. Seq(Y) \subseteq Q
  BY <1>2, <1>3, SequencesBySteps
<1> QED BY <1>4 DEF Q

\* The elements of a sequence that is joined to another, and of one that loses its first.
LEMMA QueueMore ==
  ASSUME NEW Y, NEW q \in Seq(Y), NEW r \in Seq(Y), NEW x, x \in ToSet(q) \/ x \in ToSet(r)
  PROVE  x \in ToSet(q \o r)
<1>1. /\ Len(q) \in Nat /\ Len(r) \in Nat /\ Len(q \o r) = Len(q) + Len(r) /\ DOMAIN (q \o r) = 1..(Len(q) + Len(r))
      /\ DOMAIN q = 1..Len(q) /\ DOMAIN r = 1..Len(r)
      /\ \A i \in 1..Len(q) : (q \o r)[i] = q[i]
      /\ \A i \in 1..Len(r) : (q \o r)[Len(q) + i] = r[i]
  OBVIOUS
<1>2. CASE x \in ToSet(q)
  <2>1. PICK i \in DOMAIN q : x = q[i]
    BY <1>2 DEF ToSet
  <2>2. i \in DOMAIN (q \o r) /\ (q \o r)[i] = x
    BY <1>1, <2>1
  <2> QED BY <2>2 DEF ToSet
<1>3. CASE x \in ToSet(r)
  <2>1. PICK i \in DOMAIN r : x = r[i]
    BY <1>3 DEF ToSet
  <2>2. Len(q) + i \in DOMAIN (q \o r) /\ (q \o r)[Len(q) + i] = x
    BY <1>1, <2>1
  <2> QED BY <2>2 DEF ToSet
<1> QED BY <1>2, <1>3

LEMMA QueueTail ==
  ASSUME NEW Y, NEW q \in Seq(Y), q # <<>>, NEW x \in ToSet(q), x # Head(q)
  PROVE  x \in ToSet(Tail(q))
<1>1. PICK i \in DOMAIN q : x = q[i]
  BY DEF ToSet
<1>2. i \in 1..Len(q) /\ i # 1 /\ Len(q) \in Nat
  BY <1>1
<1>3. i - 1 \in DOMAIN Tail(q) /\ Tail(q)[i - 1] = x
  BY <1>1, <1>2
<1> QED BY <1>3 DEF ToSet

\* The first n elements, with one more.
LEMMA PrefixMore ==
  ASSUME NEW Y, NEW s \in Seq(Y), NEW n \in 1..Len(s)
  PROVE  /\ SubSeq(s, 1, n - 1) \in Seq(Y) /\ s[n] \in Y
         /\ SubSeq(s, 1, n) = Append(SubSeq(s, 1, n - 1), s[n])
OBVIOUS

\* One element, and two sequences after it.
InThree(s, Y, h, l, r) ==
  /\ s \in Seq(Y) /\ Len(s) = (1 + Len(l)) + Len(r) /\ s[1] = h[1]
  /\ \A i \in DOMAIN l : s[1 + i] = l[i]
  /\ \A i \in DOMAIN r : s[(1 + Len(l)) + i] = r[i]

LEMMA ThreeParts ==
  ASSUME NEW Y, NEW h \in Seq(Y), Len(h) = 1, NEW l \in Seq(Y), NEW r \in Seq(Y)
  PROVE  InThree(h \o l \o r, Y, h, l, r)
<1>1. /\ Len(h) \in Nat /\ Len(l) \in Nat /\ Len(r) \in Nat
      /\ DOMAIN h = 1..Len(h) /\ DOMAIN l = 1..Len(l) /\ DOMAIN r = 1..Len(r)
  OBVIOUS
<1>2. /\ h \o l \in Seq(Y) /\ Len(h \o l) = Len(h) + Len(l)
      /\ \A i \in 1..(Len(h) + Len(l)) : (h \o l)[i] = IF i <= Len(h) THEN h[i] ELSE l[i - Len(h)]
  BY ConcatProperties
<1> DEFINE a == h \o l
<1>3. /\ a \in Seq(Y) /\ Len(a) = 1 + Len(l) /\ a[1] = h[1]
      /\ \A i \in DOMAIN l : a[1 + i] = l[i]
  BY <1>1, <1>2
<1> HIDE DEF a
<1>4. /\ a \o r \in Seq(Y) /\ Len(a \o r) = Len(a) + Len(r)
      /\ \A i \in 1..(Len(a) + Len(r)) : (a \o r)[i] = IF i <= Len(a) THEN a[i] ELSE r[i - Len(a)]
  BY <1>3, ConcatProperties
<1>5. \A i \in DOMAIN r : (a \o r)[Len(a) + i] = r[i]
  BY <1>1, <1>3, <1>4
<1>6. (a \o r)[1] = h[1] /\ \A i \in DOMAIN l : (a \o r)[1 + i] = l[i]
  BY <1>1, <1>3, <1>4
<1> QED BY <1>3, <1>4, <1>5, <1>6 DEF a, InThree

\* What comes after element i.
LEMMA AfterPart ==
  ASSUME NEW Y, NEW s \in Seq(Y), NEW i \in 1..Len(s)
  PROVE  SubSeq(s, i + 1, Len(s)) \in Seq(Y)
<1>1. \A j \in (i + 1)..Len(s) : s[j] \in Y
  OBVIOUS
<1> QED BY <1>1, SubSeqProperties
================================================================================
