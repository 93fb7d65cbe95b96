------------------------- MODULE RulesEngineProofs -------------------------
(***************************************************************************)
(* Proofs about RulesEngine, for every size of the board, number of        *)
(* players, stock of gems and thresholds.                                  *)
(*                                                                         *)
(* The engine counts: gems, captures, runs.  The first part is about sums  *)
(* over sets (MapThenSumSet); then come the captures of a move             *)
(* (Captured), which are disjoint, the conservation of gems, and the lines:*)
(* the maximal runs that CountMaximalRuns finds by an origin and a         *)
(* direction are, one to one, the alignments of the reference definition   *)
(* (RunsAreLines).                                                         *)
(***************************************************************************)
EXTENDS RulesEngine, FunctionTheorems, FiniteSetTheorems, WellFoundedInduction, TLAPS

(* Sums over sets.  MapThenSumSet adds one element at a time.              *)

First(s) == CHOOSE x \in s : TRUE

\* h[s] is the sum of f over s, for every part s of S.
Adds(h, f, S) ==
  h = [s \in SUBSET S |-> IF s = {} THEN 0 ELSE f[First(s)] + h[s \ {First(s)}]]

LEMMA Least ==
  ASSUME NEW S \in SUBSET Nat, S # {} PROVE \E m \in S : \A n \in S : m <= n
<1> DEFINE R == OpToRel(<, Nat)
<1>1. IsWellFoundedOn(R, Nat)
  BY NatLessThanWellFounded, Zenon
<1>2. \E m \in S : \A n \in S : ~ (<<n, m>> \in R)
  <2> HIDE DEF R
  <2> QED
    BY <1>1, WFMin
<1>3. PICK m \in S : \A n \in S : ~ (<<n, m>> \in R)
  BY <1>2
<1>4. ASSUME NEW n \in S PROVE m <= n
  <2>1. n \in Nat /\ m \in Nat /\ ~ (<<n, m>> \in R)
    BY <1>3
  <2>2. ~ (n < m)
    BY <2>1 DEF OpToRel
  <2> HIDE DEF R
  <2> QED
    BY <2>1, <2>2
<1> QED
  BY <1>4

LEMMA Climb ==
  ASSUME NEW S \in SUBSET Nat, 0 \in S, \A n \in S : n + 1 \in S PROVE S = Nat
<1> SUFFICES ASSUME Nat \ S # {} PROVE FALSE
  OBVIOUS
<1>1. PICK m \in Nat \ S : \A n \in Nat \ S : m <= n
  BY Least
<1>2. m - 1 \in Nat /\ ~ (m <= m - 1) /\ (m - 1) + 1 = m
  OBVIOUS
<1> QED
  BY <1>1, <1>2

LEMMA Smaller ==
  ASSUME NEW S, IsFiniteSet(S), NEW s \in SUBSET S
  PROVE  /\ Cardinality(s) \in Nat /\ Cardinality(S) \in Nat
         /\ Cardinality(s) <= Cardinality(S)
         /\ Cardinality(s) <= 0 => s = {}
         /\ s # {} => /\ First(s) \in s /\ s \ {First(s)} \in SUBSET S
                      /\ Cardinality(s \ {First(s)}) = Cardinality(s) - 1
<1>1. IsFiniteSet(s) /\ Cardinality(s) <= Cardinality(S)
  BY FS_Subset
<1>2. Cardinality(s) \in Nat /\ Cardinality(S) \in Nat
  BY <1>1, FS_CardinalityType
<1>3. Cardinality(s) = 0 => s = {}
  BY <1>1, FS_EmptySet
<1>4. s # {} => First(s) \in s
  BY DEF First
<1>5. \A x \in s : Cardinality(s \ {x}) = Cardinality(s) - 1
  BY <1>1, FS_RemoveElement
<1> QED
  BY <1>1, <1>2, <1>3, <1>4, <1>5

LEMMA SumExists ==
  ASSUME NEW S, IsFiniteSet(S), NEW f \in [S -> Int]
  PROVE  \E h \in [SUBSET S -> Int] : Adds(h, f, S)
<1> DEFINE Sum(h, s) == IF s = {} THEN 0 ELSE f[First(s)] + h[s \ {First(s)}]
           Upto(n) == \E h \in [SUBSET S -> Int] :
                        \A s \in SUBSET S : Cardinality(s) <= n => h[s] = Sum(h, s)
           good == {n \in Nat : Upto(n)}
<1>1. \A h \in [SUBSET S -> Int], s \in SUBSET S : Sum(h, s) \in Int
  <2> SUFFICES ASSUME NEW h \in [SUBSET S -> Int], NEW s \in SUBSET S PROVE Sum(h, s) \in Int
    OBVIOUS
  <2>1. s # {} => First(s) \in S /\ s \ {First(s)} \in SUBSET S
    BY Smaller
  <2> QED
    BY <2>1
<1>2. 0 \in good
  <2> DEFINE h == [s \in SUBSET S |-> 0]
  <2>1. h \in [SUBSET S -> Int]
    OBVIOUS
  <2>2. \A s \in SUBSET S : Cardinality(s) <= 0 => h[s] = Sum(h, s)
    BY Smaller
  <2> QED
    BY <2>1, <2>2
<1>3. ASSUME NEW n \in good PROVE n + 1 \in good
  <2>1. PICK h \in [SUBSET S -> Int] :
              \A s \in SUBSET S : Cardinality(s) <= n => h[s] = Sum(h, s)
    OBVIOUS
  <2> DEFINE g == [s \in SUBSET S |-> IF Cardinality(s) <= n THEN h[s] ELSE Sum(h, s)]
  <2>2. g \in [SUBSET S -> Int]
    <3> HIDE DEF Sum
    <3> QED
      BY <1>1
  <2>3. ASSUME NEW s \in SUBSET S, Cardinality(s) <= n + 1 PROVE g[s] = Sum(g, s)
    <3>1. g[s] = Sum(h, s)
      <4> HIDE DEF Sum
      <4> QED
        BY <2>1
    <3>2. s # {} => g[s \ {First(s)}] = h[s \ {First(s)}]
      <4> HIDE DEF Sum
      <4>1. s # {} => s \ {First(s)} \in SUBSET S /\ Cardinality(s \ {First(s)}) <= n
        BY <2>3, Smaller
      <4> QED
        BY <4>1
    <3> HIDE DEF g
    <3> QED
      BY <3>1, <3>2
  <2> QED
    <3> HIDE DEF g, Sum
    <3> QED
      BY <2>2, <2>3
<1>4. good = Nat
  <2>1. good \in SUBSET Nat
    OBVIOUS
  <2> HIDE DEF good
  <2> QED
    BY <1>2, <1>3, <2>1, Climb
<1>5. Cardinality(S) \in good
  BY <1>4, FS_CardinalityType
<1>6. PICK h \in [SUBSET S -> Int] :
            \A s \in SUBSET S : Cardinality(s) <= Cardinality(S) => h[s] = Sum(h, s)
  BY <1>5
<1>7. \A s \in SUBSET S : h[s] = Sum(h, s)
  BY <1>6, Smaller
<1>8. h = [s \in SUBSET S |-> Sum(h, s)]
  <2> HIDE DEF Sum
  <2> QED
    BY <1>7
<1> QED
  BY <1>8 DEF Adds

LEMMA SumOf ==
  ASSUME NEW S, IsFiniteSet(S), NEW f \in [S -> Int]
  PROVE  \E h : Adds(h, f, S) /\ MapThenSumSet(LAMBDA i : f[i], S) = h[S]
<1>1. PICK h : Adds(h, f, S)
  BY SumExists
<1> DEFINE Is(e) == e = [s \in SUBSET S |-> IF s = {} THEN 0 ELSE
                          f[CHOOSE x \in s : TRUE] + e[s \ {CHOOSE x \in s : TRUE}]]
           g == CHOOSE e : Is(e)
<1>2. Is(g)
  <2>1. Is(h)
    BY <1>1 DEF Adds, First
  <2> HIDE DEF Is
  <2> QED
    BY <2>1
<1>3. MapThenSumSet(LAMBDA i : f[i], S) = g[S]
  BY DEF MapThenSumSet, MapThenFoldSet
<1> QED
  BY <1>2, <1>3 DEF Adds, First

\* Whoever satisfies the equation of a sum has its values.
Differ(f, g, t, d, S) == \A i \in S : g[i] = f[i] + (IF i = t THEN d ELSE 0)

LEMMA SumMoves ==
  ASSUME NEW S, IsFiniteSet(S), NEW f \in [S -> Int], NEW g \in [S -> Int],
         NEW t \in S, NEW d \in Int, Differ(f, g, t, d, S),
         NEW h, Adds(h, f, S), NEW k, Adds(k, g, S)
  PROVE  h[S] \in Int /\ k[S] = h[S] + d
<1> DEFINE Moved(s) == h[s] \in Int /\ k[s] = h[s] + (IF t \in s THEN d ELSE 0)
           good == {n \in Nat : \A s \in SUBSET S : Cardinality(s) <= n => Moved(s)}
<1>1. \A s \in SUBSET S : /\ h[s] = IF s = {} THEN 0 ELSE f[First(s)] + h[s \ {First(s)}]
                          /\ k[s] = IF s = {} THEN 0 ELSE g[First(s)] + k[s \ {First(s)}]
  BY DEF Adds
<1>2. Moved({})
  <2>1. h[{}] = 0 /\ k[{}] = 0
    BY <1>1
  <2> QED
    BY <2>1
<1>3. 0 \in good
  <2>1. \A s \in SUBSET S : Cardinality(s) <= 0 => s = {}
    BY Smaller
  <2> HIDE DEF Moved
  <2> QED
    BY <1>2, <2>1
<1>4. ASSUME NEW n \in good PROVE n + 1 \in good
  <2> SUFFICES ASSUME NEW s \in SUBSET S, Cardinality(s) <= n + 1, s # {} PROVE Moved(s)
    <3> HIDE DEF Moved
    <3>1. \A s \in SUBSET S : s = {} => Moved(s)
      BY <1>2
    <3> QED
      BY <3>1
  <2> DEFINE x == First(s)
             r == s \ {First(s)}
  <2>1. x \in s /\ x \in S /\ r \in SUBSET S /\ Cardinality(r) <= n
    BY Smaller
  <2>2. Moved(r)
    <3> HIDE DEF Moved, r
    <3> QED
      BY <2>1
  <2>3. h[s] = f[x] + h[r] /\ k[s] = g[x] + k[r]
    BY <1>1
  <2>4. f[x] \in Int /\ g[x] = f[x] + (IF x = t THEN d ELSE 0)
    BY <2>1 DEF Differ
  <2>5. t \in s <=> (x = t \/ t \in r)
    BY <2>1
  <2>6. x = t => t \notin r
    OBVIOUS
  <2> HIDE DEF x, r
  <2> QED
    BY <2>2, <2>3, <2>4, <2>5, <2>6
<1>5. good = Nat
  <2>1. good \in SUBSET Nat
    OBVIOUS
  <2> HIDE DEF good
  <2> QED
    BY <1>3, <1>4, <2>1, Climb
<1>6. Moved(S)
  <2>1. Cardinality(S) \in good /\ Cardinality(S) <= Cardinality(S)
    BY <1>5, FS_CardinalityType
  <2> HIDE DEF Moved
  <2> QED
    BY <2>1
<1> QED
  BY <1>6

LEMMA SumOfZeros ==
  ASSUME NEW S, IsFiniteSet(S), NEW f \in [S -> Int], \A i \in S : f[i] = 0,
         NEW h, Adds(h, f, S)
  PROVE  h[S] = 0
<1>1. CASE S = {}
  BY <1>1 DEF Adds
<1>2. CASE S # {}
  <2> DEFINE good == {n \in Nat : \A s \in SUBSET S : Cardinality(s) <= n => h[s] = 0}
  <2>1. \A s \in SUBSET S : h[s] = IF s = {} THEN 0 ELSE f[First(s)] + h[s \ {First(s)}]
    BY DEF Adds
  <2>2. 0 \in good
    BY <2>1, Smaller
  <2>3. ASSUME NEW n \in good PROVE n + 1 \in good
    <3> SUFFICES ASSUME NEW s \in SUBSET S, Cardinality(s) <= n + 1, s # {} PROVE h[s] = 0
      <4>1. \A s \in SUBSET S : s = {} => h[s] = 0
        BY <2>1
      <4> QED
        BY <4>1
    <3>1. First(s) \in S /\ s \ {First(s)} \in SUBSET S /\ Cardinality(s \ {First(s)}) <= n
      BY Smaller
    <3>2. h[s \ {First(s)}] = 0 /\ f[First(s)] = 0
      BY <3>1
    <3> QED
      BY <2>1, <3>2
  <2>4. good = Nat
    <3>1. good \in SUBSET Nat
      OBVIOUS
    <3> HIDE DEF good
    <3> QED
      BY <2>2, <2>3, <3>1, Climb
  <2> QED
    BY <2>4, FS_CardinalityType
<1> QED
  BY <1>1, <1>2


-----------------------------------------------------------------------------
(* Cells on the lines through a cell.                                      *)

Points == Int \X Int

LEMMA ShiftIn ==
  ASSUME NEW p \in Points, NEW d \in Directions, NEW k \in Int
  PROVE  /\ Shift(p, d, k) \in Points
         /\ d = <<1, 0>> => Shift(p, d, k) = <<p[1] + k, p[2]>>
         /\ d = <<0, 1>> => Shift(p, d, k) = <<p[1], p[2] + k>>
         /\ d = <<1, -1>> => Shift(p, d, k) = <<p[1] + k, p[2] - k>>
<1>1. p[1] \in Int /\ p[2] \in Int
  BY DEF Points
<1>2. d = <<1, 0>> => Shift(p, d, k) = <<p[1] + k, p[2]>>
  BY <1>1 DEF Shift
<1>3. d = <<0, 1>> => Shift(p, d, k) = <<p[1], p[2] + k>>
  BY <1>1 DEF Shift
<1>4. d = <<1, -1>> => Shift(p, d, k) = <<p[1] + k, p[2] - k>>
  <2> SUFFICES ASSUME d = <<1, -1>> PROVE Shift(p, d, k) = <<p[1] + k, p[2] - k>>
    OBVIOUS
  <2>1. k * d[1] = k /\ k * d[2] = -k
    OBVIOUS
  <2> QED
    BY <1>1, <2>1 DEF Shift
<1>5. d = <<1, 0>> \/ d = <<0, 1>> \/ d = <<1, -1>>
  BY DEF Directions
<1>6. Shift(p, d, k) \in Points
  BY <1>1, <1>2, <1>3, <1>4, <1>5 DEF Points
<1> QED
  BY <1>2, <1>3, <1>4, <1>6

LEMMA ThreeDirections ==
  ASSUME NEW d \in Directions PROVE d = <<1, 0>> \/ d = <<0, 1>> \/ d = <<1, -1>>
BY DEF Directions

LEMMA ShiftTwice ==
  ASSUME NEW p \in Points, NEW d \in Directions, NEW j \in Int, NEW k \in Int
  PROVE  Shift(Shift(p, d, j), d, k) = Shift(p, d, j + k) /\ Shift(p, d, 0) = p
<1>1. p[1] \in Int /\ p[2] \in Int /\ p = <<p[1], p[2]>>
  BY DEF Points
<1>2. Shift(p, d, j) \in Points /\ j + k \in Int /\ 0 \in Int
  BY ShiftIn
<1>3. CASE d = <<1, 0>>
  <2>1. Shift(p, d, j) = <<p[1] + j, p[2]>>
    BY <1>3, ShiftIn
  <2>2. Shift(Shift(p, d, j), d, k) = <<(p[1] + j) + k, p[2]>>
    BY <1>2, <1>3, <2>1, ShiftIn
  <2>3. Shift(p, d, j + k) = <<p[1] + (j + k), p[2]>> /\ Shift(p, d, 0) = <<p[1] + 0, p[2]>>
    BY <1>2, <1>3, ShiftIn
  <2> QED
    BY <1>1, <2>2, <2>3
<1>4. CASE d = <<0, 1>>
  <2>1. Shift(p, d, j) = <<p[1], p[2] + j>>
    BY <1>4, ShiftIn
  <2>2. Shift(Shift(p, d, j), d, k) = <<p[1], (p[2] + j) + k>>
    BY <1>2, <1>4, <2>1, ShiftIn
  <2>3. Shift(p, d, j + k) = <<p[1], p[2] + (j + k)>> /\ Shift(p, d, 0) = <<p[1], p[2] + 0>>
    BY <1>2, <1>4, ShiftIn
  <2> QED
    BY <1>1, <2>2, <2>3
<1>5. CASE d = <<1, -1>>
  <2>1. Shift(p, d, j) = <<p[1] + j, p[2] - j>>
    BY <1>5, ShiftIn
  <2>2. Shift(Shift(p, d, j), d, k) = <<(p[1] + j) + k, (p[2] - j) - k>>
    BY <1>2, <1>5, <2>1, ShiftIn
  <2>3. /\ Shift(p, d, j + k) = <<p[1] + (j + k), p[2] - (j + k)>>
        /\ Shift(p, d, 0) = <<p[1] + 0, p[2] - 0>>
    BY <1>2, <1>5, ShiftIn
  <2> QED
    BY <1>1, <2>2, <2>3
<1> QED
  BY <1>3, <1>4, <1>5, ThreeDirections

\* Lines through one cell meet nowhere else.
LEMMA ShiftApart ==
  ASSUME NEW p \in Points, NEW d \in Directions, NEW e \in Directions,
         NEW j \in Int, NEW k \in Int, Shift(p, d, j) = Shift(p, e, k)
  PROVE  j = k /\ (d = e \/ j = 0)
<1>1. p[1] \in Int /\ p[2] \in Int
  BY DEF Points
<1>2. /\ d = <<1, 0>> => Shift(p, d, j) = <<p[1] + j, p[2]>>
      /\ d = <<0, 1>> => Shift(p, d, j) = <<p[1], p[2] + j>>
      /\ d = <<1, -1>> => Shift(p, d, j) = <<p[1] + j, p[2] - j>>
  BY ShiftIn
<1>3. /\ e = <<1, 0>> => Shift(p, e, k) = <<p[1] + k, p[2]>>
      /\ e = <<0, 1>> => Shift(p, e, k) = <<p[1], p[2] + k>>
      /\ e = <<1, -1>> => Shift(p, e, k) = <<p[1] + k, p[2] - k>>
  BY ShiftIn
<1>4. CASE d = <<1, 0>>
  <2>1. CASE e = <<1, 0>>
    BY <1>1, <1>2, <1>3, <1>4, <2>1
  <2>2. CASE e = <<0, 1>>
    BY <1>1, <1>2, <1>3, <1>4, <2>2
  <2>3. CASE e = <<1, -1>>
    BY <1>1, <1>2, <1>3, <1>4, <2>3
  <2> QED
    BY <2>1, <2>2, <2>3, ThreeDirections
<1>5. CASE d = <<0, 1>>
  <2>1. CASE e = <<1, 0>>
    BY <1>1, <1>2, <1>3, <1>5, <2>1
  <2>2. CASE e = <<0, 1>>
    BY <1>1, <1>2, <1>3, <1>5, <2>2
  <2>3. CASE e = <<1, -1>>
    BY <1>1, <1>2, <1>3, <1>5, <2>3
  <2> QED
    BY <2>1, <2>2, <2>3, ThreeDirections
<1>6. CASE d = <<1, -1>>
  <2>1. CASE e = <<1, 0>>
    BY <1>1, <1>2, <1>3, <1>6, <2>1
  <2>2. CASE e = <<0, 1>>
    BY <1>1, <1>2, <1>3, <1>6, <2>2
  <2>3. CASE e = <<1, -1>>
    BY <1>1, <1>2, <1>3, <1>6, <2>3
  <2> QED
    BY <2>1, <2>2, <2>3, ThreeDirections
<1> QED
  BY <1>4, <1>5, <1>6, ThreeDirections


-----------------------------------------------------------------------------
(* What a move takes off the board.                                        *)

\* Where DetectCaptures looks, and how far before `from' the line begins.
Tries(from) == UNION {{from, Shift(from, d, -3)} \X {d} : d \in Directions}
Before(from, c) == IF c[1] = from THEN 0 ELSE -3

LEMMA TriedLine ==
  ASSUME NEW from \in Points, NEW c \in Tries(from)
  PROVE  /\ c[2] \in Directions /\ c = <<c[1], c[2]>>
         /\ Before(from, c) \in {0, -3}
         /\ c[1] \in {from, Shift(from, c[2], -3)} /\ c[1] \in Points
         /\ \A k \in Int : Shift(c[1], c[2], k) = Shift(from, c[2], Before(from, c) + k)
<1>1. PICK d \in Directions : c \in {from, Shift(from, d, -3)} \X {d}
  BY DEF Tries
<1>2. c[2] = d /\ c = <<c[1], c[2]>> /\ c[1] \in {from, Shift(from, d, -3)}
  BY <1>1
<1>3. c[1] \in Points /\ Before(from, c) \in Int
  BY <1>2, ShiftIn DEF Before
<1>4. c[1] = Shift(from, d, Before(from, c))
  BY <1>2, ShiftTwice DEF Before
<1>5. \A k \in Int : Shift(Shift(from, d, Before(from, c)), d, k)
                       = Shift(from, d, Before(from, c) + k)
  BY <1>3, ShiftTwice
<1> QED
  BY <1>2, <1>3, <1>4, <1>5 DEF Before

LEMMA FewTries ==
  ASSUME NEW from PROVE IsFiniteSet(Tries(from))
<1> DEFINE D == {<<1, 0>>, <<0, 1>>, <<1, -1>>}
           P(d) == {<<from, d>>, <<Shift(from, d, -3), d>>}
<1>1. Tries(from) = P(<<1, 0>>) \cup P(<<0, 1>>) \cup P(<<1, -1>>)
  <2>1. \A d \in Directions : {from, Shift(from, d, -3)} \X {d} = P(d)
    OBVIOUS
  <2>2. Tries(from) = UNION {P(d) : d \in Directions}
    <3> HIDE DEF P
    <3> QED
      BY <2>1 DEF Tries
  <2> HIDE DEF P
  <2> QED
    BY <2>2 DEF Directions
<1>2. \A d : IsFiniteSet(P(d))
  <2> TAKE d
  <2>1. IsFiniteSet({<<from, d>>}) /\ IsFiniteSet({<<Shift(from, d, -3), d>>})
    BY FS_Singleton
  <2>2. P(d) = {<<from, d>>} \cup {<<Shift(from, d, -3), d>>}
    OBVIOUS
  <2> QED
    BY <2>1, <2>2, FS_Union
<1> HIDE DEF P
<1>3. IsFiniteSet(P(<<1, 0>>) \cup P(<<0, 1>>))
  BY <1>2, FS_Union
<1> QED
  BY <1>1, <1>2, <1>3, FS_Union

\* The pairs taken along several axes have no stone in common.
LEMMA TakenTwice ==
  ASSUME NEW from \in Points, NEW K \in SUBSET Tries(from), NEW T, T = UNION {Pair(c) : c \in K}
  PROVE  /\ IsFiniteSet(K) /\ Cardinality(K) \in Nat
         /\ IsFiniteSet(T) /\ Cardinality(T) = 2 * Cardinality(K)
<1>1. IsFiniteSet(K) /\ Cardinality(K) \in Nat
  BY FewTries, FS_Subset, FS_CardinalityType
<1>2. IsFiniteSet({1, 2}) /\ Cardinality({1, 2}) = 2
  <2>1. IsFiniteSet({1}) /\ Cardinality({1}) = 1
    BY FS_Singleton
  <2>2. IsFiniteSet({1} \cup {2}) /\ Cardinality({1} \cup {2}) = 1 + 1
    <3>1. PICK S : S = {1}
      OBVIOUS
    <3>2. IsFiniteSet(S) /\ Cardinality(S) = 1 /\ 2 \notin S
      BY <2>1, <3>1
    <3>3. IsFiniteSet(S \cup {2}) /\ Cardinality(S \cup {2}) = Cardinality(S) + 1
      BY <3>2, FS_AddElement
    <3> QED
      BY <3>1, <3>2, <3>3
  <2>3. {1, 2} = {1} \cup {2}
    OBVIOUS
  <2> QED
    BY <2>2, <2>3
<1>3. IsFiniteSet(K \X {1, 2}) /\ Cardinality(K \X {1, 2}) = Cardinality(K) * 2
  BY <1>1, <1>2, FS_Product
<1> DEFINE cell == [x \in K \X {1, 2} |-> Shift(x[1][1], x[1][2], x[2])]
<1>4. T = UNION {{Shift(c[1], c[2], 1), Shift(c[1], c[2], 2)} : c \in K}
  BY DEF Pair
<1>5. cell \in [K \X {1, 2} -> T]
  BY <1>4
<1>6. \A y \in T : \E x \in K \X {1, 2} : cell[x] = y
  <2> SUFFICES ASSUME NEW y \in T PROVE \E x \in K \X {1, 2} : cell[x] = y
    OBVIOUS
  <2>1. PICK c \in K, k \in {1, 2} : y = Shift(c[1], c[2], k)
    BY <1>4
  <2>2. <<c, k>> \in K \X {1, 2} /\ cell[<<c, k>>] = y
    BY <2>1
  <2> QED
    BY <2>2
<1>7. \A c, e \in K, j, k \in {1, 2} :
        Shift(c[1], c[2], j) = Shift(e[1], e[2], k) => c = e /\ j = k
  <2> SUFFICES ASSUME NEW c \in K, NEW e \in K, NEW j \in {1, 2}, NEW k \in {1, 2},
                      Shift(c[1], c[2], j) = Shift(e[1], e[2], k)
               PROVE  c = e /\ j = k
    OBVIOUS
  <2>1. /\ c[2] \in Directions /\ c = <<c[1], c[2]>> /\ Before(from, c) \in {0, -3}
        /\ Shift(c[1], c[2], j) = Shift(from, c[2], Before(from, c) + j)
        /\ e[2] \in Directions /\ e = <<e[1], e[2]>> /\ Before(from, e) \in {0, -3}
        /\ Shift(e[1], e[2], k) = Shift(from, e[2], Before(from, e) + k)
    BY TriedLine
  <2>2. PICK m \in {1, 2, -2, -1} : m = Before(from, c) + j
    BY <2>1
  <2>3. PICK n \in {1, 2, -2, -1} : n = Before(from, e) + k
    BY <2>1
  <2>4. m = n /\ (c[2] = e[2] \/ m = 0)
    <3>1. Shift(from, c[2], m) = Shift(from, e[2], n)
      BY <2>1, <2>2, <2>3
    <3>2. m \in Int /\ n \in Int
      OBVIOUS
    <3> QED
      BY <2>1, <3>1, <3>2, ShiftApart
  <2>5. j = k /\ Before(from, c) = Before(from, e) /\ c[2] = e[2]
    BY <2>1, <2>2, <2>3, <2>4
  <2>6. c[1] = Shift(from, c[2], Before(from, c)) /\ e[1] = Shift(from, e[2], Before(from, e))
    BY TriedLine, ShiftTwice DEF Before
  <2> QED
    BY <2>1, <2>5, <2>6
<1>8. cell \in Injection(K \X {1, 2}, T)
  <2>1. \A x, y \in K \X {1, 2} : cell[x] = cell[y] => x = y
    <3> SUFFICES ASSUME NEW x \in K \X {1, 2}, NEW y \in K \X {1, 2}, cell[x] = cell[y]
                 PROVE  x = y
      OBVIOUS
    <3>1. /\ x = <<x[1], x[2]>> /\ x[1] \in K /\ x[2] \in {1, 2}
          /\ y = <<y[1], y[2]>> /\ y[1] \in K /\ y[2] \in {1, 2}
      OBVIOUS
    <3>2. Shift(x[1][1], x[1][2], x[2]) = Shift(y[1][1], y[1][2], y[2])
      OBVIOUS
    <3> HIDE DEF cell
    <3> QED
      BY <3>1, <3>2, <1>7
  <2> HIDE DEF cell
  <2> QED
    BY <1>5, <2>1 DEF Injection, IsInjective
<1>9. cell \in Bijection(K \X {1, 2}, T)
  <2> HIDE DEF cell
  <2> QED
    BY <1>5, <1>6, <1>8 DEF Bijection, Surjection
<1>10. ExistsBijection(K \X {1, 2}, T)
  <2> HIDE DEF cell
  <2> QED
    BY <1>9 DEF ExistsBijection
<1>11. IsFiniteSet(T) /\ Cardinality(T) = Cardinality(K \X {1, 2})
  BY <1>3, <1>10, FS_Bijection
<1> QED
  BY <1>1, <1>3, <1>11


LEMMA CellsAreFinite == Cells \in SUBSET Points /\ IsFiniteSet(Cells)
<1>1. Radius \in SUBSET Int /\ IsFiniteSet(Radius)
  <2>1. 1 - Side \in Int /\ Side - 1 \in Int
    BY SizeAssumption
  <2> QED
    BY <2>1, FS_Interval DEF Radius
<1>2. IsFiniteSet(Radius \X Radius) /\ Cells \in SUBSET (Radius \X Radius)
  BY <1>1, FS_Product DEF Cells
<1> QED
  BY <1>1, <1>2, FS_Subset DEF Points

Board(b) == /\ b \in [Colors -> SUBSET Cells]
            /\ \A c, e \in Colors : c # e => b[c] \cap b[e] = {}

LEMMA OnBoard ==
  ASSUME NEW b, NEW x PROVE x \in Occupied(b) <=> \E c \in Colors : x \in b[c]
BY DEF Occupied

\* From board b, with a stone of color by more on q, to board n.
Captures(b, by, pos, q, K, T, n) ==
  /\ q = [b EXCEPT ![by] = @ \cup {pos}]
  /\ K = DetectCaptures(q, pos, by) /\ T = UNION {Pair(c) : c \in K}
  /\ n = [c \in Colors |-> q[c] \ T]

LEMMA Captured ==
  ASSUME NEW b, Board(b), NEW by \in Colors, NEW pos \in Cells \ Occupied(b),
         NEW q, NEW K, NEW T, NEW n, Captures(b, by, pos, q, K, T, n)
  PROVE  /\ Board(n) /\ n[by] = b[by] \cup {pos}
         /\ T \in SUBSET (Occupied(b) \ b[by])
         /\ Occupied(n) = (Occupied(b) \cup {pos}) \ T
         /\ Cardinality(K) \in Nat
         /\ Cardinality(Occupied(b)) \in Nat /\ Cardinality(Occupied(n)) \in Nat
         /\ Cardinality(Occupied(b)) + 1 = Cardinality(Occupied(n)) + 2 * Cardinality(K)
<1> SUFFICES ASSUME q = [b EXCEPT ![by] = @ \cup {pos}], K = DetectCaptures(q, pos, by),
                    T = UNION {Pair(c) : c \in K}, n = [c \in Colors |-> q[c] \ T]
             PROVE  /\ Board(n) /\ n[by] = b[by] \cup {pos}
                    /\ T \in SUBSET (Occupied(b) \ b[by])
                    /\ Occupied(n) = (Occupied(b) \cup {pos}) \ T
                    /\ Cardinality(K) \in Nat
                    /\ Cardinality(Occupied(b)) \in Nat /\ Cardinality(Occupied(n)) \in Nat
                    /\ Cardinality(Occupied(b)) + 1 = Cardinality(Occupied(n)) + 2 * Cardinality(K)
  BY DEF Captures
<1>1. /\ b \in [Colors -> SUBSET Cells] /\ pos \in Points
      /\ \A c \in Colors : pos \notin b[c]
      /\ \A c, e \in Colors : c # e => b[c] \cap b[e] = {}
  BY CellsAreFinite DEF Board, Occupied
<1>2. /\ q[by] = b[by] \cup {pos}
      /\ \A c \in Colors \ {by} : q[c] = b[c]
  BY <1>1
<1>3. K \in SUBSET Tries(pos)
  BY DEF DetectCaptures, Tries
<1>4. \A c \in K : \E v \in Colors \ {by} : Pair(c) \subseteq b[v]
  <2>1. \A c \in K : \E v \in Colors \ {by} : Pair(c) \subseteq q[v]
    BY DEF DetectCaptures, TryCapture
  <2> QED
    BY <1>2, <2>1
<1>5. T \in SUBSET (Occupied(b) \ b[by])
  <2> SUFFICES ASSUME NEW x \in T PROVE x \in Occupied(b) /\ x \notin b[by]
    OBVIOUS
  <2>1. PICK c \in K : x \in Pair(c)
    OBVIOUS
  <2>2. PICK v \in Colors \ {by} : x \in b[v]
    BY <1>4, <2>1
  <2> QED
    BY <1>1, <2>2 DEF Occupied
<1>6. pos \notin T
  BY <1>1, <1>5 DEF Occupied
<1>7. n[by] = b[by] \cup {pos}
  <2>1. n[by] = (b[by] \cup {pos}) \ T
    BY <1>2
  <2>2. \A x \in b[by] \cup {pos} : x \notin T
    BY <1>5, <1>6
  <2> HIDE DEF Board
  <2> QED
    BY <2>1, <2>2
<1>8. Board(n)
  <2>1. \A c \in Colors : n[c] \in SUBSET Cells
    BY <1>1, <1>2
  <2>2. \A c, e \in Colors : c # e => n[c] \cap n[e] = {}
    <3> SUFFICES ASSUME NEW c \in Colors, NEW e \in Colors, c # e PROVE n[c] \cap n[e] = {}
      OBVIOUS
    <3>1. q[c] \cap q[e] = {}
      BY <1>1, <1>2
    <3> QED
      BY <3>1
  <2> QED
    BY <2>1, <2>2 DEF Board
<1>9. Occupied(n) = (Occupied(b) \cup {pos}) \ T
  <2>1. \A c \in Colors : n[c] = q[c] \ T
    OBVIOUS
  <2>2. \A x : (\E c \in Colors : x \in q[c]) <=> (\E c \in Colors : x \in b[c]) \/ x = pos
    BY <1>2
  <2>3. \A x : x \in Occupied(n) <=> \E c \in Colors : x \in n[c]
    BY OnBoard
  <2>4. \A x : x \in Occupied(b) <=> \E c \in Colors : x \in b[c]
    BY OnBoard
  <2>5. \A x : x \in Occupied(n) <=> x \in (Occupied(b) \cup {pos}) \ T
    <3> TAKE x
    <3>1. x \in Occupied(n) <=> (\E c \in Colors : x \in q[c]) /\ x \notin T
      BY <2>1, <2>3
    <3>2. x \in Occupied(n) <=> (x \in Occupied(b) \/ x = pos) /\ x \notin T
      BY <3>1, <2>2, <2>4
    <3> QED
      BY <3>2
  <2> QED
    BY <2>5
<1>10. /\ Cardinality(K) \in Nat
       /\ IsFiniteSet(T) /\ Cardinality(T) = 2 * Cardinality(K)
  BY <1>1, <1>3, TakenTwice
<1>11. PICK P : P = Occupied(b)
  OBVIOUS
<1>12. P \in SUBSET Cells /\ IsFiniteSet(P) /\ pos \notin P /\ T \in SUBSET P
  <2>1. P \in SUBSET Cells /\ pos \notin P /\ T \in SUBSET P
    <3>1. \A x \in Occupied(b) : \E c \in Colors : x \in b[c]
      BY DEF Occupied
    <3> QED
      BY <1>1, <1>5, <1>11, <3>1
  <2> QED
    BY <2>1, CellsAreFinite, FS_Subset
<1>13. IsFiniteSet(P \cup {pos}) /\ Cardinality(P \cup {pos}) = Cardinality(P) + 1
  BY <1>12, FS_AddElement
<1>14. PICK R : R = P \cup {pos}
  OBVIOUS
<1>15. R \cap T = T /\ IsFiniteSet(R)
  BY <1>12, <1>13, <1>14
<1>16. IsFiniteSet(R \ T) /\ Cardinality(R \ T) = Cardinality(R) - Cardinality(T)
  <2>1. IsFiniteSet(R \ T) /\ Cardinality(R \ T) = Cardinality(R) - Cardinality(R \cap T)
    BY <1>15, FS_Difference
  <2> QED
    BY <1>15, <2>1
<1>17. Cardinality(P) \in Nat /\ Cardinality(R \ T) \in Nat
  BY <1>12, <1>16, FS_CardinalityType
<1>18. Occupied(n) = R \ T /\ Cardinality(R) = Cardinality(P) + 1
  BY <1>9, <1>11, <1>13, <1>14
<1>19. Cardinality(Occupied(b)) + 1 = Cardinality(Occupied(n)) + 2 * Cardinality(K)
  <2>1. PICK k \in Nat : k = Cardinality(K)
    BY <1>10
  <2>2. PICK m \in Nat : m = Cardinality(P)
    BY <1>17
  <2>3. Cardinality(Occupied(n)) = (m + 1) - 2 * k
    BY <1>10, <1>16, <1>18, <2>1, <2>2
  <2>4. ((m + 1) - 2 * k) + 2 * k = m + 1
    OBVIOUS
  <2> QED
    BY <1>11, <2>1, <2>2, <2>3, <2>4
<1> QED
  BY <1>5, <1>7, <1>8, <1>9, <1>10, <1>11, <1>17, <1>18, <1>19


-----------------------------------------------------------------------------
(* Types.                                                                  *)

LEMMA PlayersAreColored ==
  /\ NumPlayers \in Int /\ Players \in SUBSET Nat /\ IsFiniteSet(Players)
  /\ \A i \in Players : Color(i) \in Colors
  /\ \A i \in Players : (i + 1) % NumPlayers \in Players
  /\ \A i \in Players : (((i + 1) % NumPlayers) - 1) % NumPlayers = i
<1>1. NumPlayers \in 2 .. 6
  BY SizeAssumption
<1>2. Players \in SUBSET Nat /\ IsFiniteSet(Players)
  <2>1. 0 \in Int /\ NumPlayers - 1 \in Int
    BY <1>1
  <2> QED
    BY <1>1, <2>1, FS_Interval DEF Players
<1>3. \A i \in Players : Color(i) \in Colors
  BY DEF Colors
<1>4. ASSUME NEW i \in Players
      PROVE  /\ (i + 1) % NumPlayers \in Players
             /\ (((i + 1) % NumPlayers) - 1) % NumPlayers = i
  <2>1. i \in Int /\ 0 <= i /\ i <= NumPlayers - 1
    BY <1>1 DEF Players
  <2>2. CASE i + 1 < NumPlayers
    <3>1. (i + 1) % NumPlayers = i + 1 /\ i % NumPlayers = i
      BY <1>1, <2>1, <2>2
    <3>2. (i + 1) - 1 = i
      BY <2>1
    <3> QED
      BY <1>1, <2>1, <2>2, <3>1, <3>2 DEF Players
  <2>3. CASE i + 1 = NumPlayers
    <3>1. (i + 1) % NumPlayers = 0
      BY <1>1, <2>1, <2>3
    <3>2. (0 - 1) % NumPlayers = NumPlayers - 1
      BY <1>1
    <3> QED
      BY <1>1, <2>1, <2>3, <3>1, <3>2 DEF Players
  <2> QED
    BY <1>1, <2>1, <2>2, <2>3
<1> QED
  BY <1>1, <1>2, <1>3, <1>4

LEMMA TypedBoard ==
  ASSUME TypeOK
  PROVE  /\ Board(stones) /\ turn \in Players /\ Color(turn) \in Colors
         /\ gems \in [Players -> 0 .. GemsPerPlayer] /\ pairs \in [Players -> Nat]
BY PlayersAreColored DEF TypeOK, Board

\* What ApplyMove does, with the captures K and the stones T they take.
Moves(pos, elapsed, K, T) ==
  /\ Legal(pos, elapsed)
  /\ K = DetectCaptures(Placed(pos, Color(turn)), pos, Color(turn))
  /\ T = UNION {Pair(c) : c \in K}
  /\ stones' = [c \in Colors |-> Placed(pos, Color(turn))[c] \ T]
  /\ gems' = [gems EXCEPT ![turn] = @ - 1]
  /\ pairs' = [pairs EXCEPT ![turn] = @ + Cardinality(K)]
  /\ remaining' = [remaining EXCEPT ![turn] = @ - Charge(elapsed) + Increment]
  /\ kind' = CheckWin(stones'[Color(turn)], pairs'[turn])
  /\ kind' = "none" => /\ turn' = (turn + 1) % NumPlayers
                       /\ started' = ClockEnabled /\ winner' = winner
  /\ kind' # "none" => winner' = turn /\ turn' = turn /\ started' = started

LEMMA MoveParts ==
  ASSUME TypeOK, NEW pos, NEW elapsed, ApplyMove(pos, elapsed)
  PROVE  \E K, T :
    /\ Moves(pos, elapsed, K, T)
    /\ pos \in Cells \ Occupied(stones)
    /\ Board(stones') /\ stones'[Color(turn)] = stones[Color(turn)] \cup {pos}
    /\ T \in SUBSET (Occupied(stones) \ stones[Color(turn)])
    /\ Occupied(stones') = (Occupied(stones) \cup {pos}) \ T
    /\ Cardinality(K) \in Nat
    /\ Cardinality(Occupied(stones)) \in Nat /\ Cardinality(Occupied(stones')) \in Nat
    /\ Cardinality(Occupied(stones)) + 1 = Cardinality(Occupied(stones')) + 2 * Cardinality(K)
<1>1. PICK by : by = Color(turn)
  OBVIOUS
<1>2. PICK K : K = DetectCaptures(Placed(pos, by), pos, by)
  OBVIOUS
<1>3. PICK T : T = UNION {Pair(c) : c \in K}
  OBVIOUS
<1>4. Moves(pos, elapsed, K, T)
  BY <1>1, <1>2, <1>3 DEF ApplyMove, Moves
<1>5. PICK b : b = stones
  OBVIOUS
<1>6. PICK n : n = stones'
  OBVIOUS
<1>7. PICK q : q = [b EXCEPT ![by] = @ \cup {pos}]
  OBVIOUS
<1>8. q = Placed(pos, by)
  BY <1>5, <1>7 DEF Placed
<1>9. Board(b) /\ by \in Colors /\ pos \in Cells \ Occupied(b)
  BY <1>1, <1>4, <1>5, TypedBoard DEF Moves, Legal
<1>10. Captures(b, by, pos, q, K, T, n)
  BY <1>1, <1>2, <1>3, <1>4, <1>6, <1>7, <1>8 DEF Moves, Captures
<1>11. /\ Board(n) /\ n[by] = b[by] \cup {pos}
       /\ T \in SUBSET (Occupied(b) \ b[by])
       /\ Occupied(n) = (Occupied(b) \cup {pos}) \ T
       /\ Cardinality(K) \in Nat
       /\ Cardinality(Occupied(b)) \in Nat /\ Cardinality(Occupied(n)) \in Nat
       /\ Cardinality(Occupied(b)) + 1 = Cardinality(Occupied(n)) + 2 * Cardinality(K)
  BY <1>9, <1>10, Captured
<1> QED
  BY <1>1, <1>4, <1>5, <1>6, <1>9, <1>11

LEMMA InitTypes == Init => TypeOK
<1> SUFFICES ASSUME Init PROVE TypeOK
  OBVIOUS
<1>1. GemsPerPlayer \in 0 .. GemsPerPlayer /\ InitialTimeMs \in Nat /\ 0 \in Players
  BY SizeAssumption, ConfigAssumption DEF Players
<1> QED
  BY <1>1 DEF Init, TypeOK, NoOne, Kinds

LEMMA MoveKeepsTypes ==
  ASSUME TypeOK, NEW pos \in Spots, NEW elapsed \in Elapses, ApplyMove(pos, elapsed)
  PROVE  TypeOK'
<1>1. PICK K, T :
        /\ Moves(pos, elapsed, K, T) /\ Board(stones') /\ Cardinality(K) \in Nat
  BY MoveParts
<1>2. turn \in Players
  BY DEF TypeOK
<1>3. gems' \in [Players -> 0 .. GemsPerPlayer]
  <2>1. gems[turn] \in 0 .. GemsPerPlayer /\ gems[turn] > 0
    BY <1>1, <1>2 DEF TypeOK, Moves, Legal
  <2>2. gems[turn] - 1 \in 0 .. GemsPerPlayer
    BY <2>1, SizeAssumption
  <2> QED
    BY <1>1, <2>2 DEF TypeOK, Moves
<1>4. pairs' \in [Players -> Nat]
  <2>1. pairs[turn] + Cardinality(K) \in Nat
    BY <1>1, <1>2 DEF TypeOK
  <2> QED
    BY <1>1, <2>1 DEF TypeOK, Moves
<1>5. remaining' \in [Players -> Nat]
  <2>1. Charge(elapsed) \in Int /\ Charge(elapsed) <= remaining[turn] /\ Increment \in Nat
    BY <1>1, InputAssumption, ConfigAssumption DEF Moves, Legal, Charge, Increment
  <2>2. remaining[turn] \in Nat
    BY <1>2 DEF TypeOK
  <2>3. remaining[turn] - Charge(elapsed) + Increment \in Nat
    BY <2>1, <2>2
  <2> QED
    BY <1>1, <2>3 DEF TypeOK, Moves
<1>6. kind' \in Kinds
  BY <1>1 DEF Moves, CheckWin, Kinds, LineKinds
<1>7. turn' \in Players /\ started' \in BOOLEAN /\ winner' \in Players \cup {NoOne}
  <2>1. CASE kind' = "none"
    <3>1. ClockEnabled \in BOOLEAN
      BY DEF ClockEnabled
    <3> QED
      BY <1>1, <1>2, <2>1, <3>1, PlayersAreColored DEF TypeOK, Moves
  <2>2. CASE kind' # "none"
    BY <1>1, <1>2, <2>2 DEF TypeOK, Moves
  <2> QED
    BY <2>1, <2>2
<1> QED
  BY <1>1, <1>3, <1>4, <1>5, <1>6, <1>7 DEF TypeOK, Board

LEMMA NextKeepsTypes == TypeOK /\ [Next]_vars => TypeOK'
<1> SUFFICES ASSUME TypeOK, [Next]_vars PROVE TypeOK'
  OBVIOUS
<1>1. CASE StartClock
  BY <1>1 DEF StartClock, TypeOK
<1>2. CASE AgreeDraw
  BY <1>2 DEF AgreeDraw, TypeOK, Kinds
<1>3. CASE \E pos \in Spots, elapsed \in Elapses : ApplyMove(pos, elapsed)
  BY <1>3, MoveKeepsTypes
<1>4. \A loser \in Players : Survivor(loser) \in Players \cup {NoOne}
  BY SizeAssumption DEF Survivor, Players
<1>5. CASE \E loser \in Players : Forfeit(loser)
  <2>1. PICK loser \in Players : Forfeit(loser)
    BY <1>5
  <2>2. remaining' \in [Players -> Nat]
    BY <2>1 DEF Forfeit, TypeOK
  <2> QED
    BY <1>4, <2>1, <2>2 DEF Forfeit, TypeOK, Kinds
<1>6. CASE \E loser \in Players : Resign(loser)
  BY <1>4, <1>6 DEF Resign, TypeOK, Kinds
<1>7. CASE UNCHANGED vars
  BY <1>7 DEF vars, TypeOK
<1> QED
  BY <1>1, <1>2, <1>3, <1>5, <1>6, <1>7 DEF Next

\* The fields of a GameState keep their ranges: no cell has two stones, a stock
\* and a clock never fall below zero, whatever is played, on any board and with
\* any clock.
THEOREM TypeCorrect == Spec => []TypeOK
BY InitTypes, NextKeepsTypes, PTL DEF Spec


-----------------------------------------------------------------------------
(* Conservation of stones.                                                 *)


LEMMA TotalMoves ==
  ASSUME NEW f \in [Players -> Int], NEW g \in [Players -> Int], NEW t \in Players, NEW d \in Int,
         Differ(f, g, t, d, Players)
  PROVE  Total(f) \in Int /\ Total(g) = Total(f) + d
<1>1. IsFiniteSet(Players)
  BY PlayersAreColored
<1>2. PICK h : Adds(h, f, Players) /\ Total(f) = h[Players]
  BY <1>1, SumOf DEF Total
<1>3. PICK k : Adds(k, g, Players) /\ Total(g) = k[Players]
  BY <1>1, SumOf DEF Total
<1>4. h[Players] \in Int /\ k[Players] = h[Players] + d
  BY <1>1, <1>2, <1>3, SumMoves
<1> QED
  BY <1>2, <1>3, <1>4

LEMMA TotalOfZeros ==
  ASSUME NEW f \in [Players -> Int], \A i \in Players : f[i] = 0
  PROVE  Total(f) = 0
<1>1. IsFiniteSet(Players)
  BY PlayersAreColored
<1>2. PICK h : Adds(h, f, Players) /\ Total(f) = h[Players]
  BY <1>1, SumOf DEF Total
<1> QED
  BY <1>1, <1>2, SumOfZeros

Spent(f) == [i \in Players |-> GemsPerPlayer - f[i]]

LEMMA InitAccounted == Init => StonesAccounted
<1> SUFFICES ASSUME Init PROVE StonesAccounted
  OBVIOUS
<1>1. PICK f : f = Spent(gems)
  OBVIOUS
<1>2. PICK g : g = pairs
  OBVIOUS
<1>3. f \in [Players -> Int] /\ g \in [Players -> Int] /\ \A i \in Players : f[i] = 0 /\ g[i] = 0
  BY <1>1, <1>2, SizeAssumption DEF Init, Spent
<1>4. Total(f) = 0 /\ Total(g) = 0
  BY <1>3, TotalOfZeros
<1>5. Cardinality(Occupied(stones)) = 0
  <2>1. \A x : x \notin Occupied(stones)
    BY OnBoard DEF Init
  <2>2. Occupied(stones) = {}
    BY <2>1
  <2> QED
    BY <2>2, FS_EmptySet
<1> QED
  BY <1>1, <1>2, <1>4, <1>5 DEF StonesAccounted, Spent

LEMMA MoveKeepsAccounts ==
  ASSUME TypeOK, StonesAccounted, NEW pos, NEW elapsed, ApplyMove(pos, elapsed)
  PROVE  StonesAccounted'
<1>1. PICK K, T :
        /\ Moves(pos, elapsed, K, T) /\ Cardinality(K) \in Nat
        /\ Cardinality(Occupied(stones)) \in Nat /\ Cardinality(Occupied(stones')) \in Nat
        /\ Cardinality(Occupied(stones)) + 1 = Cardinality(Occupied(stones')) + 2 * Cardinality(K)
  BY MoveParts
<1>2. /\ GemsPerPlayer \in Int /\ turn \in Players
      /\ gems \in [Players -> Int] /\ pairs \in [Players -> Int]
  BY SizeAssumption DEF TypeOK
<1>3. PICK k \in Nat : k = Cardinality(K)
  BY <1>1
<1>4. PICK t \in Players : t = turn
  BY <1>2
<1>5. gems' = [gems EXCEPT ![t] = @ - 1] /\ pairs' = [pairs EXCEPT ![t] = @ + k]
  BY <1>1, <1>3, <1>4 DEF Moves
<1>6. PICK f : f = Spent(gems)
  OBVIOUS
<1>7. PICK f2 : f2 = Spent(gems')
  OBVIOUS
<1>8. /\ f \in [Players -> Int] /\ f2 \in [Players -> Int]
      /\ Differ(f, f2, t, 1, Players)
  BY <1>2, <1>5, <1>6, <1>7 DEF Spent, Differ
<1>9. Total(f) \in Int /\ Total(f2) = Total(f) + 1
  BY <1>8, TotalMoves
<1>10. PICK g : g = pairs
  OBVIOUS
<1>11. PICK g2 : g2 = pairs'
  OBVIOUS
<1>12. /\ g \in [Players -> Int] /\ g2 \in [Players -> Int]
       /\ Differ(g, g2, t, k, Players)
  BY <1>2, <1>5, <1>10, <1>11 DEF Differ
<1>13. Total(g) \in Int /\ Total(g2) = Total(g) + k
  BY <1>12, TotalMoves
<1>14. Total(f) = Cardinality(Occupied(stones)) + 2 * Total(g)
  BY <1>6, <1>10 DEF StonesAccounted, Spent
<1>15. Total(f2) = Cardinality(Occupied(stones')) + 2 * Total(g2)
  <2>1. PICK m \in Nat : m = Cardinality(Occupied(stones'))
    BY <1>1
  <2>2. PICK n \in Int : n = Total(g)
    BY <1>13
  <2>3. Cardinality(Occupied(stones)) = (m + 2 * k) - 1
    BY <1>1, <1>3, <2>1
  <2>4. Total(f2) = ((m + 2 * k) - 1 + 2 * n) + 1
    BY <1>9, <1>14, <2>2, <2>3
  <2>5. ((m + 2 * k) - 1 + 2 * n) + 1 = m + 2 * (n + k)
    OBVIOUS
  <2> QED
    BY <1>13, <2>1, <2>2, <2>4, <2>5
<1> QED
  BY <1>7, <1>11, <1>15 DEF StonesAccounted, Spent

LEMMA NextKeepsAccounts == TypeOK /\ StonesAccounted /\ [Next]_vars => StonesAccounted'
<1> SUFFICES ASSUME TypeOK, StonesAccounted, [Next]_vars PROVE StonesAccounted'
  OBVIOUS
<1>1. CASE \E pos \in Spots, elapsed \in Elapses : ApplyMove(pos, elapsed)
  BY <1>1, MoveKeepsAccounts
<1>2. CASE UNCHANGED <<stones, gems, pairs>>
  BY <1>2 DEF StonesAccounted
<1>3. \/ \E pos \in Spots, elapsed \in Elapses : ApplyMove(pos, elapsed)
      \/ UNCHANGED <<stones, gems, pairs>>
  BY DEF Next, vars, StartClock, AgreeDraw, Forfeit, Resign
<1> QED
  BY <1>1, <1>2, <1>3

\* ApplyMove and DetectCaptures neither lose nor invent a stone: whatever is
\* captured along however many axes, the stones placed are those on the board
\* and two for each pair counted.
THEOREM StonesAreAccounted == Spec => []StonesAccounted
BY InitTypes, NextKeepsTypes, InitAccounted, NextKeepsAccounts, PTL DEF Spec


-----------------------------------------------------------------------------
(* Captures and the quads they close.                                      *)

Closed(b, pos, c) ==
  {Q \in Quads : /\ pos \in Q.ends /\ Q.ends \ {pos} \subseteq b[c]
                 /\ \E v \in Colors \ {c} : Q.mid \subseteq b[v]}

LEMMA PlacedStones ==
  ASSUME TypeOK, NEW pos, NEW by \in Colors
  PROVE  /\ Placed(pos, by)[by] = stones[by] \cup {pos}
         /\ \A v \in Colors \ {by} : Placed(pos, by)[v] = stones[v]
BY DEF Placed, TypeOK

LEMMA CapturesClose ==
  ASSUME TypeOK, NEW by \in Colors, NEW pos \in Cells,
         NEW c \in DetectCaptures(Placed(pos, by), pos, by)
  PROVE  \E Q \in Closed(stones, pos, by) : Q.mid = Pair(c)
<1>1. c \in Tries(pos) /\ TryCapture(Placed(pos, by), c, by)
  BY DEF DetectCaptures, Tries
<1>2. PICK p \in Points, d \in Directions :
        c = <<p, d>> /\ (p = pos \/ p = Shift(pos, d, -3))
  BY <1>1, TriedLine, CellsAreFinite
<1>3. {p, Shift(p, d, 3)} \subseteq stones[by] \cup {pos}
  BY <1>1, <1>2, PlacedStones DEF TryCapture
<1>4. PICK v \in Colors \ {by} : Pair(c) \subseteq stones[v]
  BY <1>1, PlacedStones DEF TryCapture
<1>5. pos \in {p, Shift(p, d, 3)}
  <2>1. Shift(Shift(pos, d, -3), d, 3) = Shift(pos, d, (-3) + 3) /\ Shift(pos, d, 0) = pos
    BY ShiftTwice, CellsAreFinite
  <2> QED
    BY <1>2, <2>1
<1>6. stones[by] \cup {pos} \subseteq Cells
  BY DEF TypeOK
<1>7. PICK Q : Q = [ends |-> {p, Shift(p, d, 3)}, mid |-> Pair(<<p, d>>)]
  OBVIOUS
<1>8. Q.ends = {p, Shift(p, d, 3)} /\ Q.mid = Pair(c)
  BY <1>2, <1>7
<1>9. Q \in Quads
  <2>1. p \in Cells /\ Q.ends \subseteq Cells
    BY <1>3, <1>6, <1>8
  <2>2. Q = Quad(p, d)
    BY <1>7 DEF Quad
  <2> QED
    BY <2>1, <2>2 DEF Quads
<1>10. Q \in Closed(stones, pos, by)
  BY <1>3, <1>4, <1>5, <1>8, <1>9 DEF Closed
<1> QED
  BY <1>8, <1>10

LEMMA ClosedAreCaptures ==
  ASSUME TypeOK, NEW by \in Colors, NEW pos \in Cells, NEW Q \in Closed(stones, pos, by)
  PROVE  \E c \in DetectCaptures(Placed(pos, by), pos, by) : Q.mid = Pair(c)
<1>1. PICK p \in Cells, d \in Directions :
        Q = [ends |-> {p, Shift(p, d, 3)}, mid |-> Pair(<<p, d>>)]
  BY DEF Closed, Quads, Quad
<1>2. Q.ends = {p, Shift(p, d, 3)} /\ Q.mid = Pair(<<p, d>>)
  BY <1>1
<1>3. /\ pos \in {p, Shift(p, d, 3)}
      /\ {p, Shift(p, d, 3)} \subseteq stones[by] \cup {pos}
  BY <1>2 DEF Closed
<1>4. PICK v \in Colors \ {by} : Pair(<<p, d>>) \subseteq stones[v]
  BY <1>2 DEF Closed
<1>5. p = pos \/ p = Shift(pos, d, -3)
  <2>1. Shift(Shift(p, d, 3), d, -3) = Shift(p, d, 3 + (-3)) /\ Shift(p, d, 0) = p
    BY ShiftTwice, CellsAreFinite
  <2> QED
    BY <1>3, <2>1
<1>6. PICK c : c = <<p, d>>
  OBVIOUS
<1>7. c[1] = p /\ c[2] = d /\ Pair(c) = Q.mid
  BY <1>2, <1>6
<1>8. TryCapture(Placed(pos, by), c, by)
  BY <1>3, <1>4, <1>6, <1>7, PlacedStones DEF TryCapture
<1>9. c \in UNION {{pos, Shift(pos, e, -3)} \X {e} : e \in Directions}
  <2>1. c \in {pos, Shift(pos, d, -3)} \X {d}
    BY <1>5, <1>6
  <2> QED
    BY <2>1
<1>10. c \in DetectCaptures(Placed(pos, by), pos, by)
  BY <1>8, <1>9 DEF DetectCaptures
<1> QED
  BY <1>7, <1>10

LEMMA MoveCapturesFlanked ==
  ASSUME TypeOK, NEW pos, NEW elapsed, ApplyMove(pos, elapsed),
         NEW c \in Colors, NEW p \in stones'[c] \ stones[c]
  PROVE  Occupied(stones) \ Occupied(stones') = UNION {Q.mid : Q \in Closed(stones, p, c)}
<1>1. PICK K, T :
        /\ Moves(pos, elapsed, K, T)
        /\ pos \in Cells \ Occupied(stones)
        /\ Board(stones') /\ stones'[Color(turn)] = stones[Color(turn)] \cup {pos}
        /\ T \in SUBSET (Occupied(stones) \ stones[Color(turn)])
        /\ Occupied(stones') = (Occupied(stones) \cup {pos}) \ T
  BY MoveParts
<1>2. Color(turn) \in Colors
  BY TypedBoard
<1>3. c = Color(turn)
  <2> SUFFICES ASSUME c # Color(turn) PROVE FALSE
    OBVIOUS
  <2>1. Placed(pos, Color(turn))[c] = stones[c]
    BY <1>2, PlacedStones
  <2>2. stones'[c] = Placed(pos, Color(turn))[c] \ T
    BY <1>1 DEF Moves
  <2> QED
    BY <2>1, <2>2
<1>4. p = pos
  BY <1>1, <1>3
<1>5. Occupied(stones) \ Occupied(stones') = T
  BY <1>1
<1>6. K = DetectCaptures(Placed(p, c), p, c) /\ T = UNION {Pair(e) : e \in K}
  BY <1>1, <1>3, <1>4 DEF Moves
<1>7. p \in Cells
  BY <1>1, <1>4
<1>8. \A e \in K : \E Q \in Closed(stones, p, c) : Q.mid = Pair(e)
  BY <1>6, <1>7, CapturesClose
<1>9. \A Q \in Closed(stones, p, c) : \E e \in K : Q.mid = Pair(e)
  BY <1>6, <1>7, ClosedAreCaptures
<1>10. {Q.mid : Q \in Closed(stones, p, c)} = {Pair(e) : e \in K}
  BY <1>8, <1>9
<1> QED
  BY <1>5, <1>6, <1>10

\* DetectCaptures, called on the new stone, finds what README.md:27 describes:
\* a move removes the pairs it closes in and nothing else, on any board.
THEOREM MovesCaptureTheFlanked == Spec => CapturesAreFlanked
<1> DEFINE Flanks == \A c \in Colors : \A p \in stones'[c] \ stones[c] :
                       Occupied(stones) \ Occupied(stones')
                         = UNION {Q.mid : Q \in Closed(stones, p, c)}
<1>1. TypeOK /\ [Next]_vars => [Flanks]_vars
  <2> SUFFICES ASSUME TypeOK, Next PROVE Flanks
    OBVIOUS
  <2>1. CASE \E pos \in Spots, elapsed \in Elapses : ApplyMove(pos, elapsed)
    BY <2>1, MoveCapturesFlanked
  <2>2. CASE stones' = stones
    BY <2>2
  <2> QED
    BY <2>1, <2>2 DEF Next, StartClock, AgreeDraw, Forfeit, Resign
<1>2. CapturesAreFlanked <=> [][Flanks]_vars
  BY DEF CapturesAreFlanked, Closed
<1> HIDE DEF Flanks
<1> QED
  BY <1>1, <1>2, TypeCorrect, PTL DEF Spec


-----------------------------------------------------------------------------
(* Segments.                                                               *)

LEMMA InSegment ==
  ASSUME NEW p \in Points, NEW d \in Directions, NEW n \in Nat, NEW k \in Int
  PROVE  /\ 0 <= k /\ k < n => Shift(p, d, k) \in Segment(p, d, n)
         /\ 0 < n => p \in Segment(p, d, n)
         /\ \A x \in Segment(p, d, n) : \E j \in 0 .. n - 1 : x = Shift(p, d, j)
         /\ \A x \in Segment(p, d, n) : x \in Points
<1>1. 0 <= k /\ k < n => k \in 0 .. n - 1
  OBVIOUS
<1>2. 0 <= k /\ k < n => Shift(p, d, k) \in Segment(p, d, n)
  BY <1>1 DEF Segment
<1>3. 0 < n => 0 \in 0 .. n - 1
  OBVIOUS
<1>4. 0 < n => p \in Segment(p, d, n)
  BY <1>3, ShiftTwice DEF Segment
<1>5. \A x \in Segment(p, d, n) : \E j \in 0 .. n - 1 : x = Shift(p, d, j)
  BY DEF Segment
<1>6. \A j \in 0 .. n - 1 : Shift(p, d, j) \in Points
  BY ShiftIn
<1> QED
  BY <1>2, <1>4, <1>5, <1>6

\* A segment inside another lies on its line.
LEMMA SegmentWithin ==
  ASSUME NEW p \in Points, NEW q \in Points, NEW d \in Directions, NEW e \in Directions,
         NEW n \in Nat, NEW m \in Nat, n >= 2, Segment(p, d, n) \subseteq Segment(q, e, m)
  PROVE  d = e /\ \E j \in Nat : p = Shift(q, e, j) /\ j + n <= m
<1>1. n - 1 \in Int /\ 1 \in Int
  OBVIOUS
<1>2. p \in Segment(p, d, n) /\ Shift(p, d, 1) \in Segment(p, d, n)
      /\ Shift(p, d, n - 1) \in Segment(p, d, n)
  BY <1>1, InSegment
<1>3. PICK j \in 0 .. m - 1 : p = Shift(q, e, j)
  BY <1>2 DEF Segment
<1>4. PICK i \in 0 .. m - 1 : Shift(p, d, 1) = Shift(q, e, i)
  BY <1>2 DEF Segment
<1>5. PICK l \in 0 .. m - 1 : Shift(p, d, n - 1) = Shift(q, e, l)
  BY <1>2 DEF Segment
<1>6. j \in Int /\ i - j \in Int /\ l - j \in Int /\ j + (i - j) = i /\ j + (l - j) = l
  OBVIOUS
<1>7. Shift(p, e, i - j) = Shift(q, e, j + (i - j)) /\ Shift(p, e, l - j) = Shift(q, e, j + (l - j))
  BY <1>3, <1>6, ShiftTwice
<1>8. Shift(p, d, 1) = Shift(p, e, i - j) /\ Shift(p, d, n - 1) = Shift(p, e, l - j)
  BY <1>4, <1>5, <1>6, <1>7
<1>9. d = e
  <2>1. 1 = i - j /\ (d = e \/ 1 = 0)
    BY <1>1, <1>6, <1>8, ShiftApart
  <2> QED
    BY <2>1
<1>10. n - 1 = l - j
  BY <1>1, <1>6, <1>8, ShiftApart
<1>11. j \in Nat /\ j + n <= m
  BY <1>10
<1> QED
  BY <1>3, <1>9, <1>11

LEMMA SegmentOnce ==
  ASSUME NEW p \in Points, NEW q \in Points, NEW d \in Directions, NEW e \in Directions,
         NEW n \in Nat, NEW m \in Nat, n >= 2, m >= 2, Segment(p, d, n) = Segment(q, e, m)
  PROVE  p = q /\ d = e /\ n = m
<1>1. d = e /\ \E j \in Nat : p = Shift(q, e, j) /\ j + n <= m
  BY SegmentWithin
<1>2. \E i \in Nat : q = Shift(p, d, i) /\ i + m <= n
  BY SegmentWithin
<1>3. PICK j \in Nat : p = Shift(q, e, j) /\ j + n <= m
  BY <1>1
<1>4. j = 0 /\ n = m
  BY <1>2, <1>3
<1>5. Shift(q, e, 0) = q
  BY ShiftTwice
<1> QED
  BY <1>1, <1>3, <1>4, <1>5

LEMMA SegmentLength ==
  ASSUME NEW p \in Points, NEW d \in Directions, NEW n \in Nat
  PROVE  IsFiniteSet(Segment(p, d, n)) /\ Cardinality(Segment(p, d, n)) = n
<1> DEFINE cell == [k \in 0 .. n - 1 |-> Shift(p, d, k)]
           S == Segment(p, d, n)
<1>1. IsFiniteSet(0 .. n - 1) /\ Cardinality(0 .. n - 1) = n
  <2>1. 0 \in Int /\ n - 1 \in Int
    OBVIOUS
  <2>2. IsFiniteSet(0 .. n - 1)
        /\ Cardinality(0 .. n - 1) = IF 0 > n - 1 THEN 0 ELSE (n - 1) - 0 + 1
    BY <2>1, FS_Interval, Zenon
  <2> QED
    BY <2>2
<1>2. cell \in [0 .. n - 1 -> S]
  BY DEF Segment
<1>3. \A x \in S : \E k \in 0 .. n - 1 : cell[k] = x
  BY DEF Segment
<1>4. \A j, k \in 0 .. n - 1 : cell[j] = cell[k] => j = k
  BY ShiftApart
<1>5. cell \in Bijection(0 .. n - 1, S)
  <2> HIDE DEF cell, S
  <2> QED
    BY <1>2, <1>3, <1>4 DEF Bijection, Surjection, Injection, IsInjective
<1>6. ExistsBijection(0 .. n - 1, S)
  <2> HIDE DEF cell, S
  <2> QED
    BY <1>5 DEF ExistsBijection
<1> HIDE DEF S
<1>7. IsFiniteSet(S) /\ Cardinality(S) = Cardinality(0 .. n - 1)
  BY <1>1, <1>6, FS_Bijection
<1> QED
  BY <1>1, <1>7 DEF S

\* A board of side n has no longer lines than 2n - 1 cells.
LEMMA SegmentFits ==
  ASSUME NEW p \in Points, NEW d \in Directions, NEW n \in Nat, n >= 1,
         Segment(p, d, n) \subseteq Cells
  PROVE  n <= 2 * Side - 1
<1>1. n - 1 \in Int /\ Side \in Int
  BY SizeAssumption
<1>2. p \in Segment(p, d, n) /\ Shift(p, d, n - 1) \in Segment(p, d, n)
  BY <1>1, InSegment
<1>3. p \in Cells /\ Shift(p, d, n - 1) \in Cells
  BY <1>2
<1>4. PICK q : q = Shift(p, d, n - 1)
  OBVIOUS
<1>5. /\ p[1] \in Int /\ p[2] \in Int /\ q[1] \in Int /\ q[2] \in Int
      /\ 1 - Side <= p[1] /\ p[1] <= Side - 1 /\ 1 - Side <= p[2] /\ p[2] <= Side - 1
      /\ 1 - Side <= q[1] /\ q[1] <= Side - 1 /\ 1 - Side <= q[2] /\ q[2] <= Side - 1
  BY <1>1, <1>3, <1>4 DEF Cells, Radius
<1>6. q[1] = p[1] + (n - 1) \/ q[2] = p[2] + (n - 1)
  <2>1. /\ d = <<1, 0>> => q = <<p[1] + (n - 1), p[2]>>
        /\ d = <<0, 1>> => q = <<p[1], p[2] + (n - 1)>>
        /\ d = <<1, -1>> => q = <<p[1] + (n - 1), p[2] - (n - 1)>>
    BY <1>1, <1>4, ShiftIn
  <2> QED
    BY <2>1, ThreeDirections
<1> QED
  BY <1>1, <1>5, <1>6


-----------------------------------------------------------------------------
(* The last move is judged: runs are the alignments of their length.       *)

\* The alignments of the stones A, and the runs forEachMaximalRun counts.
Own(A) == {S \in LongSegments : S \subseteq A}
Lines(A) == {S \in Own(A) : ~ \E T \in Own(A) : S \subseteq T /\ S # T}
Runs(A, n) ==
  {r \in A \X Directions : /\ Shift(r[1], r[2], -1) \notin A
                           /\ \A k \in 1 .. n - 1 : Shift(r[1], r[2], k) \in A
                           /\ Shift(r[1], r[2], n) \notin A}

LEMMA OwnSegments ==
  ASSUME NEW A \in SUBSET Cells
  PROVE  /\ \A S \in Own(A) : \E p \in A, d \in Directions, n \in Nat :
              n >= 4 /\ S = Segment(p, d, n) /\ S \subseteq A
         /\ \A p \in Points, d \in Directions, n \in Nat :
              n >= 4 /\ Segment(p, d, n) \subseteq A => Segment(p, d, n) \in Own(A)
<1>1. ASSUME NEW S \in Own(A)
      PROVE  \E p \in A, d \in Directions, n \in Nat :
               n >= 4 /\ S = Segment(p, d, n) /\ S \subseteq A
  <2>1. PICK p \in Cells, d \in Directions, n \in 4 .. 2 * Side - 1 : S = Segment(p, d, n)
    BY DEF Own, LongSegments
  <2>2. n \in Nat /\ n >= 4 /\ 0 \in Int
    BY SizeAssumption
  <2>3. p \in S
    BY <2>1, <2>2, InSegment, CellsAreFinite
  <2>4. S \subseteq A
    BY DEF Own
  <2> QED
    BY <2>1, <2>2, <2>3, <2>4
<1>2. ASSUME NEW p \in Points, NEW d \in Directions, NEW n \in Nat,
             n >= 4, Segment(p, d, n) \subseteq A
      PROVE  Segment(p, d, n) \in Own(A)
  <2>1. Segment(p, d, n) \subseteq Cells
    BY <1>2
  <2>2. n <= 2 * Side - 1
    BY <1>2, <2>1, SegmentFits
  <2>3. p \in Cells
    <3>1. p \in Segment(p, d, n)
      BY <1>2, InSegment
    <3> QED
      BY <2>1, <3>1
  <2>4. n \in 4 .. 2 * Side - 1
    BY <1>2, <2>2, SizeAssumption
  <2> QED
    BY <1>2, <2>1, <2>3, <2>4 DEF Own, LongSegments
<1> QED
  BY <1>1, <1>2

\* A segment is an alignment exactly if neither end can be extended.
LEMMA LinesAreMaximal ==
  ASSUME NEW A \in SUBSET Cells, NEW p \in Points, NEW d \in Directions, NEW n \in Nat,
         n >= 4, Segment(p, d, n) \subseteq A
  PROVE  Segment(p, d, n) \in Lines(A) <=> Shift(p, d, -1) \notin A /\ Shift(p, d, n) \notin A
<1>1. PICK S : S = Segment(p, d, n)
  OBVIOUS
<1>2. S \in Own(A)
  BY <1>1, OwnSegments
<1>3. ASSUME S \in Lines(A), Shift(p, d, -1) \in A PROVE FALSE
  <2>1. PICK q \in Points : q = Shift(p, d, -1)
    BY ShiftIn
  <2>2. \A k \in Int : Shift(q, d, k) = Shift(p, d, (-1) + k)
    BY <2>1, ShiftTwice
  <2>3. \A j \in 0 .. n : Shift(q, d, j) \in A
    <3> SUFFICES ASSUME NEW j \in 0 .. n PROVE Shift(q, d, j) \in A
      OBVIOUS
    <3>1. CASE j = 0
      BY <1>3, <2>1, <3>1, ShiftTwice
    <3>2. CASE j > 0
      <4>1. j - 1 \in Int /\ 0 <= j - 1 /\ j - 1 < n /\ (-1) + j = j - 1
        BY <3>2
      <4>2. Shift(p, d, j - 1) \in Segment(p, d, n)
        BY <4>1, InSegment
      <4> QED
        BY <2>2, <4>1, <4>2
    <3> QED
      BY <3>1, <3>2
  <2>4. n + 1 \in Nat /\ (n + 1) - 1 = n
    OBVIOUS
  <2>5. Segment(q, d, n + 1) \subseteq A
    BY <2>3, <2>4 DEF Segment
  <2>6. Segment(q, d, n + 1) \in Own(A)
    BY <2>4, <2>5, OwnSegments
  <2>7. S \subseteq Segment(q, d, n + 1)
    <3> SUFFICES ASSUME NEW x \in S PROVE x \in Segment(q, d, n + 1)
      OBVIOUS
    <3>1. PICK k \in 0 .. n - 1 : x = Shift(p, d, k)
      BY <1>1 DEF Segment
    <3>2. k + 1 \in Int /\ 0 <= k + 1 /\ k + 1 < n + 1 /\ (-1) + (k + 1) = k
      OBVIOUS
    <3>3. x = Shift(q, d, k + 1)
      BY <2>2, <3>1, <3>2
    <3> QED
      BY <2>4, <3>2, <3>3, InSegment
  <2>8. S # Segment(q, d, n + 1)
    <3>1. n + 1 >= 2 /\ n >= 2 /\ n # n + 1
      OBVIOUS
    <3> QED
      BY <1>1, <2>4, <3>1, SegmentOnce
  <2> QED
    BY <1>3, <2>6, <2>7, <2>8 DEF Lines
<1>4. ASSUME S \in Lines(A), Shift(p, d, n) \in A PROVE FALSE
  <2>1. n + 1 \in Nat /\ (n + 1) - 1 = n
    OBVIOUS
  <2>2. Segment(p, d, n + 1) \subseteq A
    <3> SUFFICES ASSUME NEW k \in 0 .. n PROVE Shift(p, d, k) \in A
      BY <2>1 DEF Segment
    <3>1. CASE k = n
      BY <1>4, <3>1
    <3>2. CASE k < n
      BY <3>2, InSegment
    <3> QED
      BY <3>1, <3>2
  <2>3. Segment(p, d, n + 1) \in Own(A)
    BY <2>1, <2>2, OwnSegments
  <2>4. S \subseteq Segment(p, d, n + 1)
    <3>1. \A k \in 0 .. n - 1 : k \in 0 .. (n + 1) - 1
      OBVIOUS
    <3> QED
      BY <1>1, <3>1 DEF Segment
  <2>5. S # Segment(p, d, n + 1)
    <3>1. n + 1 >= 2 /\ n >= 2 /\ n # n + 1
      OBVIOUS
    <3> QED
      BY <1>1, <2>1, <3>1, SegmentOnce
  <2> QED
    BY <1>4, <2>3, <2>4, <2>5 DEF Lines
<1>5. ASSUME Shift(p, d, -1) \notin A, Shift(p, d, n) \notin A PROVE S \in Lines(A)
  <2> SUFFICES ASSUME NEW T \in Own(A), S \subseteq T PROVE S = T
    BY <1>2 DEF Lines
  <2>1. PICK q \in A, e \in Directions, m \in Nat : m >= 4 /\ T = Segment(q, e, m) /\ T \subseteq A
    BY OwnSegments
  <2>2. q \in Points /\ n >= 2
    BY CellsAreFinite
  <2>3. d = e /\ \E j \in Nat : p = Shift(q, e, j) /\ j + n <= m
    BY <1>1, <2>1, <2>2, SegmentWithin
  <2>4. PICK j \in Nat : p = Shift(q, e, j) /\ j + n <= m
    BY <2>3
  <2>5. \A k \in Int : Shift(p, d, k) = Shift(q, e, j + k)
    BY <2>2, <2>3, <2>4, ShiftTwice
  <2>6. j = 0
    <3> SUFFICES ASSUME j > 0 PROVE FALSE
      BY <2>4
    <3>1. j - 1 \in Int /\ 0 <= j - 1 /\ j - 1 < m /\ j + (-1) = j - 1
      BY <2>4
    <3>2. Shift(q, e, j - 1) \in T
      BY <2>1, <2>2, <3>1, InSegment
    <3>3. Shift(p, d, -1) = Shift(q, e, j - 1)
      BY <2>5, <3>1
    <3> QED
      BY <1>5, <2>1, <3>2, <3>3
  <2>7. n = m
    <3> SUFFICES ASSUME n < m PROVE FALSE
      BY <2>4, <2>6
    <3>1. Shift(q, e, n) \in T
      BY <2>1, <2>2, InSegment
    <3>2. Shift(p, d, n) = Shift(q, e, n)
      BY <2>5, <2>6
    <3> QED
      BY <1>5, <2>1, <3>1, <3>2
  <2>8. p = q
    BY <2>2, <2>4, <2>6, ShiftTwice
  <2> QED
    BY <1>1, <2>1, <2>3, <2>7, <2>8
<1> QED
  BY <1>1, <1>3, <1>4, <1>5


LinesOf(A, n) == {S \in Lines(A) : Cardinality(S) = n}

LEMMA RunsAreLines ==
  ASSUME NEW A \in SUBSET Cells, NEW n \in Nat, n >= 4
  PROVE  /\ IsFiniteSet(Runs(A, n))
         /\ Cardinality(LinesOf(A, n)) = Cardinality(Runs(A, n))
         /\ CountMaximalRuns(A, n) = Cardinality(Runs(A, n))
<1> DEFINE line == [r \in Runs(A, n) |-> Segment(r[1], r[2], n)]
<1>1. A \in SUBSET Points
  BY CellsAreFinite
<1>2. IsFiniteSet(Runs(A, n))
  <2>1. IsFiniteSet(A)
    BY CellsAreFinite, FS_Subset
  <2>2. IsFiniteSet(Directions)
    <3>1. IsFiniteSet({}) 
      BY FS_EmptySet
    <3>2. IsFiniteSet({} \cup {<<1, 0>>})
      BY <3>1, FS_AddElement
    <3>3. IsFiniteSet(({} \cup {<<1, 0>>}) \cup {<<0, 1>>})
      BY <3>2, FS_AddElement
    <3>4. IsFiniteSet((({} \cup {<<1, 0>>}) \cup {<<0, 1>>}) \cup {<<1, -1>>})
      BY <3>3, FS_AddElement
    <3>5. Directions = (({} \cup {<<1, 0>>}) \cup {<<0, 1>>}) \cup {<<1, -1>>}
      BY DEF Directions
    <3> QED
      BY <3>4, <3>5
  <2>3. IsFiniteSet(A \X Directions) /\ Runs(A, n) \in SUBSET (A \X Directions)
    BY <2>1, <2>2, FS_Product DEF Runs
  <2> QED
    BY <2>3, FS_Subset
<1>3. ASSUME NEW r \in Runs(A, n)
      PROVE  /\ r = <<r[1], r[2]>> /\ r[1] \in Points /\ r[2] \in Directions
             /\ line[r] = Segment(r[1], r[2], n) /\ line[r] \in LinesOf(A, n)
  <2>1. /\ r = <<r[1], r[2]>> /\ r[1] \in A /\ r[1] \in Points /\ r[2] \in Directions
        /\ Shift(r[1], r[2], -1) \notin A /\ Shift(r[1], r[2], n) \notin A
        /\ \A k \in 1 .. n - 1 : Shift(r[1], r[2], k) \in A
    BY <1>1 DEF Runs
  <2>2. \A k \in 0 .. n - 1 : k = 0 \/ k \in 1 .. n - 1
    OBVIOUS
  <2>3. \A k \in 0 .. n - 1 : Shift(r[1], r[2], k) \in A
    BY <2>1, <2>2, ShiftTwice
  <2>4. Segment(r[1], r[2], n) \subseteq A
    BY <2>3 DEF Segment
  <2>5. Segment(r[1], r[2], n) \in Lines(A)
    BY <2>1, <2>4, LinesAreMaximal
  <2>6. Cardinality(Segment(r[1], r[2], n)) = n
    BY <2>1, SegmentLength
  <2> QED
    BY <2>1, <2>5, <2>6 DEF LinesOf
<1>4. ASSUME NEW S \in LinesOf(A, n) PROVE \E r \in Runs(A, n) : line[r] = S
  <2>1. S \in Lines(A) /\ Cardinality(S) = n /\ S \in Own(A)
    BY DEF LinesOf, Lines
  <2>2. PICK p \in A, d \in Directions, m \in Nat : m >= 4 /\ S = Segment(p, d, m) /\ S \subseteq A
    BY <2>1, OwnSegments
  <2>3. m = n /\ p \in Points
    BY <1>1, <2>1, <2>2, SegmentLength
  <2>4. Shift(p, d, -1) \notin A /\ Shift(p, d, n) \notin A
    BY <2>1, <2>2, <2>3, LinesAreMaximal
  <2>5. \A k \in 1 .. n - 1 : Shift(p, d, k) \in A
    BY <2>2, <2>3 DEF Segment
  <2>6. PICK r : r = <<p, d>>
    OBVIOUS
  <2>7. r \in Runs(A, n) /\ r[1] = p /\ r[2] = d
    BY <2>4, <2>5, <2>6 DEF Runs
  <2> QED
    BY <2>2, <2>3, <2>7
<1>5. \A r, s \in Runs(A, n) : line[r] = line[s] => r = s
  <2> SUFFICES ASSUME NEW r \in Runs(A, n), NEW s \in Runs(A, n), line[r] = line[s] PROVE r = s
    OBVIOUS
  <2>1. Segment(r[1], r[2], n) = Segment(s[1], s[2], n) /\ n >= 2
    BY <1>3
  <2>2. r[1] = s[1] /\ r[2] = s[2]
    BY <1>3, <2>1, SegmentOnce
  <2> QED
    BY <1>3, <2>2
<1>6. line \in [Runs(A, n) -> LinesOf(A, n)]
  BY <1>3
<1>7. line \in Bijection(Runs(A, n), LinesOf(A, n))
  <2> HIDE DEF line
  <2> QED
    BY <1>4, <1>5, <1>6 DEF Bijection, Surjection, Injection, IsInjective
<1>8. ExistsBijection(Runs(A, n), LinesOf(A, n))
  <2> HIDE DEF line
  <2> QED
    BY <1>7 DEF ExistsBijection
<1>9. Cardinality(LinesOf(A, n)) = Cardinality(Runs(A, n))
  BY <1>2, <1>8, FS_Bijection
<1>10. CountMaximalRuns(A, n) = Cardinality(Runs(A, n))
  BY DEF CountMaximalRuns, Runs
<1> QED
  BY <1>2, <1>9, <1>10

\* Six in a row are part of a longest line, which is an alignment.
LEMMA SixAreALine ==
  ASSUME NEW A \in SUBSET Cells
  PROVE  HasRun(A, 6) <=> \E S \in Lines(A) : Cardinality(S) >= 6
<1>1. A \in SUBSET Points
  BY CellsAreFinite
<1>2. ASSUME NEW S \in Lines(A), Cardinality(S) >= 6 PROVE HasRun(A, 6)
  <2>1. S \in Own(A)
    BY DEF Lines
  <2>2. PICK p \in A, d \in Directions, m \in Nat : m >= 4 /\ S = Segment(p, d, m) /\ S \subseteq A
    BY <2>1, OwnSegments
  <2>3. m >= 6
    BY <1>1, <1>2, <2>2, SegmentLength
  <2>4. \A k \in 1 .. 6 - 1 : k \in 0 .. m - 1
    BY <2>3
  <2>5. \A k \in 1 .. 6 - 1 : Shift(p, d, k) \in A
    BY <2>2, <2>4 DEF Segment
  <2> QED
    BY <2>5 DEF HasRun
<1>3. ASSUME HasRun(A, 6) PROVE \E S \in Lines(A) : Cardinality(S) >= 6
  <2> DEFINE Fits(n) == \E p \in A, d \in Directions : Segment(p, d, n) \subseteq A
             room == {x \in Nat : \E n \in Nat : n >= 6 /\ Fits(n) /\ x + n = 2 * Side - 1}
  <2>1. \A n \in Nat : n >= 6 /\ Fits(n) => n <= 2 * Side - 1
    <3> SUFFICES ASSUME NEW n \in Nat, n >= 6, Fits(n) PROVE n <= 2 * Side - 1
      OBVIOUS
    <3>1. PICK p \in A, d \in Directions : Segment(p, d, n) \subseteq A
      OBVIOUS
    <3>2. Segment(p, d, n) \subseteq Cells /\ p \in Points /\ n >= 1
      BY <1>1, <3>1
    <3> QED
      BY <3>2, SegmentFits
  <2>2. Fits(6)
    <3>1. PICK p \in A, d \in Directions : \A k \in 1 .. 6 - 1 : Shift(p, d, k) \in A
      BY <1>3 DEF HasRun
    <3>2. \A k \in 0 .. 6 - 1 : k = 0 \/ k \in 1 .. 6 - 1
      OBVIOUS
    <3>3. Shift(p, d, 0) = p
      BY <1>1, ShiftTwice
    <3>4. Segment(p, d, 6) \subseteq A
      BY <3>1, <3>2, <3>3 DEF Segment
    <3> QED
      BY <3>4
  <2>3. 2 * Side - 1 \in Int
    BY SizeAssumption
  <2> HIDE DEF Fits
  <2>4. (2 * Side - 1) - 6 \in room
    <3>1. 6 \in Nat /\ 6 <= 2 * Side - 1
      BY <2>1, <2>2
    <3>2. (2 * Side - 1) - 6 \in Nat /\ ((2 * Side - 1) - 6) + 6 = 2 * Side - 1
      BY <2>3, <3>1
    <3> QED
      BY <2>2, <3>1, <3>2
  <2>5. room \in SUBSET Nat /\ room # {}
    BY <2>4
  <2>6. PICK x \in room : \A y \in room : x <= y
    <3> HIDE DEF room
    <3> QED
      BY <2>5, Least
  <2>7. PICK n \in Nat : n >= 6 /\ Fits(n) /\ x + n = 2 * Side - 1
    OBVIOUS
  <2>8. \A m \in Nat : m >= 6 /\ Fits(m) => m <= n
    <3> SUFFICES ASSUME NEW m \in Nat, m >= 6, Fits(m) PROVE m <= n
      OBVIOUS
    <3>1. m <= 2 * Side - 1
      BY <2>1
    <3>2. (2 * Side - 1) - m \in Nat /\ ((2 * Side - 1) - m) + m = 2 * Side - 1
      BY <2>3, <3>1
    <3>3. (2 * Side - 1) - m \in room
      BY <3>2
    <3>4. x <= (2 * Side - 1) - m /\ x \in Nat
      BY <2>6, <3>3
    <3> QED
      BY <2>3, <2>7, <3>4
  <2>9. PICK p \in A, d \in Directions : Segment(p, d, n) \subseteq A
    BY <2>7 DEF Fits
  <2>10. PICK S : S = Segment(p, d, n)
    OBVIOUS
  <2>11. p \in Points /\ n >= 4 /\ n >= 2
    BY <1>1, <2>7
  <2>12. S \in Own(A) /\ Cardinality(S) = n
    BY <2>9, <2>10, <2>11, OwnSegments, SegmentLength
  <2>13. ASSUME NEW T \in Own(A), S \subseteq T PROVE S = T
    <3>1. PICK q \in A, e \in Directions, m \in Nat : m >= 4 /\ T = Segment(q, e, m) /\ T \subseteq A
      BY OwnSegments
    <3>2. q \in Points
      BY <1>1
    <3>3. d = e /\ \E j \in Nat : p = Shift(q, e, j) /\ j + n <= m
      BY <2>10, <2>11, <2>13, <3>1, <3>2, SegmentWithin
    <3>4. PICK j \in Nat : p = Shift(q, e, j) /\ j + n <= m
      BY <3>3
    <3>5. m >= 6 /\ Fits(m)
      BY <2>7, <3>1, <3>4 DEF Fits
    <3>6. m = n /\ j = 0
      BY <2>8, <3>4, <3>5
    <3>7. p = q
      BY <3>2, <3>4, <3>6, ShiftTwice
    <3> QED
      BY <2>10, <3>1, <3>3, <3>6, <3>7
  <2>14. S \in Lines(A)
    BY <2>12, <2>13 DEF Lines
  <2> QED
    BY <2>7, <2>12, <2>14
<1> QED
  BY <1>2, <1>3


LEMMA JudgementIs ==
  ASSUME TypeOK, NEW i \in Players
  PROVE  Judgement(i) = CheckWin(stones[Color(i)], pairs[i])
<1>1. PICK A : A = stones[Color(i)]
  OBVIOUS
<1>2. A \in SUBSET Cells
  BY <1>1, PlayersAreColored DEF TypeOK
<1>3. Alignments(Color(i)) = Lines(A)
  BY <1>1 DEF Alignments, Lines, Own
<1>4. HasRun(A, 6) <=> \E S \in Lines(A) : Cardinality(S) >= 6
  BY <1>2, SixAreALine
<1>5. /\ CountMaximalRuns(A, 5) = Cardinality({S \in Lines(A) : Cardinality(S) = 5})
      /\ CountMaximalRuns(A, 4) = Cardinality({S \in Lines(A) : Cardinality(S) = 4})
  BY <1>2, RunsAreLines DEF LinesOf
<1> QED
  BY <1>1, <1>3, <1>4, <1>5 DEF Judgement, CheckWin, Reached

\* checkWin on the present position still gives what it gave after the last move.
JudgeInv ==
  CheckWin(stones[Color(Mover)], pairs[Mover]) = IF kind \in LineKinds THEN kind ELSE "none"

LEMMA MoverPlays == TypeOK => Mover \in Players
<1>1. NumPlayers \in 2 .. 6
  BY SizeAssumption
<1>2. \A i \in Players : (i - 1) % NumPlayers \in Players
  BY <1>1 DEF Players
<1> QED
  BY <1>2 DEF Mover, TypeOK

LEMMA InitJudged == Init => JudgeInv
<1> SUFFICES ASSUME Init PROVE JudgeInv
  OBVIOUS
<1>1. Mover \in Players
  BY InitTypes, MoverPlays
<1>2. PICK m \in Players : m = Mover
  BY <1>1
<1>3. stones[Color(m)] = {} /\ pairs[m] = 0
  BY PlayersAreColored DEF Init
<1>4. ~ HasRun({}, 6)
  BY DEF HasRun
<1>5. \A n \in Nat : CountMaximalRuns({}, n) = 0
  BY FS_EmptySet DEF CountMaximalRuns
<1>6. \A n \in Nat : ~ Reached(0, n)
  BY DEF Reached
<1>7. CheckWin({}, 0) = "none"
  BY <1>4, <1>5, <1>6, ConfigAssumption DEF CheckWin
<1> QED
  BY <1>2, <1>3, <1>7 DEF Init, JudgeInv, LineKinds

LEMMA MoveIsJudged ==
  ASSUME TypeOK, NEW pos, NEW elapsed, ApplyMove(pos, elapsed)
  PROVE  JudgeInv'
<1>1. PICK K, T : Moves(pos, elapsed, K, T)
  BY MoveParts
<1>2. kind' = CheckWin(stones'[Color(turn)], pairs'[turn])
  BY <1>1 DEF Moves
<1>3. kind' \in LineKinds \cup {"none"}
  BY <1>2 DEF CheckWin, LineKinds
<1>4. Mover' = turn
  <2>1. CASE kind' = "none"
    <3>1. turn' = (turn + 1) % NumPlayers /\ kind' \notin LineKinds
      BY <1>1, <2>1 DEF Moves, LineKinds
    <3>2. turn \in Players
      BY DEF TypeOK
    <3> QED
      BY <3>1, <3>2, PlayersAreColored DEF Mover
  <2>2. CASE kind' # "none"
    BY <1>1, <1>3, <2>2 DEF Moves, Mover
  <2> QED
    BY <2>1, <2>2
<1> QED
  BY <1>2, <1>3, <1>4 DEF JudgeInv

LEMMA NextKeepsJudged == TypeOK /\ JudgeInv /\ [Next]_vars => JudgeInv'
<1> SUFFICES ASSUME TypeOK, JudgeInv, [Next]_vars PROVE JudgeInv'
  OBVIOUS
<1>1. CASE \E pos \in Spots, elapsed \in Elapses : ApplyMove(pos, elapsed)
  BY <1>1, MoveIsJudged
<1>2. CASE UNCHANGED <<stones, pairs, turn>> /\ kind \notin LineKinds /\ kind' \notin LineKinds
  BY <1>2 DEF JudgeInv, Mover
<1>3. CASE UNCHANGED vars
  BY <1>3 DEF vars, JudgeInv, Mover
<1>4. CASE StartClock \/ AgreeDraw
  BY <1>2, <1>4 DEF StartClock, AgreeDraw, IsOver, LineKinds
<1>5. CASE \E loser \in Players : Forfeit(loser) \/ Resign(loser)
  BY <1>2, <1>5 DEF Forfeit, Resign, IsOver, LineKinds
<1> QED
  BY <1>1, <1>3, <1>4, <1>5 DEF Next

\* checkWin and forEachMaximalRun, which look at origins and directions, give
\* the result that the alignments on the board deserve, for boards of any side
\* and all thresholds; and nothing but a move decides a game by lines.
THEOREM MovesAreJudged == Spec => []LastMoveIsJudged
<1>1. Init => TypeOK /\ JudgeInv
  BY InitTypes, InitJudged
<1>2. TypeOK /\ JudgeInv /\ [Next]_vars => (TypeOK /\ JudgeInv)'
  BY NextKeepsTypes, NextKeepsJudged
<1>3. TypeOK /\ JudgeInv => LastMoveIsJudged
  BY MoverPlays, JudgementIs DEF JudgeInv, LastMoveIsJudged
<1> QED
  BY <1>1, <1>2, <1>3, PTL DEF Spec
=============================================================================
