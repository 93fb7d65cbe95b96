--------------------------- MODULE RematchProofs ---------------------------
(***************************************************************************)
(* Theorems about Ratings and Rematch, for any number of games, players,   *)
(* pods and calls.                                                         *)
(*                                                                         *)
(* RatedInv: the mark of a game and its history come in one step, so the   *)
(* count of a player's ratings is the number of lines about him.           *)
(* HistoryInv: what a goroutine has read is what the lines add up to until *)
(* its game is rated, nobody else rating a game of the same player; sums   *)
(* over sets of lines (SumGrows) come before it.  AllInv:                  *)
(* a link is written once, and records and calls know it or nothing.       *)
(* AgreeInv: the acceptance that completes an offer is in a call that      *)
(* pursues the rematch, or the link is written.                            *)
(***************************************************************************)
EXTENDS Rematch, FiniteSetTheorems, SequenceTheorems, WellFoundedInduction, TLAPS

-----------------------------------------------------------------------------
(* Package elo.                                                            *)

LEMMA Degrees == IsFiniteSet(1 .. 32) /\ Cardinality(1 .. 32) = 32
<1>1. 1 \in Int /\ 32 \in Int
  OBVIOUS
<1>2. /\ IsFiniteSet(1 .. 32)
      /\ Cardinality(1 .. 32) = IF 1 > 32 THEN 0 ELSE 32 - 1 + 1
  BY <1>1, FS_Interval, Zenon
<1> QED
  BY <1>2

LEMMA GainBounds == ASSUME NEW d PROVE Gain(d) \in 0 .. 32
<1> DEFINE S == {k \in DOMAIN Threshold : Threshold[k] <= d}
<1>1. DOMAIN Threshold = 1 .. 32
  BY DEF Threshold
<1>2. IsFiniteSet(1 .. 32) /\ Cardinality(1 .. 32) = 32
  BY Degrees
<1>3. S \in SUBSET (1 .. 32)
  BY <1>1
<1> HIDE DEF S
<1>4. IsFiniteSet(S) /\ Cardinality(S) <= 32
  BY <1>2, <1>3, FS_Subset
<1>5. Cardinality(S) \in Nat
  BY <1>4, FS_CardinalityType
<1> QED
  BY <1>4, <1>5 DEF Gain, S

\* The table is that of a curve with a centre: Expected(a, b) + Expected(b, a) = 1.
LEMMA ThresholdMirror ==
  /\ DOMAIN Threshold = 1 .. 32
  /\ \A k \in 1 .. 32 : Threshold[k] \in Int /\ Threshold[33 - k] = 1 - Threshold[k]
<1>1. DOMAIN Threshold = 1 .. 32
  BY DEF Threshold
<1>2. \A k \in 1 .. 8 : Threshold[k] \in Int /\ Threshold[33 - k] = 1 - Threshold[k]
  BY DEF Threshold
<1>3. \A k \in 9 .. 16 : Threshold[k] \in Int /\ Threshold[33 - k] = 1 - Threshold[k]
  BY DEF Threshold
<1>4. \A k \in 17 .. 24 : Threshold[k] \in Int /\ Threshold[33 - k] = 1 - Threshold[k]
  BY DEF Threshold
<1>5. \A k \in 25 .. 32 : Threshold[k] \in Int /\ Threshold[33 - k] = 1 - Threshold[k]
  BY DEF Threshold
<1> QED
  BY <1>1, <1>2, <1>3, <1>4, <1>5

LEMMA GainMirror == ASSUME NEW d \in Int PROVE Gain(d) + Gain(- d) = 32
<1> DEFINE S == {k \in 1 .. 32 : Threshold[k] <= d}
           T == {k \in 1 .. 32 : Threshold[k] <= - d}
           R == (1 .. 32) \ S
           f == [k \in R |-> 33 - k]
<1>1. IsFiniteSet(1 .. 32) /\ Cardinality(1 .. 32) = 32
  BY Degrees
<1>2. IsFiniteSet(R) /\ Cardinality(R) = 32 - Cardinality((1 .. 32) \cap S)
  BY <1>1, FS_Difference
<1>3. (1 .. 32) \cap S = S
  OBVIOUS
<1>4. f \in Bijection(R, T)
  <2>1. \A k \in R : 33 - k \in T
    BY ThresholdMirror
  <2>2. \A j \in T : 33 - j \in R /\ 33 - (33 - j) = j
    BY ThresholdMirror
  <2>3. f \in Injection(R, T)
    BY <2>1 DEF Injection, IsInjective
  <2>4. f \in Surjection(R, T)
    BY <2>1, <2>2 DEF Surjection
  <2> QED
    BY <2>3, <2>4 DEF Bijection
<1>5. Cardinality(T) = Cardinality(R)
  <2> HIDE DEF f, R, T
  <2>1. ExistsBijection(R, T)
    BY <1>4 DEF ExistsBijection
  <2> QED
    BY <1>2, <2>1, FS_Bijection
<1>6. Gain(d) = Cardinality(S) /\ Gain(- d) = Cardinality(T)
  BY ThresholdMirror DEF Gain
<1>7. Cardinality(S) \in Int
  BY <1>6, GainBounds
<1> HIDE DEF S, T, R
<1> QED
  BY <1>2, <1>3, <1>5, <1>6, <1>7

\* Two players: what one gains the other loses.
LEMMA Mirrored ==
  ASSUME NEW r \in Int, NEW o \in Int
  PROVE  /\ Change(r, o, "W") \in Nat /\ Change(o, r, "L") = - Change(r, o, "W")
         /\ Change(r, o, "D") \in Int /\ Change(o, r, "D") = - Change(r, o, "D")
<1>1. Gain(o - r) \in Nat /\ Gain(r - o) \in Nat
  BY GainBounds
<1>2. Gain(o - r) + Gain(- (o - r)) = 32
  BY GainMirror
<1>3. - (o - r) = r - o
  OBVIOUS
<1> QED
  BY <1>1, <1>2, <1>3 DEF Change

\* The total of at most six numbers.
LEMMA TotalIs ==
  ASSUME NEW s, NEW n \in 0 .. 6, Len(s) = n, \A k \in 1 .. n : s[k] \in Int
  PROVE  /\ n = 0 => Total(s) = 0
         /\ n = 2 => Total(s) = s[1] + s[2]
         /\ n = 3 => Total(s) = s[1] + s[2] + s[3]
         /\ n = 4 => Total(s) = s[1] + s[2] + s[3] + s[4]
         /\ n = 5 => Total(s) = s[1] + s[2] + s[3] + s[4] + s[5]
         /\ n = 6 => Total(s) = s[1] + s[2] + s[3] + s[4] + s[5] + s[6]
<1> DEFINE at(k) == IF k <= n THEN s[k] ELSE 0
           D == 0 .. n
           Sums(f) == f = [k \in D |-> IF k = 0 THEN 0 ELSE f[k - 1] + s[k]]
           g == [k \in D |-> IF k = 0 THEN 0
                             ELSE IF k = 1 THEN at(1)
                             ELSE IF k = 2 THEN at(1) + at(2)
                             ELSE IF k = 3 THEN at(1) + at(2) + at(3)
                             ELSE IF k = 4 THEN at(1) + at(2) + at(3) + at(4)
                             ELSE IF k = 5 THEN at(1) + at(2) + at(3) + at(4) + at(5)
                             ELSE at(1) + at(2) + at(3) + at(4) + at(5) + at(6)]
           h == CHOOSE f : Sums(f)
<1>1. Sums(g)
  <2>1. \A k \in D : g[k] = IF k = 0 THEN 0 ELSE g[k - 1] + s[k]
    <3> TAKE k \in D
    <3>1. k = 0 \/ k = 1 \/ k = 2 \/ k = 3 \/ k = 4 \/ k = 5 \/ k = 6
      OBVIOUS
    <3> QED
      BY <3>1
  <2> QED
    BY <2>1
<1>2. \A k \in D : h[k] = IF k = 0 THEN 0 ELSE h[k - 1] + s[k]
  <2> HIDE DEF g
  <2>1. Sums(h)
    <3> HIDE DEF Sums
    <3> QED
      BY <1>1, Zenon
  <2> HIDE DEF h
  <2> QED
    BY <2>1
<1>3. Total(s) = h[n]
  BY Zenon DEF Total
<1> HIDE DEF h
<1> QED
  BY <1>2, <1>3

\* What the seats of a table of n gain, when w wins.
WinnerTakes(by, n, w) ==
  /\ by = [k \in 1 .. n |-> by[k]]
  /\ \A k \in 1 .. n : by[k] \in Int
  /\ by[w] >= 0 /\ \A k \in 1 .. n : k # w => by[k] <= 0
  /\ Total(by) = 0

LEMMA MultiSums ==
  ASSUME NEW old \in Seq(Int), Len(old) \in 3 .. 6, NEW w \in 1 .. Len(old)
  PROVE  WinnerTakes(MultiChange(old, w), Len(old), w)
<1> PICK by : by = MultiChange(old, w)
  OBVIOUS
<1> DEFINE losers == DOMAIN old \ {w}
           m == Cardinality(losers)
           change == Change(old[w], Quotient(Total(old) - old[w], m), "W")
<1>1. PICK n \in 3 .. 6 : n = Len(old)
  OBVIOUS
<1>2. DOMAIN old = 1 .. n /\ losers = (1 .. n) \ {w} /\ w \in 1 .. n
  BY <1>1
<1>3. m = n - 1
  <2>1. 1 \in Int /\ n \in Int
    OBVIOUS
  <2>2. /\ IsFiniteSet(1 .. n)
        /\ Cardinality(1 .. n) = IF 1 > n THEN 0 ELSE n - 1 + 1
    BY <2>1, FS_Interval, Zenon
  <2>3. Cardinality((1 .. n) \ {w}) = Cardinality(1 .. n) - 1
    BY <1>2, <2>2, FS_RemoveElement
  <2> QED
    BY <1>2, <2>2, <2>3
<1>4. PICK gain \in Nat : gain = change
  <2>1. change = Gain(Quotient(Total(old) - old[w], m) - old[w])
    BY DEF Change
  <2> QED
    BY <2>1, GainBounds
<1> DEFINE first == IF w = 1 THEN 2 ELSE 1
           q == gain \div (n - 1)
           r == gain % (n - 1)
<1>5. q \in Nat /\ r \in Nat /\ gain = q * (n - 1) + r
  <2>1. n = 3 \/ n = 4 \/ n = 5 \/ n = 6
    OBVIOUS
  <2>2. CASE n = 3
    BY <2>2
  <2>3. CASE n = 4
    BY <2>3
  <2>4. CASE n = 5
    BY <2>4
  <2>5. CASE n = 6
    BY <2>5
  <2> QED
    BY <2>1, <2>2, <2>3, <2>4, <2>5
<1>6. \A k \in losers : (\A j \in losers : k <= j) <=> k = first
  <2>1. first \in losers /\ \A j \in losers : first <= j /\ j \in Int
    BY <1>2
  <2> HIDE DEF first, losers
  <2> QED
    BY <2>1
<1>7. by = [k \in 1 .. n |-> IF k = w THEN gain
                             ELSE - LoserShare(gain, n - 1, \A j \in losers : k <= j)]
  BY <1>2, <1>3, <1>4 DEF MultiChange
<1>8. \A k \in 1 .. n : by[k] = IF k = w THEN gain ELSE IF k = first THEN - (q + r) ELSE - q
  <2> TAKE k \in 1 .. n
  <2>1. CASE k = w
    BY <1>7, <2>1
  <2>2. CASE k # w
    <3>1. k \in losers
      BY <1>2, <2>2
    <3> HIDE DEF losers, first
    <3>2. by[k] = - LoserShare(gain, n - 1, \A j \in losers : k <= j)
      BY <1>7, <2>2
    <3>3. CASE k = first
      <4>1. \A j \in losers : k <= j
        BY <1>6, <3>1, <3>3
      <4>2. LoserShare(gain, n - 1, \A j \in losers : k <= j) = q + r
        BY <4>1 DEF LoserShare
      <4> QED
        BY <2>2, <3>2, <3>3, <4>2
    <3>4. CASE k # first
      <4>1. ~ \A j \in losers : k <= j
        BY <1>6, <3>1, <3>4
      <4>2. LoserShare(gain, n - 1, \A j \in losers : k <= j) = q + 0
        BY <4>1 DEF LoserShare
      <4>3. by[k] = - (q + 0)
        BY <3>2, <4>2
      <4> HIDE DEF q
      <4> QED
        BY <1>5, <2>2, <3>4, <4>3
    <3> QED
      BY <3>3, <3>4
  <2> QED
    BY <2>1, <2>2
<1> HIDE DEF q, r, losers, m, change
<1>9. \A k \in 1 .. n : by[k] \in Int
  BY <1>5, <1>8
<1>10. Len(by) = n /\ by = [k \in 1 .. n |-> by[k]]
  <2>1. Len(by) = n
    BY <1>7
  <2> QED
    BY <1>7, <2>1
<1>11. Total(by) = 0
  <2>1. n \in 0 .. 6
    OBVIOUS
  <2> HIDE DEF first
  <2>2. /\ n = 3 => Total(by) = by[1] + by[2] + by[3]
        /\ n = 4 => Total(by) = by[1] + by[2] + by[3] + by[4]
        /\ n = 5 => Total(by) = by[1] + by[2] + by[3] + by[4] + by[5]
        /\ n = 6 => Total(by) = by[1] + by[2] + by[3] + by[4] + by[5] + by[6]
    BY <1>9, <1>10, <2>1, TotalIs
  <2>3. w \in 1 .. n
    BY <1>2
  <2>4. n = 3 \/ n = 4 \/ n = 5 \/ n = 6
    OBVIOUS
  <2> USE DEF first
  <2>5. CASE n = 3
    BY <1>5, <1>8, <2>2, <2>3, <2>5
  <2>6. CASE n = 4
    BY <1>5, <1>8, <2>2, <2>3, <2>6
  <2>7. CASE n = 5
    <3>1. q \in Int /\ r \in Int /\ gain = q * 4 + r
      BY <1>5, <2>7
    <3>2. Total(by) = by[1] + by[2] + by[3] + by[4] + by[5]
      BY <2>2, <2>7
    <3>3. w = 1 \/ w = 2 \/ w = 3 \/ w = 4 \/ w = 5
      BY <2>3, <2>7
    <3>4. CASE w = 1
      <4>1. /\ by[1] = gain /\ by[2] = - (q + r) /\ by[3] = - q
            /\ by[4] = - q /\ by[5] = - q
        BY <1>8, <2>7, <3>4
      <4> HIDE DEF q, r
      <4> QED
        BY <3>1, <3>2, <4>1
    <3>5. CASE w = 2
      <4>1. /\ by[1] = - (q + r) /\ by[2] = gain /\ by[3] = - q
            /\ by[4] = - q /\ by[5] = - q
        BY <1>8, <2>7, <3>5
      <4> HIDE DEF q, r
      <4> QED
        BY <3>1, <3>2, <4>1
    <3>6. CASE w = 3
      <4>1. /\ by[1] = - (q + r) /\ by[2] = - q /\ by[3] = gain
            /\ by[4] = - q /\ by[5] = - q
        BY <1>8, <2>7, <3>6
      <4> HIDE DEF q, r
      <4> QED
        BY <3>1, <3>2, <4>1
    <3>7. CASE w = 4
      <4>1. /\ by[1] = - (q + r) /\ by[2] = - q /\ by[3] = - q
            /\ by[4] = gain /\ by[5] = - q
        BY <1>8, <2>7, <3>7
      <4> HIDE DEF q, r
      <4> QED
        BY <3>1, <3>2, <4>1
    <3>8. CASE w = 5
      <4>1. /\ by[1] = - (q + r) /\ by[2] = - q /\ by[3] = - q
            /\ by[4] = - q /\ by[5] = gain
        BY <1>8, <2>7, <3>8
      <4> HIDE DEF q, r
      <4> QED
        BY <3>1, <3>2, <4>1
    <3> QED
      BY <3>3, <3>4, <3>5, <3>6, <3>7, <3>8
  <2>8. CASE n = 6
    <3>1. q \in Int /\ r \in Int /\ gain = q * 5 + r
      BY <1>5, <2>8
    <3>2. Total(by) = by[1] + by[2] + by[3] + by[4] + by[5] + by[6]
      BY <2>2, <2>8
    <3>3. w = 1 \/ w = 2 \/ w = 3 \/ w = 4 \/ w = 5 \/ w = 6
      BY <2>3, <2>8
    <3>4. CASE w = 1
      <4>1. /\ by[1] = gain /\ by[2] = - (q + r) /\ by[3] = - q
            /\ by[4] = - q /\ by[5] = - q /\ by[6] = - q
        BY <1>8, <2>8, <3>4
      <4> HIDE DEF q, r
      <4> QED
        BY <3>1, <3>2, <4>1
    <3>5. CASE w = 2
      <4>1. /\ by[1] = - (q + r) /\ by[2] = gain /\ by[3] = - q
            /\ by[4] = - q /\ by[5] = - q /\ by[6] = - q
        BY <1>8, <2>8, <3>5
      <4> HIDE DEF q, r
      <4> QED
        BY <3>1, <3>2, <4>1
    <3>6. CASE w = 3
      <4>1. /\ by[1] = - (q + r) /\ by[2] = - q /\ by[3] = gain
            /\ by[4] = - q /\ by[5] = - q /\ by[6] = - q
        BY <1>8, <2>8, <3>6
      <4> HIDE DEF q, r
      <4> QED
        BY <3>1, <3>2, <4>1
    <3>7. CASE w = 4
      <4>1. /\ by[1] = - (q + r) /\ by[2] = - q /\ by[3] = - q
            /\ by[4] = gain /\ by[5] = - q /\ by[6] = - q
        BY <1>8, <2>8, <3>7
      <4> HIDE DEF q, r
      <4> QED
        BY <3>1, <3>2, <4>1
    <3>8. CASE w = 5
      <4>1. /\ by[1] = - (q + r) /\ by[2] = - q /\ by[3] = - q
            /\ by[4] = - q /\ by[5] = gain /\ by[6] = - q
        BY <1>8, <2>8, <3>8
      <4> HIDE DEF q, r
      <4> QED
        BY <3>1, <3>2, <4>1
    <3>9. CASE w = 6
      <4>1. /\ by[1] = - (q + r) /\ by[2] = - q /\ by[3] = - q
            /\ by[4] = - q /\ by[5] = - q /\ by[6] = gain
        BY <1>8, <2>8, <3>9
      <4> HIDE DEF q, r
      <4> QED
        BY <3>1, <3>2, <4>1
    <3> QED
      BY <3>3, <3>4, <3>5, <3>6, <3>7, <3>8, <3>9
  <2> QED
    BY <2>4, <2>5, <2>6, <2>7, <2>8
<1>12. by[w] >= 0 /\ \A k \in 1 .. n : k # w => by[k] <= 0
  BY <1>2, <1>5, <1>8
<1>13. WinnerTakes(by, n, w)
  BY <1>9, <1>10, <1>11, <1>12, Zenon DEF WinnerTakes
<1> QED
  BY <1>1, <1>13

Line == [user : Players, old : Int, new : Int, result : {"W", "L", "D"}]
Won(ups) == [k \in DOMAIN ups |-> ups[k].new - ups[k].old]

\* The history of a rated game with the seating t.
Fair(t, ups) ==
  /\ ups \in Seq(Line) /\ Len(ups) = Len(t)
  /\ \A k \in 1 .. Len(t) : ups[k].user = t[k]
  /\ Total(Won(ups)) = 0
  /\ \A k \in 1 .. Len(t) : /\ ups[k].result = "W" => Won(ups)[k] >= 0
                            /\ ups[k].result = "L" => Won(ups)[k] <= 0

LEMMA UpdatesFair ==
  ASSUME NEW job, NEW t, t = table[job.game], NEW n \in 2 .. 6, Len(t) = n,
         \A k \in 1 .. n : t[k] \in Players,
         job.old \in Seq(Int), Len(job.old) = n, job.won \in 0 .. n,
         n = 2 \/ job.won # 0
  PROVE  Fair(t, Updates(job))
<1> PICK old : old = job.old
  OBVIOUS
<1> PICK won : won = job.won
  OBVIOUS
<1>1. old \in Seq(Int) /\ Len(old) = n /\ DOMAIN old = 1 .. n /\ won \in 0 .. n
  OBVIOUS
<1>2. PICK by : by = IF n > 2 THEN MultiChange(old, won)
                     ELSE [k \in 1 .. 2 |-> Change(old[k], old[3 - k], Result(won, k))]
  OBVIOUS
<1> DEFINE res(k) == Result(won, k)
<1>3. /\ by = [k \in 1 .. n |-> by[k]] /\ \A k \in 1 .. n : by[k] \in Int
      /\ Total(by) = 0
      /\ \A k \in 1 .. n : /\ res(k) = "W" => by[k] >= 0
                           /\ res(k) = "L" => by[k] <= 0
  <2>1. CASE n > 2
    <3>1. n \in 3 .. 6 /\ won \in 1 .. n
      BY <1>1, <2>1
    <3>2. by = MultiChange(old, won)
      BY <1>2, <2>1
    <3>3. /\ by = [k \in 1 .. n |-> by[k]] /\ \A k \in 1 .. n : by[k] \in Int
          /\ by[won] >= 0 /\ \A k \in 1 .. n : k # won => by[k] <= 0
          /\ Total(by) = 0
      <4>1. old \in Seq(Int) /\ Len(old) \in 3 .. 6 /\ won \in 1 .. Len(old)
        BY <1>1, <3>1
      <4>2. WinnerTakes(MultiChange(old, won), Len(old), won)
        BY <4>1, MultiSums
      <4> QED
        BY <1>1, <3>2, <4>2 DEF WinnerTakes
    <3>4. \A k \in 1 .. n : res(k) = IF won = k THEN "W" ELSE "L"
      BY <3>1 DEF Result
    <3> QED
      BY <3>3, <3>4
  <2>2. CASE n = 2
    <3>1. /\ by = [k \in 1 .. 2 |-> by[k]]
          /\ by[1] = Change(old[1], old[2], res(1))
          /\ by[2] = Change(old[2], old[1], res(2))
      BY <1>2, <2>2
    <3>2. old[1] \in Int /\ old[2] \in Int
      BY <1>1, <2>2
    <3>3. won = 0 \/ won = 1 \/ won = 2
      BY <1>1, <2>2
    <3>4. \/ res(1) = "D" /\ res(2) = "D"
          \/ res(1) = "W" /\ res(2) = "L"
          \/ res(1) = "L" /\ res(2) = "W"
      BY <3>3 DEF Result
    <3>5. /\ Change(old[1], old[2], "W") \in Nat /\ Change(old[2], old[1], "W") \in Nat
          /\ Change(old[2], old[1], "L") = - Change(old[1], old[2], "W")
          /\ Change(old[1], old[2], "L") = - Change(old[2], old[1], "W")
          /\ Change(old[1], old[2], "D") \in Int
          /\ Change(old[2], old[1], "D") = - Change(old[1], old[2], "D")
      BY <3>2, Mirrored
    <3> HIDE DEF res
    <3>6. /\ by[1] \in Int /\ by[2] \in Int /\ by[1] + by[2] = 0
          /\ res(1) = "W" => by[1] >= 0
          /\ res(1) = "L" => by[1] <= 0
          /\ res(2) = "W" => by[2] >= 0
          /\ res(2) = "L" => by[2] <= 0
      BY <3>1, <3>4, <3>5
    <3>7. Len(by) = 2
      BY <3>1
    <3>8. \A k \in 1 .. 2 : by[k] \in Int
      BY <3>6
    <3>9. Total(by) = by[1] + by[2]
      BY <3>7, <3>8, TotalIs
    <3> QED
      BY <2>2, <3>1, <3>6, <3>8, <3>9
  <2> QED
    BY <2>1, <2>2
<1>4. PICK ups : ups = Updates(job)
  OBVIOUS
<1>5. ups = [k \in 1 .. n |-> [user |-> t[k], old |-> old[k], new |-> old[k] + by[k],
                               result |-> res(k)]]
  <2>1. ups = [k \in 1 .. n |-> [user |-> t[k], old |-> old[k],
                 new |-> old[k] +
                   (IF n > 2 THEN MultiChange(old, won)
                    ELSE [j \in 1 .. 2 |-> Change(old[j], old[3 - j], Result(won, j))])[k],
                 result |-> res(k)]]
    BY <1>1, <1>4 DEF Updates
  <2> QED
    BY <1>2, <2>1, Zenon
<1>6. \A k \in 1 .. n : res(k) \in {"W", "L", "D"}
  BY DEF Result
<1> HIDE DEF res
<1>7. \A k \in 1 .. n : ups[k] \in Line
  BY <1>1, <1>3, <1>5, <1>6 DEF Line
<1>8. ups \in Seq(Line) /\ Len(ups) = n /\ DOMAIN ups = 1 .. n
  <2> DEFINE f(k) == [user |-> t[k], old |-> old[k], new |-> old[k] + by[k],
                      result |-> res(k)]
  <2>1. ups = [k \in 1 .. n |-> f(k)]
    BY <1>5
  <2>2. \A k \in 1 .. n : f(k) \in Line
    BY <1>7, <2>1
  <2> HIDE DEF f
  <2>3. n \in Nat
    OBVIOUS
  <2> QED
    BY <2>1, <2>2, <2>3
<1>9. Won(ups) = by
  <2>1. \A k \in 1 .. n : ups[k].new - ups[k].old = by[k]
    BY <1>1, <1>3, <1>5
  <2>2. Won(ups) = [k \in 1 .. n |-> by[k]]
    BY <1>8, <2>1 DEF Won
  <2> QED
    BY <1>3, <2>2
<1>10. \A k \in 1 .. n : ups[k].user = t[k] /\ ups[k].result = res(k)
  BY <1>5
<1> QED
  BY <1>3, <1>4, <1>8, <1>9, <1>10 DEF Fair

-----------------------------------------------------------------------------
(* Counting the lines of the history.                                      *)

ModeOf(t) == IF Len(t) = 2 THEN "1v1" ELSE "multi"

\* The lines of u in mode m, of the histories h of the tables tb; those with
\* the result res.
Lines(h, tb, u, m) == {at \in UNION {{g} \X DOMAIN h[g] : g \in Games} :
                         h[at[1]][at[2]].user = u /\ ModeOf(tb[at[1]]) = m}
Hits(h, tb, u, m, res) == {at \in Lines(h, tb, u, m) : h[at[1]][at[2]].result = res}

LEMMA InLines ==
  ASSUME NEW h, NEW tb, NEW u, NEW m, NEW at
  PROVE  at \in Lines(h, tb, u, m) <=>
           \E g \in Games : \E k \in DOMAIN h[g] :
              at = <<g, k>> /\ h[g][k].user = u /\ ModeOf(tb[g]) = m
<1>1. at \in UNION {{g} \X DOMAIN h[g] : g \in Games} <=>
        \E g \in Games : \E k \in DOMAIN h[g] : at = <<g, k>>
  OBVIOUS
<1>2. \A g, k : at = <<g, k>> => at[1] = g /\ at[2] = k
  OBVIOUS
<1> QED
  BY <1>1, <1>2 DEF Lines

SameLines(h2, h, tb, u, m) ==
  /\ Lines(h2, tb, u, m) = Lines(h, tb, u, m)
  /\ \A res : Hits(h2, tb, u, m, res) = Hits(h, tb, u, m, res)
OneLineMore(h2, h, tb, u, m, at, r) ==
  /\ Lines(h2, tb, u, m) = Lines(h, tb, u, m) \cup {at}
  /\ at \notin Lines(h, tb, u, m)
  /\ \A res : Hits(h2, tb, u, m, res) = IF r = res THEN Hits(h, tb, u, m, res) \cup {at}
                                         ELSE Hits(h, tb, u, m, res)

\* A game is rated: its lines are added, of each player at most one.
LEMMA LinesGrow ==
  ASSUME NEW h, h \in [Games -> Seq(Line)], NEW tb, NEW g \in Games, h[g] = <<>>,
         NEW ups \in Seq(Line), NEW h2, h2 = [h EXCEPT ![g] = ups],
         NEW u, NEW m
  PROVE  /\ (\A k \in DOMAIN ups : ups[k].user # u) \/ ModeOf(tb[g]) # m
              => SameLines(h2, h, tb, u, m)
         /\ \A k \in DOMAIN ups :
              (/\ ups[k].user = u /\ ModeOf(tb[g]) = m
               /\ \A j \in DOMAIN ups : ups[j].user = u => j = k)
              => OneLineMore(h2, h, tb, u, m, <<g, k>>, ups[k].result)
<1>1. h2[g] = ups /\ DOMAIN h[g] = {} /\ \A x \in Games : x # g => h2[x] = h[x]
  OBVIOUS
<1> DEFINE Listed(f) == \A at : at \in Lines(f, tb, u, m) <=>
                          \E x \in Games : \E k \in DOMAIN f[x] :
                             at = <<x, k>> /\ f[x][k].user = u /\ ModeOf(tb[x]) = m
<1>0. \A f : Listed(f)
  <2> TAKE f
  <2> SUFFICES ASSUME NEW at
               PROVE  at \in Lines(f, tb, u, m) <=>
                        \E x \in Games : \E k \in DOMAIN f[x] :
                           at = <<x, k>> /\ f[x][k].user = u /\ ModeOf(tb[x]) = m
    OBVIOUS
  <2> QED
    BY InLines
<1>2. Listed(h) /\ Listed(h2)
  <2> HIDE DEF Listed
  <2> QED
    BY <1>0
<1>3. Listed(h2)
  BY <1>2
<1>4. \A at : at \in Lines(h2, tb, u, m) <=>
        \/ at \in Lines(h, tb, u, m)
        \/ \E k \in DOMAIN ups : at = <<g, k>> /\ ups[k].user = u /\ ModeOf(tb[g]) = m
  <2> TAKE at
  <2>1. ASSUME at \in Lines(h2, tb, u, m)
        PROVE  \/ at \in Lines(h, tb, u, m)
               \/ \E k \in DOMAIN ups : at = <<g, k>> /\ ups[k].user = u /\ ModeOf(tb[g]) = m
    <3>1. PICK x \in Games : \E k \in DOMAIN h2[x] :
             at = <<x, k>> /\ h2[x][k].user = u /\ ModeOf(tb[x]) = m
      BY <1>3, <2>1, Zenon
    <3>2. CASE x = g
      BY <1>1, <3>1, <3>2, Zenon
    <3>3. CASE x # g
      <4>1. h2[x] = h[x]
        BY <1>1, <3>3
      <4> QED
        BY <1>2, <3>1, <4>1, Zenon
    <3> QED
      BY <3>2, <3>3
  <2>2. ASSUME at \in Lines(h, tb, u, m) PROVE at \in Lines(h2, tb, u, m)
    <3>1. PICK x \in Games : \E k \in DOMAIN h[x] :
             at = <<x, k>> /\ h[x][k].user = u /\ ModeOf(tb[x]) = m
      BY <1>2, <2>2, Zenon
    <3>2. h2[x] = h[x]
      BY <1>1, <3>1
    <3> QED
      BY <1>3, <3>1, <3>2, Zenon
  <2>3. ASSUME NEW k \in DOMAIN ups, at = <<g, k>>, ups[k].user = u, ModeOf(tb[g]) = m
        PROVE  at \in Lines(h2, tb, u, m)
    BY <1>1, <1>3, <2>3, Zenon
  <2> QED
    BY <2>1, <2>2, <2>3, Zenon
<1>5. \A at \in Lines(h, tb, u, m) : at[1] # g /\ h2[at[1]][at[2]] = h[at[1]][at[2]]
  <2> TAKE at \in Lines(h, tb, u, m)
  <2>1. PICK x \in Games : \E k \in DOMAIN h[x] : at = <<x, k>>
    BY <1>2
  <2>2. at[1] = x /\ x # g
    BY <1>1, <2>1
  <2> QED
    BY <1>1, <2>2
<1>6. ASSUME (\A k \in DOMAIN ups : ups[k].user # u) \/ ModeOf(tb[g]) # m
      PROVE  SameLines(h2, h, tb, u, m)
  <2>1. Lines(h2, tb, u, m) = Lines(h, tb, u, m)
    BY <1>4, <1>6
  <2> QED
    BY <1>5, <2>1 DEF Hits, SameLines
<1>7. ASSUME NEW k \in DOMAIN ups, ups[k].user = u, ModeOf(tb[g]) = m,
             \A j \in DOMAIN ups : ups[j].user = u => j = k
      PROVE  OneLineMore(h2, h, tb, u, m, <<g, k>>, ups[k].result)
  <2>1. Lines(h2, tb, u, m) = Lines(h, tb, u, m) \cup {<<g, k>>}
    BY <1>4, <1>7
  <2>0. <<g, k>>[1] = g /\ <<g, k>>[2] = k
    OBVIOUS
  <2>2. PICK here : here = <<g, k>> /\ here[1] = g /\ here[2] = k
    BY <2>0, Zenon
  <2>3. here \notin Lines(h, tb, u, m)
    BY <1>5, <2>2
  <2>4. h2[here[1]][here[2]] = ups[k]
    BY <1>1, <2>2
  <2>5. ASSUME NEW res
        PROVE  Hits(h2, tb, u, m, res)
                 = IF ups[k].result = res THEN Hits(h, tb, u, m, res) \cup {here}
                   ELSE Hits(h, tb, u, m, res)
    BY <1>5, <2>1, <2>2, <2>3, <2>4 DEF Hits
  <2> QED
    BY <2>1, <2>2, <2>3, <2>5 DEF OneLineMore
<1> QED
  BY <1>6, <1>7

-----------------------------------------------------------------------------
(* Games and their rating.                                                 *)

Distinct(t) == \A j, k \in DOMAIN t : t[j] = t[k] /\ t[j] \in Players => j = k
Seating(t) == t \in Seq(Ids) /\ Len(t) \in 2 .. 6 /\ Distinct(t)

Job == [game : Games, writer : Writers, won : 0 .. 6, old : Seq(Int)]
Rows == [rating : Int, games : Nat, wins : Nat, losses : Nat, draws : Nat]

GamesTyped ==
  /\ status \in [Games -> {"none", "waiting", "playing", "finished", "gone"}]
  /\ result \in [Games -> 0 .. 6]
  /\ table \in [Games -> Seq(Ids)]
  /\ \A g \in Games : IF status[g] = "none" THEN table[g] = <<>> ELSE Seating(table[g])
  /\ public \subseteq Games /\ rated \in [Games -> BOOLEAN]
  /\ ratings \in [Modes -> [Players -> Rows]]
  /\ history \in [Games -> Seq(Line)]
  /\ ended \in [Games -> SUBSET Writers]
  /\ jobs \subseteq Job /\ met \subseteq Players \X Modes

\* A goroutine runs for a game that counts and that somebody has ended.
JobsAreDue ==
  \A job \in jobs : /\ RatingDue(job.game, job.won) /\ ended[job.game] # {}
                    /\ job.won <= Len(table[job.game])
                    /\ Len(job.old) <= Len(table[job.game])

\* The mark and the history.
MarkedWhole ==
  \A g \in Games : IF rated[g] THEN /\ g \in public /\ ended[g] # {} /\ status[g] # "none"
                                    /\ Fair(table[g], history[g])
                   ELSE history[g] = <<>>

\* The history and the counts.
Counted(row, h, tb, u, m) ==
  /\ IsFiniteSet(Lines(h, tb, u, m))
  /\ row.games = Cardinality(Lines(h, tb, u, m))
  /\ row.wins = Cardinality(Hits(h, tb, u, m, "W"))
  /\ row.losses = Cardinality(Hits(h, tb, u, m, "L"))
  /\ row.draws = Cardinality(Hits(h, tb, u, m, "D"))
AllCounted == \A u \in Players, m \in Modes : Counted(ratings[m][u], history, table, u, m)

RatedInv == GamesTyped /\ JobsAreDue /\ MarkedWhole /\ AllCounted

gameRows == <<status, result, table, public, rated, ratings, history, ended, jobs, met>>

\* What CleanStale does to the games.
Cleaned(g) ==
  /\ status[g] = "waiting" /\ status' = [status EXCEPT ![g] = "gone"]
  /\ UNCHANGED <<result, table, public, rated, ratings, history, ended, jobs, met>>

\* What the end of a game does to the goroutines.
LEMMA StartGives ==
  ASSUME NEW g, NEW w, NEW won, StartRating(g, w, won)
  PROVE  \/ UNCHANGED <<jobs, met>>
         \/ /\ RatingDue(g, won) /\ met' = met \cup RatedElsewhere(g)
            /\ jobs' = jobs \cup {[game |-> g, writer |-> w, won |-> won, old |-> << >>]}
BY DEF StartRating

\* What a step of the rematch does to the games.
LEMMA GameSteps ==
  ASSUME [Next]_vars
  PROVE  /\ \/ RatingsNext \/ (\E g \in Games : SaveNewGame(g))
            \/ (\E g \in Games : Cleaned(g)) \/ UNCHANGED gameRows
         /\ mishaps' = mishaps \/ (mishaps < MaxMishaps /\ mishaps' = mishaps + 1)
<1> USE DEF gameRows, ratingVars
<1>1. CASE Rating
  <2>1. RatingsNext
    BY <1>1 DEF Rating
  <2>2. mishaps' = mishaps \/ (mishaps < MaxMishaps /\ mishaps' = mishaps + 1)
    <3>1. ASSUME NEW g, NEW won, Finish(g, won) \/ ZombieFinish(g, won)
          PROVE  mishaps' = mishaps \/ (mishaps < MaxMishaps /\ mishaps' = mishaps + 1)
      BY <3>1 DEF Finish, ZombieFinish
    <3>2. ASSUME NEW job, Rate(job) \/ RatingFails(job)
          PROVE  mishaps' = mishaps \/ (mishaps < MaxMishaps /\ mishaps' = mishaps + 1)
      BY <3>2 DEF Rate, ReadRating, ApplyRatedGame, RatingFails
    <3> QED
      BY <2>1, <3>1, <3>2 DEF RatingsNext
  <2> QED
    BY <2>1, <2>2
<1>2. CASE UNCHANGED vars
  BY <1>2 DEF vars
<1>3. ASSUME NEW p \in Pods, Invalidate(p) \/ Restart(p)
      PROVE  /\ UNCHANGED gameRows
             /\ mishaps' = mishaps \/ (mishaps < MaxMishaps /\ mishaps' = mishaps + 1)
  BY <1>3 DEF Invalidate, Restart
<1>4. ASSUME NEW c \in Calls, NEW at, NEW k, Click(c, at, k) PROVE UNCHANGED ratingVars
  BY <1>4 DEF Click
<1>5. ASSUME NEW c \in Calls,
             \/ CheckOffer(c) \/ MergeRematchAcceptance(c) \/ Sync(c) \/ GetOriginal(c)
             \/ GetLinked(c) \/ Link(c) \/ StampOriginal(c) \/ Stamp(c) \/ CheckDecline(c)
             \/ Clear(c)
      PROVE  UNCHANGED ratingVars
  BY <1>5 DEF CheckOffer, MergeRematchAcceptance, Sync, GetOriginal, GetLinked, Link,
              StampOriginal, Stamp, CheckDecline, Clear
<1>6. ASSUME NEW c \in Calls, Create(c)
      PROVE  (\E g \in Games : SaveNewGame(g)) /\ mishaps' = mishaps
  BY <1>6 DEF Create
<1>7. ASSUME NEW c \in Calls, StatementFails(c)
      PROVE  /\ (\E g \in Games : SaveNewGame(g)) \/ UNCHANGED gameRows
             /\ mishaps < MaxMishaps /\ mishaps' = mishaps + 1
  BY <1>7 DEF StatementFails
<1>8. ASSUME NEW g \in Games, CleanStale(g) PROVE Cleaned(g) /\ mishaps' = mishaps
  BY <1>8 DEF CleanStale, Cleaned
<1> QED
  BY <1>1, <1>2, <1>3, <1>4, <1>5, <1>6, <1>7, <1>8 DEF Next

LEMMA Seated == ASSUME NEW t, Seating(t) PROVE t # << >> /\ t \in Seq(Ids)
<1>1. Len(<< >>) = 0
  OBVIOUS
<1>2. Len(t) \in 2 .. 6 /\ t \in Seq(Ids)
  BY DEF Seating
<1>3. PICK n \in 2 .. 6 : n = Len(t)
  BY <1>2
<1>4. n # 0
  OBVIOUS
<1> QED
  BY <1>1, <1>2, <1>3, <1>4

LEMMA RatedStarts == ASSUME Init PROVE RatedInv /\ mishaps \in 0 .. MaxMishaps
<1> USE DEF Init, RatingsInit
<1>1. GamesTyped
  <2>1. \A g \in Games : table[g] = <<>> \/ Seating(table[g])
    BY TablesAssumption DEF Seating, Distinct
  <2>2. \A g \in Games : Seating(table[g]) => table[g] # <<>>
    BY Seated
  <2>0. << >> \in Seq(Ids)
    OBVIOUS
  <2>3. \A g \in Games : table[g] \in Seq(Ids)
    BY <2>0, <2>1, Seated
  <2>4. table \in [Games -> Seq(Ids)]
    BY <2>3
  <2>5. \A g \in Games : IF status[g] = "none" THEN table[g] = <<>> ELSE Seating(table[g])
    BY <2>1, <2>2
  <2>6. rated \in [Games -> BOOLEAN] /\ history \in [Games -> Seq(Line)]
    <3>1. << >> \in Seq(Line)
      OBVIOUS
    <3> QED
      BY <3>1
  <2>7. ratings \in [Modes -> [Players -> Rows]]
    BY DEF Rows, NoRow
  <2> QED
    BY <2>4, <2>5, <2>6, <2>7 DEF GamesTyped
<1>2. JobsAreDue /\ MarkedWhole
  BY DEF JobsAreDue, MarkedWhole
<1>3. AllCounted
  <2>1. ASSUME NEW u \in Players, NEW m \in Modes
        PROVE  Lines(history, table, u, m) = {}
    <3>1. \A at : at \notin Lines(history, table, u, m)
      BY InLines
    <3> QED
      BY <3>1
  <2>2. ASSUME NEW u \in Players, NEW m \in Modes
        PROVE  \A res : Hits(history, table, u, m, res) = {}
    BY <2>1 DEF Hits
  <2>3. \A u \in Players, m \in Modes : ratings[m][u] = NoRow
    OBVIOUS
  <2> QED
    BY <2>1, <2>2, <2>3, FS_EmptySet DEF AllCounted, Counted, NoRow
<1>4. mishaps \in 0 .. MaxMishaps
  BY RatingBounds
<1> QED
  BY <1>1, <1>2, <1>3, <1>4 DEF RatedInv

\* The table of a game without a history does not count.
LEMMA TablesOfLines ==
  ASSUME NEW h, NEW tb, NEW tb2, NEW u, NEW m,
         \A x \in Games : DOMAIN h[x] # {} => tb2[x] = tb[x]
  PROVE  Lines(h, tb2, u, m) = Lines(h, tb, u, m)
<1>1. ASSUME NEW at PROVE at \in Lines(h, tb2, u, m) <=> at \in Lines(h, tb, u, m)
  <2>1. at \in Lines(h, tb, u, m) <=>
           \E g \in Games : \E k \in DOMAIN h[g] :
              at = <<g, k>> /\ h[g][k].user = u /\ ModeOf(tb[g]) = m
    BY InLines
  <2>2. at \in Lines(h, tb2, u, m) <=>
           \E g \in Games : \E k \in DOMAIN h[g] :
              at = <<g, k>> /\ h[g][k].user = u /\ ModeOf(tb2[g]) = m
    BY InLines
  <2>3. \A g \in Games : \A k \in DOMAIN h[g] : ModeOf(tb2[g]) = ModeOf(tb[g])
    BY DEF ModeOf
  <2> QED
    BY <2>1, <2>2, <2>3, Zenon
<1> QED
  BY <1>1

LEMMA LinesKeep ==
  ASSUME NEW row, NEW h, NEW tb, NEW tb2, NEW u, NEW m,
         \A x \in Games : DOMAIN h[x] # {} => tb2[x] = tb[x],
         Counted(row, h, tb, u, m)
  PROVE  Counted(row, h, tb2, u, m)
<1>1. Lines(h, tb2, u, m) = Lines(h, tb, u, m)
  BY TablesOfLines
<1>2. \A res : Hits(h, tb2, u, m, res) = Hits(h, tb, u, m, res)
  BY <1>1 DEF Hits
<1> QED
  BY <1>1, <1>2 DEF Counted

LEMMA FollowUpSeats ==
  ASSUME Seating(table[Original]) PROVE Seating(FollowUp)
<1> PICK t : t = table[Original]
  OBVIOUS
<1>1. PICK n \in 2 .. 6 : n = Len(t)
  BY DEF Seating
<1>2. t \in Seq(Ids) /\ DOMAIN t = 1 .. n /\ n \in Nat
  BY <1>1 DEF Seating
<1> DEFINE f(k) == IF t[k] = Guest THEN Open ELSE t[k]
<1>3. FollowUp = [k \in 1 .. n |-> f(k)]
  BY <1>2 DEF FollowUp, Seats
<1>4. \A k \in 1 .. n : f(k) \in Ids /\ (f(k) \in Players => f(k) = t[k])
  BY <1>2, IdsAssumption DEF Ids
<1>5. \A j, k \in 1 .. n : t[j] = t[k] /\ t[j] \in Players => j = k
  BY <1>2 DEF Seating, Distinct
<1>6. \A j, k \in 1 .. n : f(j) = f(k) /\ f(j) \in Players => j = k
  BY <1>4, <1>5
<1> HIDE DEF f
<1>7. FollowUp \in Seq(Ids) /\ Len(FollowUp) = n /\ DOMAIN FollowUp = 1 .. n
  BY <1>2, <1>3, <1>4
<1>8. Distinct(FollowUp)
  BY <1>3, <1>6, <1>7 DEF Distinct
<1> QED
  BY <1>7, <1>8 DEF Seating

\* Goroutines, marks and lines are of games that have begun.
LEMMA Begun ==
  ASSUME RatedInv, NEW g \in Games, status[g] = "none"
  PROVE  ~ rated[g] /\ history[g] = << >> /\ \A job \in jobs : job.game # g
<1>1. table[g] = << >> /\ Len(<< >>) = 0
  BY DEF RatedInv, GamesTyped
<1>2. \A won : ~ RatingDue(g, won)
  BY <1>1 DEF RatingDue
<1> QED
  BY <1>2 DEF RatedInv, MarkedWhole, JobsAreDue

LEMMA SaveKeeps ==
  ASSUME RatedInv, status[Original] # "none", NEW g \in Games, SaveNewGame(g)
  PROVE  RatedInv' /\ status'[Original] # "none"
<1>1. /\ table' = [table EXCEPT ![g] = FollowUp]
      /\ status' = [status EXCEPT ![g] = status'[g]]
      /\ status'[g] \in {"waiting", "playing"}
      /\ public' \subseteq public \cup {g} /\ public \subseteq public' \cup {g}
      /\ UNCHANGED <<result, rated, ratings, history, ended, jobs, met>>
  BY DEF SaveNewGame, RatedInv, GamesTyped
<1>2. Seating(FollowUp) /\ status[g] = "none"
  BY FollowUpSeats, OriginalAssumption DEF SaveNewGame, RatedInv, GamesTyped
<1>3. FollowUp \in Seq(Ids)
  BY <1>2, Seated
<1>4. ~ rated[g] /\ history[g] = << >> /\ \A job \in jobs : job.game # g
  BY <1>2, Begun
<1>5. GamesTyped'
  <2>1. status' \in [Games -> {"none", "waiting", "playing", "finished", "gone"}]
    BY <1>1 DEF RatedInv, GamesTyped
  <2>2. table' \in [Games -> Seq(Ids)] /\ public' \subseteq Games
    BY <1>1, <1>3 DEF RatedInv, GamesTyped
  <2>3. ASSUME NEW x \in Games
        PROVE  IF status'[x] = "none" THEN table'[x] = << >> ELSE Seating(table'[x])
    BY <1>1, <1>2 DEF RatedInv, GamesTyped
  <2> QED
    BY <1>1, <2>1, <2>2, <2>3, Zenon DEF RatedInv, GamesTyped
<1>6. \A x \in Games : x # g => /\ table'[x] = table[x] /\ status'[x] = status[x]
                                /\ x \in public' <=> x \in public
  BY <1>1 DEF RatedInv, GamesTyped
<1>7. JobsAreDue'
  <2> SUFFICES ASSUME NEW job \in jobs
               PROVE  /\ RatingDue(job.game, job.won)' /\ ended'[job.game] # {}
                      /\ job.won <= Len(table'[job.game])
                      /\ Len(job.old) <= Len(table'[job.game])
    BY <1>1 DEF JobsAreDue
  <2>1. job.game \in Games /\ job.game # g
    BY <1>4 DEF RatedInv, GamesTyped, Job
  <2> QED
    BY <1>1, <1>6, <2>1 DEF RatedInv, JobsAreDue, RatingDue
<1>8. MarkedWhole'
  BY <1>1, <1>2, <1>4, <1>6 DEF RatedInv, MarkedWhole
<1>9. AllCounted'
  <2>1. \A x \in Games : DOMAIN history[x] # {} => table'[x] = table[x]
    BY <1>4, <1>6
  <2>2. ASSUME NEW u \in Players, NEW m \in Modes
        PROVE  Counted(ratings[m][u], history, table', u, m)
    <3>1. Counted(ratings[m][u], history, table, u, m)
      BY DEF RatedInv, AllCounted
    <3>2. PICK row, h, tb, tb2 : /\ h = history /\ tb = table /\ tb2 = table'
                                 /\ row = ratings[m][u]
      OBVIOUS
    <3>3. \A x \in Games : DOMAIN h[x] # {} => tb2[x] = tb[x]
      BY <2>1, <3>2
    <3>4. Counted(row, h, tb, u, m)
      BY <3>1, <3>2
    <3>5. Counted(row, h, tb2, u, m)
      BY <3>3, <3>4, LinesKeep
    <3> QED
      BY <3>2, <3>5
  <2> QED
    BY <1>1, <2>2 DEF AllCounted
<1>10. status'[Original] # "none"
  BY <1>2, <1>6, OriginalAssumption
<1> QED
  BY <1>5, <1>7, <1>8, <1>9, <1>10 DEF RatedInv

LEMMA EndKeeps ==
  ASSUME RatedInv, NEW g \in Games, NEW won \in 0 .. Len(table[g]),
         Finish(g, won) \/ ZombieFinish(g, won)
  PROVE  RatedInv' /\ \A x \in Games : status[x] # "none" => status'[x] # "none"
<1>1. /\ status[g] \in {"playing", "finished"}
      /\ UNCHANGED <<table, public, rated, ratings, history>>
  BY DEF Finish, ZombieFinish
<1>2. PICK w \in Writers : /\ ended' = [ended EXCEPT ![g] = @ \cup {w}]
                           /\ StartRating(g, w, won)
  BY DEF Finish, ZombieFinish, Writers
<1>3. /\ status' = status \/ status' = [status EXCEPT ![g] = "finished"]
      /\ result' = result \/ result' = [result EXCEPT ![g] = won]
  BY DEF Finish, ZombieFinish
<1>4. PICK n \in 2 .. 6 : n = Len(table[g])
  BY <1>1 DEF RatedInv, GamesTyped, Seating
<1>5. won \in 0 .. 6 /\ won <= Len(table[g]) /\ 0 <= Len(table[g])
  <2>1. won \in 0 .. n
    BY <1>4
  <2>2. won \in 0 .. 6 /\ won <= n /\ 0 <= n
    BY <2>1
  <2> QED
    BY <1>4, <2>2
<1>6. \A job \in jobs' : \/ job \in jobs
                         \/ /\ job \in Job /\ job.game = g /\ job.won = won
                            /\ Len(job.old) = 0 /\ RatingDue(g, won)
  <2>1. << >> \in Seq(Int) /\ Len(<< >>) = 0
    OBVIOUS
  <2> QED
    <3> DEFINE new == [game |-> g, writer |-> w, won |-> won, old |-> << >>]
    <3>1. new \in Job /\ new.game = g /\ new.won = won /\ Len(new.old) = 0
      BY <1>5, <2>1 DEF Job
    <3>2. \A job \in jobs' : job \in jobs \/ (job = new /\ RatingDue(g, won))
      BY <1>2, StartGives
    <3> HIDE DEF new
    <3> QED
      BY <3>1, <3>2
<1>7. GamesTyped'
  <2>1. status' \in [Games -> {"none", "waiting", "playing", "finished", "gone"}]
    BY <1>3 DEF RatedInv, GamesTyped
  <2>2. result' \in [Games -> 0 .. 6]
    BY <1>3, <1>5 DEF RatedInv, GamesTyped
  <2>3. /\ ended' \in [Games -> SUBSET Writers] /\ jobs' \subseteq Job
        /\ met' \subseteq Players \X Modes
    BY <1>2, <1>6, StartGives DEF RatedInv, GamesTyped, RatedElsewhere
  <2>4. \A x \in Games : IF status'[x] = "none" THEN table'[x] = << >>
                         ELSE Seating(table'[x])
    BY <1>1, <1>3 DEF RatedInv, GamesTyped
  <2> QED
    BY <1>1, <2>1, <2>2, <2>3, <2>4, Zenon DEF RatedInv, GamesTyped
<1>8. \A x \in Games : ended[x] # {} \/ x = g => ended'[x] # {}
  BY <1>2 DEF RatedInv, GamesTyped
<1>9. JobsAreDue'
  <2> SUFFICES ASSUME NEW job \in jobs'
               PROVE  /\ RatingDue(job.game, job.won)' /\ ended'[job.game] # {}
                      /\ job.won <= Len(table'[job.game])
                      /\ Len(job.old) <= Len(table'[job.game])
    BY DEF JobsAreDue
  <2>1. job \in Job /\ job.game \in Games
    BY <1>7 DEF GamesTyped, Job
  <2>2. /\ RatingDue(job.game, job.won) /\ ended'[job.game] # {}
        /\ job.won <= Len(table[job.game])
        /\ Len(job.old) <= Len(table[job.game])
    BY <1>2, <1>5, <1>6, <1>8, <2>1 DEF RatedInv, JobsAreDue
  <2> QED
    BY <1>1, <2>2 DEF RatingDue
<1>10. \A x \in Games : status[x] # "none" => status'[x] # "none"
  BY <1>3 DEF RatedInv, GamesTyped
<1>11. MarkedWhole' /\ AllCounted'
  <2>1. MarkedWhole'
    BY <1>1, <1>8, <1>10 DEF RatedInv, MarkedWhole
  <2>2. AllCounted'
    BY <1>1 DEF RatedInv, AllCounted
  <2> QED
    BY <2>1, <2>2
<1> QED
  BY <1>7, <1>9, <1>10, <1>11 DEF RatedInv

\* A goroutine goes on or ends without having written.
LEMMA JobKeeps ==
  ASSUME RatedInv, UNCHANGED <<status, result, table, public, rated, ratings, history, ended, met>>,
         \A job \in jobs' : \/ job \in jobs
                            \/ /\ job \in Job /\ Len(job.old) <= Len(table[job.game])
                               /\ \E before \in jobs : /\ job.game = before.game
                                                       /\ job.won = before.won
  PROVE  RatedInv' /\ status' = status
<1>1. GamesTyped'
  <2>1. jobs' \subseteq Job
    BY DEF RatedInv, GamesTyped
  <2> QED
    BY <2>1, Zenon DEF RatedInv, GamesTyped
<1>2. JobsAreDue'
  <2> SUFFICES ASSUME NEW job \in jobs'
               PROVE  /\ RatingDue(job.game, job.won)' /\ ended'[job.game] # {}
                      /\ job.won <= Len(table'[job.game])
                      /\ Len(job.old) <= Len(table'[job.game])
    BY DEF JobsAreDue
  <2>1. /\ RatingDue(job.game, job.won) /\ ended[job.game] # {}
        /\ job.won <= Len(table[job.game])
        /\ Len(job.old) <= Len(table[job.game])
    BY DEF RatedInv, JobsAreDue
  <2> QED
    BY <2>1 DEF RatingDue
<1>3. MarkedWhole' /\ AllCounted'
  <2>1. MarkedWhole'
    BY DEF RatedInv, MarkedWhole
  <2>2. AllCounted'
    BY DEF RatedInv, AllCounted
  <2> QED
    BY <2>1, <2>2
<1> QED
  BY <1>1, <1>2, <1>3 DEF RatedInv

LEMMA ReadKeeps ==
  ASSUME RatedInv, NEW job \in jobs, ReadRating(job) \/ RatingFails(job)
  PROVE  RatedInv' /\ status' = status
<1>1. CASE RatingFails(job)
  BY <1>1, JobKeeps DEF RatingFails, ApplyFailed
<1>2. CASE ReadRating(job)
  <2> DEFINE k == Len(job.old) + 1
             row == ratings[Mode(job.game)][table[job.game][k]]
             next == [job EXCEPT !.old = Append(@, RatingOrDefault(row))]
  <2>1. /\ k <= Len(table[job.game])
        /\ jobs' = (jobs \ {job}) \cup {next}
        /\ UNCHANGED <<status, result, table, public, rated, ratings, history, ended, met>>
    BY <1>2 DEF ReadRating
  <2>2. job \in Job /\ job.old \in Seq(Int) /\ Len(job.old) \in Nat
    BY DEF RatedInv, GamesTyped, Job
  <2>3. job.game \in Games /\ k \in DOMAIN table[job.game] /\ table[job.game][k] \in Players
    <3>1. /\ job.game \in Games /\ table[job.game] \in Seq(Ids)
          /\ RatingDue(job.game, job.won)
      BY <2>2 DEF RatedInv, GamesTyped, JobsAreDue, Job
    <3>2. k \in DOMAIN table[job.game]
      BY <2>1, <2>2, <3>1
    <3> HIDE DEF k
    <3> QED
      BY <3>1, <3>2 DEF RatingDue
  <2>4. row \in Rows
    <3>1. Mode(job.game) \in Modes
      BY DEF Mode, Modes
    <3> HIDE DEF k
    <3> QED
      BY <2>3, <3>1 DEF RatedInv, GamesTyped
  <2>5. RatingOrDefault(row) \in Int
    <3> HIDE DEF row
    <3> QED
      BY <2>4 DEF RatingOrDefault, DefaultRating, Rows
  <2> HIDE DEF row
  <2>6. /\ Append(job.old, RatingOrDefault(row)) \in Seq(Int)
        /\ Len(Append(job.old, RatingOrDefault(row))) = Len(job.old) + 1
    BY <2>2, <2>5
  <2>7. next \in Job /\ next.game = job.game /\ next.won = job.won /\ Len(next.old) = k
    BY <2>2, <2>6 DEF Job
  <2> HIDE DEF next, k
  <2>8. \A x \in jobs' : \/ x \in jobs
                         \/ /\ x \in Job /\ Len(x.old) <= Len(table[x.game])
                            /\ \E before \in jobs : /\ x.game = before.game
                                                    /\ x.won = before.won
    BY <2>1, <2>7
  <2> QED
    BY <2>1, <2>8, JobKeeps
<1> QED
  BY <1>1, <1>2

LEMMA CreditedCounts ==
  ASSUME NEW row, row \in Rows, NEW h, h \in [Games -> Seq(Line)], NEW tb, NEW g \in Games,
         h[g] = << >>, NEW ups \in Seq(Line), NEW u, NEW m, ModeOf(tb[g]) = m,
         NEW k \in DOMAIN ups, ups[k].user = u,
         \A j \in DOMAIN ups : ups[j].user = u => j = k,
         Counted(row, h, tb, u, m)
  PROVE  Counted(Credited(row, ups[k]), [h EXCEPT ![g] = ups], tb, u, m)
<1> PICK here : here = <<g, k>>
  OBVIOUS
<1> PICK h2 : h2 = [h EXCEPT ![g] = ups]
  OBVIOUS
<1> PICK new : new = Credited(row, ups[k])
  OBVIOUS
<1> PICK L, W, O, D : /\ L = Lines(h, tb, u, m) /\ W = Hits(h, tb, u, m, "W")
                      /\ O = Hits(h, tb, u, m, "L") /\ D = Hits(h, tb, u, m, "D")
  OBVIOUS
<1> DEFINE r == ups[k].result
<1>0. OneLineMore(h2, h, tb, u, m, here, r)
  BY LinesGrow
<1>1. /\ Lines(h2, tb, u, m) = L \cup {here} /\ here \notin L
      /\ \A res : Hits(h2, tb, u, m, res) = IF r = res THEN Hits(h, tb, u, m, res) \cup {here}
                                            ELSE Hits(h, tb, u, m, res)
  BY <1>0 DEF OneLineMore
<1>2. /\ Hits(h2, tb, u, m, "W") = IF r = "W" THEN W \cup {here} ELSE W
      /\ Hits(h2, tb, u, m, "L") = IF r = "L" THEN O \cup {here} ELSE O
      /\ Hits(h2, tb, u, m, "D") = IF r = "D" THEN D \cup {here} ELSE D
  BY <1>1, Zenon
<1>3. IsFiniteSet(L) /\ W \in SUBSET L /\ O \in SUBSET L /\ D \in SUBSET L
  BY DEF Counted, Hits
<1>4. IsFiniteSet(W) /\ IsFiniteSet(O) /\ IsFiniteSet(D)
  BY <1>3, FS_Subset
<1>5. here \notin W /\ here \notin O /\ here \notin D
  BY <1>1, <1>3
<1>6. /\ IsFiniteSet(L \cup {here}) /\ Cardinality(L \cup {here}) = Cardinality(L) + 1
      /\ Cardinality(W \cup {here}) = Cardinality(W) + 1
      /\ Cardinality(O \cup {here}) = Cardinality(O) + 1
      /\ Cardinality(D \cup {here}) = Cardinality(D) + 1
  <2>1. \A S : IsFiniteSet(S) /\ here \notin S =>
           IsFiniteSet(S \cup {here}) /\ Cardinality(S \cup {here}) = Cardinality(S) + 1
    BY FS_AddElement
  <2> QED
    BY <1>1, <1>3, <1>4, <1>5, <2>1, Zenon
<1>7. /\ row.games = Cardinality(L) /\ row.wins = Cardinality(W)
      /\ row.losses = Cardinality(O) /\ row.draws = Cardinality(D)
  BY DEF Counted
<1>8. /\ row.games \in Nat /\ row.wins \in Nat /\ row.losses \in Nat /\ row.draws \in Nat
  BY DEF Rows
<1>9. /\ new.games = row.games + 1
      /\ new.wins = IF r = "W" THEN row.wins + 1 ELSE row.wins
      /\ new.losses = IF r = "L" THEN row.losses + 1 ELSE row.losses
      /\ new.draws = IF r = "D" THEN row.draws + 1 ELSE row.draws
  BY <1>8 DEF Credited
<1> HIDE DEF r
<1>10. /\ IsFiniteSet(Lines(h2, tb, u, m))
       /\ new.games = Cardinality(Lines(h2, tb, u, m))
       /\ new.wins = Cardinality(Hits(h2, tb, u, m, "W"))
       /\ new.losses = Cardinality(Hits(h2, tb, u, m, "L"))
       /\ new.draws = Cardinality(Hits(h2, tb, u, m, "D"))
  <2>1. new.wins = Cardinality(Hits(h2, tb, u, m, "W"))
    BY <1>2, <1>6, <1>7, <1>9
  <2>2. new.losses = Cardinality(Hits(h2, tb, u, m, "L"))
    BY <1>2, <1>6, <1>7, <1>9
  <2>3. new.draws = Cardinality(Hits(h2, tb, u, m, "D"))
    BY <1>2, <1>6, <1>7, <1>9
  <2> QED
    BY <1>1, <1>6, <1>7, <1>9, <2>1, <2>2, <2>3
<1> QED
  BY <1>10, Zenon DEF Counted

LEMMA OthersCounted ==
  ASSUME NEW row, NEW h, h \in [Games -> Seq(Line)], NEW tb, NEW g \in Games,
         h[g] = << >>, NEW ups \in Seq(Line), NEW u, NEW m,
         (\A k \in DOMAIN ups : ups[k].user # u) \/ ModeOf(tb[g]) # m,
         Counted(row, h, tb, u, m)
  PROVE  Counted(row, [h EXCEPT ![g] = ups], tb, u, m)
<1> PICK h2 : h2 = [h EXCEPT ![g] = ups]
  OBVIOUS
<1>1. SameLines(h2, h, tb, u, m)
  BY LinesGrow
<1> QED
  BY <1>1, Zenon DEF Counted, SameLines

\* What a goroutine writes when it is the first.
LEMMA ApplyWrites ==
  ASSUME RatedInv, NEW job \in jobs, NEW g, g = job.game, NEW t, t = table[g],
         Len(job.old) = Len(t), ~ rated[g], NEW ups, ups = Updates(job)
  PROVE  /\ g \in Games /\ Seating(t) /\ status[g] # "none" /\ ended[g] # {} /\ g \in public
         /\ ModeOf(t) \in Modes /\ Mode(g) = ModeOf(t) /\ history[g] = << >>
         /\ Fair(t, ups) /\ ups \in Seq(Line)
         /\ DOMAIN ups = DOMAIN t /\ DOMAIN ups = DOMAIN job.old
         /\ \A k \in DOMAIN ups : ups[k].user = t[k] /\ ups[k].old = job.old[k]
         /\ \A j, k \in DOMAIN ups : ups[j].user = ups[k].user => j = k
<1>1. job \in Job /\ g \in Games /\ job.old \in Seq(Int) /\ job.won \in Nat
  BY DEF RatedInv, GamesTyped, Job
<1>2. RatingDue(g, job.won) /\ ended[g] # {} /\ job.won <= Len(t)
  BY DEF RatedInv, JobsAreDue
<1>3. t \in Seq(Ids) /\ Seating(t) /\ status[g] # "none"
  <2>1. t # << >>
    <3>1. Len(<< >>) = 0
      OBVIOUS
    <3>2. Len(t) >= 2
      BY <1>2 DEF RatingDue
    <3> QED
      BY <3>1, <3>2
  <2> QED
    BY <1>1, <2>1 DEF RatedInv, GamesTyped
<1>4. PICK n \in 2 .. 6 : n = Len(t)
  BY <1>3 DEF Seating
<1>5. /\ \A k \in 1 .. n : t[k] \in Players
      /\ DOMAIN t = 1 .. n /\ Len(job.old) = n /\ DOMAIN job.old = 1 .. n
      /\ job.won \in 0 .. n /\ (n = 2 \/ job.won # 0) /\ g \in public
  BY <1>1, <1>2, <1>3, <1>4 DEF RatingDue
<1>6. Fair(t, ups)
  BY <1>1, <1>4, <1>5, UpdatesFair
<1>7. ups \in Seq(Line) /\ DOMAIN ups = 1 .. n /\ \A k \in 1 .. n : ups[k].user = t[k]
  BY <1>4, <1>6 DEF Fair
<1>8. \A k \in DOMAIN ups : ups[k].old = job.old[k]
  BY <1>5, <1>7 DEF Updates
<1>9. \A j, k \in DOMAIN ups : ups[j].user = ups[k].user => j = k
  BY <1>3, <1>5, <1>7 DEF Seating, Distinct
<1>10. history[g] = << >>
  BY <1>1 DEF RatedInv, MarkedWhole
<1>11. ModeOf(t) \in Modes /\ Mode(g) = ModeOf(t)
  BY DEF Mode, Modes, ModeOf
<1> QED
  BY <1>1, <1>2, <1>3, <1>5, <1>6, <1>7, <1>8, <1>9, <1>10, <1>11

LEMMA EachCredited ==
  ASSUME NEW rows, NEW ups, NEW u \in Players,
         \A j, k \in DOMAIN ups : ups[j].user = ups[k].user => j = k
  PROVE  /\ \A k \in DOMAIN ups : ups[k].user = u
              => AllCredited(rows, ups)[u] = Credited(rows[u], ups[k])
         /\ (\A k \in DOMAIN ups : ups[k].user # u) => AllCredited(rows, ups)[u] = rows[u]
<1>1. ASSUME NEW k \in DOMAIN ups, ups[k].user = u
      PROVE  AllCredited(rows, ups)[u] = Credited(rows[u], ups[k])
  <2> DEFINE j == CHOOSE i \in DOMAIN ups : ups[i].user = u
  <2>1. j \in DOMAIN ups /\ ups[j].user = u
    BY <1>1
  <2>2. j = k
    BY <1>1, <2>1
  <2>3. AllCredited(rows, ups)[u] = Credited(rows[u], ups[j])
    BY <1>1 DEF AllCredited
  <2> QED
    BY <2>2, <2>3
<1>2. (\A k \in DOMAIN ups : ups[k].user # u) => AllCredited(rows, ups)[u] = rows[u]
  BY DEF AllCredited
<1> QED
  BY <1>1, <1>2

LEMMA ApplyKeeps ==
  ASSUME RatedInv, NEW job \in jobs, ApplyRatedGame(job)
  PROVE  RatedInv' /\ status' = status
<1> PICK g : g = job.game
  OBVIOUS
<1>1. /\ Len(job.old) = Len(table[g]) /\ jobs' = jobs \ {job}
      /\ UNCHANGED <<status, result, table, public, ended, met>>
  BY DEF ApplyRatedGame
<1>2. CASE rated[g] /\ UNCHANGED <<rated, ratings, history>>
  BY <1>1, <1>2, JobKeeps
<1>3. ASSUME ~ rated[g], rated' = [rated EXCEPT ![g] = TRUE],
             ratings' = [ratings EXCEPT ![Mode(g)] = AllCredited(@, Updates(job))],
             history' = [history EXCEPT ![g] = Updates(job)]
      PROVE  RatedInv'
  <2>2. PICK t, ups : t = table[g] /\ ups = Updates(job)
    OBVIOUS
  <2>3. /\ g \in Games /\ Seating(t) /\ status[g] # "none" /\ ended[g] # {} /\ g \in public
        /\ ModeOf(t) \in Modes /\ Mode(g) = ModeOf(t) /\ history[g] = << >>
        /\ Fair(t, ups) /\ ups \in Seq(Line)
        /\ \A j, k \in DOMAIN ups : ups[j].user = ups[k].user => j = k
    BY <1>1, <1>3, <2>2, ApplyWrites
  <2>12. PICK m \in Modes : m = Mode(g) /\ m = ModeOf(t)
    BY <2>3
  <2>13. \A u \in Players, k \in DOMAIN ups : ups[k].user = u =>
            AllCredited(ratings[m], ups)[u] = Credited(ratings[m][u], ups[k])
    BY <2>3, EachCredited
  <2>14. \A u \in Players : (\A k \in DOMAIN ups : ups[k].user # u) =>
            AllCredited(ratings[m], ups)[u] = ratings[m][u]
    BY <2>3, EachCredited
  <2>15. ratings' = [ratings EXCEPT ![m] = AllCredited(ratings[m], ups)]
    BY <1>3, <2>2, <2>12
  <2>16. ratings' \in [Modes -> [Players -> Rows]]
    <3>1. ASSUME NEW u \in Players PROVE AllCredited(ratings[m], ups)[u] \in Rows
      <4>1. ratings[m][u] \in Rows
        BY DEF RatedInv, GamesTyped
      <4>2. CASE \A k \in DOMAIN ups : ups[k].user # u
        BY <2>14, <4>1, <4>2
      <4>3. ASSUME NEW k \in DOMAIN ups, ups[k].user = u
            PROVE  AllCredited(ratings[m], ups)[u] \in Rows
        <5>1. ups[k] \in Line
          BY <2>3
        <5>2. Credited(ratings[m][u], ups[k]) \in Rows
          BY <4>1, <5>1 DEF Credited, Rows, Line
        <5> QED
          BY <2>13, <4>3, <5>2
      <4> QED
        BY <4>2, <4>3
    <3>2. AllCredited(ratings[m], ups) = [u \in Players |-> AllCredited(ratings[m], ups)[u]]
      BY DEF AllCredited
    <3>3. AllCredited(ratings[m], ups) \in [Players -> Rows]
      BY <3>1, <3>2
    <3> QED
      BY <2>15, <3>3 DEF RatedInv, GamesTyped
  <2>17. GamesTyped'
    <3>1. rated' \in [Games -> BOOLEAN]
      BY <1>3, Zenon DEF RatedInv, GamesTyped
    <3>2. history' \in [Games -> Seq(Line)]
      BY <1>3, <2>2, <2>3 DEF RatedInv, GamesTyped
    <3>3. jobs' \subseteq Job
      BY <1>1 DEF RatedInv, GamesTyped
    <3> QED
      BY <1>1, <2>16, <3>1, <3>2, <3>3, Zenon DEF RatedInv, GamesTyped
  <2>18. JobsAreDue'
    <3> SUFFICES ASSUME NEW x \in jobs
                 PROVE  /\ RatingDue(x.game, x.won)' /\ ended'[x.game] # {}
                        /\ x.won <= Len(table'[x.game])
                        /\ Len(x.old) <= Len(table'[x.game])
      BY <1>1 DEF JobsAreDue
    <3>1. /\ RatingDue(x.game, x.won) /\ ended[x.game] # {}
          /\ x.won <= Len(table[x.game])
          /\ Len(x.old) <= Len(table[x.game])
      BY DEF RatedInv, JobsAreDue
    <3> QED
      BY <1>1, <3>1 DEF RatingDue
  <2>19. MarkedWhole'
    <3> SUFFICES ASSUME NEW x \in Games
                 PROVE  IF rated'[x] THEN /\ x \in public /\ ended[x] # {}
                                          /\ status[x] # "none" /\ Fair(table[x], history'[x])
                        ELSE history'[x] = << >>
      BY <1>1 DEF MarkedWhole
    <3>1. CASE x = g
      <4>1. rated'[x] /\ history'[x] = ups
        BY <1>3, <2>2, <3>1 DEF RatedInv, GamesTyped
      <4> QED
        BY <2>2, <2>3, <3>1, <4>1 DEF RatingDue
    <3>2. CASE x # g
      <4>1. rated'[x] = rated[x] /\ history'[x] = history[x]
        BY <1>3, <3>2 DEF RatedInv, GamesTyped
      <4> QED
        BY <4>1 DEF RatedInv, MarkedWhole
    <3> QED
      BY <3>1, <3>2
  <2>20. AllCounted'
    <3> SUFFICES ASSUME NEW u \in Players, NEW m2 \in Modes
                 PROVE  Counted(ratings'[m2][u], history', table, u, m2)
      BY <1>1 DEF AllCounted
    <3>1. PICK h, tb, row : h = history /\ tb = table /\ row = ratings[m2][u]
      OBVIOUS
    <3>2. /\ history' = [h EXCEPT ![g] = ups] /\ h \in [Games -> Seq(Line)]
          /\ h[g] = << >> /\ row \in Rows /\ ModeOf(tb[g]) = m
      BY <1>3, <2>2, <2>3, <2>12, <3>1 DEF RatedInv, GamesTyped
    <3>3. Counted(row, h, tb, u, m2)
      BY <3>1 DEF RatedInv, AllCounted
    <3>4. CASE (\A k \in DOMAIN ups : ups[k].user # u) \/ m # m2
      <4>1. ratings'[m2][u] = row
        BY <2>14, <2>15, <3>1, <3>4 DEF RatedInv, GamesTyped
      <4>2. Counted(row, [h EXCEPT ![g] = ups], tb, u, m2)
        BY <2>3, <3>2, <3>3, <3>4, OthersCounted
      <4> QED
        BY <3>1, <3>2, <4>1, <4>2
    <3>5. ASSUME NEW k \in DOMAIN ups, ups[k].user = u, m = m2
          PROVE  Counted(ratings'[m2][u], history', table, u, m2)
      <4>1. ratings'[m2][u] = Credited(row, ups[k])
        BY <2>13, <2>15, <3>1, <3>5 DEF RatedInv, GamesTyped
      <4>2. \A j \in DOMAIN ups : ups[j].user = u => j = k
        BY <2>3, <3>5
      <4>3. Counted(Credited(row, ups[k]), [h EXCEPT ![g] = ups], tb, u, m2)
        BY <2>3, <3>2, <3>3, <3>5, <4>2, CreditedCounts
      <4> QED
        BY <3>1, <3>2, <4>1, <4>3
    <3> QED
      BY <3>4, <3>5
  <2> QED
    BY <2>17, <2>18, <2>19, <2>20 DEF RatedInv
<1> QED
  BY <1>1, <1>2, <1>3 DEF ApplyRatedGame

\* A follow-up is deleted: it was never played.
LEMMA CleanKeeps ==
  ASSUME RatedInv, status[Original] # "none", NEW g \in Games, Cleaned(g)
  PROVE  RatedInv' /\ status'[Original] # "none"
<1>1. /\ status' \in [Games -> {"none", "waiting", "playing", "finished", "gone"}]
      /\ \A x \in Games : status'[x] = "none" <=> status[x] = "none"
      /\ UNCHANGED <<result, table, public, rated, ratings, history, ended, jobs, met>>
  BY DEF Cleaned, RatedInv, GamesTyped
<1>2. GamesTyped'
  BY <1>1, Zenon DEF RatedInv, GamesTyped
<1>3. JobsAreDue'
  BY <1>1 DEF RatedInv, JobsAreDue, RatingDue
<1>4. MarkedWhole' /\ AllCounted'
  <2>1. MarkedWhole'
    BY <1>1 DEF RatedInv, MarkedWhole
  <2>2. AllCounted'
    BY <1>1 DEF RatedInv, AllCounted
  <2> QED
    BY <2>1, <2>2
<1> QED
  BY <1>1, <1>2, <1>3, <1>4, OriginalAssumption DEF RatedInv

LEMMA RatedSteps ==
  ASSUME RatedInv, status[Original] # "none", [Next]_vars
  PROVE  RatedInv' /\ status'[Original] # "none"
<1>1. CASE RatingsNext
  <2>1. ASSUME NEW g \in Games, NEW won \in 0 .. Len(table[g]),
               Finish(g, won) \/ ZombieFinish(g, won)
        PROVE  RatedInv' /\ status'[Original] # "none"
    BY <2>1, EndKeeps, OriginalAssumption
  <2>2. ASSUME NEW job \in jobs, Rate(job) \/ RatingFails(job)
        PROVE  RatedInv' /\ status'[Original] # "none"
    <3>1. RatedInv' /\ status' = status
      BY <2>2, ReadKeeps, ApplyKeeps DEF Rate
    <3> QED
      BY <3>1
  <2> QED
    BY <1>1, <2>1, <2>2 DEF RatingsNext
<1>2. ASSUME NEW g \in Games, SaveNewGame(g) PROVE RatedInv' /\ status'[Original] # "none"
  BY <1>2, SaveKeeps
<1>3. CASE UNCHANGED gameRows
  <2>1. /\ UNCHANGED <<status, result, table, public, rated, ratings, history, ended, met>>
        /\ jobs' = jobs
    BY <1>3 DEF gameRows
  <2> QED
    BY <2>1, JobKeeps
<1>4. ASSUME NEW g \in Games, Cleaned(g) PROVE RatedInv' /\ status'[Original] # "none"
  BY <1>4, CleanKeeps
<1> QED
  BY <1>1, <1>2, <1>3, <1>4, GameSteps

LEMMA RatedImplies == ASSUME RatedInv PROVE RatedAsOne
<1>1. ASSUME NEW g \in Games
      PROVE  LET won == [k \in DOMAIN history[g] |-> history[g][k].new - history[g][k].old]
             IN  /\ Len(history[g]) = IF rated[g] THEN Len(table[g]) ELSE 0
                 /\ rated[g] => g \in public /\ ended[g] # {}
                 /\ Total(won) = 0
                 /\ \A k \in DOMAIN won : /\ history[g][k].result = "W" => won[k] >= 0
                                          /\ history[g][k].result = "L" => won[k] <= 0
  <2> PICK h : h = history[g]
    OBVIOUS
  <2>1. h \in Seq(Line)
    BY DEF RatedInv, GamesTyped
  <2>2. /\ Len(h) = IF rated[g] THEN Len(table[g]) ELSE 0
        /\ rated[g] => g \in public /\ ended[g] # {}
        /\ Total(Won(h)) = 0
        /\ \A k \in DOMAIN h : /\ h[k].result = "W" => Won(h)[k] >= 0
                               /\ h[k].result = "L" => Won(h)[k] <= 0
    <3>1. CASE rated[g]
      <4>1. /\ Fair(table[g], h) /\ g \in public /\ ended[g] # {}
        BY <3>1 DEF RatedInv, MarkedWhole
      <4>2. DOMAIN h = 1 .. Len(table[g])
        BY <2>1, <4>1 DEF Fair
      <4> QED
        BY <3>1, <4>1, <4>2 DEF Fair
    <3>2. CASE ~ rated[g]
      <4>1. h = << >>
        BY <3>2 DEF RatedInv, MarkedWhole
      <4>2. Len(h) = 0 /\ DOMAIN h = {}
        BY <4>1
      <4>3. Len(Won(h)) = 0
        BY <4>2 DEF Won
      <4>4. Total(Won(h)) = 0
        <5> PICK s : s = Won(h)
          OBVIOUS
        <5> PICK n \in 0 .. 6 : n = 0
          OBVIOUS
        <5>1. Len(s) = n /\ \A k \in 1 .. n : s[k] \in Int
          BY <4>3
        <5>2. Total(s) = 0
          BY <5>1, TotalIs
        <5> QED
          BY <5>2
      <4> QED
        BY <3>2, <4>2, <4>4
    <3> QED
      BY <3>1, <3>2
  <2>3. DOMAIN Won(h) = DOMAIN h
    BY DEF Won
  <2> QED
    BY <2>2, <2>3 DEF Won
<1>2. ASSUME NEW u \in Players, NEW m \in Modes
      PROVE  LET row == ratings[m][u]
                 had(res) == Cardinality({at \in Of(u, m) : Entry(at).result = res})
             IN  /\ row.games = Cardinality(Of(u, m))
                 /\ row.wins = had("W") /\ row.losses = had("L") /\ row.draws = had("D")
  <2>1. Of(u, m) = Lines(history, table, u, m)
    BY DEF Of, Places, Lines, Entry, Mode, ModeOf
  <2>2. \A res : {at \in Of(u, m) : Entry(at).result = res} = Hits(history, table, u, m, res)
    BY <2>1 DEF Hits, Entry
  <2>3. Counted(ratings[m][u], history, table, u, m)
    BY DEF RatedInv, AllCounted
  <2> QED
    BY <2>1, <2>2, <2>3 DEF Counted
<1> QED
  BY <1>1, <1>2 DEF RatedAsOne

\* Store.maybeApplyRating and repo.ApplyRatedGame: for any games, players and
\* tables, whichever processes end a game and whatever fails, the mark of a
\* rated game, its history and the counts of its players are one, written once;
\* what the players of a game gain and lose adds up to nothing, and nobody gains
\* by losing.
THEOREM RatedTogether == Spec => []RatedAsOne
<1>1. Init => RatedInv /\ status[Original] # "none"
  <2> SUFFICES ASSUME Init PROVE status[Original] # "none"
    BY RatedStarts
  <2> QED
    BY OriginalAssumption DEF Init, RatingsInit
<1>2. (RatedInv /\ status[Original] # "none") /\ [Next]_vars
        => (RatedInv /\ status[Original] # "none")'
  BY RatedSteps
<1>3. RatedInv /\ status[Original] # "none" => RatedAsOne
  BY RatedImplies
<1> QED
  BY <1>1, <1>2, <1>3, PTL DEF Spec

-----------------------------------------------------------------------------
(* Sums over the lines of a history.                                       *)

First(s) == CHOOSE x \in s : TRUE

\* h[s] is the sum of f over s, for every part s of S.
Adds(h, f, S) ==
  h = [s \in SUBSET S |-> IF s = {} THEN 0 ELSE f[First(s)] + h[s \ {First(s)}]]

Numbers(f, S) == \A i \in S : f[i] \in Int
Agree(f, g, S) == \A i \in S : f[i] = g[i]

LEMMA Least ==
  ASSUME NEW S \in SUBSET Nat, S # {} PROVE \E m \in S : \A n \in S : m <= n
<1> DEFINE R == OpToRel(<, Nat)
<1>1. IsWellFoundedOn(R, Nat)
  BY NatLessThanWellFounded, Zenon
<1>2. \E m \in S : \A n \in S : ~ (<<n, m>> \in R)
  <2> HIDE DEF R
  <2> QED
    BY <1>1, WFMin
<1>3. PICK m \in S : \A n \in S : ~ (<<n, m>> \in R)
  BY <1>2
<1>4. ASSUME NEW n \in S PROVE m <= n
  <2>1. n \in Nat /\ m \in Nat /\ ~ (<<n, m>> \in R)
    BY <1>3
  <2>2. ~ (n < m)
    BY <2>1 DEF OpToRel
  <2> HIDE DEF R
  <2> QED
    BY <2>1, <2>2
<1> QED
  BY <1>4

LEMMA Climb ==
  ASSUME NEW S \in SUBSET Nat, 0 \in S, \A n \in S : n + 1 \in S PROVE S = Nat
<1> SUFFICES ASSUME Nat \ S # {} PROVE FALSE
  OBVIOUS
<1>1. PICK m \in Nat \ S : \A n \in Nat \ S : m <= n
  BY Least
<1>2. m - 1 \in Nat /\ ~ (m <= m - 1) /\ (m - 1) + 1 = m
  OBVIOUS
<1> QED
  BY <1>1, <1>2

LEMMA Smaller ==
  ASSUME NEW S, IsFiniteSet(S), NEW s \in SUBSET S
  PROVE  /\ Cardinality(s) \in Nat
         /\ Cardinality(s) <= 0 => s = {}
         /\ s # {} => First(s) \in s
         /\ \A x \in s : /\ s \ {x} \in SUBSET S
                         /\ Cardinality(s \ {x}) = Cardinality(s) - 1
<1>1. IsFiniteSet(s)
  BY FS_Subset
<1>2. Cardinality(s) \in Nat
  BY <1>1, FS_CardinalityType
<1>3. Cardinality(s) = 0 => s = {}
  BY <1>1, FS_EmptySet
<1>4. s # {} => First(s) \in s
  BY DEF First
<1>5. \A x \in s : Cardinality(s \ {x}) = Cardinality(s) - 1
  BY <1>1, FS_RemoveElement
<1> QED
  BY <1>2, <1>3, <1>4, <1>5

\* Induction over the parts of a finite set.
LEMMA AllParts ==
  ASSUME NEW S, IsFiniteSet(S), NEW good \in SUBSET SUBSET S,
         \A s \in SUBSET S : (\A x \in s : s \ {x} \in good) => s \in good
  PROVE  good = SUBSET S
<1> DEFINE upto == {n \in Nat : \A s \in SUBSET S : Cardinality(s) <= n => s \in good}
<1>1. 0 \in upto
  BY Smaller
<1>2. ASSUME NEW n \in upto PROVE n + 1 \in upto
  <2> SUFFICES ASSUME NEW s \in SUBSET S, Cardinality(s) <= n + 1 PROVE s \in good
    OBVIOUS
  <2>1. ASSUME NEW x \in s PROVE s \ {x} \in good
    <3>1. s \ {x} \in SUBSET S /\ Cardinality(s \ {x}) = Cardinality(s) - 1
          /\ Cardinality(s) \in Nat
      BY Smaller
    <3>2. Cardinality(s \ {x}) <= n
      BY <3>1
    <3> QED
      BY <3>1, <3>2
  <2> QED
    BY <2>1
<1>3. upto = Nat
  <2>1. upto \in SUBSET Nat
    OBVIOUS
  <2> HIDE DEF upto
  <2> QED
    BY <1>1, <1>2, <2>1, Climb
<1>4. ASSUME NEW s \in SUBSET S PROVE s \in good
  <2>1. Cardinality(s) \in upto /\ Cardinality(s) <= Cardinality(s)
    BY <1>3, Smaller
  <2> QED
    BY <2>1
<1> QED
  BY <1>4

LEMMA SumExists ==
  ASSUME NEW S, IsFiniteSet(S), NEW f, Numbers(f, S)
  PROVE  \E h \in [SUBSET S -> Int] : Adds(h, f, S)
<1> DEFINE Value(h, s) == IF s = {} THEN 0 ELSE f[First(s)] + h[s \ {First(s)}]
           Upto(n) == \E h \in [SUBSET S -> Int] :
                        \A s \in SUBSET S : Cardinality(s) <= n => h[s] = Value(h, s)
           good == {n \in Nat : Upto(n)}
<1>1. \A h \in [SUBSET S -> Int], s \in SUBSET S : Value(h, s) \in Int
  <2> SUFFICES ASSUME NEW h \in [SUBSET S -> Int], NEW s \in SUBSET S
               PROVE  Value(h, s) \in Int
    OBVIOUS
  <2>1. s # {} => First(s) \in S /\ s \ {First(s)} \in SUBSET S
    BY Smaller
  <2> QED
    BY <2>1 DEF Numbers
<1>2. 0 \in good
  <2> DEFINE h == [s \in SUBSET S |-> 0]
  <2>1. h \in [SUBSET S -> Int]
    OBVIOUS
  <2>2. \A s \in SUBSET S : Cardinality(s) <= 0 => h[s] = Value(h, s)
    BY Smaller
  <2> QED
    BY <2>1, <2>2
<1>3. ASSUME NEW n \in good PROVE n + 1 \in good
  <2>1. PICK h \in [SUBSET S -> Int] :
              \A s \in SUBSET S : Cardinality(s) <= n => h[s] = Value(h, s)
    OBVIOUS
  <2> DEFINE g == [s \in SUBSET S |-> IF Cardinality(s) <= n THEN h[s] ELSE Value(h, s)]
  <2>2. g \in [SUBSET S -> Int]
    <3> HIDE DEF Value
    <3> QED
      BY <1>1
  <2>3. ASSUME NEW s \in SUBSET S, Cardinality(s) <= n + 1 PROVE g[s] = Value(g, s)
    <3>1. g[s] = Value(h, s)
      <4> HIDE DEF Value
      <4> QED
        BY <2>1
    <3>2. s # {} => g[s \ {First(s)}] = h[s \ {First(s)}]
      <4> HIDE DEF Value
      <4>1. s # {} => s \ {First(s)} \in SUBSET S /\ Cardinality(s \ {First(s)}) <= n
        BY <2>3, Smaller
      <4> QED
        BY <4>1
    <3> HIDE DEF g
    <3> QED
      BY <3>1, <3>2
  <2> QED
    <3> HIDE DEF g, Value
    <3> QED
      BY <2>2, <2>3
<1>4. good = Nat
  <2>1. good \in SUBSET Nat
    OBVIOUS
  <2> HIDE DEF good
  <2> QED
    BY <1>2, <1>3, <2>1, Climb
<1>5. Cardinality(S) \in good
  BY <1>4, FS_CardinalityType
<1>6. PICK h \in [SUBSET S -> Int] :
            \A s \in SUBSET S : Cardinality(s) <= Cardinality(S) => h[s] = Value(h, s)
  BY <1>5
<1>7. \A s \in SUBSET S : h[s] = Value(h, s)
  <2>1. \A s \in SUBSET S : Cardinality(s) <= Cardinality(S)
    BY FS_Subset
  <2> HIDE DEF Value
  <2> QED
    BY <1>6, <2>1
<1>8. h = [s \in SUBSET S |-> Value(h, s)]
  <2> HIDE DEF Value
  <2> QED
    BY <1>7
<1> QED
  BY <1>8 DEF Adds

LEMMA SumOf ==
  ASSUME NEW S, IsFiniteSet(S), NEW f, Numbers(f, S)
  PROVE  \E h \in [SUBSET S -> Int] : Adds(h, f, S) /\ SumOver(f, S) = h[S]
<1>1. PICK h0 \in [SUBSET S -> Int] : Adds(h0, f, S)
  BY SumExists
<1> DEFINE Is(e) == e = [s \in SUBSET S |-> IF s = {} THEN 0 ELSE
                          f[CHOOSE x \in s : TRUE] + e[s \ {CHOOSE x \in s : TRUE}]]
           g == CHOOSE e : Is(e)
<1>2. Is(g)
  <2>1. Is(h0)
    BY <1>1 DEF Adds, First
  <2> HIDE DEF Is
  <2> QED
    BY <2>1
<1>3. SumOver(f, S) = g[S]
  BY DEF SumOver, MapThenSumSet, MapThenFoldSet
<1>4. PICK h : h = g
  OBVIOUS
<1>5. Adds(h, f, S) /\ SumOver(f, S) = h[S]
  BY <1>2, <1>3, <1>4 DEF Adds, First
<1>6. \A s \in SUBSET S : h[s] = IF s = {} THEN 0 ELSE f[First(s)] + h[s \ {First(s)}]
  BY <1>5 DEF Adds
<1> DEFINE good == {s \in SUBSET S : h[s] \in Int}
<1>7. ASSUME NEW s \in SUBSET S, \A x \in s : s \ {x} \in good PROVE s \in good
  <2>1. s # {} => First(s) \in s
    BY Smaller
  <2>2. CASE s = {}
    BY <1>6, <2>2
  <2>3. CASE s # {}
    <3>1. PICK p, q : p = f[First(s)] /\ q = h[s \ {First(s)}]
      OBVIOUS
    <3>2. p \in Int /\ q \in Int
      BY <1>7, <2>1, <2>3, <3>1 DEF Numbers
    <3>3. h[s] = p + q
      BY <1>6, <2>3, <3>1
    <3>4. p + q \in Int
      BY <3>2
    <3> QED
      BY <3>3, <3>4
  <2> QED
    BY <2>2, <2>3
<1>8. good = SUBSET S
  <2>1. good \in SUBSET SUBSET S
    OBVIOUS
  <2> HIDE DEF good
  <2> QED
    BY <1>7, <2>1, AllParts
<1>9. h \in [SUBSET S -> Int]
  <2>1. \A s \in SUBSET S : h[s] \in Int
    BY <1>8
  <2>2. h = [s \in SUBSET S |-> h[s]]
    BY <1>5 DEF Adds
  <2> QED
    BY <2>1, <2>2
<1> QED
  BY <1>5, <1>9

TakesOut(h, f, S, x) == h[S] = f[x] + h[S \ {x}]

\* A sum does not depend on the order in which it is taken.
LEMMA AnyOrder ==
  ASSUME NEW S, IsFiniteSet(S), NEW f, Numbers(f, S),
         NEW h \in [SUBSET S -> Int], Adds(h, f, S), NEW x \in S
  PROVE  TakesOut(h, f, S, x)
<1> DEFINE good == {s \in SUBSET S : \A y \in s : h[s] = f[y] + h[s \ {y}]}
<1>1. \A s \in SUBSET S : h[s] = IF s = {} THEN 0 ELSE f[First(s)] + h[s \ {First(s)}]
  BY DEF Adds
<1>2. ASSUME NEW s \in SUBSET S, \A y \in s : s \ {y} \in good PROVE s \in good
  <2> SUFFICES ASSUME NEW y \in s PROVE h[s] = f[y] + h[s \ {y}]
    OBVIOUS
  <2>1. PICK z \in s : z = First(s)
    BY Smaller
  <2>2. h[s] = f[z] + h[s \ {z}]
    BY <1>1, <2>1
  <2>3. CASE y = z
    BY <2>2, <2>3
  <2>4. CASE y # z
    <3>1. h[s \ {z}] = f[y] + h[(s \ {z}) \ {y}]
      BY <1>2, <2>4
    <3>2. h[s \ {y}] = f[z] + h[(s \ {y}) \ {z}]
      BY <1>2, <2>4
    <3>3. (s \ {y}) \ {z} = (s \ {z}) \ {y} /\ (s \ {z}) \ {y} \in SUBSET S
      OBVIOUS
    <3>4. f[y] \in Int /\ f[z] \in Int /\ h[(s \ {z}) \ {y}] \in Int
      BY <3>3 DEF Numbers
    <3>5. PICK p, q, r : p = f[y] /\ q = f[z] /\ r = h[(s \ {z}) \ {y}]
      OBVIOUS
    <3>6. h[s] = q + (p + r) /\ h[s \ {y}] = q + r /\ p \in Int /\ q \in Int /\ r \in Int
      BY <2>2, <3>1, <3>2, <3>3, <3>4, <3>5
    <3>7. q + (p + r) = p + (q + r)
      BY <3>6
    <3> QED
      BY <3>5, <3>6, <3>7
  <2> QED
    BY <2>3, <2>4
<1>3. good = SUBSET S
  <2>1. good \in SUBSET SUBSET S
    OBVIOUS
  <2> HIDE DEF good
  <2> QED
    BY <1>2, <2>1, AllParts
<1>4. S \in good
  BY <1>3
<1> QED
  BY <1>4 DEF TakesOut

LEMMA SameSums ==
  ASSUME NEW S, IsFiniteSet(S), NEW T, S \in SUBSET T, NEW f, NEW g, Agree(f, g, S),
         NEW h, Adds(h, f, S), NEW k, Adds(k, g, T)
  PROVE  h[S] = k[S]
<1> DEFINE good == {s \in SUBSET S : h[s] = k[s]}
<1>1. \A s \in SUBSET S : h[s] = IF s = {} THEN 0 ELSE f[First(s)] + h[s \ {First(s)}]
  BY DEF Adds
<1>2. \A s \in SUBSET S : k[s] = IF s = {} THEN 0 ELSE g[First(s)] + k[s \ {First(s)}]
  <2>1. \A s \in SUBSET T : k[s] = IF s = {} THEN 0 ELSE g[First(s)] + k[s \ {First(s)}]
    BY DEF Adds
  <2>2. SUBSET S \in SUBSET SUBSET T
    OBVIOUS
  <2> QED
    BY <2>1, <2>2
<1>3. ASSUME NEW s \in SUBSET S, \A x \in s : s \ {x} \in good PROVE s \in good
  <2>1. s # {} => First(s) \in s
    BY Smaller
  <2>2. s # {} => f[First(s)] = g[First(s)] /\ h[s \ {First(s)}] = k[s \ {First(s)}]
    BY <1>3, <2>1 DEF Agree
  <2> QED
    BY <1>1, <1>2, <2>2
<1>4. good = SUBSET S
  <2>1. good \in SUBSET SUBSET S
    OBVIOUS
  <2> HIDE DEF good
  <2> QED
    BY <1>3, <2>1, AllParts
<1> QED
  BY <1>4

LEMMA SumStays ==
  ASSUME NEW S, IsFiniteSet(S), NEW f, NEW g, Numbers(f, S), Agree(f, g, S)
  PROVE  SumOver(g, S) = SumOver(f, S) /\ SumOver(f, S) \in Int
<1>1. Numbers(g, S)
  BY DEF Numbers, Agree
<1>2. PICK h \in [SUBSET S -> Int] : Adds(h, f, S) /\ SumOver(f, S) = h[S]
  BY SumOf
<1>3. PICK k \in [SUBSET S -> Int] : Adds(k, g, S) /\ SumOver(g, S) = k[S]
  BY <1>1, SumOf
<1>4. S \in SUBSET S
  OBVIOUS
<1>5. h[S] = k[S]
  BY <1>2, <1>3, <1>4, SameSums
<1> QED
  BY <1>2, <1>3, <1>5

LEMMA SumGrows ==
  ASSUME NEW S, IsFiniteSet(S), NEW f, NEW g, Numbers(f, S), Agree(f, g, S),
         NEW x, x \notin S, g[x] \in Int
  PROVE  SumOver(g, S \cup {x}) = SumOver(f, S) + g[x]
<1>0. PICK T : T = S \cup {x}
  OBVIOUS
<1>1. IsFiniteSet(T)
  BY <1>0, FS_AddElement
<1>2. Numbers(g, T) /\ x \in T /\ S \in SUBSET T /\ T \ {x} = S
  BY <1>0 DEF Numbers, Agree
<1>3. PICK h \in [SUBSET S -> Int] : Adds(h, f, S) /\ SumOver(f, S) = h[S]
  BY SumOf
<1>4. PICK k \in [SUBSET T -> Int] : Adds(k, g, T) /\ SumOver(g, T) = k[T]
  BY <1>1, <1>2, SumOf
<1>5. k[T] = g[x] + k[T \ {x}]
  <2>1. Numbers(g, T) /\ x \in T /\ Adds(k, g, T)
    BY <1>2, <1>4
  <2> QED
    <3>1. TakesOut(k, g, T, x)
      BY <1>1, <2>1, AnyOrder
    <3> QED
      BY <3>1 DEF TakesOut
<1>6. h[S] = k[S] /\ h[S] \in Int
  <2>1. h[S] = k[S]
    BY <1>2, <1>3, <1>4, SameSums
  <2> QED
    BY <1>3, <2>1
<1>7. PICK a, b : a = h[S] /\ b = g[x]
  OBVIOUS
<1>8. k[T] = b + a /\ a \in Int /\ b \in Int
  BY <1>2, <1>5, <1>6, <1>7
<1>9. b + a = a + b
  BY <1>8
<1> QED
  BY <1>0, <1>3, <1>4, <1>7, <1>8, <1>9

LEMMA SumOfNothing ==
  ASSUME NEW f PROVE SumOver(f, {}) = 0
<1>1. IsFiniteSet({}) /\ Numbers(f, {})
  BY FS_EmptySet DEF Numbers
<1>2. PICK S : S = {}
  OBVIOUS
<1>3. PICK h \in [SUBSET S -> Int] : Adds(h, f, S) /\ SumOver(f, S) = h[S]
  BY <1>1, <1>2, SumOf
<1>4. h[S] = 0
  BY <1>2, <1>3 DEF Adds
<1> QED
  BY <1>2, <1>3, <1>4
-----------------------------------------------------------------------------
(* The ratings and the history.                                            *)

DeltasOf(h) == [at \in UNION {{g} \X DOMAIN h[g] : g \in Games} |->
                  h[at[1]][at[2]].new - h[at[1]][at[2]].old]

\* What the row says of u is what the lines about u add up to.
Worth(row, h, tb, u, m) ==
  RatingOrDefault(row) = DefaultRating + SumOver(DeltasOf(h), Lines(h, tb, u, m))

LEMMA LineDelta ==
  ASSUME NEW h \in [Games -> Seq(Line)], NEW g \in Games, NEW k \in DOMAIN h[g],
         NEW at, at = <<g, k>>
  PROVE  DeltasOf(h)[at] = h[g][k].new - h[g][k].old /\ DeltasOf(h)[at] \in Int
<1>1. at \in UNION {{x} \X DOMAIN h[x] : x \in Games} /\ at[1] = g /\ at[2] = k
  OBVIOUS
<1>2. DeltasOf(h)[at] = h[g][k].new - h[g][k].old
  BY <1>1 DEF DeltasOf
<1>3. h[g] \in Seq(Line)
  OBVIOUS
<1>4. h[g][k] \in Line
  BY <1>3
<1> QED
  BY <1>2, <1>4 DEF Line

LEMMA LineDeltas ==
  ASSUME NEW h \in [Games -> Seq(Line)], NEW tb, NEW u, NEW m
  PROVE  Numbers(DeltasOf(h), Lines(h, tb, u, m))
<1> SUFFICES ASSUME NEW at \in Lines(h, tb, u, m) PROVE DeltasOf(h)[at] \in Int
  BY DEF Numbers
<1>1. PICK g \in Games : \E k \in DOMAIN h[g] : at = <<g, k>>
  BY InLines
<1> QED
  BY <1>1, LineDelta

LEMMA OldDeltas ==
  ASSUME NEW h \in [Games -> Seq(Line)], NEW tb, NEW g \in Games, h[g] = << >>,
         NEW ups \in Seq(Line), NEW h2, h2 = [h EXCEPT ![g] = ups], NEW u, NEW m
  PROVE  Agree(DeltasOf(h), DeltasOf(h2), Lines(h, tb, u, m))
<1> SUFFICES ASSUME NEW at \in Lines(h, tb, u, m) PROVE DeltasOf(h)[at] = DeltasOf(h2)[at]
  BY DEF Agree
<1>1. PICK x \in Games : \E k \in DOMAIN h[x] : at = <<x, k>>
  BY InLines
<1>0. PICK k \in DOMAIN h[x] : at = <<x, k>>
  BY <1>1
<1>2. \A f \in [Games -> Seq(Line)] :
         f[x] = h[x] => DeltasOf(f)[at] = h[x][k].new - h[x][k].old
  <2> SUFFICES ASSUME NEW f \in [Games -> Seq(Line)], f[x] = h[x]
               PROVE  DeltasOf(f)[at] = h[x][k].new - h[x][k].old
    OBVIOUS
  <2>1. k \in DOMAIN f[x]
    BY <1>0
  <2>2. DeltasOf(f)[at] = f[x][k].new - f[x][k].old
    BY <1>0, <2>1, LineDelta
  <2> QED
    BY <2>2
<1>3. h2[x] = h[x]
  BY <1>1
<1>4. h2 \in [Games -> Seq(Line)]
  OBVIOUS
<1> QED
  BY <1>2, <1>3, <1>4

LEMMA CreditedWorth ==
  ASSUME NEW row, row \in Rows, NEW h, h \in [Games -> Seq(Line)], NEW tb, NEW g \in Games,
         h[g] = << >>, NEW ups \in Seq(Line), NEW u, NEW m, ModeOf(tb[g]) = m,
         NEW k \in DOMAIN ups, ups[k].user = u,
         \A j \in DOMAIN ups : ups[j].user = u => j = k,
         Counted(row, h, tb, u, m), Worth(row, h, tb, u, m),
         ups[k].old = RatingOrDefault(row)
  PROVE  Worth(Credited(row, ups[k]), [h EXCEPT ![g] = ups], tb, u, m)
<1>1. PICK here : here = <<g, k>>
  OBVIOUS
<1>2. PICK h2 : h2 = [h EXCEPT ![g] = ups]
  OBVIOUS
<1>3. PICK L : L = Lines(h, tb, u, m)
  OBVIOUS
<1>4. OneLineMore(h2, h, tb, u, m, here, ups[k].result)
  BY <1>1, <1>2, LinesGrow
<1>5. Lines(h2, tb, u, m) = L \cup {here} /\ here \notin L
  BY <1>3, <1>4 DEF OneLineMore
<1>6. IsFiniteSet(L) /\ Numbers(DeltasOf(h), L)
  BY <1>3, LineDeltas DEF Counted
<1>7. Agree(DeltasOf(h), DeltasOf(h2), L)
  BY <1>2, <1>3, OldDeltas
<1>8. DeltasOf(h2)[here] = ups[k].new - ups[k].old /\ DeltasOf(h2)[here] \in Int
  <2>1. h2 \in [Games -> Seq(Line)] /\ h2[g] = ups
    BY <1>2
  <2> QED
    BY <1>1, <2>1, LineDelta
<1>9. PICK f, f2 : f = DeltasOf(h) /\ f2 = DeltasOf(h2)
  OBVIOUS
<1>10. SumOver(f2, L \cup {here}) = SumOver(f, L) + f2[here]
  BY <1>5, <1>6, <1>7, <1>8, <1>9, SumGrows
<1>11. SumOver(f, L) \in Int
  BY <1>6, <1>7, <1>9, SumStays
<1>12. ups[k].old = DefaultRating + SumOver(f, L)
  BY <1>3, <1>9 DEF Worth
<1>13. RatingOrDefault(Credited(row, ups[k])) = ups[k].new /\ ups[k].new \in Int
  <2>1. row.games + 1 # 0
    BY DEF Rows
  <2>2. ups[k] \in Line
    OBVIOUS
  <2> QED
    BY <2>1, <2>2 DEF RatingOrDefault, Credited, Line
<1>14. ups[k].new = DefaultRating + (SumOver(f, L) + f2[here])
  <2>1. PICK new, old, s, d : /\ new = ups[k].new /\ old = ups[k].old
                              /\ s = SumOver(f, L) /\ d = f2[here]
    OBVIOUS
  <2>2. old = DefaultRating + s
    BY <1>12, <2>1
  <2>3. s \in Int /\ new \in Int
    BY <1>11, <1>13, <2>1
  <2>4. d = new - old
    BY <1>8, <1>9, <2>1
  <2>5. new = DefaultRating + (s + d)
    BY <2>2, <2>3, <2>4 DEF DefaultRating
  <2> QED
    BY <2>1, <2>5
<1> QED
  BY <1>2, <1>5, <1>9, <1>10, <1>13, <1>14 DEF Worth

LEMMA OthersWorth ==
  ASSUME NEW row, NEW h, h \in [Games -> Seq(Line)], NEW tb, NEW g \in Games,
         h[g] = << >>, NEW ups \in Seq(Line), NEW u, NEW m,
         (\A k \in DOMAIN ups : ups[k].user # u) \/ ModeOf(tb[g]) # m,
         Counted(row, h, tb, u, m), Worth(row, h, tb, u, m)
  PROVE  Worth(row, [h EXCEPT ![g] = ups], tb, u, m)
<1>1. PICK h2 : h2 = [h EXCEPT ![g] = ups]
  OBVIOUS
<1>2. PICK L : L = Lines(h, tb, u, m)
  OBVIOUS
<1>3. SameLines(h2, h, tb, u, m)
  BY <1>1, LinesGrow
<1>4. Lines(h2, tb, u, m) = L
  BY <1>2, <1>3 DEF SameLines
<1>5. IsFiniteSet(L) /\ Numbers(DeltasOf(h), L)
  BY <1>2, LineDeltas DEF Counted
<1>6. Agree(DeltasOf(h), DeltasOf(h2), L)
  BY <1>1, <1>2, OldDeltas
<1>7. SumOver(DeltasOf(h2), L) = SumOver(DeltasOf(h), L)
  BY <1>5, <1>6, SumStays
<1> QED
  BY <1>1, <1>2, <1>4, <1>7, Zenon DEF Worth

\* X are the users, with a mode, that have been rated for two games at once.
Strangers(s, t, X) == \A j \in DOMAIN s, k \in DOMAIN t :
                         s[j] = t[k] /\ s[j] \in Players /\ ModeOf(s) = ModeOf(t)
                           => <<s[j], ModeOf(s)>> \in X
Fresh(old, rows, t, X) == \A k \in DOMAIN old : <<t[k], ModeOf(t)>> \notin X
                                                => old[k] = RatingOrDefault(rows[t[k]])

\* Games of a mode that are being rated have only such users in common, and
\* what has been read about any other is still so, as long as the game has no
\* mark.
JobsApart ==
  \A a, b \in jobs : a.game # b.game => Strangers(table[a.game], table[b.game], met)
ReadsAreFresh ==
  \A job \in jobs : ~ rated[job.game]
                      => Fresh(job.old, ratings[ModeOf(table[job.game])], table[job.game], met)
AllWorth == \A u \in Players, m \in Modes :
              <<u, m>> \notin met => Worth(ratings[m][u], history, table, u, m)

HistoryInv == JobsApart /\ ReadsAreFresh /\ AllWorth

LEMMA HistoryStarts == ASSUME Init PROVE HistoryInv
<1> USE DEF Init, RatingsInit
<1>1. jobs = {}
  OBVIOUS
<1>2. JobsApart /\ ReadsAreFresh
  BY <1>1 DEF JobsApart, ReadsAreFresh
<1>3. ASSUME NEW u \in Players, NEW m \in Modes PROVE Worth(ratings[m][u], history, table, u, m)
  <2>1. PICK h, tb, row : h = history /\ tb = table /\ row = ratings[m][u]
    OBVIOUS
  <2>2. \A at : at \notin Lines(h, tb, u, m)
    BY <2>1, InLines
  <2>3. Lines(h, tb, u, m) = {}
    BY <2>2
  <2>4. SumOver(DeltasOf(h), {}) = 0
    BY SumOfNothing
  <2>5. RatingOrDefault(row) = DefaultRating
    BY <2>1 DEF RatingOrDefault, NoRow
  <2>6. DefaultRating = DefaultRating + 0
    BY DEF DefaultRating
  <2>7. Worth(row, h, tb, u, m)
    BY <2>3, <2>4, <2>5, <2>6 DEF Worth
  <2> QED
    BY <2>1, <2>7
<1> QED
  BY <1>2, <1>3 DEF HistoryInv, AllWorth

LEMMA WorthKeeps ==
  ASSUME NEW row, NEW h, NEW tb, NEW tb2, NEW u, NEW m,
         \A x \in Games : DOMAIN h[x] # {} => tb2[x] = tb[x],
         Worth(row, h, tb, u, m)
  PROVE  Worth(row, h, tb2, u, m)
<1>1. Lines(h, tb2, u, m) = Lines(h, tb, u, m)
  BY TablesOfLines
<1> QED
  BY <1>1 DEF Worth

\* Games with a goroutine are at a table that stays.
LEMMA SaveKeepsHistory ==
  ASSUME RatedInv, HistoryInv, NEW g \in Games, SaveNewGame(g)
  PROVE  HistoryInv'
<1>1. /\ table' = [table EXCEPT ![g] = FollowUp] /\ status[g] = "none"
      /\ UNCHANGED <<rated, ratings, history, jobs, met>>
  BY DEF SaveNewGame
<1>2. history[g] = << >> /\ \A job \in jobs : job.game # g
  BY <1>1, Begun
<1>3. \A x \in Games : x # g => table'[x] = table[x]
  BY <1>1 DEF RatedInv, GamesTyped
<1>4. \A job \in jobs : table'[job.game] = table[job.game]
  <2>1. \A job \in jobs : job.game \in Games
    BY DEF RatedInv, GamesTyped, Job
  <2> QED
    BY <1>2, <1>3, <2>1
<1>5. JobsApart'
  BY <1>1, <1>4 DEF HistoryInv, JobsApart
<1>6. ReadsAreFresh'
  BY <1>1, <1>4 DEF HistoryInv, ReadsAreFresh
<1>7. AllWorth'
  <2> SUFFICES ASSUME NEW u \in Players, NEW m \in Modes, <<u, m>> \notin met
               PROVE  Worth(ratings[m][u], history, table', u, m)
    BY <1>1 DEF AllWorth
  <2>1. PICK row, h, tb, tb2 : /\ h = history /\ tb = table /\ tb2 = table'
                               /\ row = ratings[m][u]
    OBVIOUS
  <2>2. \A x \in Games : DOMAIN h[x] # {} => tb2[x] = tb[x]
    BY <1>2, <1>3, <2>1
  <2>3. Worth(row, h, tb, u, m)
    BY <2>1 DEF HistoryInv, AllWorth
  <2>4. Worth(row, h, tb2, u, m)
    BY <2>2, <2>3, WorthKeeps
  <2> QED
    BY <2>1, <2>4
<1> QED
  BY <1>5, <1>6, <1>7 DEF HistoryInv

\* The players of a game that is ended while another of their games of that
\* mode is being rated have met.
LEMMA EndKeepsHistory ==
  ASSUME RatedInv, HistoryInv, NEW g \in Games, NEW won \in 0 .. Len(table[g]),
         Finish(g, won) \/ ZombieFinish(g, won)
  PROVE  HistoryInv'
<1>1. UNCHANGED <<table, rated, ratings, history>>
  BY DEF Finish, ZombieFinish
<1>2. PICK w : StartRating(g, w, won)
  BY DEF Finish, ZombieFinish
<1>3. \A job \in jobs' : job \in jobs \/ (job.game = g /\ job.old = << >> /\ jobs' # jobs)
  BY <1>2, StartGives
<1>4. met \subseteq met' /\ (jobs' # jobs => met' = met \cup RatedElsewhere(g))
  BY <1>2, StartGives
<1>5. JobsApart'
  <2> SUFFICES ASSUME NEW a \in jobs', NEW b \in jobs', a.game # b.game
               PROVE  Strangers(table[a.game], table[b.game], met')
    BY <1>1 DEF JobsApart
  <2>1. CASE a \in jobs /\ b \in jobs
    BY <1>4, <2>1 DEF HistoryInv, JobsApart, Strangers
  <2>2. ASSUME NEW x \in jobs, x.game # g, jobs' # jobs
        PROVE  /\ Strangers(table[g], table[x.game], met')
               /\ Strangers(table[x.game], table[g], met')
    <3>1. ASSUME NEW u \in Players, Plays(u, g), Plays(u, x.game), Mode(g) = Mode(x.game)
          PROVE  <<u, Mode(g)>> \in met'
      <4>1. Mode(g) \in Modes
        BY DEF Mode, Modes
      <4>0. PICK m : m = Mode(g)
        OBVIOUS
      <4>2. PICK um : um = <<u, Mode(g)>> /\ um \in Players \X Modes
        <5>1. <<u, m>> \in Players \X Modes
          BY <4>0, <4>1
        <5> QED
          BY <4>0, <5>1
      <4>3. um[1] = u /\ um[2] = Mode(g)
        BY <4>2
      <4>4. um \in RatedElsewhere(g)
        BY <2>2, <3>1, <4>2, <4>3, Zenon DEF RatedElsewhere
      <4> QED
        BY <1>4, <2>2, <4>2, <4>4
    <3>2. /\ Mode(g) = ModeOf(table[g]) /\ Mode(x.game) = ModeOf(table[x.game])
          /\ \A k \in DOMAIN table[g] : Plays(table[g][k], g)
          /\ \A k \in DOMAIN table[x.game] : Plays(table[x.game][k], x.game)
      BY DEF Mode, ModeOf, Plays
    <3> QED
      BY <3>1, <3>2 DEF Strangers
  <2> QED
    BY <1>3, <2>1, <2>2
<1>6. ReadsAreFresh'
  <2> SUFFICES ASSUME NEW job \in jobs', ~ rated[job.game]
               PROVE  Fresh(job.old, ratings[ModeOf(table[job.game])], table[job.game], met')
    BY <1>1 DEF ReadsAreFresh
  <2>1. CASE job \in jobs
    BY <1>4, <2>1 DEF HistoryInv, ReadsAreFresh, Fresh
  <2>2. CASE job.old = << >>
    BY <2>2 DEF Fresh
  <2> QED
    BY <1>3, <2>1, <2>2
<1>7. AllWorth'
  BY <1>1, <1>4 DEF HistoryInv, AllWorth
<1> QED
  BY <1>5, <1>6, <1>7 DEF HistoryInv

\* The goroutine job, with the next rating read.
ReadsOn(x, job) ==
  /\ x.game = job.game
  /\ x.old = Append(job.old,
        RatingOrDefault(ratings[Mode(job.game)][table[job.game][Len(job.old) + 1]]))

\* A goroutine reads on, or ends without having written.
LEMMA ReadKeepsHistory ==
  ASSUME RatedInv, HistoryInv, NEW job \in jobs,
         UNCHANGED <<table, rated, ratings, history, met>>,
         \A x \in jobs' : x \in jobs \/ ReadsOn(x, job)
  PROVE  HistoryInv'
<1>1. \A x \in jobs' : \E y \in jobs : x.game = y.game
  BY DEF ReadsOn
<1>2. JobsApart'
  <2> SUFFICES ASSUME NEW a \in jobs', NEW b \in jobs', a.game # b.game
               PROVE  Strangers(table[a.game], table[b.game], met)
    BY DEF JobsApart
  <2>1. PICK x \in jobs : a.game = x.game
    BY <1>1
  <2>2. PICK y \in jobs : b.game = y.game
    BY <1>1
  <2> QED
    BY <2>1, <2>2 DEF HistoryInv, JobsApart
<1>3. ReadsAreFresh'
  <2> SUFFICES ASSUME NEW x \in jobs', ~ rated[x.game]
               PROVE  Fresh(x.old, ratings[ModeOf(table[x.game])], table[x.game], met)
    BY DEF ReadsAreFresh
  <2>1. CASE x \in jobs
    BY <2>1 DEF HistoryInv, ReadsAreFresh
  <2>2. CASE x \notin jobs
    <3>1. PICK old, rows, t : /\ old = job.old /\ rows = ratings[Mode(job.game)]
                              /\ t = table[job.game]
      OBVIOUS
    <3>2. x.game = job.game /\ x.old = Append(old, RatingOrDefault(rows[t[Len(old) + 1]]))
      BY <2>2, <3>1 DEF ReadsOn
    <3>3. old \in Seq(Int)
      BY <3>1 DEF RatedInv, GamesTyped, Job
    <3>4. rows = ratings[ModeOf(t)]
      BY <3>1 DEF Mode, ModeOf
    <3>5. Fresh(old, rows, t, met)
      BY <3>1, <3>2, <3>4 DEF HistoryInv, ReadsAreFresh
    <3>6. PICK r : r = RatingOrDefault(rows[t[Len(old) + 1]])
      OBVIOUS
    <3>7. PICK new : new = Append(old, r)
      OBVIOUS
    <3>8. /\ DOMAIN new = 1 .. Len(old) + 1 /\ new[Len(old) + 1] = r
          /\ DOMAIN old = 1 .. Len(old) /\ Len(old) \in Nat
          /\ \A k \in 1 .. Len(old) : new[k] = old[k]
      BY <3>3, <3>7
    <3>9. Fresh(new, rows, t, met)
      <4> SUFFICES ASSUME NEW k \in DOMAIN new, <<t[k], ModeOf(t)>> \notin met
                   PROVE  new[k] = RatingOrDefault(rows[t[k]])
        BY DEF Fresh
      <4>1. CASE k = Len(old) + 1
        BY <3>6, <3>8, <4>1
      <4>2. CASE k \in DOMAIN old
        BY <3>5, <3>8, <4>2 DEF Fresh
      <4> QED
        BY <3>8, <4>1, <4>2
    <3> QED
      BY <3>1, <3>2, <3>4, <3>6, <3>7, <3>9
  <2> QED
    BY <2>1, <2>2
<1>4. AllWorth'
  BY DEF HistoryInv, AllWorth
<1> QED
  BY <1>2, <1>3, <1>4 DEF HistoryInv

LEMMA ApplyKeepsHistory ==
  ASSUME RatedInv, HistoryInv, NEW job \in jobs, ~ rated[job.game],
         Len(job.old) = Len(table[job.game]), jobs' = jobs \ {job}, UNCHANGED <<table, met>>,
         rated' = [rated EXCEPT ![job.game] = TRUE],
         ratings' = [ratings EXCEPT ![Mode(job.game)] = AllCredited(@, Updates(job))],
         history' = [history EXCEPT ![job.game] = Updates(job)]
  PROVE  HistoryInv'
<1>1. PICK g : g = job.game
  OBVIOUS
<1>2. PICK t, ups, m : t = table[g] /\ ups = Updates(job) /\ m = ModeOf(t)
  OBVIOUS
<1>3. /\ g \in Games /\ m \in Modes /\ Mode(g) = m /\ history[g] = << >> /\ ups \in Seq(Line)
      /\ DOMAIN ups = DOMAIN t /\ DOMAIN ups = DOMAIN job.old
      /\ \A k \in DOMAIN ups : ups[k].user = t[k] /\ ups[k].old = job.old[k]
      /\ \A j, k \in DOMAIN ups : ups[j].user = ups[k].user => j = k
  BY <1>1, <1>2, ApplyWrites
<1>4. ratings' = [ratings EXCEPT ![m] = AllCredited(ratings[m], ups)]
  BY <1>1, <1>2, <1>3
<1>5. Fresh(job.old, ratings[m], t, met)
  BY <1>1, <1>2 DEF HistoryInv, ReadsAreFresh
<1>6. \A u \in Players, k \in DOMAIN ups : ups[k].user = u =>
         AllCredited(ratings[m], ups)[u] = Credited(ratings[m][u], ups[k])
  BY <1>3, EachCredited
<1>7. \A u \in Players : (\A k \in DOMAIN ups : ups[k].user # u) =>
         AllCredited(ratings[m], ups)[u] = ratings[m][u]
  BY <1>3, EachCredited
<1>8. JobsApart'
  BY DEF HistoryInv, JobsApart
<1>9. ReadsAreFresh'
  <2> SUFFICES ASSUME NEW x \in jobs, x # job, ~ rated'[x.game]
               PROVE  Fresh(x.old, ratings'[ModeOf(table[x.game])], table[x.game], met)
    BY DEF ReadsAreFresh
  <2>1. PICK s, m2 : s = table[x.game] /\ m2 = ModeOf(s)
    OBVIOUS
  <2>2. x.game \in Games /\ x.game # g /\ ~ rated[x.game]
    BY <1>1, <1>3 DEF RatedInv, GamesTyped, Job
  <2>3. Fresh(x.old, ratings[m2], s, met)
    BY <2>1, <2>2 DEF HistoryInv, ReadsAreFresh
  <2>4. Strangers(t, s, met)
    BY <1>1, <1>2, <2>1, <2>2 DEF HistoryInv, JobsApart
  <2>5. \A k \in DOMAIN x.old : k \in DOMAIN s /\ s[k] \in Players
    <3>1. RatingDue(x.game, x.won) /\ Len(x.old) <= Len(s)
      BY <2>1 DEF RatedInv, JobsAreDue
    <3>2. x.old \in Seq(Int) /\ s \in Seq(Ids)
      BY <2>1, <2>2 DEF RatedInv, GamesTyped, Job
    <3>3. DOMAIN x.old = 1 .. Len(x.old) /\ DOMAIN s = 1 .. Len(s)
          /\ Len(x.old) \in Nat /\ Len(s) \in Nat
      BY <3>2
    <3>4. \A k \in DOMAIN x.old : k \in DOMAIN s
      BY <3>1, <3>3
    <3> QED
      BY <2>1, <3>1, <3>4 DEF RatingDue
  <2>6. \A u \in Players : (\A k \in DOMAIN t : t[k] # u) \/ m # m2
                              => ratings'[m2][u] = ratings[m2][u]
    <3> SUFFICES ASSUME NEW u \in Players, (\A k \in DOMAIN t : t[k] # u) \/ m # m2
                 PROVE  ratings'[m2][u] = ratings[m2][u]
      OBVIOUS
    <3>1. (\A k \in DOMAIN ups : ups[k].user # u) \/ m # m2
      BY <1>3
    <3>2. AllCredited(ratings[m], ups)[u] = ratings[m][u] \/ m # m2
      BY <1>7, <3>1
    <3>3. m2 \in Modes
      BY <2>1 DEF ModeOf, Modes
    <3>4. DOMAIN ratings = Modes
      BY DEF RatedInv, GamesTyped
    <3> QED
      BY <1>3, <1>4, <3>2, <3>3, <3>4
  <2>7. ASSUME NEW k \in DOMAIN x.old, <<s[k], m2>> \notin met
        PROVE  x.old[k] = RatingOrDefault(ratings'[m2][s[k]])
    <3>1. (\A j \in DOMAIN t : t[j] # s[k]) \/ m # m2
      BY <1>2, <2>1, <2>4, <2>5, <2>7 DEF Strangers
    <3>2. ratings'[m2][s[k]] = ratings[m2][s[k]]
      BY <2>5, <2>6, <3>1
    <3> QED
      BY <2>1, <2>3, <2>7, <3>2 DEF Fresh
  <2> QED
    BY <2>1, <2>7 DEF Fresh
<1>10. AllWorth'
  <2> SUFFICES ASSUME NEW u \in Players, NEW m2 \in Modes, <<u, m2>> \notin met
               PROVE  Worth(ratings'[m2][u], history', table, u, m2)
    BY DEF AllWorth
  <2>1. PICK h, tb, row : h = history /\ tb = table /\ row = ratings[m2][u]
    OBVIOUS
  <2>2. /\ history' = [h EXCEPT ![g] = ups] /\ h \in [Games -> Seq(Line)]
        /\ h[g] = << >> /\ row \in Rows /\ ModeOf(tb[g]) = m
    BY <1>1, <1>2, <1>3, <2>1 DEF RatedInv, GamesTyped
  <2>3. Counted(row, h, tb, u, m2) /\ Worth(row, h, tb, u, m2)
    BY <2>1 DEF RatedInv, AllCounted, HistoryInv, AllWorth
  <2>4. CASE (\A k \in DOMAIN ups : ups[k].user # u) \/ m # m2
    <3>1. ratings'[m2][u] = row
      BY <1>3, <1>4, <1>7, <2>1, <2>4 DEF RatedInv, GamesTyped
    <3>2. Worth(row, [h EXCEPT ![g] = ups], tb, u, m2)
      BY <1>3, <2>2, <2>3, <2>4, OthersWorth
    <3> QED
      BY <2>1, <2>2, <3>1, <3>2
  <2>5. ASSUME NEW k \in DOMAIN ups, ups[k].user = u, m = m2
        PROVE  Worth(ratings'[m2][u], history', table, u, m2)
    <3>1. ratings'[m2][u] = Credited(row, ups[k])
      BY <1>3, <1>4, <1>6, <2>1, <2>5 DEF RatedInv, GamesTyped
    <3>2. \A j \in DOMAIN ups : ups[j].user = u => j = k
      BY <1>3, <2>5
    <3>3. ups[k].old = RatingOrDefault(row)
      <4>1. <<t[k], ModeOf(t)>> \notin met /\ k \in DOMAIN job.old /\ t[k] = u
        BY <1>2, <1>3, <2>5
      <4>2. job.old[k] = RatingOrDefault(ratings[m][t[k]])
        BY <1>5, <4>1 DEF Fresh
      <4> QED
        BY <1>3, <2>1, <2>5, <4>1, <4>2
    <3>4. Worth(Credited(row, ups[k]), [h EXCEPT ![g] = ups], tb, u, m2)
      BY <1>3, <2>2, <2>3, <2>5, <3>2, <3>3, CreditedWorth
    <3> QED
      BY <2>1, <2>2, <3>1, <3>4
  <2> QED
    BY <2>4, <2>5
<1> QED
  BY <1>8, <1>9, <1>10 DEF HistoryInv

LEMMA HistorySteps ==
  ASSUME RatedInv, HistoryInv, [Next]_vars
  PROVE  HistoryInv'
<1>1. ASSUME NEW g \in Games, NEW won \in 0 .. Len(table[g]),
             Finish(g, won) \/ ZombieFinish(g, won)
      PROVE  HistoryInv'
  BY <1>1, EndKeepsHistory
<1>2. ASSUME NEW job \in jobs, ReadRating(job) PROVE HistoryInv'
  <2>1. UNCHANGED <<table, rated, ratings, history, met>>
    BY <1>2 DEF ReadRating
  <2>2. PICK r : r = RatingOrDefault(
                       ratings[Mode(job.game)][table[job.game][Len(job.old) + 1]])
    OBVIOUS
  <2>3. PICK next : next = [job EXCEPT !.old = Append(@, r)]
    OBVIOUS
  <2>4. jobs' = (jobs \ {job}) \cup {next}
    BY <1>2, <2>2, <2>3 DEF ReadRating
  <2>5. ReadsOn(next, job)
    <3>1. job \in Job
      BY DEF RatedInv, GamesTyped
    <3>2. next.game = job.game /\ next.old = Append(job.old, r)
      BY <2>3, <3>1 DEF Job
    <3> QED
      BY <2>2, <3>2 DEF ReadsOn
  <2>6. \A x \in jobs' : x \in jobs \/ ReadsOn(x, job)
    BY <2>4, <2>5
  <2> QED
    BY <2>1, <2>6, ReadKeepsHistory
<1>3. ASSUME NEW job \in jobs, RatingFails(job) PROVE HistoryInv'
  <2>1. UNCHANGED <<table, rated, ratings, history, met>> /\ jobs' = jobs \ {job}
    BY <1>3 DEF RatingFails, ApplyFailed
  <2>2. \A x \in jobs' : x \in jobs
    BY <2>1
  <2> QED
    BY <2>1, <2>2, ReadKeepsHistory
<1>4. ASSUME NEW job \in jobs, ApplyRatedGame(job) PROVE HistoryInv'
  <2>1. CASE rated[job.game] /\ UNCHANGED <<rated, ratings, history>>
    <3>1. UNCHANGED <<table, rated, ratings, history, met>> /\ \A x \in jobs' : x \in jobs
      BY <1>4, <2>1 DEF ApplyRatedGame
    <3> QED
      BY <3>1, ReadKeepsHistory
  <2>2. CASE ~ rated[job.game] /\ rated' = [rated EXCEPT ![job.game] = TRUE]
             /\ ratings' = [ratings EXCEPT ![Mode(job.game)] = AllCredited(@, Updates(job))]
             /\ history' = [history EXCEPT ![job.game] = Updates(job)]
    BY <1>4, <2>2, ApplyKeepsHistory DEF ApplyRatedGame
  <2> QED
    BY <1>4, <2>1, <2>2 DEF ApplyRatedGame
<1>5. CASE RatingsNext
  BY <1>1, <1>2, <1>3, <1>4, <1>5 DEF RatingsNext, Rate
<1>6. ASSUME NEW g \in Games, SaveNewGame(g) PROVE HistoryInv'
  BY <1>6, SaveKeepsHistory
<1>7. CASE UNCHANGED gameRows
  BY <1>7 DEF gameRows, HistoryInv, JobsApart, ReadsAreFresh, AllWorth
<1>8. ASSUME NEW g \in Games, Cleaned(g) PROVE HistoryInv'
  BY <1>8 DEF Cleaned, HistoryInv, JobsApart, ReadsAreFresh, AllWorth
<1> QED
  BY <1>5, <1>6, <1>7, <1>8, GameSteps

LEMMA HistoryImplies == ASSUME RatedInv, HistoryInv PROVE HistoryAddsUp
<1> SUFFICES ASSUME NEW u \in Players, NEW m \in Modes, <<u, m>> \notin met,
                    ratings[m][u].games > 0
             PROVE  ratings[m][u].rating = DefaultRating + SumOver(Deltas, Of(u, m))
  BY DEF HistoryAddsUp, AddsUp
<1>1. Of(u, m) = Lines(history, table, u, m)
  BY DEF Of, Places, Lines, Entry, Mode, ModeOf
<1>2. Deltas = DeltasOf(history)
  BY DEF Deltas, DeltasOf, Places, Entry
<1>3. Worth(ratings[m][u], history, table, u, m)
  BY DEF HistoryInv, AllWorth
<1>4. ratings[m][u].games # 0
  BY DEF RatedInv, GamesTyped, Rows
<1>5. RatingOrDefault(ratings[m][u]) = ratings[m][u].rating
  BY <1>4 DEF RatingOrDefault
<1> QED
  BY <1>1, <1>2, <1>3, <1>5, Zenon DEF Worth

\* repo.ApplyRatedGame writes the ratings and their history in one
\* transaction, from ratings that Store.applyRating read before it: the rating
\* of a player is what the history adds up to unless two of the player's games
\* of that mode were being rated at the same time, whichever processes end a
\* game, whatever fails and whatever happens to the others at the table.
THEOREM RatingsFollowHistory == Spec => []HistoryAddsUp
<1> DEFINE Inv == RatedInv /\ status[Original] # "none" /\ HistoryInv
<1>1. Init => Inv
  <2> SUFFICES ASSUME Init PROVE status[Original] # "none"
    BY RatedStarts, HistoryStarts
  <2> QED
    BY OriginalAssumption DEF Init, RatingsInit
<1>2. Inv /\ [Next]_vars => Inv'
  BY RatedSteps, HistorySteps
<1>3. Inv => HistoryAddsUp
  BY HistoryImplies
<1> QED
  BY <1>1, <1>2, <1>3, PTL DEF Spec

-----------------------------------------------------------------------------
(* The offer and the link: values.                                         *)

Stages == {"idle", "offer", "merge", "sync", "rematch", "linked", "create", "link",
           "stampOrig", "stamp", "decline", "clear"}

\* N are the numbers of the seats, H the human seats, l what may be named as
\* the rematch: the link of the row and the games that are gone.
SoundHeap(h, l, N) ==
  /\ h \in [Objs -> [loaded : BOOLEAN, offer : SUBSET N, link : {NoGame} \cup Games]]
  /\ \A o \in Objs : h[o].link \in {NoGame} \cup l

SoundCall(r, l, N, H) ==
  /\ r \in [at : Stages, pod : Pods, rec : {NoObj} \cup Objs, orig : {NoObj} \cup Objs,
            seat : H \cup {0}, merged : SUBSET N, game : {NoGame} \cup Games]
  /\ r.at \in {"offer", "merge", "sync"} => r.seat \in H
  /\ r.at = "decline" => r.seat = 0
  /\ r.at = "link" => r.game \in Games
  /\ r.at \in {"linked", "stampOrig", "stamp"} => r.game \in l \ {NoGame}
  /\ r.at = "clear" /\ r.seat # 0 => r.game \in l \ {NoGame}

SoundCalls(cl, l, N, H) ==
  /\ DOMAIN cl = Calls /\ cl = [c \in Calls |-> cl[c]]
  /\ \A c \in Calls : SoundCall(cl[c], l, N, H)

LEMMA HeapOffer ==
  ASSUME NEW h, NEW l, NEW N, SoundHeap(h, l, N), NEW o, NEW x \in SUBSET N
  PROVE  SoundHeap([h EXCEPT ![o].offer = x], l, N)
BY DEF SoundHeap

LEMMA HeapLink ==
  ASSUME NEW h, NEW l, NEW g \in Games, g \in l, NEW N, SoundHeap(h, l, N), NEW o
  PROVE  /\ SoundHeap([h EXCEPT ![o].link = g], l, N)
         /\ SoundHeap([h EXCEPT ![o].link = g, ![o].offer = {}], l, N)
<1>1. SoundHeap([h EXCEPT ![o].link = g], l, N)
  BY DEF SoundHeap
<1>2. SoundHeap([h EXCEPT ![o].link = g, ![o].offer = {}], l, N)
  BY DEF SoundHeap
<1> QED
  BY <1>1, <1>2

LEMMA HeapNew ==
  ASSUME NEW h, NEW l, NEW g \in {NoGame} \cup Games, g \in l, NEW N, SoundHeap(h, l, N),
         NEW o, NEW x \in SUBSET N
  PROVE  SoundHeap([h EXCEPT ![o] = [loaded |-> TRUE, offer |-> x, link |-> g]], l, N)
BY DEF SoundHeap

LEMMA HeapReachable ==
  ASSUME NEW h, NEW l, NEW N, SoundHeap(h, l, N)
  PROVE  SoundHeap(Reachable(h), l, N)
<1>1. Blank \in [loaded : BOOLEAN, offer : SUBSET N, link : {NoGame} \cup Games]
      /\ Blank.link = NoGame
  BY DEF Blank
<1>2. \A o \in Objs : Reachable(h)[o] = h[o] \/ Reachable(h)[o] = Blank
  BY DEF Reachable
<1>3. Reachable(h) = [o \in Objs |-> Reachable(h)[o]]
  BY DEF Reachable
<1> HIDE DEF Blank
<1> QED
  BY <1>1, <1>2, <1>3 DEF SoundHeap

\* The row is linked for the first time, or the game of its link goes.
LEMMA Linked ==
  ASSUME NEW h, NEW l, NEW N, SoundHeap(h, l, N), NEW cl, NEW H, SoundCalls(cl, l, N, H),
         NEW l2, l \ {NoGame} \subseteq l2
  PROVE  SoundHeap(h, l2, N) /\ SoundCalls(cl, l2, N, H)
BY DEF SoundHeap, SoundCalls, SoundCall

LEMMA CallSet ==
  ASSUME NEW cl, NEW l, NEW N, NEW H, SoundCalls(cl, l, N, H), NEW r, SoundCall(r, l, N, H),
         NEW c \in Calls
  PROVE  SoundCalls([cl EXCEPT ![c] = r], l, N, H)
BY DEF SoundCalls

LEMMA IdleSound ==
  ASSUME NEW l, NEW N, NEW H PROVE SoundCall(Idle, l, N, H)
BY RematchPods DEF SoundCall, Idle, Stages

LEMMA CallAt ==
  ASSUME NEW cl, NEW l, NEW N, NEW H, SoundCalls(cl, l, N, H), NEW c \in Calls,
         NEW at \in {"merge", "rematch", "clear"},
         at = "merge" => cl[c].seat \in H,
         at = "clear" /\ cl[c].seat # 0 => cl[c].game \in l \ {NoGame}
  PROVE  SoundCalls([cl EXCEPT ![c].at = at], l, N, H)
<1>1. PICK r : r = [cl[c] EXCEPT !.at = at]
  OBVIOUS
<1>2. SoundCall(r, l, N, H)
  BY <1>1 DEF SoundCalls, SoundCall, Stages
<1>3. [cl EXCEPT ![c].at = at] = [cl EXCEPT ![c] = r]
  BY <1>1 DEF SoundCalls
<1> QED
  BY <1>2, <1>3, CallSet

-----------------------------------------------------------------------------
(* The offer and the link: steps.                                          *)

Named == {link} \cup Gone

RematchInv ==
  /\ rowIndex \in [Seats -> 0 .. 6]
  /\ offer \subseteq SeatNumbers /\ link \in {NoGame} \cup Games
  /\ SoundHeap(obj, Named, SeatNumbers) /\ SoundCalls(call, Named, SeatNumbers, Humans)
  /\ cache \in [Pods -> {NoObj} \cup Objs]
  /\ news \subseteq Pods /\ clicks \in 0 .. MaxClicks
  /\ will \in [Seats -> {"yes", "no"}]

SeatsStay == /\ rowIndex' = rowIndex /\ table'[Original] = table[Original]
             /\ Seats' = Seats /\ SeatNumbers' = SeatNumbers /\ Humans' = Humans

LEMMA SeatsAreFixed ==
  ASSUME RatedInv, status[Original] # "none", [Next]_vars PROVE SeatsStay
<1>1. table'[Original] = table[Original]
  <2>1. CASE RatingsNext
    BY <2>1 DEF RatingsNext, Finish, ZombieFinish, Rate, ReadRating, ApplyRatedGame,
                RatingFails
  <2>2. ASSUME NEW g \in Games, SaveNewGame(g) PROVE table'[Original] = table[Original]
    BY <2>2, OriginalAssumption DEF SaveNewGame, RatedInv, GamesTyped
  <2>3. CASE UNCHANGED gameRows \/ \E g \in Games : Cleaned(g)
    BY <2>3 DEF gameRows, Cleaned
  <2> QED
    BY <2>1, <2>2, <2>3, GameSteps
<1>2. rowIndex' = rowIndex
  <2>1. ASSUME NEW c \in Calls,
               \/ CheckOffer(c) \/ MergeRematchAcceptance(c) \/ Sync(c) \/ GetOriginal(c)
               \/ GetLinked(c) \/ Create(c) \/ Link(c) \/ StampOriginal(c) \/ Stamp(c)
               \/ CheckDecline(c) \/ Clear(c) \/ StatementFails(c)
        PROVE  rowIndex' = rowIndex
    BY <2>1 DEF CheckOffer, MergeRematchAcceptance, Sync, GetOriginal, GetLinked, Create, Link,
                StampOriginal, Stamp, CheckDecline, Clear, StatementFails
  <2>2. ASSUME NEW c, NEW at, NEW k, Click(c, at, k) PROVE rowIndex' = rowIndex
    BY <2>2 DEF Click
  <2>3. ASSUME NEW p \in Pods, Invalidate(p) \/ Restart(p) PROVE rowIndex' = rowIndex
    BY <2>3 DEF Invalidate, Restart
  <2>4. CASE Rating \/ UNCHANGED vars
    BY <2>4 DEF Rating, vars, rematchVars
  <2>5. ASSUME NEW g, CleanStale(g) PROVE rowIndex' = rowIndex
    BY <2>5 DEF CleanStale
  <2> QED
    BY <2>1, <2>2, <2>3, <2>4, <2>5 DEF Next
<1> QED
  BY <1>1, <1>2 DEF SeatsStay, Seats, SeatNumbers, Humans

LEMMA GetSound ==
  ASSUME RematchInv, NEW p \in Pods, NEW o \in Objs, Get(p, o)
  PROVE  /\ SoundHeap(obj', Named, SeatNumbers)
         /\ cache' \in [Pods -> {NoObj} \cup Objs]
<1>1. CASE UNCHANGED <<obj, cache>>
  BY <1>1 DEF RematchInv
<1>2. CASE /\ obj' = [obj EXCEPT ![o] = [loaded |-> TRUE, offer |-> offer, link |-> link]]
           /\ cache' = [cache EXCEPT ![p] = o]
  <2>1. SoundHeap(obj', Named, SeatNumbers)
    BY <1>2, HeapNew DEF RematchInv, Named
  <2> QED
    BY <1>2, <2>1 DEF RematchInv
<1> QED
  BY <1>1, <1>2 DEF Get

\* Seat numbers: a seat is filed under a number of the table.
LEMMA MergedSeats ==
  ASSUME RematchInv, NEW c \in Calls, call[c].seat \in Humans
  PROVE  Merged(c) \subseteq SeatNumbers
<1>1. BotSeats \subseteq SeatNumbers
  BY DEF BotSeats, SeatNumbers
<1>2. Index(call[c].rec, call[c].seat) \in SeatNumbers
  BY DEF Index, SeatNumbers, Humans
<1> QED
  BY <1>1, <1>2 DEF Merged, RematchInv

RestTyped == /\ offer \subseteq SeatNumbers /\ link \in {NoGame} \cup Games
             /\ cache \in [Pods -> {NoObj} \cup Objs]
             /\ news \subseteq Pods /\ clicks \in 0 .. MaxClicks
             /\ will \in [Seats -> {"yes", "no"}]

\* A game that was gone stays so, and the one the row named is still named by
\* it or gone.
LEMMA NamesStay ==
  ASSUME RatedInv, status[Original] # "none", RematchInv, [Next]_vars
  PROVE  (Named \cup {link'}) \ {NoGame} \subseteq Named'
<1>1. Gone \subseteq Gone'
  <2>1. CASE RatingsNext
    <3>1. ASSUME NEW g \in Games, NEW won, Finish(g, won) \/ ZombieFinish(g, won)
          PROVE  Gone \subseteq Gone'
      BY <3>1 DEF Finish, ZombieFinish, Gone, RatedInv, GamesTyped
    <3>2. ASSUME NEW job, Rate(job) \/ RatingFails(job) PROVE Gone \subseteq Gone'
      BY <3>2 DEF Rate, ReadRating, ApplyRatedGame, RatingFails, Gone
    <3> QED
      BY <2>1, <3>1, <3>2 DEF RatingsNext
  <2>2. ASSUME NEW g \in Games, SaveNewGame(g) PROVE Gone \subseteq Gone'
    BY <2>2 DEF SaveNewGame, Gone, RatedInv, GamesTyped
  <2>3. ASSUME NEW g \in Games, Cleaned(g) PROVE Gone \subseteq Gone'
    BY <2>3 DEF Cleaned, Gone, RatedInv, GamesTyped
  <2>4. CASE UNCHANGED gameRows
    BY <2>4 DEF gameRows, Gone
  <2> QED
    BY <2>1, <2>2, <2>3, <2>4, GameSteps
<1>2. link \in {NoGame} \cup Named'
  <2>2. ASSUME NEW c \in Calls,
               \/ CheckOffer(c) \/ MergeRematchAcceptance(c) \/ Sync(c) \/ GetOriginal(c)
               \/ GetLinked(c) \/ Create(c) \/ Link(c) \/ StampOriginal(c) \/ Stamp(c)
               \/ CheckDecline(c) \/ Clear(c) \/ StatementFails(c)
        PROVE  link' = link \/ link = NoGame
    <3>1. CASE Link(c) \/ StatementFails(c)
      BY <3>1 DEF Link, StatementFails, SetRematchLink
    <3>2. CASE ~ (Link(c) \/ StatementFails(c))
      BY <2>2, <3>2 DEF CheckOffer, MergeRematchAcceptance, Sync, GetOriginal, GetLinked,
                        Create, StampOriginal, Stamp, CheckDecline, Clear
    <3> QED
      BY <3>1, <3>2
  <2>3. ASSUME NEW c, NEW at, NEW k, Click(c, at, k) PROVE link' = link
    BY <2>3 DEF Click
  <2>4. ASSUME NEW p \in Pods, Invalidate(p) \/ Restart(p) PROVE link' = link
    BY <2>4 DEF Invalidate, Restart
  <2>5. CASE Rating \/ UNCHANGED vars
    BY <2>5 DEF Rating, vars, rematchVars, Named
  <2>6. ASSUME NEW g \in Games, CleanStale(g) PROVE link' = link \/ link \in Gone'
    BY <2>6 DEF CleanStale, Gone, RatedInv, GamesTyped
  <2> QED
    BY <2>2, <2>3, <2>4, <2>5, <2>6 DEF Next, Named
<1> QED
  BY <1>1, <1>2 DEF Named

LEMMA RematchKeeps ==
  ASSUME RatedInv, status[Original] # "none", RematchInv, SeatsStay, [Next]_vars
  PROVE  RematchInv'
<1> PICK N : N = SeatNumbers
  OBVIOUS
<1> PICK H : H = Humans
  OBVIOUS
<1> PICK L : L = Named \cup {link'}
  OBVIOUS
<1> DEFINE Heap == SoundHeap(obj', L, N)
           Sound == SoundCalls(call', L, N, H)
<1>1. /\ SoundHeap(obj, L, N) /\ SoundCalls(call, L, N, H) /\ RestTyped
      /\ 0 \notin Games /\ link \in L /\ link' \in L
  <2>1. Named \ {NoGame} \subseteq L
    OBVIOUS
  <2> QED
    BY <2>1, Linked, GamesAssumption DEF RematchInv, RestTyped, Named
<1>2. SUFFICES Heap /\ Sound /\ RestTyped'
  <2>1. L \ {NoGame} \subseteq Named'
    BY NamesStay
  <2>2. SoundHeap(obj', Named', N) /\ SoundCalls(call', Named', N, H)
    BY <2>1, Linked
  <2> QED
    BY <2>2 DEF SeatsStay, RematchInv, RestTyped
<1>3. \A c \in Calls : SoundCall(call[c], L, N, H)
  BY <1>1 DEF SoundCalls
<1>4. SoundHeap(Reachable(obj), L, N)
  BY <1>1, HeapReachable
<1>25. ASSUME NEW p \in Pods, NEW o \in Objs, Get(p, o)
       PROVE  SoundHeap(obj', L, N) /\ cache' \in [Pods -> {NoObj} \cup Objs]
  <2>1. SoundHeap(obj', Named, N) /\ cache' \in [Pods -> {NoObj} \cup Objs]
    BY <1>25, GetSound
  <2> QED
    BY <2>1 DEF SoundHeap
<1>5. ASSUME NEW c \in Calls, call' = [call EXCEPT ![c] = Idle] PROVE Sound
  BY <1>1, <1>5, CallSet, IdleSound
<1>6. CASE Rating \/ UNCHANGED vars
  BY <1>1, <1>6 DEF Rating, vars, rematchVars, RestTyped, SeatsStay
<1>7. ASSUME NEW c \in Calls, NEW at \in {"offer", "decline"}, NEW k \in H \cup {0},
             IF at = "offer" THEN k \in H ELSE k = 0, Click(c, at, k)
      PROVE  Heap /\ Sound /\ RestTyped'
  <2>1. PICK p \in Pods, o \in Objs :
           /\ Get(p, o) /\ clicks < MaxClicks /\ clicks' = clicks + 1
           /\ call' = [call EXCEPT ![c] = [Idle EXCEPT !.at = at, !.pod = p, !.rec = o,
                                                       !.seat = k]]
           /\ UNCHANGED <<ratingVars, offer, link, rowIndex, news, will>>
    BY <1>7 DEF Click
  <2>2. SoundHeap(obj', L, N) /\ cache' \in [Pods -> {NoObj} \cup Objs]
    BY <1>25, <2>1
  <2>3. PICK r : r = [Idle EXCEPT !.at = at, !.pod = p, !.rec = o, !.seat = k]
    OBVIOUS
  <2>4. SoundCall(r, L, N, H)
    BY <1>7, <2>3, RematchPods DEF SoundCall, Idle, Stages
  <2>5. Sound
    BY <1>1, <2>1, <2>3, <2>4, CallSet
  <2>6. clicks' \in 0 .. MaxClicks
    BY <1>1, <2>1, RematchBounds DEF RestTyped
  <2> QED
    BY <1>1, <2>1, <2>2, <2>5, <2>6 DEF RestTyped, SeatsStay
<1>8. ASSUME NEW c \in Calls, CheckOffer(c) PROVE Heap /\ Sound /\ RestTyped'
  <2>1. call' = [call EXCEPT ![c] = Idle] \/ call' = [call EXCEPT ![c].at = "merge"]
    BY <1>8 DEF CheckOffer, Return, Goto
  <2>2. call[c].seat \in H /\ link' = link /\ Heap
    BY <1>3, <1>4, <1>8 DEF CheckOffer, SoundCall
  <2>3. Sound
    <3>1. SoundCalls([call EXCEPT ![c].at = "merge"], L, N, H)
      BY <1>1, <2>2, CallAt
    <3> QED
      BY <1>5, <2>1, <2>2, <3>1
  <2>4. news' \subseteq Pods
    BY <1>1, <1>8 DEF CheckOffer, Return, Goto, RestTyped
  <2> QED
    BY <1>1, <1>8, <2>2, <2>3, <2>4 DEF CheckOffer, RestTyped, SeatsStay
<1>9. ASSUME NEW c \in Calls, MergeRematchAcceptance(c) PROVE Heap /\ Sound /\ RestTyped'
  <2>1. call[c].seat \in H /\ UNCHANGED <<link, obj, cache, clicks, news>>
    BY <1>3, <1>9 DEF MergeRematchAcceptance, SoundCall
  <2>2. Merged(c) \in SUBSET N
    BY <2>1, MergedSeats
  <2>3. PICK r : r = [call[c] EXCEPT !.at = "sync", !.merged = Merged(c)]
    OBVIOUS
  <2>4. SoundCall(r, L, N, H)
    BY <1>3, <2>1, <2>2, <2>3 DEF SoundCall, Stages
  <2>5. call' = [call EXCEPT ![c] = r]
    BY <1>9, <2>3 DEF MergeRematchAcceptance
  <2>6. Sound
    BY <1>1, <2>1, <2>4, <2>5, CallSet
  <2>7. offer' \subseteq N /\ will' \in [Seats -> {"yes", "no"}]
    BY <1>1, <1>9, <2>2 DEF MergeRematchAcceptance, RestTyped
  <2> QED
    BY <1>1, <2>1, <2>6, <2>7 DEF RestTyped, SeatsStay
<1>10. ASSUME NEW c \in Calls, Sync(c) PROVE Heap /\ Sound /\ RestTyped'
  <2>1. call' = [call EXCEPT ![c] = Idle] \/ call' = [call EXCEPT ![c].at = "rematch"]
    BY <1>10 DEF Sync, Return, Goto
  <2>2. call[c].merged \in SUBSET N /\ link' = link
    BY <1>3, <1>10 DEF Sync, SoundCall
  <2>3. SoundHeap([obj EXCEPT ![call[c].rec].offer = call[c].merged], L, N)
    BY <1>1, <2>2, HeapOffer
  <2>4. Heap
    BY <1>10, <2>2, <2>3, HeapReachable DEF Sync
  <2>5. Sound
    <3>1. SoundCalls([call EXCEPT ![c].at = "rematch"], L, N, H)
      BY <1>1, CallAt
    <3> QED
      BY <1>5, <2>1, <2>2, <3>1
  <2>6. news' \subseteq Pods
    BY <1>1, <1>10 DEF Sync, Return, Goto, RestTyped
  <2> QED
    BY <1>1, <1>10, <2>4, <2>5, <2>6 DEF Sync, RestTyped, SeatsStay
<1>11. ASSUME NEW c \in Calls, GetOriginal(c) PROVE Heap /\ Sound /\ RestTyped'
  <2>1. PICK o \in Objs :
          /\ Get(call[c].pod, o)
          /\ call' = [call EXCEPT ![c].at = IF obj'[o].link = NoGame THEN "create"
                                            ELSE "linked",
                                  ![c].orig = o, ![c].game = obj'[o].link]
          /\ UNCHANGED <<ratingVars, offer, link, rowIndex, news, clicks, will>>
    BY <1>11 DEF GetOriginal
  <2>2. call[c].pod \in Pods
    BY <1>3 DEF SoundCall
  <2>3. SoundHeap(obj', L, N) /\ cache' \in [Pods -> {NoObj} \cup Objs]
    BY <1>25, <2>1, <2>2
  <2>4. obj'[o].link \in {NoGame} \cup L /\ obj'[o].link \in {NoGame} \cup Games
    BY <2>3 DEF SoundHeap
  <2>5. PICK r : r = [call[c] EXCEPT !.at = IF obj'[o].link = NoGame THEN "create"
                                            ELSE "linked",
                                     !.orig = o, !.game = obj'[o].link]
    OBVIOUS
  <2>6. call' = [call EXCEPT ![c] = r]
    BY <2>1, <2>5
  <2>7. SoundCall(r, L, N, H)
    BY <1>3, <2>4, <2>5 DEF SoundCall, Stages
  <2>8. Sound
    BY <1>1, <2>6, <2>7, CallSet
  <2> QED
    BY <1>1, <2>1, <2>3, <2>8 DEF RestTyped, SeatsStay
<1>23. ASSUME NEW c \in Calls, GetLinked(c) PROVE Heap /\ Sound /\ RestTyped'
  <2>1. PICK at \in {"stamp", "create"} : call' = [call EXCEPT ![c].at = at]
    BY <1>23 DEF GetLinked, Goto
  <2>2. UNCHANGED <<offer, link, rowIndex, news, obj, cache, clicks, will>>
    BY <1>23 DEF GetLinked, Goto
  <2>3. PICK r : r = [call[c] EXCEPT !.at = at]
    OBVIOUS
  <2>4. call[c].game \in L \ {NoGame}
    BY <1>3, <1>23 DEF GetLinked, SoundCall
  <2>5. SoundCall(r, L, N, H)
    BY <1>3, <2>3, <2>4 DEF SoundCall, Stages
  <2>6. call' = [call EXCEPT ![c] = r]
    BY <1>1, <2>1, <2>3 DEF SoundCalls
  <2>7. Sound
    BY <1>1, <2>5, <2>6, CallSet
  <2> QED
    BY <1>1, <2>2, <2>7 DEF RestTyped, SeatsStay
<1>12. ASSUME NEW c \in Calls, Create(c) PROVE Heap /\ Sound /\ RestTyped'
  <2>1. PICK g \in Games : call' = [call EXCEPT ![c].at = "link", ![c].game = g]
    BY <1>12 DEF Create
  <2>2. UNCHANGED <<offer, link, rowIndex, news, obj, cache, clicks, will>>
    BY <1>12 DEF Create
  <2>3. PICK r : r = [call[c] EXCEPT !.at = "link", !.game = g]
    OBVIOUS
  <2>4. SoundCall(r, L, N, H)
    BY <1>3, <2>3 DEF SoundCall, Stages
  <2>5. Sound
    <3>1. SoundCalls([call EXCEPT ![c] = r], L, N, H)
      BY <1>1, <2>4, CallSet
    <3>2. call' = [call EXCEPT ![c] = r] /\ link' = link
      BY <1>1, <2>1, <2>2, <2>3 DEF SoundCalls
    <3> QED
      BY <3>1, <3>2
  <2> QED
    BY <1>1, <2>2, <2>5 DEF RestTyped, SeatsStay
<1>13. ASSUME NEW g \in Games, link' = SetRematchLink(g)
       PROVE  link' \in Games /\ link' # NoGame
  BY <1>1, <1>13 DEF SetRematchLink, RestTyped, NoGame
<1>14. ASSUME NEW c \in Calls, Link(c) PROVE Heap /\ Sound /\ RestTyped'
  <2>1. call[c].game \in Games /\ link' = SetRematchLink(call[c].game)
    BY <1>3, <1>14 DEF Link, SoundCall
  <2>2. link' \in Games /\ link' # NoGame
    BY <1>13, <2>1
  <2>3. /\ call' = [call EXCEPT ![c].at = "stampOrig", ![c].game = link']
        /\ UNCHANGED <<offer, rowIndex, news, obj, cache, clicks, will>>
    BY <1>14 DEF Link
  <2>4. PICK g : g = link'
    OBVIOUS
  <2>5. PICK r : r = [call[c] EXCEPT !.at = "stampOrig", !.game = g]
    OBVIOUS
  <2>6. SoundCall(r, L, N, H)
    BY <1>1, <1>3, <2>2, <2>4, <2>5 DEF SoundCall, Stages
  <2>8. call' = [call EXCEPT ![c] = r]
    BY <2>3, <2>4, <2>5
  <2>7. Sound
    BY <1>1, <2>6, <2>8, CallSet
  <2> QED
    BY <1>1, <2>2, <2>3, <2>7 DEF RestTyped, SeatsStay
<1>15. ASSUME NEW c \in Calls, StampOriginal(c) PROVE Heap /\ Sound /\ RestTyped'
  <2>1. call[c].game \in L \ {NoGame} /\ call[c].game \in Games
    BY <1>3, <1>15 DEF StampOriginal, SoundCall
  <2>2. /\ call' = [call EXCEPT ![c].at = "stamp"]
        /\ obj' = [obj EXCEPT ![call[c].orig].link = call[c].game]
        /\ UNCHANGED <<offer, link, rowIndex, news, cache, clicks, will>>
    BY <1>15 DEF StampOriginal, Goto
  <2>3. PICK r : r = [call[c] EXCEPT !.at = "stamp"]
    OBVIOUS
  <2>4. SoundCall(r, L, N, H)
    BY <1>1, <1>3, <1>15, <2>1, <2>3 DEF StampOriginal, SoundCall, Stages
  <2>5. Sound
    BY <1>1, <2>2, <2>3, <2>4, CallSet
  <2>6. Heap
    BY <1>1, <2>1, <2>2, HeapLink
  <2> QED
    BY <1>1, <2>2, <2>5, <2>6 DEF RestTyped, SeatsStay
<1>16. ASSUME NEW c \in Calls, Stamp(c) PROVE Heap /\ Sound /\ RestTyped'
  <2>1. call[c].game \in L \ {NoGame} /\ call[c].game \in Games
    BY <1>3, <1>16 DEF Stamp, SoundCall
  <2>2. /\ call' = [call EXCEPT ![c].at = "clear"]
        /\ obj' = [obj EXCEPT ![call[c].rec].link = call[c].game, ![call[c].rec].offer = {}]
        /\ UNCHANGED <<offer, link, rowIndex, news, cache, clicks, will>>
    BY <1>16 DEF Stamp, Goto
  <2>3. Sound
    BY <1>1, <2>1, <2>2, CallAt
  <2>4. Heap
    <3>1. PICK g, o : g = call[c].game /\ o = call[c].rec
      OBVIOUS
    <3>2. g \in Games /\ g \in L
      BY <2>1, <3>1
    <3>4. SoundHeap([obj EXCEPT ![o].link = g, ![o].offer = {}], L, N)
      BY <1>1, <3>2, HeapLink
    <3> QED
      BY <2>2, <3>1, <3>4
  <2> QED
    BY <1>1, <2>2, <2>3, <2>4 DEF RestTyped, SeatsStay
<1>17. ASSUME NEW c \in Calls, CheckDecline(c) PROVE Heap /\ Sound /\ RestTyped'
  <2>1. call' = [call EXCEPT ![c] = Idle] \/ call' = [call EXCEPT ![c].at = "clear"]
    BY <1>17 DEF CheckDecline, Refuse, Goto
  <2>2. /\ obj' = Reachable([obj EXCEPT ![call[c].rec].offer = {}])
        /\ UNCHANGED <<offer, link, rowIndex, news, cache, clicks, will>>
    BY <1>17 DEF CheckDecline, Refuse, Goto
  <2>3. {} \in SUBSET N
    OBVIOUS
  <2>4. SoundHeap([obj EXCEPT ![call[c].rec].offer = {}], L, N)
    BY <1>1, <2>3, HeapOffer
  <2>5. Heap
    BY <2>2, <2>4, HeapReachable
  <2>6. Sound
    <3>0. call[c].seat = 0
      BY <1>3, <1>17 DEF CheckDecline, SoundCall
    <3>1. SoundCalls([call EXCEPT ![c].at = "clear"], L, N, H)
      BY <1>1, <3>0, CallAt
    <3> QED
      BY <1>5, <2>1, <2>2, <3>1
  <2> QED
    BY <1>1, <2>2, <2>5, <2>6 DEF RestTyped, SeatsStay
<1>18. ASSUME NEW c \in Calls, Clear(c) PROVE Heap /\ Sound /\ RestTyped'
  <2>1. /\ call' = [call EXCEPT ![c] = Idle] /\ offer' = {} /\ news' \subseteq news \cup Pods
        /\ will' = [k \in Seats |-> "no"] \/ will' = will
        /\ obj' = Reachable(obj)
        /\ UNCHANGED <<link, rowIndex, cache, clicks>>
    BY <1>18 DEF Clear, Return
  <2>2. Sound /\ Heap
    BY <1>4, <1>5, <2>1
  <2> QED
    BY <1>1, <2>1, <2>2 DEF RestTyped, SeatsStay
<1>19. ASSUME NEW c \in Calls, StatementFails(c) PROVE Heap /\ Sound /\ RestTyped'
  <2>1. /\ call' = [call EXCEPT ![c] = Idle] /\ news' \subseteq news \cup Pods
        /\ obj' = Reachable(obj) /\ UNCHANGED <<rowIndex, cache, clicks, will>>
    BY <1>19 DEF StatementFails, Return, Refuse
  <2>2. offer' = offer \/ (offer' = Merged(c) /\ call[c].at = "merge")
    BY <1>19 DEF StatementFails
  <2>3. offer' \subseteq N
    <3>1. call[c].at = "merge" => call[c].seat \in H
      BY <1>3 DEF SoundCall
    <3> QED
      BY <1>1, <2>2, <3>1, MergedSeats DEF RestTyped
  <2>4. link' = link \/ (call[c].at = "link" /\ link' = SetRematchLink(call[c].game))
    BY <1>19 DEF StatementFails
  <2>5. link' \in {NoGame} \cup Games
    <3>1. call[c].at = "link" => call[c].game \in Games
      BY <1>3 DEF SoundCall
    <3> QED
      BY <1>1, <1>13, <2>4, <3>1 DEF RestTyped
  <2>6. Sound /\ Heap
    BY <1>4, <1>5, <2>1
  <2> QED
    BY <1>1, <2>1, <2>3, <2>5, <2>6 DEF RestTyped, SeatsStay
<1>20. ASSUME NEW p \in Pods, Invalidate(p) \/ Restart(p) PROVE Heap /\ Sound /\ RestTyped'
  <2>1. /\ obj' = Reachable(obj) /\ cache' = [cache EXCEPT ![p] = NoObj]
        /\ news' \subseteq news /\ UNCHANGED <<offer, link, rowIndex, clicks, will>>
        /\ \/ call' = call
           \/ call' = [c \in Calls |-> IF call[c].pod = p THEN Idle ELSE call[c]]
    BY <1>20 DEF Invalidate, Restart
  <2>2. SoundCalls([c \in Calls |-> IF call[c].pod = p THEN Idle ELSE call[c]], L, N, H)
    BY <1>1, IdleSound DEF SoundCalls
  <2>3. Sound /\ Heap
    BY <1>1, <1>4, <2>1, <2>2
  <2> QED
    BY <1>1, <2>1, <2>3 DEF RestTyped, SeatsStay
<1>24. ASSUME NEW g \in Games, CleanStale(g) PROVE Heap /\ Sound /\ RestTyped'
  <2>1. UNCHANGED <<offer, rowIndex, obj, cache, call, news, clicks, will>>
    BY <1>24 DEF CleanStale
  <2>2. link' \in {NoGame} \cup Games
    BY <1>1, <1>24 DEF CleanStale, RestTyped
  <2> QED
    BY <1>1, <2>1, <2>2 DEF RestTyped, SeatsStay
<1> HIDE DEF Heap, Sound
<1>21. ASSUME NEW c \in Calls, NEW k \in Humans, Click(c, "offer", k)
       PROVE  Heap /\ Sound /\ RestTyped'
  BY <1>7, <1>21
<1>22. ASSUME NEW c \in Calls, Click(c, "decline", 0) PROVE Heap /\ Sound /\ RestTyped'
  BY <1>7, <1>22
<1> QED
  BY <1>6, <1>8, <1>9, <1>10, <1>11, <1>12, <1>14, <1>15, <1>16, <1>17, <1>18, <1>19, <1>20,
     <1>21, <1>22, <1>23, <1>24 DEF Next

AllInv == /\ RatedInv /\ status[Original] # "none" /\ mishaps \in 0 .. MaxMishaps
          /\ RematchInv

LEMMA AllStarts == ASSUME Init PROVE AllInv
<1>1. RatedInv /\ mishaps \in 0 .. MaxMishaps
  BY RatedStarts
<1>2. status[Original] # "none"
  BY OriginalAssumption DEF Init, RatingsInit
<1>3. Seating(table[Original])
  BY <1>1, <1>2, OriginalAssumption DEF RatedInv, GamesTyped
<1>4. PICK n \in 2 .. 6 : n = Len(table[Original])
  BY <1>3 DEF Seating
<1>5. Seats = 1 .. n
  BY <1>3, <1>4 DEF Seating, Seats
<1>6. rowIndex \in [Seats -> 0 .. 6]
  <2>1. PICK cut \in 2 .. 7 :
           rowIndex = [k \in DOMAIN table[Original] |-> IF k < cut THEN k - 1 ELSE k]
    BY DEF Init
  <2> QED
    BY <1>5, <2>1 DEF Seats
<1>7. SoundHeap(obj, Named, SeatNumbers)
  <2>1. obj = [o \in Objs |-> Blank] /\ link = NoGame
    BY DEF Init
  <2> QED
    BY <2>1 DEF SoundHeap, Blank
<1>8. SoundCalls(call, Named, SeatNumbers, Humans)
  <2>1. call = [c \in Calls |-> Idle]
    BY DEF Init
  <2> QED
    BY <2>1, IdleSound DEF SoundCalls
<1>9. 1 \in Objs
  <2>1. Cardinality(Pods) \in Nat /\ Cardinality(Calls) \in Nat
    BY RematchPods, RematchCalls, FS_CardinalityType
  <2>2. Cardinality(Pods) # 0
    BY RematchPods, FS_EmptySet
  <2> QED
    BY <2>1, <2>2 DEF Objs
<1>10. cache \in [Pods -> {NoObj} \cup Objs]
  BY <1>9 DEF Init
<1>11. /\ offer \subseteq SeatNumbers /\ link \in {NoGame} \cup Games
       /\ news \subseteq Pods /\ clicks \in 0 .. MaxClicks
       /\ will \in [Seats -> {"yes", "no"}]
  BY RematchBounds DEF Init, Seats
<1> QED
  BY <1>1, <1>2, <1>6, <1>7, <1>8, <1>10, <1>11 DEF AllInv, RematchInv

LEMMA AllKeep == ASSUME AllInv, [Next]_vars PROVE AllInv'
<1>1. RatedInv' /\ status'[Original] # "none"
  BY RatedSteps DEF AllInv
<1>2. RematchInv'
  BY SeatsAreFixed, RematchKeeps DEF AllInv
<1>3. mishaps' \in 0 .. MaxMishaps
  BY GameSteps, RatingBounds DEF AllInv
<1> QED
  BY <1>1, <1>2, <1>3 DEF AllInv

LEMMA AllTyped == ASSUME AllInv PROVE TypeOK
<1>1. RatingsTypeOK
  <2>1. \A g \in Games : table[g] \in Seq(Ids) /\ history[g] \in Seq(Line)
    BY DEF AllInv, RatedInv, GamesTyped
  <2>2. \A job \in jobs : job.game \in Games /\ job.won \in 0 .. 6 /\ job.old \in Seq(Int)
    BY DEF AllInv, RatedInv, GamesTyped, Job
  <2> QED
    BY <2>1, <2>2, Zenon DEF RatingsTypeOK, AllInv, RatedInv, GamesTyped, Rows, Line
<1>2. \A c \in Calls :
       /\ call[c].at \in Stages
       /\ call[c].pod \in Pods /\ {call[c].rec, call[c].orig} \subseteq {NoObj} \cup Objs
       /\ call[c].merged \subseteq SeatNumbers /\ call[c].game \in {NoGame} \cup Games
  BY DEF AllInv, RematchInv, SoundCalls, SoundCall
<1> QED
  BY <1>1, <1>2 DEF TypeOK, AllInv, RematchInv, SoundHeap, Stages

\* The rows of games and ratings, the goroutines, the records and the requests
\* are well typed: ratings are whole numbers and counts natural ones, a record
\* holds the numbers of seats of its own table.
THEOREM TypeCorrect == Spec => []TypeOK
<1>1. Init => AllInv
  BY AllStarts
<1>2. AllInv /\ [Next]_vars => AllInv'
  BY AllKeep
<1>3. AllInv => TypeOK
  BY AllTyped
<1> QED
  BY <1>1, <1>2, <1>3, PTL DEF Spec

\* Store.Rematch and repo.SetRematchLink: however many calls complete the offer
\* at the same time, on however many pods, whatever fails, restarts or is
\* cleaned away, every record and every answer that names a rematch names the
\* one of the row or one whose rows are gone.
THEOREM OneRematch == Spec => []OneFollowUp
<1>1. Init => AllInv
  BY AllStarts
<1>2. AllInv /\ [Next]_vars => AllInv'
  BY AllKeep
<1>3. AllInv => OneFollowUp
  BY DEF AllInv, RematchInv, SoundHeap, SoundCalls, SoundCall, Named, OneFollowUp
<1> QED
  BY <1>1, <1>2, <1>3, PTL DEF Spec

-----------------------------------------------------------------------------
(* Acceptances.                                                            *)

\* A call that will see to the link.
Pursues(r, H) == \/ r.at = "sync" /\ {k - 1 : k \in H} \subseteq r.merged
                 \/ r.at \in {"rematch", "create", "link"}
Agreed == Humans # {} /\ \A k \in Humans : will[k] = "yes"

AgreeInv ==
  /\ \A k \in Seats : rowIndex[k] = k - 1
  /\ mishaps = 0 /\ Gone = {} /\ link = NoGame
       => /\ \A k \in Seats : will[k] = "yes" => k - 1 \in offer
          /\ Agreed => \E c \in Calls : Pursues(call[c], Humans)

LEMMA AgreeStarts == ASSUME Init, ~ Gaps, AllInv PROVE AgreeInv
<1>1. \A k \in Seats : will[k] = "no"
  BY DEF Init, Seats
<1>2. ~ Agreed
  BY <1>1 DEF Agreed, Humans
<1>3. PICK n \in 2 .. 6 : n = Len(table[Original])
  BY OriginalAssumption DEF AllInv, RatedInv, GamesTyped, Seating
<1>4. Seats = 1 .. n
  BY <1>3, OriginalAssumption DEF AllInv, RatedInv, GamesTyped, Seats
<1>5. \A k \in Seats : rowIndex[k] = k - 1
  <2>1. PICK cut \in 2 .. 7 :
           /\ cut <= Len(table[Original]) => Gaps
           /\ rowIndex = [k \in DOMAIN table[Original] |-> IF k < cut THEN k - 1 ELSE k]
    BY DEF Init
  <2>2. cut > n
    BY <1>3, <2>1
  <2> QED
    BY <1>4, <2>1, <2>2 DEF Seats
<1> QED
  BY <1>1, <1>2, <1>5 DEF AgreeInv

LEMMA AgreeKeep ==
  ASSUME AllInv, AgreeInv, [Next]_vars PROVE AgreeInv'
<1>1. SeatsStay
  BY SeatsAreFixed DEF AllInv
<1>2. \A k \in Seats : rowIndex[k] = k - 1
  BY DEF AgreeInv
<1> PICK H : H = Humans
  OBVIOUS
<1> DEFINE Kept == /\ \A k \in Seats : will'[k] = "yes" => k - 1 \in offer'
                   /\ (H # {} /\ \A k \in H : will'[k] = "yes")
                         => \E c \in Calls : Pursues(call'[c], H)
<1>3. SUFFICES ASSUME mishaps' = 0, Gone' = {}, link' = NoGame PROVE Kept
  <2>1. Agreed' <=> (H # {} /\ \A k \in H : will'[k] = "yes")
    BY <1>1 DEF Agreed, SeatsStay
  <2> QED
    BY <1>1, <1>2, <2>1 DEF AgreeInv, SeatsStay
<1>4. mishaps = 0
  BY <1>3, GameSteps, RatingBounds DEF AllInv
<1>21. Gone = {} /\ link = NoGame /\ Named = {NoGame}
  <2>1. (Named \cup {link'}) \ {NoGame} \subseteq Named'
    BY NamesStay DEF AllInv
  <2>2. Named' = {NoGame}
    BY <1>3 DEF Named
  <2>3. Gone \subseteq Games /\ NoGame \notin Games
    BY GamesAssumption DEF Gone, NoGame
  <2> QED
    BY <2>1, <2>2, <2>3 DEF Named
<1>5. /\ \A k \in Seats : will[k] = "yes" => k - 1 \in offer
      /\ (H # {} /\ \A k \in H : will[k] = "yes")
            => \E c \in Calls : Pursues(call[c], H)
  BY <1>4, <1>21 DEF AgreeInv, Agreed
<1>6. /\ \A c \in Calls : SoundCall(call[c], {NoGame}, SeatNumbers, H)
      /\ DOMAIN call = Calls /\ H \subseteq Seats /\ 0 \notin Games
      /\ will \in [Seats -> {"yes", "no"}]
  BY <1>21, GamesAssumption DEF AllInv, RematchInv, SoundCalls, Humans
\* A call that does not pursue the rematch, or goes on to.
<1>7. ASSUME NEW c \in Calls, NEW r, call' = [call EXCEPT ![c] = r],
             Pursues(call[c], H) => Pursues(r, H),
             UNCHANGED <<will, offer, link>>
      PROVE  Kept
  <2>1. \A d \in Calls : Pursues(call[d], H) => Pursues(call'[d], H)
    BY <1>6, <1>7
  <2> QED
    BY <1>5, <1>7, <2>1
<1>8. CASE Rating \/ UNCHANGED vars
  BY <1>5, <1>8 DEF Rating, vars, rematchVars
<1>9. ASSUME NEW c \in Calls, NEW at, NEW k, Click(c, at, k) PROVE Kept
  <2>1. PICK r : call' = [call EXCEPT ![c] = r]
    BY <1>9 DEF Click
  <2>2. ~ Pursues(call[c], H) /\ UNCHANGED <<will, offer, link>>
    BY <1>9 DEF Click, Pursues, Idle
  <2> QED
    BY <1>7, <2>1, <2>2
<1>10. ASSUME NEW c \in Calls, CheckOffer(c) \/ CheckDecline(c) PROVE Kept
  <2>1. PICK r : call' = [call EXCEPT ![c] = r]
    <3>1. \/ call' = [call EXCEPT ![c] = Idle]
          \/ call' = [call EXCEPT ![c] = [call[c] EXCEPT !.at = "merge"]]
          \/ call' = [call EXCEPT ![c] = [call[c] EXCEPT !.at = "clear"]]
      BY <1>10 DEF CheckOffer, CheckDecline, Return, Refuse, Goto
    <3> QED
      BY <3>1
  <2>2. ~ Pursues(call[c], H) /\ UNCHANGED <<will, offer, link>>
    BY <1>10 DEF CheckOffer, CheckDecline, Pursues
  <2> QED
    BY <1>7, <2>1, <2>2
<1>11. ASSUME NEW c \in Calls, MergeRematchAcceptance(c) PROVE Kept
  <2>1. /\ offer' = Merged(c) /\ link' = link
        /\ will' = [will EXCEPT ![call[c].seat] = "yes"]
        /\ call' = [call EXCEPT ![c].at = "sync", ![c].merged = offer']
        /\ call[c].seat \in H
    BY <1>6, <1>11 DEF MergeRematchAcceptance, SoundCall
  <2>2. PICK k \in H : k = call[c].seat
    BY <2>1
  <2>3. offer \subseteq offer' /\ k - 1 \in offer'
    <3>1. Index(call[c].rec, k) = k - 1
      BY <1>2, <1>6 DEF Index
    <3> QED
      BY <2>1, <2>2, <3>1 DEF Merged
  <2>4. \A j \in Seats : will'[j] = "yes" => j - 1 \in offer'
    BY <1>5, <1>6, <2>1, <2>2, <2>3
  <2>5. ASSUME \A j \in H : will'[j] = "yes" PROVE Pursues(call'[c], H)
    <3>1. {j - 1 : j \in H} \subseteq offer'
      BY <1>6, <2>4, <2>5
    <3>2. call'[c].at = "sync" /\ call'[c].merged = offer'
      BY <1>6, <2>1 DEF SoundCall
    <3> QED
      BY <3>1, <3>2 DEF Pursues
  <2> QED
    BY <2>4, <2>5
<1>12. ASSUME NEW c \in Calls, Sync(c) PROVE Kept
  <2>1. UNCHANGED <<will, offer, link>> /\ call[c].at = "sync"
    BY <1>12 DEF Sync
  <2>2. CASE Complete(call[c].merged)
    <3>1. call' = [call EXCEPT ![c] = [call[c] EXCEPT !.at = "rematch"]]
      BY <1>12, <2>2 DEF Sync, Goto
    <3>2. PICK r : r = [call[c] EXCEPT !.at = "rematch"]
      OBVIOUS
    <3>3. Pursues(r, H)
      BY <1>6, <3>2 DEF Pursues, SoundCall
    <3> QED
      BY <1>7, <2>1, <3>1, <3>2, <3>3
  <2>3. CASE ~ Complete(call[c].merged)
    <3>1. call' = [call EXCEPT ![c] = Idle]
      BY <1>12, <2>3 DEF Sync, Return
    <3>2. ~ Pursues(call[c], H)
      BY <2>1, <2>3 DEF Pursues, Complete
    <3> QED
      BY <1>7, <2>1, <3>1, <3>2
  <2> QED
    BY <2>2, <2>3
<1>13. ASSUME NEW c \in Calls, GetOriginal(c) PROVE Kept
  <2>1. PICK o \in Objs :
          /\ Get(call[c].pod, o)
          /\ call' = [call EXCEPT ![c].at = IF obj'[o].link = NoGame THEN "create"
                                            ELSE "linked",
                                  ![c].orig = o, ![c].game = obj'[o].link]
          /\ UNCHANGED <<offer, link, will>>
    BY <1>13 DEF GetOriginal
  <2>2. obj'[o].link = NoGame
    <3>1. SoundHeap(obj', {NoGame}, SeatNumbers)
      <4>1. call[c].pod \in Pods
        BY <1>6 DEF SoundCall
      <4> QED
        BY <1>21, <2>1, <4>1, GetSound DEF AllInv
    <3> QED
      BY <3>1 DEF SoundHeap
  <2>3. PICK r : r = [call[c] EXCEPT !.at = "create", !.orig = o, !.game = obj'[o].link]
    OBVIOUS
  <2>4. call' = [call EXCEPT ![c] = r]
    BY <2>1, <2>2, <2>3
  <2>5. Pursues(r, H)
    BY <1>6, <2>3 DEF Pursues, SoundCall
  <2> QED
    BY <1>7, <2>1, <2>4, <2>5
<1>14. ASSUME NEW c \in Calls, Create(c) PROVE Kept
  <2>1. PICK g \in Games : call' = [call EXCEPT ![c].at = "link", ![c].game = g]
    BY <1>14 DEF Create
  <2>2. PICK r : r = [call[c] EXCEPT !.at = "link", !.game = g]
    OBVIOUS
  <2>3. call' = [call EXCEPT ![c] = r] /\ UNCHANGED <<offer, link, will>>
    BY <1>14, <2>1, <2>2 DEF Create
  <2>4. Pursues(r, H)
    BY <1>6, <2>2 DEF Pursues, SoundCall
  <2> QED
    BY <1>7, <2>3, <2>4
<1>15. ASSUME NEW c \in Calls, Link(c) PROVE Kept
  <2>1. call[c].game \in Games /\ link' = SetRematchLink(call[c].game)
        /\ UNCHANGED <<offer, will>>
    BY <1>6, <1>15 DEF Link, SoundCall
  <2>2. link' # NoGame
    BY <1>6, <2>1 DEF SetRematchLink, NoGame
  <2> QED
    BY <1>3, <2>2
<1>16. ASSUME NEW c \in Calls, GetLinked(c) \/ StampOriginal(c) \/ Stamp(c) PROVE FALSE
  BY <1>6, <1>16 DEF GetLinked, StampOriginal, Stamp, SoundCall
<1>17. ASSUME NEW c \in Calls, Clear(c) PROVE Kept
  <2>1. call[c].seat = 0
    BY <1>6, <1>17 DEF Clear, SoundCall
  <2>2. \A k \in Seats : will'[k] = "no"
    BY <1>17, <2>1 DEF Clear
  <2> QED
    BY <1>6, <2>2
<1>18. ASSUME NEW c \in Calls, StatementFails(c) PROVE FALSE
  BY <1>3, <1>4, <1>18 DEF StatementFails
<1>19. ASSUME NEW p \in Pods, Restart(p) PROVE FALSE
  BY <1>3, <1>4, <1>19 DEF Restart
<1>20. ASSUME NEW p \in Pods, Invalidate(p) PROVE Kept
  BY <1>5, <1>20 DEF Invalidate
<1>22. ASSUME NEW g \in Games, CleanStale(g) PROVE FALSE
  BY <1>3, <1>22 DEF CleanStale, Gone, AllInv, RatedInv, GamesTyped
<1> HIDE DEF Kept
<1> QED
  BY <1>8, <1>9, <1>10, <1>11, <1>12, <1>13, <1>14, <1>15, <1>16, <1>17, <1>18, <1>19,
     <1>20, <1>22 DEF Next

\* Store.OfferRematch: as long as nothing fails and no follow-up is cleaned
\* away, and with seat rows that have no gaps,
\* a game whose human players have all accepted has its rematch as soon as no
\* call is under way; whichever pods took the acceptances, none is lost.
THEOREM AcceptancesMeet ==
  ASSUME ~ Gaps
  PROVE  Spec => []AgreedIsLinked
<1>1. Init => AllInv /\ AgreeInv
  BY AllStarts, AgreeStarts
<1>2. (AllInv /\ AgreeInv) /\ [Next]_vars => (AllInv /\ AgreeInv)'
  BY AllKeep, AgreeKeep
<1>3. AllInv /\ AgreeInv => AgreedIsLinked
  <2> SUFFICES ASSUME AllInv, AgreeInv, mishaps = 0, Gone = {},
                      \A c \in Calls : call[c] = Idle,
                      Humans # {}, \A k \in Humans : will[k] = "yes"
               PROVE  link # NoGame
    BY DEF AgreedIsLinked
  <2>1. \A c \in Calls : ~ Pursues(call[c], Humans)
    BY DEF Pursues, Idle
  <2> QED
    BY <2>1 DEF AgreeInv, Agreed
<1> QED
  BY <1>1, <1>2, <1>3, PTL DEF Spec
=============================================================================
