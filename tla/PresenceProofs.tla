--------------------------- MODULE PresenceProofs ---------------------------
(***************************************************************************)
(* Proofs about Presence, and about Seats below it.                        *)
(*                                                                         *)
(* RoomInv has the types and the numbering of seats and rows; it needs no  *)
(* hypothesis.  Nor does SeatedInv: the row of a taken seat is taken, and  *)
(* nobody plays with an empty one, as long as no statement has failed.     *)
(* KeyInv says that a token handed out sits on the seat it was handed out  *)
(* for, and SoundInv that record and rows describe the same table; a seat  *)
(* resolved after a start with a gap breaks both.  All four are kept by    *)
(* every step of the room: one that rewrites a seat and its row            *)
(* (Commands), a part of a start, a load or a crash.  PeerInv and WatchInv *)
(* are the same for the sockets, their counts and the grace timers.        *)
(***************************************************************************)
EXTENDS Presence, FunctionTheorems, FiniteSetTheorems, SequenceTheorems,
        WellFoundedInduction, TLAPS

(* The k-th member of a set of numbers: every place in the order is taken. *)

Below(S, i) == {j \in S : j < i}

LEMMA BelowGrows ==
  ASSUME NEW S \in SUBSET Nat, IsFiniteSet(S), NEW i \in S
  PROVE  /\ Cardinality(S) \in Nat
         /\ Cardinality(Below(S, i)) \in 0 .. Cardinality(S) - 1
         /\ \A j \in S : i < j => Cardinality(Below(S, i)) < Cardinality(Below(S, j))
<1>1. i \in Nat /\ i \notin Below(S, i) /\ Below(S, i) \in SUBSET S
  BY DEF Below
<1>2. /\ IsFiniteSet(Below(S, i)) /\ Cardinality(Below(S, i)) <= Cardinality(S)
      /\ Cardinality(Below(S, i)) # Cardinality(S)
  BY <1>1, FS_Subset
<1>3. Cardinality(S) \in Nat /\ Cardinality(Below(S, i)) \in Nat
  BY <1>2, FS_CardinalityType
<1>4. ASSUME NEW j \in S, i < j
      PROVE  Cardinality(Below(S, i)) < Cardinality(Below(S, j))
  <2>1. i \in Below(S, j) /\ Below(S, j) \in SUBSET S
    BY <1>4 DEF Below
  <2>2. Below(S, i) \in SUBSET Below(S, j)
    <3>1. \A x \in S : x < i => x < j
      BY <1>4
    <3> QED
      BY <3>1 DEF Below
  <2>3. IsFiniteSet(Below(S, j))
    BY <2>1, FS_Subset
  <2>4. /\ Cardinality(Below(S, i)) <= Cardinality(Below(S, j))
        /\ Cardinality(Below(S, i)) # Cardinality(Below(S, j))
    BY <1>1, <2>1, <2>2, <2>3, FS_Subset
  <2>5. Cardinality(Below(S, j)) \in Nat
    BY <2>3, FS_CardinalityType
  <2> QED
    BY <1>3, <2>4, <2>5
<1> QED
  BY <1>2, <1>3, <1>4

LEMMA EveryRankIsTaken ==
  ASSUME NEW S \in SUBSET Nat, IsFiniteSet(S), NEW k \in 1 .. Cardinality(S)
  PROVE  \E i \in S : Cardinality(Below(S, i)) = k - 1
<1> DEFINE rank == [i \in S |-> Cardinality(Below(S, i))]
<1>1. PICK n \in Nat : n = Cardinality(S)
  BY FS_CardinalityType
<1>2. \A i \in S : rank[i] \in 0 .. n - 1
  BY <1>1, BelowGrows
<1>3. \A i \in S, j \in S : rank[i] = rank[j] => i = j
  <2> SUFFICES ASSUME NEW i \in S, NEW j \in S, rank[i] = rank[j], i # j
               PROVE  FALSE
    OBVIOUS
  <2>1. i \in Nat /\ j \in Nat /\ rank[i] \in Nat
    BY <1>2, <1>1
  <2>2. (i < j => rank[i] < rank[j]) /\ (j < i => rank[j] < rank[i])
    BY BelowGrows
  <2> QED
    BY <2>1, <2>2
<1>4. rank \in Injection(S, 0 .. n - 1)
  BY <1>2, <1>3 DEF Injection, IsInjective
<1>5. IsFiniteSet(0 .. n - 1) /\ Cardinality(0 .. n - 1) = n
  <2>1. 0 \in Int /\ n - 1 \in Int
    BY <1>1
  <2>2. IsFiniteSet(0 .. n - 1)
        /\ Cardinality(0 .. n - 1) = IF 0 > n - 1 THEN 0 ELSE (n - 1) - 0 + 1
    BY <2>1, FS_Interval, Zenon
  <2> QED
    BY <1>1, <2>2
<1>6. rank \in Surjection(S, 0 .. n - 1)
  BY <1>1, <1>4, <1>5, FS_Injection
<1>7. k - 1 \in 0 .. n - 1
  BY <1>1
<1>8. PICK i \in S : rank[i] = k - 1
  BY <1>6, <1>7 DEF Surjection
<1> QED
  BY <1>8

LEMMA NthInOrder ==
  ASSUME NEW S \in SUBSET Nat, IsFiniteSet(S)
  PROVE  /\ Cardinality(S) \in Nat
         /\ \A k \in 1 .. Cardinality(S) : Nth(S, k) \in S
         /\ \A j, k \in 1 .. Cardinality(S) : j < k => Nth(S, j) < Nth(S, k)
         /\ \A i \in S : \E k \in 1 .. Cardinality(S) : Nth(S, k) = i
<1>1. PICK n \in Nat : n = Cardinality(S)
  BY FS_CardinalityType
<1>2. ASSUME NEW k \in 1 .. n
      PROVE  Nth(S, k) \in S /\ Cardinality(Below(S, Nth(S, k))) = k - 1
  <2>1. \E i \in S : Cardinality({j \in S : j < i}) = k - 1
    BY <1>1, EveryRankIsTaken DEF Below
  <2> QED
    BY <2>1 DEF Nth, Below
<1>3. ASSUME NEW j \in 1 .. n, NEW k \in 1 .. n, j < k
      PROVE  Nth(S, j) < Nth(S, k)
  <2>1. PICK a \in S : a = Nth(S, j) /\ Cardinality(Below(S, a)) = j - 1
    BY <1>2
  <2>2. PICK b \in S : b = Nth(S, k) /\ Cardinality(Below(S, b)) = k - 1
    BY <1>2
  <2>3. b < a => Cardinality(Below(S, b)) < Cardinality(Below(S, a))
    BY BelowGrows
  <2>4. a \in Nat /\ b \in Nat /\ a # b
    BY <1>3, <2>1, <2>2
  <2> QED
    BY <1>3, <2>1, <2>2, <2>3, <2>4
<1>4. ASSUME NEW i \in S
      PROVE  \E k \in 1 .. n : Nth(S, k) = i
  <2>1. PICK r \in 0 .. n - 1 : r = Cardinality(Below(S, i))
    BY <1>1, BelowGrows
  <2>2. r + 1 \in 1 .. n /\ (r + 1) - 1 = r
    BY <1>1
  <2>3. PICK b \in S : b = Nth(S, r + 1) /\ Cardinality(Below(S, b)) = r
    BY <1>2, <2>2
  <2>4. /\ b < i => Cardinality(Below(S, b)) < Cardinality(Below(S, i))
        /\ i < b => Cardinality(Below(S, i)) < Cardinality(Below(S, b))
    BY BelowGrows
  <2>5. b \in Nat /\ i \in Nat
    OBVIOUS
  <2>6. b = i
    BY <2>1, <2>3, <2>4, <2>5
  <2> QED
    BY <2>2, <2>3, <2>6
<1> QED
  BY <1>1, <1>2, <1>3, <1>4

-----------------------------------------------------------------------------
(* Two ascending lists of the same numbers are the same list.              *)

Ascending(q, n) == /\ q \in [1 .. n -> Nat]
                   /\ \A j, k \in 1 .. n : j < k => q[j] < q[k]
Within(p, m, q, n) == \A k \in 1 .. m : \E j \in 1 .. n : p[k] = q[j]

LEMMA Least ==
  ASSUME NEW S \in SUBSET Nat, S # {} PROVE \E m \in S : \A n \in S : m <= n
<1> DEFINE R == OpToRel(<, Nat)
<1>1. IsWellFoundedOn(R, Nat)
  BY NatLessThanWellFounded, Zenon
<1>2. \E m \in S : \A n \in S : ~ (<<n, m>> \in R)
  <2> HIDE DEF R
  <2> QED
    BY <1>1, WFMin
<1>3. PICK m \in S : \A n \in S : ~ (<<n, m>> \in R)
  BY <1>2
<1>4. ASSUME NEW n \in S PROVE m <= n
  <2>1. n \in Nat /\ m \in Nat /\ ~ (<<n, m>> \in R)
    BY <1>3
  <2>2. ~ (n < m)
    BY <2>1 DEF OpToRel
  <2> HIDE DEF R
  <2> QED
    BY <2>1, <2>2
<1> QED
  BY <1>4

LEMMA NextIsNoLess ==
  ASSUME NEW m \in Nat, NEW n \in Nat, NEW p, NEW q,
         Ascending(p, m), Ascending(q, n), Within(p, m, q, n),
         NEW k \in 1 .. m, \A i \in 1 .. k - 1 : i <= n /\ p[i] = q[i]
  PROVE  k <= n /\ q[k] <= p[k]
<1>1. PICK j \in 1 .. n : p[k] = q[j]
  BY DEF Within
<1>2. ~ (j < k)
  <2> SUFFICES ASSUME j < k PROVE FALSE
    OBVIOUS
  <2>1. j \in 1 .. k - 1 /\ j \in 1 .. m
    OBVIOUS
  <2>2. p[j] = q[j] /\ p[j] < p[k] /\ p[k] \in Nat
    BY <2>1 DEF Ascending
  <2> QED
    BY <1>1, <2>2
<1>3. k <= n /\ k \in 1 .. n
  BY <1>2
<1>4. q[k] \in Nat /\ q[j] \in Nat
  BY <1>3 DEF Ascending
<1>5. CASE j = k
  BY <1>1, <1>3, <1>4, <1>5
<1>6. CASE k < j
  <2>1. q[k] < q[j]
    BY <1>3, <1>6 DEF Ascending
  <2> QED
    BY <1>1, <1>3, <1>4, <2>1
<1> QED
  BY <1>2, <1>5, <1>6

LEMMA OneOrder ==
  ASSUME NEW m \in Nat, NEW n \in Nat, NEW p, NEW q,
         Ascending(p, m), Ascending(q, n), Within(p, m, q, n), Within(q, n, p, m)
  PROVE  m = n /\ \A k \in 1 .. m : p[k] = q[k]
<1> DEFINE Bad == {k \in Nat \ {0} : (k <= m \/ k <= n)
                                     /\ ~ (k <= m /\ k <= n /\ p[k] = q[k])}
<1>1. ASSUME Bad # {} PROVE FALSE
  <2>1. PICK k \in Bad : \A i \in Bad : k <= i
    BY <1>1, Least
  <2>2. k \in Nat \ {0}
    OBVIOUS
  <2>3. \A i \in 1 .. k - 1 : i <= m /\ i <= n /\ p[i] = q[i]
    <3> SUFFICES ASSUME NEW i \in 1 .. k - 1
                 PROVE  i <= m /\ i <= n /\ p[i] = q[i]
      OBVIOUS
    <3>1. i \in Nat \ {0} /\ i < k /\ i \notin Bad
      BY <2>1, <2>2
    <3>2. i <= m \/ i <= n
      BY <2>2, <3>1
    <3> QED
      BY <3>1, <3>2
  <2>4. k <= m => k <= n /\ q[k] <= p[k]
    <3> SUFFICES ASSUME k <= m PROVE k <= n /\ q[k] <= p[k]
      OBVIOUS
    <3>1. k \in 1 .. m
      BY <2>2
    <3> HIDE DEF Bad
    <3> QED
      BY <2>3, <3>1, NextIsNoLess
  <2>5. k <= n => k <= m /\ p[k] <= q[k]
    <3> SUFFICES ASSUME k <= n PROVE k <= m /\ p[k] <= q[k]
      OBVIOUS
    <3>1. k \in 1 .. n
      BY <2>2
    <3>2. \A i \in 1 .. k - 1 : i <= m /\ q[i] = p[i]
      BY <2>3
    <3> HIDE DEF Bad
    <3> QED
      BY <3>2, <3>1, NextIsNoLess
  <2>6. k <= m /\ k <= n
    BY <2>4, <2>5
  <2>7. p[k] \in Nat /\ q[k] \in Nat
    BY <2>2, <2>6 DEF Ascending
  <2> QED
    BY <2>4, <2>5, <2>6, <2>7
<1>2. \A k \in Nat \ {0} : k <= m \/ k <= n => k <= m /\ k <= n /\ p[k] = q[k]
  BY <1>1
<1>3. m = n
  <2>1. (m \in Nat \ {0} => m <= n) /\ (n \in Nat \ {0} => n <= m)
    BY <1>2
  <2> QED
    BY <2>1
<1> QED
  BY <1>2, <1>3

\* What InOrder(f, S) is: the values of f at the members of S, listed by
\* ascending member.
Lists(q, f, S, at) ==
  /\ at \in [1 .. Len(q) -> S]
  /\ \A j, k \in 1 .. Len(q) : j < k => at[j] < at[k]
  /\ \A i \in S : \E k \in 1 .. Len(q) : at[k] = i
  /\ \A k \in 1 .. Len(q) : q[k] = f[at[k]]

LEMMA InOrderLists ==
  ASSUME NEW f, NEW S \in SUBSET Nat, IsFiniteSet(S), NEW T, \A i \in S : f[i] \in T
  PROVE  /\ InOrder(f, S) \in Seq(T) /\ Len(InOrder(f, S)) = Cardinality(S)
         /\ Cardinality(S) \in Nat /\ DOMAIN InOrder(f, S) = 1 .. Cardinality(S)
         /\ \E at : Lists(InOrder(f, S), f, S, at)
<1>1. PICK n \in Nat : n = Cardinality(S)
  BY FS_CardinalityType
<1>2. PICK at : at = [k \in 1 .. n |-> Nth(S, k)]
  OBVIOUS
<1>3. PICK q : q = InOrder(f, S)
  OBVIOUS
<1>4. /\ \A k \in 1 .. n : at[k] \in S
      /\ \A j, k \in 1 .. n : j < k => at[j] < at[k]
      /\ \A i \in S : \E k \in 1 .. n : at[k] = i
  BY <1>1, <1>2, NthInOrder
<1>5. q = [k \in 1 .. n |-> f[at[k]]]
  BY <1>1, <1>2, <1>3 DEF InOrder
<1>6. q \in [1 .. n -> T]
  BY <1>4, <1>5
<1>7. q \in Seq(T) /\ Len(q) = n /\ DOMAIN q = 1 .. n
  <2>1. q \in Seq(T)
    BY <1>6, SeqDef
  <2>2. Len(q) = n
    BY <1>6, <2>1, LenProperties
  <2> QED
    BY <1>6, <2>1, <2>2
<1>8. at \in [1 .. n -> S]
  BY <1>2, <1>4
<1>9. Lists(q, f, S, at)
  BY <1>4, <1>5, <1>7, <1>8 DEF Lists
<1> QED
  BY <1>1, <1>3, <1>7, <1>9

-----------------------------------------------------------------------------
(* The room: types and numbers.                                            *)

Rows == UNION {[D -> SeatType] : D \in SUBSET Colors}

\* Seats and rows lie in the order of their colours; in the lobby, and after
\* a start without gaps, colour, index and position all agree; and a lobby is
\* the one its rows describe, unless it was deleted.
LobbyOK(m, d) ==
  m.status = "waiting" =>
    /\ Len(m.seats) >= 2 /\ d.status \in {"waiting", "gone"}
    /\ \A k \in 1 .. Len(m.seats) : m.seats[k].index = k - 1 /\ m.seats[k].color = k - 1
    /\ d.status = "waiting" => DOMAIN d.rows = 0 .. Len(m.seats) - 1

MemOK(m) ==
  /\ m \in [status : {"none", "waiting", "playing", "finished"}, seats : Seq(SeatType)]
  /\ Len(m.seats) <= NSeats
  /\ \A j, k \in 1 .. Len(m.seats) : j < k => m.seats[j].color < m.seats[k].color
  /\ (\A k \in 1 .. Len(m.seats) : m.seats[k].color = k - 1) =>
       \A k \in 1 .. Len(m.seats) : m.seats[k].index = k - 1

DbOK(d) ==
  /\ d \in [status : {"waiting", "playing", "finished", "gone"}, rows : Rows]
  /\ \A i \in DOMAIN d.rows : d.rows[i].index = i /\ d.rows[i].color = i
  /\ d.status = "waiting" => \E n \in 2 .. NSeats : DOMAIN d.rows = 0 .. n - 1

StartOK(m, at) ==
  /\ at \in {"no", "authorised", "trimmed"}
  /\ m.status = "none" => m = NoRec /\ at = "no"
  /\ at = "trimmed" => m.status \in {"playing", "finished"}

CountsOK == /\ keys \subseteq [tok : 1 .. MaxKeys, color : Colors, user : Ids]
            /\ minted \in 0 .. MaxKeys /\ mishaps \in 0 .. MaxMishaps
            /\ strayed \subseteq Colors

\* Only a game that has started owes the database anything, and only one that
\* is over a result.
Results == {"won", "call", "timer"}
OwedOK(o, st) ==
  /\ o \subseteq {"bot"} \cup Results
  /\ o # {} => st \in {"playing", "finished"}
  /\ o \cap Results # {} => st = "finished"

RoomInv == /\ MemOK(mem) /\ DbOK(db) /\ LobbyOK(mem, db)
           /\ StartOK(mem, starting) /\ CountsOK /\ OwedOK(owed, mem.status)

\* What every command of the lobby comes to: seat k is rewritten as s, status
\* becomes st, and the row follows, if the statement does not fail.
Writes(k, s, st) ==
  /\ k \in Positions /\ s \in SeatType
  /\ s.index = mem.seats[k].index /\ s.color = mem.seats[k].color
  /\ mem' = [status |-> st, seats |-> [mem.seats EXCEPT ![k] = s]]
  /\ \/ st = mem.status /\ s.occ = mem.seats[k].occ
     \/ mem.status = "waiting" /\ st = "waiting"
     \/ mem.status = "waiting" /\ st = "playing" /\ AllSeated(mem'.seats)
  /\ \/ db' = Updated(s, st) /\ mishaps' = mishaps
     \/ mishaps < MaxMishaps /\ mishaps' = mishaps + 1 /\ db' \in {db, Updated(s, st)}
  /\ starting' = starting /\ owed' = owed
  /\ strayed' = strayed \cup (IF s.index = s.color THEN {} ELSE {s.index, s.color})

\* Every key opens the seat it was handed out for, and only a person's; no two
\* are the same token.
KeysApart == \A a, b \in keys : a.tok = b.tok => a = b
KeysHold == \A key \in Kept, k \in Positions : Opens(k, key.tok) => Holds(mem.seats[k], key)

BotsSit == \A k \in Positions : mem.seats[k].bot => mem.seats[k].occ

\* What becomes of the keys: nobody who keeps one sat on seat k, and whoever
\* gets one holds s, whose row was written.
Rekeys(k, s) ==
  /\ \/ minted' = minted /\ s.tok = NoKey
     \/ minted' = minted + 1 /\ s.tok = minted'
  /\ \A key \in keys' : key.color \notin strayed' =>
       \/ key \in keys /\ ~Opens(k, key.tok)
       \/ /\ key = [tok |-> s.tok, color |-> s.color, user |-> s.user]
          /\ s.tok # NoKey /\ s.occ /\ ~s.bot /\ mishaps' = mishaps

Commands == \E k \in Positions, s \in SeatType, st \in {"waiting", "playing", "finished"} :
  /\ Writes(k, s, st)
  /\ keys' \subseteq [tok : 1 .. MaxKeys, color : Colors, user : Ids]
  /\ minted' \in 0 .. MaxKeys
  /\ s.bot => s.occ
  /\ KeysHold /\ KeysApart /\ BotsSit => Rekeys(k, s)
  /\ keys' \subseteq keys \cup {[tok |-> s.tok, color |-> s.color, user |-> s.user]}

LEMMA Position ==
  ASSUME RoomInv, NEW k \in Positions
  PROVE  /\ k \in 1 .. Len(mem.seats) /\ mem.seats[k] \in SeatType
         /\ Positions = 1 .. Len(mem.seats) /\ mem.seats \in Seq(SeatType)
         /\ mem.seats \in [1 .. Len(mem.seats) -> SeatType] /\ Len(mem.seats) \in Nat
         /\ mem.status \in {"none", "waiting", "playing", "finished"}
         /\ mem.status = "waiting" => mem.seats[k].index = k - 1 /\ mem.seats[k].color = k - 1
<1>1. mem.seats \in Seq(SeatType) /\ mem.status \in {"none", "waiting", "playing", "finished"}
  BY DEF RoomInv, MemOK
<1>2. /\ mem.seats \in [1 .. Len(mem.seats) -> SeatType] /\ Len(mem.seats) \in Nat
      /\ DOMAIN mem.seats = 1 .. Len(mem.seats)
  BY <1>1, LenProperties
<1>3. k \in 1 .. Len(mem.seats) /\ Positions = 1 .. Len(mem.seats)
  BY <1>2 DEF Positions
<1>4. mem.seats[k] \in SeatType
  BY <1>2, <1>3
<1>5. mem.status = "waiting" => mem.seats[k].index = k - 1 /\ mem.seats[k].color = k - 1
  BY <1>3 DEF RoomInv, LobbyOK
<1> QED
  BY <1>1, <1>2, <1>3, <1>4, <1>5

LEMMA NoKeyIsOne == NoKey \in 0 .. MaxKeys /\ Nobody \in Ids
BY BoundsAssumption DEF NoKey, Ids

LEMMA NoKeyFits ==
  ASSUME RoomInv, KeysHold, NEW k \in Positions,
         mem.seats[k].occ = FALSE \/ mem.seats[k].bot = TRUE, NEW key \in Kept
  PROVE  ~Opens(k, key.tok)
BY DEF KeysHold, Holds

\* In the lobby nothing strays.
LEMMA NothingStrays ==
  ASSUME RoomInv, mem.status = "waiting", NEW k \in Positions, NEW s \in SeatType,
         s.index = mem.seats[k].index, s.color = mem.seats[k].color
  PROVE  s.index = s.color
BY Position

\* A command that hands out no key and touches no seat a key opens.
LEMMA PlainCommand ==
  ASSUME RoomInv, NEW k \in Positions, NEW s \in SeatType, mem.status = "waiting",
         mem.seats[k].occ = FALSE \/ mem.seats[k].bot = TRUE, s.tok = NoKey,
         s.bot => s.occ, s.index = mem.seats[k].index, s.color = mem.seats[k].color,
         Take(k, s) \/ Put(k, s), Save(s, mem'.status)
  PROVE  Commands
<1>0. s.index = s.color
  BY NothingStrays
<1>1. mem.status = "waiting" /\ mem \in [status : {"none", "waiting", "playing", "finished"}, seats : Seq(SeatType)]
  BY DEF RoomInv, MemOK
<1>2. PICK st \in {"waiting", "playing"} :
        /\ mem' = [status |-> st, seats |-> [mem.seats EXCEPT ![k] = s]]
        /\ st = "playing" => AllSeated([mem.seats EXCEPT ![k] = s])
  <2>1. CASE Take(k, s)
    BY <2>1 DEF Take
  <2>2. CASE Put(k, s)
    BY <1>1, <2>2 DEF Put
  <2> QED
    BY <2>1, <2>2
<1>3. Save(s, st)
  BY <1>2
<1>4. Writes(k, s, st)
  BY <1>0, <1>1, <1>2, <1>3 DEF Writes, Save, Committed, Failed
<1>5. keys' = keys /\ minted' = minted /\ strayed' = strayed
  BY <1>3 DEF Save
<1>6. KeysHold /\ KeysApart /\ BotsSit => Rekeys(k, s)
  BY <1>5, NoKeyFits DEF Rekeys, Kept
<1>7. CountsOK
  BY DEF RoomInv
<1> QED
  BY <1>1, <1>4, <1>5, <1>6, <1>7 DEF Commands, CountsOK

LEMMA AddBotCommands ==
  ASSUME RoomInv, NEW k \in Positions, AddBot(k) PROVE Commands
<1> DEFINE s == [mem.seats[k] EXCEPT !.tok = NoKey, !.occ = TRUE, !.bot = TRUE]
<1>1. mem.seats[k] \in SeatType
  BY Position
<1>2. /\ s \in SeatType /\ s.index = mem.seats[k].index /\ s.color = mem.seats[k].color
      /\ s.tok = NoKey /\ s.occ = TRUE
  BY <1>1, NoKeyIsOne DEF SeatType
<1>3. mem.seats[k].occ \in BOOLEAN
  BY <1>1 DEF SeatType
<1>4. mem.seats[k].occ = FALSE /\ mem.status = "waiting" /\ Take(k, s) /\ Save(s, mem'.status)
  BY <1>3 DEF AddBot, Free
<1> HIDE DEF s
<1> QED
  BY <1>2, <1>4, PlainCommand

LEMMA RemoveBotCommands ==
  ASSUME RoomInv, NEW k \in Positions, RemoveBot(k) PROVE Commands
<1> DEFINE s == [mem.seats[k] EXCEPT !.tok = NoKey, !.occ = FALSE, !.bot = FALSE]
<1>1. mem.seats[k] \in SeatType
  BY Position
<1>2. /\ s \in SeatType /\ s.index = mem.seats[k].index /\ s.color = mem.seats[k].color
      /\ s.tok = NoKey /\ s.bot = FALSE
  BY <1>1, NoKeyIsOne DEF SeatType
<1>3. mem.seats[k].bot \in BOOLEAN
  BY <1>1 DEF SeatType
<1>4. mem.seats[k].bot = TRUE /\ mem.status = "waiting" /\ Put(k, s) /\ Save(s, mem.status)
  BY <1>3 DEF RemoveBot
<1>5. mem'.status = mem.status
  BY <1>4 DEF Put, RoomInv, MemOK
<1> HIDE DEF s
<1> QED
  BY <1>2, <1>4, <1>5, PlainCommand

LEMMA InviteSeatCommands ==
  ASSUME RoomInv, NEW k \in Positions, NEW u \in Users, InviteSeat(k, u) PROVE Commands
<1> DEFINE s == [mem.seats[k] EXCEPT !.user = u, !.tok = NoKey, !.bot = FALSE]
<1>1. mem.seats[k] \in SeatType
  BY Position
<1>2. /\ s \in SeatType /\ s.index = mem.seats[k].index /\ s.color = mem.seats[k].color
      /\ s.tok = NoKey /\ s.bot = FALSE
  BY <1>1, NoKeyIsOne DEF SeatType, Ids
<1>3. mem.seats[k].occ \in BOOLEAN
  BY <1>1 DEF SeatType
<1>4. mem.seats[k].occ = FALSE /\ mem.status = "waiting" /\ Put(k, s) /\ Save(s, mem.status)
  BY <1>3 DEF InviteSeat, Free
<1>5. mem'.status = mem.status
  BY <1>4 DEF Put, RoomInv, MemOK
<1> HIDE DEF s
<1> QED
  BY <1>2, <1>4, <1>5, PlainCommand

LEMMA UninviteCommands ==
  ASSUME RoomInv, NEW k \in Positions, Invited(k), Put(k, Uninvited(k)),
         Save(Uninvited(k), mem.status)
  PROVE  Commands
<1> DEFINE s == [mem.seats[k] EXCEPT !.user = Nobody, !.tok = NoKey]
<1>1. mem.seats[k] \in SeatType
  BY Position
<1>2. mem.seats[k].occ \in BOOLEAN /\ mem.seats[k].bot \in BOOLEAN
  BY <1>1 DEF SeatType
<1>3. mem.seats[k].occ = FALSE /\ mem.seats[k].bot = FALSE /\ mem.status = "waiting"
  BY <1>2 DEF Invited, Free
<1>4. /\ s \in SeatType /\ s.index = mem.seats[k].index /\ s.color = mem.seats[k].color
      /\ s.tok = NoKey /\ s.bot = FALSE
  BY <1>1, <1>3, NoKeyIsOne DEF SeatType, Ids
<1>5. Put(k, s) /\ Save(s, mem.status)
  BY DEF Uninvited
<1>6. mem'.status = mem.status
  BY <1>5 DEF Put, RoomInv, MemOK
<1> HIDE DEF s
<1> QED
  BY <1>3, <1>4, <1>5, <1>6, PlainCommand

\* A command that hands out the next key for seat k.
LEMMA KeyCommand ==
  ASSUME RoomInv, NEW k \in Positions, NEW s \in SeatType, NEW st, NEW old,
         NEW seats, seats = [mem.seats EXCEPT ![k] = s],
         mem' = [status |-> st, seats |-> seats],
         \/ st = mem.status /\ s.occ = mem.seats[k].occ /\ st \in {"waiting", "playing", "finished"}
         \/ mem.status = "waiting" /\ st = "waiting"
         \/ mem.status = "waiting" /\ st = "playing" /\ AllSeated(seats),
         strayed' = strayed \cup (IF s.index = s.color THEN {} ELSE {s.index, s.color}),
         s.index = mem.seats[k].index, s.color = mem.seats[k].color,
         minted < MaxKeys, s.tok = minted + 1, s.occ = TRUE,
         BotsSit => s.bot = FALSE, s.bot = TRUE => s.occ = TRUE,
         KeysHold /\ BotsSit => \A key \in Kept \ old : ~Opens(k, key.tok),
         SaveWithKey(s, st, minted + 1, old)
  PROVE  Commands
<1>1. minted \in 0 .. MaxKeys /\ MaxKeys \in Nat /\ mishaps \in Nat
      /\ keys \subseteq [tok : 1 .. MaxKeys, color : Colors, user : Ids]
  BY BoundsAssumption DEF RoomInv, CountsOK
<1>2. minted' = minted + 1 /\ minted' \in 1 .. MaxKeys /\ s.tok = minted' /\ s.tok # NoKey
  BY <1>1 DEF SaveWithKey, NoKey
<1> DEFINE new == [tok |-> s.tok, color |-> s.color, user |-> s.user]
<1>3. new \in [tok : 1 .. MaxKeys, color : Colors, user : Ids]
  BY <1>2 DEF SeatType
<1>4. \/ /\ db' = Updated(s, st) /\ mishaps' = mishaps /\ keys' = (keys \ old) \cup {new}
      \/ /\ mishaps < MaxMishaps /\ mishaps' = mishaps + 1 /\ db' \in {db, Updated(s, st)}
         /\ keys' = keys \ old
  BY <1>2 DEF SaveWithKey, Committed, Failed
<1>5. starting' = starting /\ owed' = owed
  BY DEF SaveWithKey
<1>6. st \in {"waiting", "playing", "finished"}
  OBVIOUS
<1>7. st = "playing" /\ mem.status = "waiting" => AllSeated(mem'.seats)
  OBVIOUS
<1>8. Writes(k, s, st)
  BY <1>4, <1>5, <1>7 DEF Writes
<1>9. KeysHold /\ KeysApart /\ BotsSit => Rekeys(k, s)
  <2>1. strayed \subseteq strayed'
    OBVIOUS
  <2>2. \A key \in keys' : key \in keys \ old \/ (key = new /\ mishaps' = mishaps)
    BY <1>4
  <2>3. \A key \in keys \ old : key.color \notin strayed' => key \in Kept \ old
    BY <2>1 DEF Kept
  <2> QED
    BY <1>2, <2>2, <2>3 DEF Rekeys, Kept
<1>10. keys' \subseteq [tok : 1 .. MaxKeys, color : Colors, user : Ids]
  BY <1>1, <1>3, <1>4
<1>11. minted' \in 0 .. MaxKeys
  BY <1>1, <1>2
<1>12. keys' \subseteq keys \cup {[tok |-> s.tok, color |-> s.color, user |-> s.user]}
  BY <1>4
<1> HIDE DEF new
<1> QED
  BY <1>6, <1>8, <1>9, <1>10, <1>11, <1>12 DEF Commands

LEMMA JoinCommands ==
  ASSUME RoomInv, NEW u \in Ids, Join(u) PROVE Commands
<1>1. PICK k \in Askable(u) \cup Pick(u) :
        LET t == minted + 1
            s == [mem.seats[k] EXCEPT !.user = u, !.tok = t, !.occ = TRUE]
        IN  /\ mem.status = "waiting" /\ minted < MaxKeys
            /\ Take(k, s) /\ SaveWithKey(s, mem'.status, t, {})
            /\ strayed' = strayed
  BY DEF Join
<1>2. k \in Positions /\ Free(k)
  BY DEF Askable, Pick
<1>3. mem.seats[k] \in SeatType
  BY <1>2, Position
<1> DEFINE s == [mem.seats[k] EXCEPT !.user = u, !.tok = minted + 1, !.occ = TRUE]
           seats == [mem.seats EXCEPT ![k] = s]
<1>4. minted \in 0 .. MaxKeys /\ MaxKeys \in Nat /\ minted < MaxKeys
  BY <1>1, BoundsAssumption DEF RoomInv, CountsOK
<1>5. minted + 1 \in 0 .. MaxKeys
  BY <1>4
<1>6. /\ s \in SeatType /\ s.index = mem.seats[k].index /\ s.color = mem.seats[k].color
      /\ s.tok = minted + 1 /\ s.occ = TRUE /\ s.bot = mem.seats[k].bot
  BY <1>3, <1>5 DEF SeatType
<1>7. mem.seats[k].occ = FALSE /\ mem.seats[k].bot \in BOOLEAN
  BY <1>2, <1>3 DEF Free, SeatType
<1>8. BotsSit => s.bot = FALSE
  BY <1>2, <1>6, <1>7 DEF BotsSit
<1>9. PICK st \in {"waiting", "playing"} :
        mem' = [status |-> st, seats |-> seats] /\ (st = "playing" => AllSeated(seats))
  BY <1>1 DEF Take
<1>10. SaveWithKey(s, st, minted + 1, {})
  BY <1>1, <1>9
<1>11. KeysHold /\ BotsSit => \A key \in Kept \ {} : ~Opens(k, key.tok)
  BY <1>2, <1>7, NoKeyFits
<1>14. strayed' = strayed \cup (IF s.index = s.color THEN {} ELSE {s.index, s.color})
  <2>1. s.index = s.color
    BY <1>1, <1>2, <1>6, NothingStrays
  <2> QED
    BY <1>1, <2>1
<1>12. mem.status = "waiting"
  BY <1>1
<1>13. seats = [mem.seats EXCEPT ![k] = s]
  OBVIOUS
<1> HIDE DEF s, seats
<1> QED
  BY <1>2, <1>4, <1>6, <1>8, <1>9, <1>10, <1>11, <1>12, <1>13, <1>14, KeyCommand

LEMMA ResolveSeatCommands ==
  ASSUME RoomInv, NEW u \in Users, ResolveSeat(u) PROVE Commands
<1>1. PICK k \in Positions :
        LET t == minted + 1
            s == [mem.seats[k] EXCEPT !.tok = t]
        IN  /\ mem.seats[k].occ /\ ~mem.seats[k].bot /\ mem.seats[k].user = u
            /\ minted < MaxKeys /\ Put(k, s)
            /\ strayed' = strayed \cup (IF s.index = s.color THEN {} ELSE {s.index, s.color})
            /\ SaveWithKey(s, mem.status, t, {key \in keys : key.tok = mem.seats[k].tok})
  BY DEF ResolveSeat
<1> DEFINE s == [mem.seats[k] EXCEPT !.tok = minted + 1]
           seats == [mem.seats EXCEPT ![k] = s]
           old == {key \in keys : key.tok = mem.seats[k].tok}
<1>3. mem.seats[k] \in SeatType
  BY Position
<1>4. minted \in 0 .. MaxKeys /\ MaxKeys \in Nat /\ minted < MaxKeys
  BY <1>1, BoundsAssumption DEF RoomInv, CountsOK
<1>5. minted + 1 \in 0 .. MaxKeys
  BY <1>4
<1>6. /\ s \in SeatType /\ s.index = mem.seats[k].index /\ s.color = mem.seats[k].color
      /\ s.tok = minted + 1 /\ s.occ = mem.seats[k].occ /\ s.bot = mem.seats[k].bot
  BY <1>3, <1>5 DEF SeatType
<1>7. mem.seats[k].occ = TRUE /\ mem.seats[k].bot = FALSE
  BY <1>1, <1>3 DEF SeatType
<1>8. /\ mem' = [status |-> mem.status, seats |-> seats]
      /\ mem.status \in {"none", "waiting", "playing", "finished"}
  BY <1>1 DEF Put, RoomInv, MemOK
<1>9. mem.status # "none"
  <2> SUFFICES ASSUME mem.status = "none" PROVE FALSE
    BY <1>8
  <2>1. mem.seats = <<>>
    BY DEF RoomInv, StartOK, NoRec
  <2> QED
    BY <2>1 DEF Positions
<1>10. SaveWithKey(s, mem.status, minted + 1, old)
  BY <1>1
<1>11. \A key \in Kept \ old : ~Opens(k, key.tok)
  BY DEF Opens, Kept
<1>12. /\ seats = [mem.seats EXCEPT ![k] = s]
       /\ strayed' = strayed \cup (IF s.index = s.color THEN {} ELSE {s.index, s.color})
  BY <1>1
<1> HIDE DEF s, seats, old
<1> QED
  BY <1>4, <1>6, <1>7, <1>8, <1>9, <1>10, <1>11, <1>12, KeyCommand

LEMMA LeaveSeatCommands ==
  ASSUME RoomInv, NEW key \in keys, LeaveSeat(key) PROVE Commands
<1>1. PICK k \in Positions :
        LET s == [Empty(mem.seats[k].index) EXCEPT !.color = mem.seats[k].color]
        IN  /\ Opens(k, key.tok) /\ mem.status = "waiting"
            /\ Put(mem.seats[k].index + 1, s)
            /\ (Committed(s, mem.status) \/ Failed(s, mem.status))
            /\ keys' = keys \ {key}
            /\ UNCHANGED <<minted, starting, owed, strayed>>
  BY DEF LeaveSeat
<1> DEFINE s == [Empty(mem.seats[k].index) EXCEPT !.color = mem.seats[k].color]
<1>2. mem.seats[k] \in SeatType /\ mem.seats[k].index = k - 1 /\ k \in 1 .. Len(mem.seats)
      /\ Len(mem.seats) \in Nat
  BY <1>1, Position
<1>3. /\ s \in SeatType /\ s.index = mem.seats[k].index /\ s.color = mem.seats[k].color
      /\ s.tok = NoKey /\ s.bot = FALSE
  BY <1>2, NoKeyIsOne DEF SeatType, Empty
<1>4. mem.seats[k].index + 1 = k
  BY <1>2
<1>5. /\ mem' = [status |-> "waiting", seats |-> [mem.seats EXCEPT ![k] = s]]
      /\ mem.status = "waiting"
  BY <1>1, <1>4 DEF Put, RoomInv, MemOK
<1>6. Writes(k, s, "waiting")
  <2>1. s.index = s.color
    BY <1>2, <1>3, <1>5, NothingStrays
  <2> QED
    BY <1>1, <1>3, <1>5, <2>1 DEF Writes, Committed, Failed
<1>7. ASSUME KeysApart PROVE \A other \in keys' : other \in keys /\ ~Opens(k, other.tok)
  <2> SUFFICES ASSUME NEW other \in keys', Opens(k, other.tok) PROVE FALSE
    BY <1>1
  <2>1. other \in keys /\ other # key
    BY <1>1
  <2>2. key.tok = other.tok
    BY <1>1 DEF Opens
  <2> QED
    BY <1>7, <2>1, <2>2 DEF KeysApart
<1>8. KeysHold /\ KeysApart /\ BotsSit => Rekeys(k, s)
  BY <1>1, <1>3, <1>7 DEF Rekeys
<1>9. minted' = minted /\ keys' \subseteq keys /\ CountsOK
  BY <1>1 DEF RoomInv
<1> HIDE DEF s
<1> QED
  BY <1>3, <1>5, <1>6, <1>8, <1>9 DEF Commands, CountsOK

\* The commands of the lobby, ResolveSeat among them.
LobbyCommand ==
  \/ \E u \in Ids : Join(u)
  \/ \E k \in Positions : AddBot(k) \/ RemoveBot(k) \/ CancelSeatInvite(k)
  \/ \E k \in Positions, u \in Users : InviteSeat(k, u) \/ DeclineSeatInvite(k, u)
  \/ \E key \in keys : LeaveSeat(key)
  \/ \E u \in Users : ResolveSeat(u)

LEMMA LobbyCommands ==
  ASSUME RoomInv, LobbyCommand PROVE Commands
<1>1. CASE \E u \in Ids : Join(u)
  BY <1>1, JoinCommands
<1>2. CASE \E k \in Positions : AddBot(k)
  BY <1>2, AddBotCommands
<1>3. CASE \E k \in Positions : RemoveBot(k)
  BY <1>3, RemoveBotCommands
<1>4. CASE \E k \in Positions : CancelSeatInvite(k)
  BY <1>4, UninviteCommands DEF CancelSeatInvite
<1>5. CASE \E k \in Positions, u \in Users : InviteSeat(k, u)
  BY <1>5, InviteSeatCommands
<1>6. CASE \E k \in Positions, u \in Users : DeclineSeatInvite(k, u)
  BY <1>6, UninviteCommands DEF DeclineSeatInvite
<1>7. CASE \E key \in keys : LeaveSeat(key)
  BY <1>7, LeaveSeatCommands
<1>8. CASE \E u \in Users : ResolveSeat(u)
  BY <1>8, ResolveSeatCommands
<1> QED
  BY <1>1, <1>2, <1>3, <1>4, <1>5, <1>6, <1>7, <1>8 DEF LobbyCommand

-----------------------------------------------------------------------------
(* RoomInv is kept.                                                        *)

LEMMA RowsFunction ==
  ASSUME NEW rows
  PROVE  rows \in Rows <=> /\ DOMAIN rows \subseteq Colors
                           /\ rows \in [DOMAIN rows -> SeatType]
BY DEF Rows

\* What UpdateSeat does to rows that are there.
LEMMA UpdatedRows ==
  ASSUME DbOK(db), NEW s \in SeatType, NEW st \in {"waiting", "playing", "finished"},
         st = "waiting" => db.status \in {"waiting", "gone"}, NEW d, d = Updated(s, st)
  PROVE  /\ DbOK(d) /\ DOMAIN d.rows = DOMAIN db.rows
         /\ db.status = "gone" => d = db
         /\ db.status # "gone" => d.status = st
         /\ \A i \in DOMAIN db.rows : i # s.index => d.rows[i] = db.rows[i]
         /\ db.status # "gone" => \A i \in DOMAIN db.rows : i = s.index =>
              d.rows[i] = [s EXCEPT !.color = i]
<1>1. CASE db.status = "gone"
  BY <1>1 DEF Updated
<1>2. CASE db.status # "gone"
  <2>1. PICK rows : rows = db.rows
    OBVIOUS
  <2>2. DOMAIN rows \subseteq Colors /\ rows \in [DOMAIN rows -> SeatType]
    BY <2>1, RowsFunction DEF DbOK
  <2>3. \A i \in DOMAIN rows : rows[i].index = i /\ rows[i].color = i
    BY <2>1 DEF DbOK
  <2>4. PICK q : q = [i \in DOMAIN rows |-> IF i = s.index THEN [s EXCEPT !.color = rows[i].color]
                                           ELSE rows[i]]
    OBVIOUS
  <2>5. d = [status |-> st, rows |-> q]
    BY <1>2, <2>1, <2>4 DEF Updated
  <2>6. DOMAIN q = DOMAIN rows
    BY <2>4
  <2>7. /\ \A i \in DOMAIN rows : i # s.index => q[i] = rows[i]
        /\ \A i \in DOMAIN rows : i = s.index => q[i] = [s EXCEPT !.color = i]
    BY <2>3, <2>4
  <2>8. \A c \in Colors : LET r == [s EXCEPT !.color = c]
                          IN  r \in SeatType /\ r.index = s.index /\ r.color = c
    BY DEF SeatType
  <2>9. \A i \in DOMAIN rows : q[i] \in SeatType /\ q[i].index = i /\ q[i].color = i
    BY <2>2, <2>3, <2>7, <2>8
  <2>10. q \in Rows
    BY <2>2, <2>4, <2>6, <2>9, RowsFunction
  <2>11. st = "waiting" => db.status = "waiting"
    BY <1>2
  <2>12. DbOK(d)
    <3>1. d.status = "waiting" => \E n \in 2 .. NSeats : DOMAIN d.rows = 0 .. n - 1
      BY <2>1, <2>5, <2>6, <2>11 DEF DbOK
    <3>2. d \in [status : {"waiting", "playing", "finished", "gone"}, rows : Rows]
      BY <2>5, <2>10
    <3> QED
      BY <2>5, <2>6, <2>9, <3>1, <3>2 DEF DbOK
  <2> QED
    BY <1>2, <2>1, <2>5, <2>6, <2>7, <2>12
<1> QED
  BY <1>1, <1>2

LEMMA MemRecord ==
  ASSUME NEW st \in {"none", "waiting", "playing", "finished"}, NEW r \in Seq(SeatType),
         NEW n \in Nat, n = Len(r), n <= NSeats,
         \A i, j \in 1 .. n : i < j => r[i].color < r[j].color,
         (\A j \in 1 .. n : r[j].color = j - 1) => \A j \in 1 .. n : r[j].index = j - 1
  PROVE  MemOK([status |-> st, seats |-> r])
<1>1. PICK m : m = [status |-> st, seats |-> r]
  OBVIOUS
<1>2. m \in [status : {"none", "waiting", "playing", "finished"}, seats : Seq(SeatType)]
  BY <1>1
<1>3. m.seats = r
  BY <1>1
<1>4. MemOK(m)
  BY <1>2, <1>3 DEF MemOK
<1> QED
  BY <1>1, <1>4

\* What a command leaves in memory.
LEMMA RewrittenSeats ==
  ASSUME MemOK(mem), NEW k \in Positions, NEW s \in SeatType,
         s.index = mem.seats[k].index, s.color = mem.seats[k].color,
         NEW st \in {"waiting", "playing", "finished"},
         NEW m, m = [status |-> st, seats |-> [mem.seats EXCEPT ![k] = s]]
  PROVE  /\ MemOK(m) /\ Len(m.seats) = Len(mem.seats) /\ DOMAIN m.seats = DOMAIN mem.seats
         /\ DOMAIN mem.seats = 1 .. Len(mem.seats) /\ Len(mem.seats) \in Nat
         /\ m.status = st /\ m.seats[k] = s
         /\ \A j \in DOMAIN mem.seats : /\ j # k => m.seats[j] = mem.seats[j]
                                        /\ m.seats[j].index = mem.seats[j].index
                                        /\ m.seats[j].color = mem.seats[j].color
                                        /\ m.seats[j] \in SeatType
<1>1. PICK q \in Seq(SeatType) : q = mem.seats
  BY DEF MemOK
<1>2. PICK n \in Nat : n = Len(q) /\ q \in [1 .. n -> SeatType] /\ DOMAIN q = 1 .. n
  BY LenProperties
<1>3. PICK r : r = [q EXCEPT ![k] = s]
  OBVIOUS
<1>4. k \in 1 .. n
  BY <1>1, <1>2 DEF Positions
<1>5. r \in [1 .. n -> SeatType] /\ r[k] = s /\ \A j \in 1 .. n : j # k => r[j] = q[j]
  BY <1>2, <1>3, <1>4
<1>6. r \in Seq(SeatType) /\ Len(r) = n /\ DOMAIN r = 1 .. n
  <2>1. r \in Seq(SeatType)
    BY <1>5, SeqDef
  <2> QED
    BY <1>5, <2>1, LenProperties
<1>7. m = [status |-> st, seats |-> r]
  BY <1>1, <1>3
<1>8. \A j \in 1 .. n : r[j].index = q[j].index /\ r[j].color = q[j].color /\ r[j] \in SeatType
  BY <1>1, <1>5
<1>9. MemOK(m)
  <2>2. n <= NSeats /\ \A i, j \in 1 .. n : i < j => q[i].color < q[j].color
    BY <1>1, <1>2 DEF MemOK
  <2>3. (\A j \in 1 .. n : q[j].color = j - 1) => \A j \in 1 .. n : q[j].index = j - 1
    BY <1>1, <1>2 DEF MemOK
  <2>4. \A i, j \in 1 .. n : i < j => r[i].color < r[j].color
    BY <1>8, <2>2
  <2>5. (\A j \in 1 .. n : r[j].color = j - 1) => \A j \in 1 .. n : r[j].index = j - 1
    BY <1>8, <2>3
  <2> QED
    BY <1>6, <1>7, <2>2, <2>4, <2>5, MemRecord
<1> QED
  BY <1>1, <1>2, <1>5, <1>6, <1>7, <1>8, <1>9

LEMMA CommandsKeepRoom ==
  ASSUME RoomInv, Commands PROVE RoomInv'
<1>1. PICK k \in Positions, s \in SeatType, st \in {"waiting", "playing", "finished"} :
        /\ Writes(k, s, st)
        /\ keys' \subseteq [tok : 1 .. MaxKeys, color : Colors, user : Ids]
        /\ minted' \in 0 .. MaxKeys
  BY DEF Commands
<1>2. /\ MemOK(mem) /\ DbOK(db) /\ LobbyOK(mem, db) /\ StartOK(mem, starting) /\ CountsOK
      /\ OwedOK(owed, mem.status)
  BY DEF RoomInv
<1>3. PICK m : m = mem' /\ m = [status |-> st, seats |-> [mem.seats EXCEPT ![k] = s]]
  BY <1>1 DEF Writes
<1>4. s.index = mem.seats[k].index /\ s.color = mem.seats[k].color
  BY <1>1 DEF Writes
<1>5. /\ MemOK(m) /\ Len(m.seats) = Len(mem.seats) /\ Len(mem.seats) \in Nat
      /\ m.status = st
      /\ \A j \in 1 .. Len(mem.seats) : /\ m.seats[j].index = mem.seats[j].index
                                        /\ m.seats[j].color = mem.seats[j].color
  BY <1>2, <1>3, <1>4, RewrittenSeats
<1>6. (mem.status = "waiting" /\ st \in {"waiting", "playing"}) \/ st = mem.status
  BY <1>1 DEF Writes
<1>7. st = "waiting" => mem.status = "waiting" /\ db.status \in {"waiting", "gone"}
  BY <1>2, <1>6 DEF LobbyOK
<1>8. PICK u : u = Updated(s, st)
  OBVIOUS
<1>9. /\ DbOK(u) /\ DOMAIN u.rows = DOMAIN db.rows
      /\ db.status = "gone" => u = db
      /\ db.status # "gone" => u.status = st
  BY <1>2, <1>7, <1>8, UpdatedRows
<1>10. PICK d : d = db' /\ d \in {db, u}
  BY <1>1, <1>8 DEF Writes
<1>11. DbOK(d)
  BY <1>2, <1>9, <1>10
<1>12. LobbyOK(m, d)
  <2> SUFFICES ASSUME st = "waiting" PROVE LobbyOK(m, d)
    BY <1>5 DEF LobbyOK
  <2>1. mem.status = "waiting" /\ db.status \in {"waiting", "gone"}
    BY <1>7
  <2>2. /\ Len(mem.seats) >= 2
        /\ \A j \in 1 .. Len(mem.seats) : mem.seats[j].index = j - 1 /\ mem.seats[j].color = j - 1
        /\ db.status = "waiting" => DOMAIN db.rows = 0 .. Len(mem.seats) - 1
    BY <1>2, <2>1 DEF LobbyOK
  <2>3. d.status = db.status /\ DOMAIN d.rows = DOMAIN db.rows
    BY <1>9, <1>10, <2>1
  <2> QED
    BY <1>5, <2>1, <2>2, <2>3 DEF LobbyOK
<1>13. StartOK(m, starting)
  <2>1. starting = "trimmed" => st = mem.status /\ st \in {"playing", "finished"}
    BY <1>2, <1>6 DEF StartOK
  <2> QED
    BY <1>2, <1>5, <2>1 DEF StartOK
<1>14. starting' = starting /\ CountsOK'
  <2>1. mishaps \in 0 .. MaxMishaps /\ MaxMishaps \in Nat
    BY <1>2, BoundsAssumption DEF CountsOK
  <2>2. mishaps' = mishaps \/ (mishaps < MaxMishaps /\ mishaps' = mishaps + 1)
    BY <1>1 DEF Writes
  <2>3. mishaps' \in 0 .. MaxMishaps
    BY <2>1, <2>2
  <2>4. strayed' \subseteq Colors
    <3>1. strayed' = strayed \cup (IF s.index = s.color THEN {} ELSE {s.index, s.color})
      BY <1>1 DEF Writes
    <3>2. s.index \in Colors /\ s.color \in Colors
      BY DEF SeatType
    <3> QED
      BY <1>2, <3>1, <3>2 DEF CountsOK
  <2> QED
    BY <1>1, <2>3, <2>4 DEF Writes, CountsOK
<1>15. OwedOK(owed', mem'.status)
  <2>1. owed' = owed /\ mem'.status = st
    BY <1>1, <1>3, <1>5 DEF Writes
  <2> QED
    BY <1>2, <1>6, <2>1 DEF OwedOK
<1> QED
  BY <1>3, <1>5, <1>10, <1>11, <1>12, <1>13, <1>14, <1>15 DEF RoomInv

LEMMA SmallSet ==
  ASSUME NEW a \in Nat, NEW n \in Nat, NEW S \in SUBSET (a .. n)
  PROVE  /\ IsFiniteSet(S) /\ S \in SUBSET Nat /\ Cardinality(S) \in Nat
         /\ (a = 0 => Cardinality(S) <= n + 1) /\ (a = 1 => Cardinality(S) <= n)
<1>1. a \in Int /\ n \in Int
  OBVIOUS
<1>2. IsFiniteSet(a .. n) /\ Cardinality(a .. n) = IF a > n THEN 0 ELSE n - a + 1
  BY <1>1, FS_Interval, Zenon
<1>3. IsFiniteSet(S) /\ Cardinality(S) <= Cardinality(a .. n)
  BY <1>2, FS_Subset
<1>4. Cardinality(S) \in Nat
  BY <1>3, FS_CardinalityType
<1> QED
  BY <1>2, <1>3, <1>4

\* The occupied seats of the record, in their order.
Taken == {k \in Positions : mem.seats[k].occ}

LEMMA OccupiedSeats ==
  ASSUME MemOK(mem)
  PROVE  /\ Occupied(mem.seats) \in Seq(SeatType)
         /\ Len(Occupied(mem.seats)) <= Len(mem.seats) /\ Len(mem.seats) \in Nat
         /\ Len(Occupied(mem.seats)) \in Nat
         /\ DOMAIN Occupied(mem.seats) = 1 .. Len(Occupied(mem.seats))
         /\ Positions = 1 .. Len(mem.seats)
         /\ \E at : Lists(Occupied(mem.seats), mem.seats, Taken, at)
<1>1. PICK q \in Seq(SeatType) : q = mem.seats
  BY DEF MemOK
<1>2. PICK n \in Nat : n = Len(q) /\ q \in [1 .. n -> SeatType] /\ DOMAIN q = 1 .. n
  BY LenProperties
<1>3. PICK S : S = Taken
  OBVIOUS
<1>4. S \in SUBSET (1 .. n) /\ S = {k \in DOMAIN q : q[k].occ}
  BY <1>1, <1>2, <1>3 DEF Taken, Positions
<1>5. IsFiniteSet(S) /\ S \in SUBSET Nat /\ Cardinality(S) <= n
  <2>1. 1 \in Nat /\ n \in Nat /\ S \in SUBSET (1 .. n)
    BY <1>4
  <2> QED
    BY <2>1, SmallSet
<1>6. Occupied(q) = InOrder(q, S)
  BY <1>4 DEF Occupied
<1>7. \A i \in S : q[i] \in SeatType
  BY <1>2, <1>4
<1>8. /\ InOrder(q, S) \in Seq(SeatType) /\ Len(InOrder(q, S)) = Cardinality(S)
      /\ Cardinality(S) \in Nat /\ DOMAIN InOrder(q, S) = 1 .. Cardinality(S)
      /\ \E at : Lists(InOrder(q, S), q, S, at)
  BY <1>5, <1>7, InOrderLists
<1>9. Positions = 1 .. n
  BY <1>1, <1>2 DEF Positions
<1> HIDE DEF SeatType
<1> QED
  BY <1>1, <1>2, <1>3, <1>5, <1>6, <1>8, <1>9

LEMMA LoadedFromRows ==
  ASSUME DbOK(db)
  PROVE  /\ LoadedSeats \in Seq(SeatType) /\ Len(LoadedSeats) <= NSeats
         /\ Len(LoadedSeats) \in Nat
         /\ DOMAIN LoadedSeats = 1 .. Len(LoadedSeats)
         /\ \E at : Lists(LoadedSeats, db.rows, DOMAIN db.rows, at)
<1>1. PICK rows : rows = db.rows
  OBVIOUS
<1>2. DOMAIN rows \subseteq Colors /\ rows \in [DOMAIN rows -> SeatType]
  BY <1>1, RowsFunction DEF DbOK
<1>3. PICK S : S = DOMAIN rows
  OBVIOUS
<1>4. NSeats - 1 \in Nat /\ NSeats \in Nat /\ S \in SUBSET (0 .. NSeats - 1)
  BY <1>2, <1>3, SeatsAssumption DEF Colors
<1>5. IsFiniteSet(S) /\ S \in SUBSET Nat /\ Cardinality(S) <= (NSeats - 1) + 1
  <2>1. 0 \in Nat /\ NSeats - 1 \in Nat /\ S \in SUBSET (0 .. NSeats - 1)
    BY <1>4
  <2> QED
    BY <2>1, SmallSet
<1>6. \A i \in S : rows[i] \in SeatType
  BY <1>2, <1>3
<1>7. /\ InOrder(rows, S) \in Seq(SeatType) /\ Len(InOrder(rows, S)) = Cardinality(S)
      /\ Cardinality(S) \in Nat /\ DOMAIN InOrder(rows, S) = 1 .. Cardinality(S)
      /\ \E at : Lists(InOrder(rows, S), rows, S, at)
  BY <1>5, <1>6, InOrderLists
<1>8. LoadedSeats = InOrder(rows, S)
  BY <1>1, <1>3 DEF LoadedSeats
<1>9. Cardinality(S) <= NSeats
  BY <1>4, <1>5, <1>7
<1> HIDE DEF SeatType
<1> QED
  BY <1>1, <1>3, <1>7, <1>8, <1>9

\* The record after a start: the occupied seats, numbered by position.
TrimmedSeats == [k \in DOMAIN Occupied(mem.seats) |->
                   [Occupied(mem.seats)[k] EXCEPT !.index = k - 1]]

LEMMA TrimmedRecord ==
  ASSUME MemOK(mem), mem' = [status |-> "playing", seats |-> TrimmedSeats]
  PROVE  /\ MemOK(mem') /\ mem'.status = "playing"
         /\ Len(mem'.seats) = Len(Occupied(mem.seats))
         /\ Len(mem'.seats) \in Nat /\ DOMAIN mem'.seats = 1 .. Len(mem'.seats)
         /\ \E at : /\ at \in [1 .. Len(mem'.seats) -> Taken]
                    /\ \A i \in Taken : \E k \in 1 .. Len(mem'.seats) : at[k] = i
                    /\ \A k \in 1 .. Len(mem'.seats) :
                         mem'.seats[k] = [mem.seats[at[k]] EXCEPT !.index = k - 1]
<1>1. PICK kept \in Seq(SeatType) : kept = Occupied(mem.seats)
  BY OccupiedSeats
<1>2. PICK n \in Nat : n = Len(kept) /\ DOMAIN kept = 1 .. n /\ n <= Len(mem.seats)
                       /\ Len(mem.seats) \in Nat /\ Positions = 1 .. Len(mem.seats)
  BY <1>1, OccupiedSeats
<1>3. PICK at : Lists(kept, mem.seats, Taken, at)
  BY <1>1, OccupiedSeats
<1>4. /\ at \in [1 .. n -> Taken]
      /\ \A j, k \in 1 .. n : j < k => at[j] < at[k]
      /\ \A i \in Taken : \E k \in 1 .. n : at[k] = i
      /\ \A k \in 1 .. n : kept[k] = mem.seats[at[k]]
  BY <1>2, <1>3 DEF Lists
<1>5. PICK r : r = [k \in 1 .. n |-> [mem.seats[at[k]] EXCEPT !.index = k - 1]]
  OBVIOUS
<1>6. TrimmedSeats = r
  BY <1>1, <1>2, <1>4, <1>5 DEF TrimmedSeats
<1>7. Len(mem.seats) <= NSeats /\ NSeats \in Nat
      /\ \A j, k \in 1 .. Len(mem.seats) : j < k => mem.seats[j].color < mem.seats[k].color
  BY SeatsAssumption DEF MemOK
<1>8. \A k \in 1 .. n : /\ at[k] \in 1 .. Len(mem.seats) /\ mem.seats[at[k]] \in SeatType
                        /\ k - 1 \in Colors
  <2> SUFFICES ASSUME NEW k \in 1 .. n
               PROVE  /\ at[k] \in 1 .. Len(mem.seats) /\ mem.seats[at[k]] \in SeatType
                      /\ k - 1 \in Colors
    OBVIOUS
  <2>1. at[k] \in 1 .. Len(mem.seats)
    BY <1>2, <1>4 DEF Taken
  <2>2. kept[k] \in SeatType
    BY <1>2, ElementOfSeq
  <2> QED
    BY <1>2, <1>4, <1>7, <2>1, <2>2 DEF Colors
<1>9. \A x \in SeatType, c \in Colors :
         LET y == [x EXCEPT !.index = c]
         IN  y \in SeatType /\ y.index = c /\ y.color = x.color
  BY DEF SeatType
<1>10. \A k \in 1 .. n : /\ r[k] \in SeatType /\ r[k].index = k - 1
                         /\ r[k].color = mem.seats[at[k]].color
  BY <1>5, <1>8, <1>9
<1>11. r \in Seq(SeatType) /\ Len(r) = n /\ DOMAIN r = 1 .. n
  <2>1. r \in [1 .. n -> SeatType] /\ DOMAIN r = 1 .. n
    BY <1>5, <1>10
  <2>2. r \in Seq(SeatType)
    BY <2>1, SeqDef
  <2> QED
    BY <2>1, <2>2, LenProperties
<1>12. \A i, j \in 1 .. n : i < j => r[i].color < r[j].color
  BY <1>4, <1>7, <1>8, <1>10
<1>13. n <= NSeats
  BY <1>2, <1>7
<1>14. MemOK([status |-> "playing", seats |-> r])
  BY <1>10, <1>11, <1>12, <1>13, MemRecord
<1>15. mem' = [status |-> "playing", seats |-> r]
  BY <1>6
<1>16. mem'.status = "playing" /\ mem'.seats = r
  BY <1>15
<1>17. \A k \in 1 .. n : r[k] = [mem.seats[at[k]] EXCEPT !.index = k - 1]
  BY <1>5
<1> HIDE DEF SeatType
<1>18. /\ MemOK(mem') /\ mem'.status = "playing"
       /\ Len(mem'.seats) = Len(Occupied(mem.seats))
       /\ Len(mem'.seats) = n /\ DOMAIN mem'.seats = 1 .. Len(mem'.seats)
  BY <1>1, <1>2, <1>11, <1>14, <1>15, <1>16
<1>19. /\ at \in [1 .. Len(mem'.seats) -> Taken]
       /\ \A i \in Taken : \E k \in 1 .. Len(mem'.seats) : at[k] = i
       /\ \A k \in 1 .. Len(mem'.seats) :
            mem'.seats[k] = [mem.seats[at[k]] EXCEPT !.index = k - 1]
  BY <1>4, <1>16, <1>17, <1>18
<1> QED
  BY <1>18, <1>19

LEMMA StartTrimKeepsRoom ==
  ASSUME RoomInv, StartTrim PROVE RoomInv'
<1>1. MemOK(mem) /\ DbOK(db) /\ CountsOK /\ OwedOK(owed, mem.status)
  BY DEF RoomInv
<1>2. /\ mem.status = "waiting" /\ mem' = [status |-> "playing", seats |-> TrimmedSeats]
      /\ starting' = "trimmed" /\ UNCHANGED <<db, keys, minted, owed, strayed, mishaps>>
  BY DEF StartTrim, TrimmedSeats
<1>3. MemOK(mem') /\ mem'.status = "playing"
  BY <1>1, <1>2, TrimmedRecord
<1>4. LobbyOK(mem', db') /\ StartOK(mem', starting')
  BY <1>2, <1>3 DEF LobbyOK, StartOK
<1>5. DbOK(db') /\ CountsOK' /\ OwedOK(owed', mem'.status)
  BY <1>1, <1>2, <1>3 DEF CountsOK, OwedOK
<1> QED
  BY <1>3, <1>4, <1>5 DEF RoomInv

LEMMA FinalizedRows ==
  ASSUME DbOK(db), NEW d, d = [status |-> "playing", rows |-> [i \in Trimmed |-> db.rows[i]]]
  PROVE  /\ DbOK(d) /\ d.status = "playing"
         /\ DOMAIN d.rows = Trimmed /\ \A i \in Trimmed : i \in DOMAIN db.rows /\ d.rows[i] = db.rows[i]
<1>1. PICK rows : rows = db.rows
  OBVIOUS
<1>2. /\ DOMAIN rows \subseteq Colors /\ rows \in [DOMAIN rows -> SeatType]
      /\ \A i \in DOMAIN rows : rows[i].index = i /\ rows[i].color = i
  BY <1>1, RowsFunction DEF DbOK
<1>3. PICK T : T = Trimmed /\ T \subseteq DOMAIN rows
  BY <1>1 DEF Trimmed
<1>4. PICK q : q = [i \in T |-> rows[i]]
  OBVIOUS
<1>5. d = [status |-> "playing", rows |-> q]
  BY <1>1, <1>3, <1>4
<1>6. q \in Rows /\ DOMAIN q = T /\ \A i \in T : q[i] = rows[i]
  BY <1>2, <1>3, <1>4, RowsFunction
<1>7. d \in [status : {"waiting", "playing", "finished", "gone"}, rows : Rows]
  BY <1>5, <1>6
<1>8. d.status = "playing" /\ d.rows = q
  BY <1>5
<1>9. DbOK(d)
  BY <1>2, <1>3, <1>6, <1>7, <1>8 DEF DbOK
<1> QED
  BY <1>1, <1>3, <1>6, <1>8, <1>9

LEMMA FinalizeStartKeepsRoom ==
  ASSUME RoomInv, FinalizeStart PROVE RoomInv'
<1>1. MemOK(mem) /\ DbOK(db) /\ CountsOK /\ StartOK(mem, starting)
  BY DEF RoomInv
<1>2. /\ starting = "trimmed" /\ starting' = "no"
      /\ UNCHANGED <<mem, keys, minted, owed, strayed>>
  BY DEF FinalizeStart
<1>3. mem.status \in {"playing", "finished"}
  BY <1>1, <1>2 DEF StartOK
<1>4. DbOK(db')
  <2>1. db' = db \/ db' = [status |-> "playing", rows |-> [i \in Trimmed |-> db.rows[i]]]
    BY DEF FinalizeStart
  <2> QED
    BY <1>1, <2>1, FinalizedRows
<1>5. CountsOK'
  <2>1. mishaps \in 0 .. MaxMishaps /\ MaxMishaps \in Nat
    BY <1>1, BoundsAssumption DEF CountsOK
  <2>2. mishaps' = mishaps \/ (mishaps < MaxMishaps /\ mishaps' = mishaps + 1)
    BY DEF FinalizeStart
  <2> QED
    BY <1>1, <1>2, <2>1, <2>2 DEF CountsOK
<1>6. LobbyOK(mem', db') /\ StartOK(mem', starting')
  BY <1>2, <1>3 DEF LobbyOK, StartOK
<1> QED
  BY <1>1, <1>2, <1>4, <1>5, <1>6 DEF RoomInv

\* What the moves and the ends of the game come to: memory takes one status,
\* the row another or none.
Status(st) ==
  /\ mem.status \in {"playing", "finished"} /\ st \in {"playing", "finished"}
  /\ st = mem.status \/ mem.status = "playing"
  /\ mem' = [status |-> st, seats |-> mem.seats]
  /\ db' = db \/ \E w \in {"playing", "finished"} : db' = Carried(w)
  /\ mishaps' = mishaps \/ (mishaps < MaxMishaps /\ mishaps' = mishaps + 1)
  /\ UNCHANGED <<keys, minted, starting, strayed>>

GameStep ==
  \/ \E st \in {"playing", "finished"}, ok \in BOOLEAN : Move(st, ok)
  \/ \E st \in {"playing", "finished"} : BotMove(st)
  \/ \E by \in {"call", "timer"} : Decide(by)
  \/ \E w \in {"bot", "won", "call", "timer"} : Persist(w)

LEMMA PlaysStatus ==
  ASSUME MemOK(mem), NEW st \in {"playing", "finished"}, Plays(st)
  PROVE  /\ mem.status = "playing" /\ mem' = [status |-> st, seats |-> mem.seats]
         /\ mem'.status = st
BY DEF Plays, MemOK

LEMMA CarriesStatus ==
  ASSUME NEW w \in {"playing", "finished"}, NEW ok \in BOOLEAN, Carries(w, ok)
  PROVE  /\ db' = db \/ \E v \in {"playing", "finished"} : db' = Carried(v)
         /\ mishaps' = mishaps \/ (mishaps < MaxMishaps /\ mishaps' = mishaps + 1)
<1>1. CASE ok = TRUE
  BY <1>1 DEF Carries
<1>2. CASE ok = FALSE
  BY <1>2 DEF Carries
<1> QED
  BY <1>1, <1>2

LEMMA GameIsStatus ==
  ASSUME RoomInv, GameStep
  PROVE  \E st \in {"playing", "finished"} :
           Status(st) /\ mem'.status = st /\ OwedOK(owed', st)
<1>1. MemOK(mem) /\ OwedOK(owed, mem.status)
  BY DEF RoomInv
<1>2. CASE \E st \in {"playing", "finished"}, ok \in BOOLEAN : Move(st, ok)
  <2>1. PICK st \in {"playing", "finished"}, ok \in BOOLEAN : Move(st, ok)
    BY <1>2
  <2>2. Plays(st) /\ Carries(st, ok) /\ UNCHANGED <<keys, minted, starting, owed, strayed>>
    BY <2>1 DEF Move
  <2>3. OwedOK(owed', st)
    BY <1>1, <2>2, PlaysStatus DEF OwedOK
  <2> QED
    BY <1>1, <2>2, <2>3, PlaysStatus, CarriesStatus DEF Status
<1>3. CASE \E st \in {"playing", "finished"} : BotMove(st)
  <2>1. PICK st \in {"playing", "finished"} : BotMove(st)
    BY <1>3
  <2>2. /\ Plays(st) /\ owed' = owed \cup {IF st = "playing" THEN "bot" ELSE "won"}
        /\ UNCHANGED <<db, keys, minted, starting, strayed, mishaps>>
    BY <2>1 DEF BotMove
  <2>3. OwedOK(owed', st)
    BY <1>1, <2>2, PlaysStatus DEF OwedOK, Results
  <2> QED
    BY <1>1, <2>2, <2>3, PlaysStatus DEF Status
<1>4. CASE \E by \in {"call", "timer"} : Decide(by)
  <2>1. PICK by \in {"call", "timer"} : Decide(by)
    BY <1>4
  <2>2. /\ Plays("finished") /\ owed' = owed \cup {by}
        /\ UNCHANGED <<db, keys, minted, starting, strayed, mishaps>>
    BY <2>1 DEF Decide
  <2>3. OwedOK(owed', "finished")
    BY <1>1, <2>2 DEF OwedOK, Results
  <2> QED
    BY <1>1, <2>2, <2>3, PlaysStatus DEF Status
<1>5. CASE \E w \in {"bot", "won", "call", "timer"} : Persist(w)
  <2>1. PICK w \in {"bot", "won", "call", "timer"} : Persist(w)
    BY <1>5
  <2>2. PICK ok \in BOOLEAN :
          /\ w \in owed /\ owed' = owed \ {w} /\ mem' = mem
          /\ Carries(IF w = "bot" THEN "playing" ELSE "finished", ok)
          /\ UNCHANGED <<keys, minted, starting, strayed>>
    BY <2>1 DEF Persist
  <2>3. mem.status \in {"playing", "finished"} /\ OwedOK(owed', mem.status)
    BY <1>1, <2>2 DEF OwedOK
  <2>4. mem' = [status |-> mem.status, seats |-> mem.seats]
    BY <1>1, <2>2 DEF MemOK
  <2>5. /\ db' = db \/ \E v \in {"playing", "finished"} : db' = Carried(v)
        /\ mishaps' = mishaps \/ (mishaps < MaxMishaps /\ mishaps' = mishaps + 1)
    BY <2>2, CarriesStatus
  <2> QED
    BY <2>2, <2>3, <2>4, <2>5 DEF Status
<1> QED
  BY <1>2, <1>3, <1>4, <1>5 DEF GameStep

LEMMA CarriedRows ==
  ASSUME DbOK(db), NEW st \in {"playing", "finished"}, NEW d, d = Carried(st)
  PROVE  /\ DbOK(d) /\ d.rows = db.rows
         /\ db.status = "gone" => d = db
         /\ db.status # "gone" => d.status = st
<1>1. CASE db.status = "gone"
  BY <1>1 DEF Carried
<1>2. CASE db.status # "gone"
  <2>1. PICK rows \in Rows : rows = db.rows
    BY DEF DbOK
  <2>2. d = [status |-> st, rows |-> rows]
    BY <1>2, <2>1 DEF DbOK, Carried
  <2>3. \A i \in DOMAIN rows : rows[i].index = i /\ rows[i].color = i
    BY <2>1 DEF DbOK
  <2>4. d \in [status : {"waiting", "playing", "finished", "gone"}, rows : Rows]
        /\ d.status = st /\ d.rows = rows
    BY <2>2
  <2>5. DbOK(d)
    BY <2>3, <2>4 DEF DbOK
  <2> QED
    BY <1>2, <2>1, <2>4, <2>5
<1> QED
  BY <1>1, <1>2

LEMMA GameKeepsRoom ==
  ASSUME RoomInv, GameStep PROVE RoomInv'
<1>1. MemOK(mem) /\ DbOK(db) /\ CountsOK /\ StartOK(mem, starting)
  BY DEF RoomInv
<1>2. PICK st \in {"playing", "finished"} :
        Status(st) /\ mem'.status = st /\ OwedOK(owed', st)
  BY GameIsStatus
<1>3. PICK r \in Seq(SeatType) : r = mem.seats
  BY <1>1 DEF MemOK
<1>4. mem' = [status |-> st, seats |-> r]
  BY <1>2, <1>3 DEF Status
<1>5. MemOK(mem')
  <2>1. PICK n \in Nat : n = Len(r)
    BY <1>3, LenProperties
  <2>2. MemOK([status |-> st, seats |-> r])
    BY <1>1, <1>3, <2>1, MemRecord DEF MemOK
  <2> QED
    BY <1>4, <2>2
<1>6. DbOK(db')
  BY <1>1, <1>2, CarriedRows DEF Status
<1>7. CountsOK'
  <2>1. mishaps \in 0 .. MaxMishaps /\ MaxMishaps \in Nat
    BY <1>1, BoundsAssumption DEF CountsOK
  <2>2. mishaps' = mishaps \/ (mishaps < MaxMishaps /\ mishaps' = mishaps + 1)
    BY <1>2 DEF Status
  <2> QED
    BY <1>1, <1>2, <2>1, <2>2 DEF CountsOK, Status
<1>8. LobbyOK(mem', db') /\ StartOK(mem', starting')
  BY <1>1, <1>2 DEF LobbyOK, StartOK, Status
<1> QED
  BY <1>2, <1>5, <1>6, <1>7, <1>8 DEF RoomInv

\* The record a process makes of the rows.
LEMMA LoadedRecord ==
  ASSUME DbOK(db), db.status # "gone", mem' = [status |-> db.status, seats |-> LoadedSeats]
  PROVE  /\ MemOK(mem') /\ LobbyOK(mem', db) /\ mem'.status = db.status
         /\ mem'.seats = LoadedSeats /\ DOMAIN mem'.seats = 1 .. Len(mem'.seats)
         /\ Len(mem'.seats) \in Nat
         /\ \E at : /\ Lists(mem'.seats, db.rows, DOMAIN db.rows, at)
                    /\ \A k \in 1 .. Len(mem'.seats) : mem'.seats[k].color = at[k]
<1>1. PICK r \in Seq(SeatType) : r = LoadedSeats
  BY LoadedFromRows
<1>2. PICK n \in Nat : n = Len(r) /\ DOMAIN r = 1 .. n /\ n <= NSeats
  BY <1>1, LoadedFromRows
<1>3. PICK rows : rows = db.rows
  OBVIOUS
<1>4. DOMAIN rows \subseteq Nat /\ \A i \in DOMAIN rows : rows[i].index = i /\ rows[i].color = i
  BY <1>3, RowsFunction, SeatsAssumption DEF DbOK, Colors
<1>5. PICK at : Lists(r, rows, DOMAIN rows, at)
  BY <1>1, <1>3, LoadedFromRows
<1>6. /\ at \in [1 .. n -> DOMAIN rows]
      /\ \A j, k \in 1 .. n : j < k => at[j] < at[k]
      /\ \A i \in DOMAIN rows : \E k \in 1 .. n : at[k] = i
      /\ \A k \in 1 .. n : r[k] = rows[at[k]]
  BY <1>2, <1>5 DEF Lists
<1>7. \A k \in 1 .. n : r[k].index = at[k] /\ r[k].color = at[k]
  BY <1>4, <1>6
<1>8. \A j, k \in 1 .. n : j < k => r[j].color < r[k].color
  BY <1>6, <1>7
<1>9. (\A k \in 1 .. n : r[k].color = k - 1) => \A k \in 1 .. n : r[k].index = k - 1
  BY <1>7
<1>10. PICK st \in {"waiting", "playing", "finished"} : st = db.status
  BY DEF DbOK
<1>11. MemOK([status |-> st, seats |-> r])
  BY <1>2, <1>8, <1>9, MemRecord
<1>12. mem' = [status |-> st, seats |-> r]
  BY <1>1, <1>10
<1>13. mem'.status = st /\ mem'.seats = r
  BY <1>12
<1>14. st = "waiting" => /\ n >= 2 /\ DOMAIN rows = 0 .. n - 1
                         /\ \A k \in 1 .. n : at[k] = k - 1
  <2> SUFFICES ASSUME st = "waiting"
               PROVE  /\ n >= 2 /\ DOMAIN rows = 0 .. n - 1
                      /\ \A k \in 1 .. n : at[k] = k - 1
    OBVIOUS
  <2>1. PICK m \in 2 .. NSeats : DOMAIN rows = 0 .. m - 1
    BY <1>3, <1>10 DEF DbOK
  <2>2. m \in Nat /\ m >= 2
    BY SeatsAssumption
  <2>3. PICK p : p = [k \in 1 .. m |-> k - 1]
    OBVIOUS
  <2>4. Ascending(p, m)
    BY <2>2, <2>3 DEF Ascending
  <2>5. Ascending(at, n)
    BY <1>4, <1>6 DEF Ascending
  <2>6. Within(at, n, p, m)
    <3> SUFFICES ASSUME NEW k \in 1 .. n PROVE \E j \in 1 .. m : at[k] = p[j]
      BY DEF Within
    <3>1. at[k] \in 0 .. m - 1
      BY <1>6, <2>1
    <3>2. at[k] + 1 \in 1 .. m /\ at[k] = (at[k] + 1) - 1
      BY <2>2, <3>1
    <3> QED
      BY <2>3, <3>2
  <2>7. Within(p, m, at, n)
    <3> SUFFICES ASSUME NEW j \in 1 .. m PROVE \E k \in 1 .. n : p[j] = at[k]
      BY DEF Within
    <3>1. p[j] \in 0 .. m - 1
      BY <2>2, <2>3
    <3> QED
      BY <1>6, <2>1, <3>1
  <2>8. n = m /\ \A k \in 1 .. n : at[k] = p[k]
    BY <2>2, <2>4, <2>5, <2>6, <2>7, OneOrder
  <2> QED
    BY <2>1, <2>2, <2>3, <2>8
<1>15. LobbyOK(mem', db)
  BY <1>2, <1>3, <1>7, <1>10, <1>13, <1>14 DEF LobbyOK
<1>16. /\ Lists(mem'.seats, db.rows, DOMAIN db.rows, at)
       /\ \A k \in 1 .. Len(mem'.seats) : mem'.seats[k].color = at[k]
  BY <1>2, <1>3, <1>5, <1>7, <1>13
<1>17. /\ MemOK(mem') /\ mem'.status = db.status
       /\ mem'.seats = LoadedSeats /\ DOMAIN mem'.seats = 1 .. Len(mem'.seats)
       /\ Len(mem'.seats) \in Nat
  BY <1>1, <1>2, <1>10, <1>11, <1>12, <1>13
<1> QED
  BY <1>15, <1>16, <1>17

LEMMA LoadKeepsRoom ==
  ASSUME RoomInv, Load PROVE RoomInv'
<1>1. MemOK(mem) /\ DbOK(db) /\ CountsOK /\ StartOK(mem, starting)
  BY DEF RoomInv
<1>2. /\ mem = NoRec /\ db.status # "gone"
      /\ mem' = [status |-> db.status, seats |-> LoadedSeats]
      /\ UNCHANGED <<db, keys, minted, starting, owed, strayed, mishaps>>
  BY DEF Load
<1>3. MemOK(mem') /\ LobbyOK(mem', db) /\ mem'.status = db.status
  BY <1>1, <1>2, LoadedRecord
<1>4. starting = "no" /\ db.status # "none"
  BY <1>1, <1>2 DEF StartOK, NoRec, DbOK
<1>5. StartOK(mem', starting') /\ CountsOK'
  BY <1>1, <1>2, <1>3, <1>4 DEF StartOK, CountsOK
<1>6. OwedOK(owed', mem'.status)
  BY <1>2 DEF RoomInv, OwedOK, NoRec
<1> QED
  BY <1>1, <1>2, <1>3, <1>5, <1>6 DEF RoomInv

LEMMA DeleteKeepsRoom ==
  ASSUME RoomInv, DeleteStaleWaitingGames PROVE RoomInv'
<1>1. /\ MemOK(mem) /\ LobbyOK(mem, db) /\ CountsOK /\ StartOK(mem, starting)
      /\ OwedOK(owed, mem.status)
  BY DEF RoomInv
<1>2. /\ db' = [status |-> "gone", rows |-> <<>>]
      /\ UNCHANGED <<mem, keys, minted, starting, owed, strayed, mishaps>>
  BY DEF DeleteStaleWaitingGames
<1>3. <<>> \in Rows /\ DOMAIN <<>> = {}
  <2>1. DOMAIN <<>> = {}
    OBVIOUS
  <2>2. <<>> \in [DOMAIN <<>> -> SeatType]
    BY <2>1
  <2> QED
    BY <2>1, <2>2, RowsFunction
<1>4. DbOK(db')
  <2>1. PICK d : d = [status |-> "gone", rows |-> <<>>]
    OBVIOUS
  <2>2. d \in [status : {"waiting", "playing", "finished", "gone"}, rows : Rows]
        /\ d.status = "gone" /\ d.rows = <<>>
    BY <1>3, <2>1
  <2>3. DbOK(d)
    BY <1>3, <2>2 DEF DbOK
  <2> QED
    BY <1>2, <2>1, <2>3
<1>5. LobbyOK(mem', db') /\ StartOK(mem', starting') /\ CountsOK'
  BY <1>1, <1>2 DEF LobbyOK, StartOK, CountsOK
<1> QED
  BY <1>1, <1>2, <1>4, <1>5 DEF RoomInv

LEMMA NoRecOK == MemOK(NoRec) /\ NoRec.status = "none" /\ NoRec.seats = <<>>
<1>1. <<>> \in Seq(SeatType) /\ Len(<<>>) = 0
  BY EmptySeq
<1>2. 0 \in Nat /\ 0 <= NSeats
  BY SeatsAssumption
<1>3. MemOK([status |-> "none", seats |-> <<>>])
  <2>1. PICK r \in Seq(SeatType), n \in Nat : r = <<>> /\ n = 0
    BY <1>1
  <2>2. n = Len(r) /\ n <= NSeats /\ 1 .. n = {}
    BY <1>1, <1>2, <2>1
  <2>3. MemOK([status |-> "none", seats |-> r])
    BY <2>2, MemRecord
  <2> QED
    BY <2>1, <2>3
<1> QED
  BY <1>3 DEF NoRec

LEMMA LostKeepsRoom ==
  ASSUME RoomInv, Lost PROVE RoomInv'
<1>1. DbOK(db) /\ CountsOK
  BY DEF RoomInv
<1>2. mem' = NoRec /\ starting' = "no" /\ owed' = {} /\ UNCHANGED <<db, keys, minted, strayed>>
  BY DEF Lost
<1>3. CountsOK'
  <2>1. mishaps \in 0 .. MaxMishaps /\ MaxMishaps \in Nat
    BY <1>1, BoundsAssumption DEF CountsOK
  <2>2. mishaps' = mishaps \/ (mishaps < MaxMishaps /\ mishaps' = mishaps + 1)
    BY DEF Lost
  <2> QED
    BY <1>1, <1>2, <2>1, <2>2 DEF CountsOK
<1>4. LobbyOK(mem', db') /\ StartOK(mem', starting') /\ OwedOK(owed', mem'.status)
  BY <1>2, NoRecOK DEF LobbyOK, StartOK, OwedOK
<1> QED
  BY <1>1, <1>2, <1>3, <1>4, NoRecOK DEF RoomInv

\* The steps of the room, whoever takes them.
RoomStep ==
  \/ LobbyCommand
  \/ (\E key \in keys : StartAuthorised(key)) \/ StartRefused \/ StartTrim \/ FinalizeStart
  \/ GameStep \/ Load \/ DeleteStaleWaitingGames \/ Lost
  \/ UNCHANGED roomVars

LEMMA SeatsNextIsRoomStep == SeatsNext => RoomStep
<1>1. CASE \E ok \in BOOLEAN : Move("playing", ok)
  BY <1>1, Zenon DEF RoomStep, GameStep
<1>2. CASE BotMove("playing") \/ BotMove("finished")
  BY <1>2, Zenon DEF RoomStep, GameStep
<1>3. CASE Persist("bot") \/ Persist("won")
  BY <1>3, Zenon DEF RoomStep, GameStep
<1> QED
  BY <1>1, <1>2, <1>3, Zenon DEF SeatsNext, RoomStep, LobbyCommand

LEMMA RoomStepKeepsRoom ==
  ASSUME RoomInv, RoomStep PROVE RoomInv'
<1>1. CASE LobbyCommand
  BY <1>1, LobbyCommands, CommandsKeepRoom
<1>2. CASE \E key \in keys : StartAuthorised(key)
  <2>1. mem.status = "waiting" /\ starting' = "authorised"
        /\ UNCHANGED <<mem, db, keys, minted, owed, strayed, mishaps>>
    BY <1>2 DEF StartAuthorised
  <2> QED
    BY <2>1 DEF RoomInv, StartOK, CountsOK
<1>3. CASE StartRefused
  <2>1. starting' = "no" /\ UNCHANGED <<mem, db, keys, minted, owed, strayed, mishaps>>
    BY <1>3 DEF StartRefused
  <2> QED
    BY <2>1 DEF RoomInv, StartOK, CountsOK
<1>4. CASE StartTrim
  BY <1>4, StartTrimKeepsRoom
<1>5. CASE FinalizeStart
  BY <1>5, FinalizeStartKeepsRoom
<1>6. CASE GameStep
  BY <1>6, GameKeepsRoom
<1>7. CASE Load
  BY <1>7, LoadKeepsRoom
<1>8. CASE DeleteStaleWaitingGames
  BY <1>8, DeleteKeepsRoom
<1>9. CASE Lost
  BY <1>9, LostKeepsRoom
<1>10. CASE UNCHANGED roomVars
  BY <1>10 DEF roomVars, RoomInv, CountsOK
<1> QED
  BY <1>1, <1>2, <1>3, <1>4, <1>5, <1>6, <1>7, <1>8, <1>9, <1>10 DEF RoomStep

\* The lobby as it is created.
Created(host, n) == [i \in 0 .. n - 1 |-> IF i > 0 THEN Empty(i)
                       ELSE [Empty(0) EXCEPT !.user = host, !.tok = 1, !.occ = TRUE]]

FreshRows(rows, host, n) ==
  /\ n \in Nat /\ DOMAIN rows = 0 .. n - 1 /\ rows \in Rows
  /\ \A i \in 0 .. n - 1 : /\ rows[i] \in SeatType /\ rows[i].index = i /\ rows[i].color = i
                            /\ rows[i].bot = FALSE
  /\ \A i \in 1 .. n - 1 : rows[i].tok = NoKey
  /\ rows[0].user = host /\ rows[0].tok = 1 /\ rows[0].occ = TRUE

LEMMA CreatedSeats ==
  ASSUME NEW host \in Ids, NEW n \in 2 .. NSeats, NEW rows, rows = Created(host, n)
  PROVE  FreshRows(rows, host, n)
<1>1. n \in Nat /\ n >= 2 /\ n <= NSeats /\ NSeats \in Nat /\ 0 .. n - 1 \subseteq Colors
  BY SeatsAssumption DEF Colors
<1>2. 0 \in 0 .. MaxKeys /\ 1 \in 0 .. MaxKeys /\ Nobody \in Ids
  BY BoundsAssumption DEF Ids
<1>3. DOMAIN rows = 0 .. n - 1
  BY DEF Created
<1>4. ASSUME NEW i \in 1 .. n - 1
      PROVE  /\ rows[i] \in SeatType /\ rows[i].index = i /\ rows[i].color = i
             /\ rows[i].tok = NoKey /\ rows[i].bot = FALSE
  <2>1. rows[i] = Empty(i) /\ i \in Colors
    BY <1>1 DEF Created
  <2> QED
    BY <1>2, <2>1 DEF Empty, SeatType, NoKey
<1>5. /\ rows[0] \in SeatType /\ rows[0].index = 0 /\ rows[0].color = 0
      /\ rows[0].user = host /\ rows[0].tok = 1 /\ rows[0].occ = TRUE /\ rows[0].bot = FALSE
  <2>1. rows[0] = [Empty(0) EXCEPT !.user = host, !.tok = 1, !.occ = TRUE] /\ 0 \in Colors
    BY <1>1 DEF Created
  <2> QED
    BY <1>2, <2>1 DEF Empty, SeatType, NoKey
<1>6. \A i \in 0 .. n - 1 : rows[i] \in SeatType /\ rows[i].index = i /\ rows[i].color = i
                            /\ rows[i].bot = FALSE
  <2>1. \A i \in 0 .. n - 1 : i = 0 \/ i \in 1 .. n - 1
    BY <1>1
  <2> QED
    BY <1>4, <1>5, <2>1
<1>7. rows \in [0 .. n - 1 -> SeatType]
  BY <1>6 DEF Created
<1>8. rows \in Rows
  BY <1>1, <1>3, <1>7, RowsFunction
<1> QED
  BY <1>1, <1>3, <1>4, <1>5, <1>6, <1>8 DEF FreshRows

LEMMA InitSeats ==
  ASSUME SeatsInit
  PROVE  \E host \in Ids, n \in 2 .. NSeats : \E rows :
           /\ rows = Created(host, n)
           /\ mem.status = "waiting" /\ mem.seats \in Seq(SeatType)
           /\ Len(mem.seats) = n /\ DOMAIN mem.seats = 1 .. n
           /\ \A k \in 1 .. n : mem.seats[k] = rows[k - 1]
           /\ mem = [status |-> "waiting", seats |-> mem.seats]
           /\ db = [status |-> "waiting", rows |-> rows]
           /\ keys = {[tok |-> 1, color |-> 0, user |-> host]}
           /\ minted = 1 /\ starting = "no" /\ mishaps = 0
           /\ owed = {} /\ strayed = {}
<1>1. PICK host \in Ids, n \in 2 .. NSeats :
        LET rows == [i \in 0 .. n - 1 |-> IF i > 0 THEN Empty(i)
                       ELSE [Empty(0) EXCEPT !.user = host, !.tok = 1, !.occ = TRUE]]
        IN  /\ mem = [status |-> "waiting", seats |-> [k \in 1 .. n |-> rows[k - 1]]]
            /\ db = [status |-> "waiting", rows |-> rows]
            /\ keys = {[tok |-> 1, color |-> 0, user |-> host]}
            /\ minted = 1 /\ starting = "no" /\ mishaps = 0
            /\ owed = {} /\ strayed = {}
  BY DEF SeatsInit
<1>2. PICK rows : rows = Created(host, n)
  OBVIOUS
<1>3. /\ mem = [status |-> "waiting", seats |-> [k \in 1 .. n |-> rows[k - 1]]]
      /\ db = [status |-> "waiting", rows |-> rows]
      /\ keys = {[tok |-> 1, color |-> 0, user |-> host]}
      /\ minted = 1 /\ starting = "no" /\ mishaps = 0
      /\ owed = {} /\ strayed = {}
  BY <1>1, <1>2 DEF Created
<1>4. n \in Nat /\ \A i \in 0 .. n - 1 : rows[i] \in SeatType
  BY <1>2, CreatedSeats DEF FreshRows
<1>5. PICK q : q = [k \in 1 .. n |-> rows[k - 1]]
  OBVIOUS
<1>6. \A k \in 1 .. n : k - 1 \in 0 .. n - 1
  BY <1>4
<1>7. q \in [1 .. n -> SeatType] /\ DOMAIN q = 1 .. n /\ \A k \in 1 .. n : q[k] = rows[k - 1]
  BY <1>4, <1>5, <1>6
<1>8. q \in Seq(SeatType) /\ Len(q) = n
  <2>1. q \in Seq(SeatType)
    BY <1>4, <1>7, SeqDef
  <2> QED
    BY <1>4, <1>7, <2>1, LenProperties
<1>9. mem = [status |-> "waiting", seats |-> q] /\ mem.seats = q /\ mem.status = "waiting"
  BY <1>3, <1>5
<1> HIDE DEF SeatType
<1> QED
  BY <1>2, <1>3, <1>7, <1>8, <1>9

LEMMA InitRoom ==
  ASSUME SeatsInit PROVE RoomInv
<1>1. PICK host \in Ids, n \in 2 .. NSeats : \E rows :
           /\ rows = Created(host, n)
           /\ mem.status = "waiting" /\ mem.seats \in Seq(SeatType)
           /\ Len(mem.seats) = n /\ DOMAIN mem.seats = 1 .. n
           /\ \A k \in 1 .. n : mem.seats[k] = rows[k - 1]
           /\ mem = [status |-> "waiting", seats |-> mem.seats]
           /\ db = [status |-> "waiting", rows |-> rows]
           /\ keys = {[tok |-> 1, color |-> 0, user |-> host]}
           /\ minted = 1 /\ starting = "no" /\ mishaps = 0
           /\ owed = {} /\ strayed = {}
  BY InitSeats
<1> PICK rows : rows = Created(host, n)
  OBVIOUS
<1>2. /\ n \in Nat /\ DOMAIN rows = 0 .. n - 1 /\ rows \in Rows
      /\ \A i \in 0 .. n - 1 : rows[i].index = i /\ rows[i].color = i
  <2>1. FreshRows(rows, host, n)
    BY CreatedSeats
  <2> QED
    BY <2>1 DEF FreshRows
<1>3. \A k \in 1 .. n : k - 1 \in 0 .. n - 1
  BY <1>2
<1>4. \A k \in 1 .. n : mem.seats[k].index = k - 1 /\ mem.seats[k].color = k - 1
  BY <1>1, <1>2, <1>3
<1>5. n >= 2 /\ n <= NSeats
  BY SeatsAssumption
<1>6. MemOK(mem)
  <2>1. PICK r \in Seq(SeatType) : r = mem.seats
    BY <1>1
  <2>2. MemOK([status |-> "waiting", seats |-> r])
    BY <1>1, <1>2, <1>4, <1>5, <2>1, MemRecord
  <2> QED
    BY <1>1, <2>1, <2>2
<1>7. DbOK(db)
  <2>1. PICK d : d = db
    OBVIOUS
  <2>2. d \in [status : {"waiting", "playing", "finished", "gone"}, rows : Rows]
        /\ d.rows = rows /\ d.status = "waiting"
    BY <1>1, <1>2, <2>1
  <2>3. DbOK(d)
    BY <1>2, <2>2 DEF DbOK
  <2> QED
    BY <2>1, <2>3
<1>8. LobbyOK(mem, db)
  <2>1. db.rows = rows /\ db.status = "waiting"
    BY <1>1
  <2> QED
    BY <1>1, <1>2, <1>4, <1>5, <2>1 DEF LobbyOK
<1>9. StartOK(mem, starting)
  BY <1>1 DEF StartOK
<1>10. CountsOK
  <2>1. 1 \in 1 .. MaxKeys /\ 1 \in 0 .. MaxKeys /\ 0 \in Colors /\ 0 \in 0 .. MaxMishaps
    BY BoundsAssumption, SeatsAssumption DEF Colors
  <2> QED
    BY <1>1, <2>1 DEF CountsOK
<1>11. OwedOK(owed, mem.status)
  BY <1>1 DEF OwedOK
<1> QED
  BY <1>6, <1>7, <1>8, <1>9, <1>10, <1>11 DEF RoomInv

LEMMA RoomTypes == RoomInv => SeatsTypeOK
<1> SUFFICES ASSUME RoomInv PROVE SeatsTypeOK
  OBVIOUS
<1>1. /\ MemOK(mem) /\ DbOK(db) /\ CountsOK /\ StartOK(mem, starting)
      /\ owed \subseteq {"bot", "won", "call", "timer"}
  BY DEF RoomInv, OwedOK, Results
<1>2. mem.status \in {"none", "waiting", "playing", "finished"}
      /\ \A k \in DOMAIN mem.seats : mem.seats[k] \in SeatType
  <2>1. PICK q \in Seq(SeatType) : q = mem.seats
    BY <1>1 DEF MemOK
  <2>2. q \in [1 .. Len(q) -> SeatType] /\ DOMAIN q = 1 .. Len(q)
    BY LenProperties
  <2>3. \A k \in DOMAIN q : q[k] \in SeatType
    BY <2>2
  <2> QED
    BY <1>1, <2>1, <2>3 DEF MemOK
<1>3. /\ db.status \in {"waiting", "playing", "finished", "gone"}
      /\ DOMAIN db.rows \subseteq Colors
      /\ \A i \in DOMAIN db.rows : db.rows[i] \in SeatType /\ db.rows[i].index = i
  <2>1. PICK rows \in Rows : rows = db.rows
    BY <1>1 DEF DbOK
  <2>2. DOMAIN rows \subseteq Colors /\ \A i \in DOMAIN rows : rows[i] \in SeatType
    BY RowsFunction
  <2> QED
    BY <1>1, <2>1, <2>2 DEF DbOK
<1> QED
  BY <1>1, <1>2, <1>3 DEF SeatsTypeOK, CountsOK, StartOK

-----------------------------------------------------------------------------
(* Keys, seats and rows.                                                   *)

\* Nobody holds a token that was not minted, a bot's seat is taken, and a
\* token that fits a key belongs to the seat of that key.
Fits(s, K, n) == /\ s.tok <= n /\ (s.bot = TRUE => s.occ = TRUE)
                 /\ \A key \in K : s.tok = key.tok => Holds(s, key)

SeatsHold(K, n, m) == \A k \in 1 .. Len(m.seats) : Fits(m.seats[k], K, n)
RowsHold(K, n, d) == \A i \in DOMAIN d.rows : Fits(d.rows[i], K, n)

KeyInv == /\ SeatsHold(Kept, minted, mem) /\ RowsHold(Kept, minted, db)
          /\ \A key \in keys : key.tok <= minted
          /\ KeysApart

\* The record and the rows agree, seat by seat, but for the strayed ones (S);
\* between the halves of a start the rows may have empty seats more.
Alike(s, r) == /\ s.color = r.color /\ s.user = r.user /\ s.tok = r.tok
               /\ s.occ = r.occ /\ s.bot = r.bot

Mirrors(m, d, at, S) ==
  m.status # "none" =>
    /\ \A k \in 1 .. Len(m.seats) : m.seats[k].color \notin S =>
         m.seats[k].color \in DOMAIN d.rows /\ Alike(m.seats[k], d.rows[m.seats[k].color])
    /\ \A i \in DOMAIN d.rows \ S :
         (at # "trimmed" \/ d.rows[i].occ = TRUE) =>
           \E k \in 1 .. Len(m.seats) : m.seats[k].color = i

\* Whoever plays, or has played, is complete.
Started == {"playing", "finished"}
TableFull(m) ==
  m.status \in Started => Len(m.seats) >= 2 /\ \A k \in 1 .. Len(m.seats) : m.seats[k].occ = TRUE
RowsFull(d, at) ==
  (d.status \in Started /\ at # "trimmed") =>
    /\ \A i \in DOMAIN d.rows : d.rows[i].occ = TRUE
    /\ \E i, j \in DOMAIN d.rows : i # j

\* What of that outlives a seat saved under the number of another: the row of
\* a taken seat is taken, whoever is in it, and the statuses keep step, or will
\* when a result has been written.
RowsTaken(m, d) ==
  \A k \in 1 .. Len(m.seats) :
    /\ m.seats[k].color \in DOMAIN d.rows
    /\ m.seats[k].occ = TRUE => d.rows[m.seats[k].color].occ = TRUE
OutcomeDue(m, o) == m.status = "finished" /\ o \cap Results # {}
InStep(m, d, at, o) ==
  /\ m.status # "none" /\ at # "trimmed" =>
       m.status = d.status \/ (OutcomeDue(m, o) /\ d.status = "playing")
  /\ at = "trimmed" => m.status = "playing" \/ OutcomeDue(m, o)

SeatedInv == Sound => /\ RowsTaken(mem, db) /\ InStep(mem, db, starting, owed)
                      /\ TableFull(mem) /\ RowsFull(db, starting)

KeysKept(K, d) == \A key \in K : \E i \in DOMAIN d.rows : d.rows[i].tok = key.tok

SoundInv == Sound => Mirrors(mem, db, starting, strayed) /\ KeysKept(Kept, db)

LEMMA SeatTypes ==
  ASSUME RoomInv
  PROVE  /\ Len(mem.seats) \in Nat /\ DOMAIN mem.seats = 1 .. Len(mem.seats)
         /\ \A k \in 1 .. Len(mem.seats) : mem.seats[k] \in SeatType
         /\ DOMAIN db.rows \subseteq Colors
         /\ \A i \in DOMAIN db.rows : db.rows[i] \in SeatType
<1>1. PICK q \in Seq(SeatType) : q = mem.seats
  BY DEF RoomInv, MemOK
<1>2. q \in [1 .. Len(q) -> SeatType] /\ DOMAIN q = 1 .. Len(q) /\ Len(q) \in Nat
  BY LenProperties
<1>3. PICK rows \in Rows : rows = db.rows
  BY DEF RoomInv, DbOK
<1>4. DOMAIN rows \subseteq Colors /\ \A i \in DOMAIN rows : rows[i] \in SeatType
  BY RowsFunction
<1>5. \A k \in 1 .. Len(q) : q[k] \in SeatType
  BY <1>2
<1> HIDE DEF SeatType
<1> QED
  BY <1>1, <1>2, <1>3, <1>4, <1>5

LEMMA KeyTypes ==
  ASSUME RoomInv, NEW key \in keys
  PROVE  key.tok \in 1 .. MaxKeys /\ key.tok \in Nat /\ key.tok # NoKey /\ minted \in Nat
         /\ MaxKeys \in Nat
<1>1. key \in [tok : 1 .. MaxKeys, color : Colors, user : Ids] /\ minted \in 0 .. MaxKeys
  BY DEF RoomInv, CountsOK
<1>2. MaxKeys \in Nat
  BY BoundsAssumption
<1> QED
  BY <1>1, <1>2 DEF NoKey

LEMMA KeyInvHolds ==
  ASSUME RoomInv, KeyInv PROVE KeysHold /\ KeysApart /\ BotsSit
<1>1. DOMAIN mem.seats = 1 .. Len(mem.seats)
      /\ \A k \in 1 .. Len(mem.seats) : mem.seats[k] \in SeatType
  BY SeatTypes
<1>2. KeysHold
  BY <1>1 DEF KeysHold, KeyInv, SeatsHold, Fits, Opens, Positions
<1>3. BotsSit
  <2> SUFFICES ASSUME NEW k \in 1 .. Len(mem.seats), mem.seats[k].bot PROVE mem.seats[k].occ
    BY <1>1 DEF BotsSit, Positions
  <2>1. mem.seats[k].bot = TRUE
    BY <1>1 DEF SeatType
  <2>2. mem.seats[k].occ = TRUE
    BY <2>1 DEF KeyInv, SeatsHold, Fits
  <2> QED
    BY <2>2
<1> QED
  BY <1>2, <1>3 DEF KeyInv

\* Two seats of the record differ in colour.
LEMMA ColorsDiffer ==
  ASSUME RoomInv, NEW j \in 1 .. Len(mem.seats), NEW k \in 1 .. Len(mem.seats),
         mem.seats[j].color = mem.seats[k].color
  PROVE  j = k
<1>1. mem.seats[j] \in SeatType /\ mem.seats[k] \in SeatType /\ Len(mem.seats) \in Nat
  BY SeatTypes
<1>2. mem.seats[j].color \in Nat /\ mem.seats[k].color \in Nat
  BY <1>1, SeatsAssumption DEF SeatType, Colors
<1>3. /\ j < k => mem.seats[j].color < mem.seats[k].color
      /\ k < j => mem.seats[k].color < mem.seats[j].color
  BY DEF RoomInv, MemOK
<1> QED
  BY <1>1, <1>2, <1>3

\* The keys a command leaves: old ones that do not fit seat k, and perhaps the
\* one of s.
NewKey(s) == [tok |-> s.tok, color |-> s.color, user |-> s.user]

\* The row a command writes is that of its seat; or it is another's, and both
\* have strayed.
Strays(s) == \/ strayed' = strayed /\ s.index = s.color
             \/ strayed' = strayed \cup {s.index, s.color}

LEMMA CommandWrites ==
  ASSUME RoomInv, Commands
  PROVE  \E k \in 1 .. Len(mem.seats), s \in SeatType, st \in {"waiting", "playing", "finished"} :
           /\ Writes(k, s, st) /\ (s.bot = TRUE => s.occ = TRUE)
           /\ KeysHold /\ KeysApart /\ BotsSit => Rekeys(k, s)
           /\ keys' \subseteq keys \cup {NewKey(s)} /\ RoomInv'
           /\ Strays(s) /\ s.color = mem.seats[k].color
           /\ mem.status # "none"
<1>1. PICK k \in Positions, s \in SeatType, st \in {"waiting", "playing", "finished"} :
        /\ Writes(k, s, st) /\ (s.bot => s.occ)
        /\ KeysHold /\ KeysApart /\ BotsSit => Rekeys(k, s)
        /\ keys' \subseteq keys \cup {NewKey(s)}
  BY DEF Commands, NewKey
<1>2. k \in 1 .. Len(mem.seats) /\ Len(mem.seats) \in Nat
  BY SeatTypes DEF Positions
<1>3. s.color = mem.seats[k].color /\ Strays(s)
  BY <1>1 DEF Writes, Strays
<1>5. mem.status # "none"
  <2> SUFFICES ASSUME mem.status = "none" PROVE FALSE
    OBVIOUS
  <2>1. mem.seats = <<>>
    BY DEF RoomInv, StartOK, NoRec
  <2> QED
    BY <2>1 DEF Positions
<1>6. s.bot = TRUE => s.occ = TRUE
  <2>1. s.bot \in BOOLEAN /\ s.occ \in BOOLEAN
    BY DEF SeatType
  <2> QED
    BY <1>1, <2>1
<1>7. RoomInv'
  BY CommandsKeepRoom
<1> HIDE DEF SeatType
<1> QED
  BY <1>1, <1>2, <1>3, <1>5, <1>6, <1>7

\* A key that is kept after a command is an old one, kept before, or the new.
LEMMA KeptAfter ==
  ASSUME NEW s \in SeatType, NEW k, Rekeys(k, s), Strays(s), NEW key \in Kept'
  PROVE  \/ key \in Kept /\ ~Opens(k, key.tok)
         \/ /\ key = NewKey(s) /\ s.tok # NoKey /\ s.occ /\ ~s.bot
            /\ s.index = s.color
<1>1. key \in keys' /\ key.color \notin strayed'
  BY DEF Kept
<1>2. \/ key \in keys /\ ~Opens(k, key.tok)
      \/ key = NewKey(s) /\ s.tok # NoKey /\ s.occ /\ ~s.bot
  BY <1>1 DEF Rekeys, NewKey
<1>3. key.color \notin strayed
  BY <1>1 DEF Strays
<1>4. key = NewKey(s) => s.index = s.color
  BY <1>1 DEF Strays, NewKey
<1> QED
  BY <1>2, <1>3, <1>4 DEF Kept

LEMMA FitsStill ==
  ASSUME RoomInv, KeyInv, NEW k \in 1 .. Len(mem.seats), NEW s \in SeatType, Rekeys(k, s),
         Strays(s), NEW r \in SeatType, Fits(r, Kept, minted)
  PROVE  Fits(r, Kept', minted')
<1>1. minted \in Nat /\ r.tok \in Nat /\ r.tok <= minted
  BY BoundsAssumption DEF Fits, RoomInv, CountsOK, SeatType
<1>2. minted' \in {minted, minted + 1} /\ (s.tok # NoKey => s.tok = minted + 1)
  BY DEF Rekeys
<1>3. ASSUME NEW key \in Kept', r.tok = key.tok PROVE Holds(r, key)
  <2>1. CASE key \in Kept
    BY <1>3, <2>1 DEF Fits
  <2>2. CASE key = NewKey(s) /\ s.tok # NoKey
    <3>1. key.tok = minted + 1
      BY <1>2, <2>2 DEF NewKey
    <3> QED
      BY <1>1, <1>3, <3>1
  <2> QED
    BY <2>1, <2>2, KeptAfter
<1> QED
  BY <1>1, <1>2, <1>3 DEF Fits

\* The seat that was written fits, in the row of another too.
LEMMA FitsItself ==
  ASSUME RoomInv, KeyInv, NEW k \in 1 .. Len(mem.seats), NEW s \in SeatType, Rekeys(k, s),
         Strays(s), s.bot = TRUE => s.occ = TRUE, NEW c, c = s.color \/ s.index # s.color
  PROVE  Fits([s EXCEPT !.color = c], Kept', minted')
<1> PICK q : q = [s EXCEPT !.color = c]
  OBVIOUS
<1>0. q.tok = s.tok /\ q.color = c /\ q.user = s.user /\ q.occ = s.occ /\ q.bot = s.bot
  BY DEF SeatType
<1>1. minted \in Nat /\ s.tok \in Nat
  BY BoundsAssumption DEF RoomInv, CountsOK, SeatType
<1>2. minted' \in {minted, minted + 1} /\ (s.tok # NoKey => s.tok = minted + 1 /\ minted' = minted + 1)
  BY DEF Rekeys
<1>3. ASSUME NEW key \in Kept', s.tok = key.tok PROVE Holds(q, key)
  <2>1. CASE key \in Kept
    <3>1. key.tok <= minted /\ key.tok # NoKey /\ key.tok \in Nat
      BY <2>1, KeyTypes DEF KeyInv, Kept
    <3> QED
      BY <1>1, <1>2, <1>3, <3>1
  <2>2. CASE key = NewKey(s) /\ s.occ /\ ~s.bot /\ s.index = s.color
    BY <1>0, <2>2 DEF Holds, NewKey
  <2> QED
    BY <2>1, <2>2, KeptAfter
<1>4. s.tok <= minted'
  BY <1>1, <1>2 DEF NoKey
<1>5. Fits(q, Kept', minted')
  BY <1>0, <1>3, <1>4 DEF Fits
<1> QED
  BY <1>5

\* The rows after a command.
LEMMA WrittenRows ==
  ASSUME RoomInv, NEW k \in 1 .. Len(mem.seats), NEW s \in SeatType,
         NEW st \in {"waiting", "playing", "finished"}, Writes(k, s, st)
  PROVE  /\ DOMAIN db'.rows = DOMAIN db.rows
         /\ \A i \in DOMAIN db.rows : i # s.index => db'.rows[i] = db.rows[i]
         /\ \A i \in DOMAIN db.rows : i = s.index =>
              db'.rows[i] \in {db.rows[i], [s EXCEPT !.color = i]}
         /\ (mishaps' = mishaps /\ db.status # "gone") =>
              /\ db'.status = st
              /\ \A i \in DOMAIN db.rows : i = s.index => db'.rows[i] = [s EXCEPT !.color = i]
         /\ db.status = "gone" => db' = db
<1>1. (mem.status = "waiting" /\ st \in {"waiting", "playing"}) \/ st = mem.status
  BY DEF Writes
<1>2. st = "waiting" => db.status \in {"waiting", "gone"}
  BY <1>1 DEF RoomInv, LobbyOK
<1>3. DbOK(db)
  BY DEF RoomInv
<1>4. PICK u : u = Updated(s, st)
  OBVIOUS
<1>5. /\ DOMAIN u.rows = DOMAIN db.rows
      /\ db.status = "gone" => u = db
      /\ db.status # "gone" => u.status = st
      /\ \A i \in DOMAIN db.rows : i # s.index => u.rows[i] = db.rows[i]
      /\ db.status # "gone" => \A i \in DOMAIN db.rows : i = s.index =>
              u.rows[i] = [s EXCEPT !.color = i]
  BY <1>2, <1>3, <1>4, UpdatedRows
<1>8. /\ db' \in {db, u} /\ (db' = u \/ mishaps' = mishaps + 1)
  BY <1>4 DEF Writes
<1>9. mishaps' = mishaps => db' = u
  <2>1. mishaps \in Nat
    BY BoundsAssumption DEF RoomInv, CountsOK
  <2> QED
    BY <1>8, <2>1
<1>10. db' = db \/ db' = u
  BY <1>8
<1>11. \A i \in DOMAIN db.rows : i = s.index => u.rows[i] \in {db.rows[i], [s EXCEPT !.color = i]}
  BY <1>5
<1> HIDE DEF SeatType
<1> QED
  BY <1>5, <1>9, <1>10, <1>11

LEMMA WrittenSeats ==
  ASSUME RoomInv, NEW k \in 1 .. Len(mem.seats), NEW s \in SeatType,
         NEW st \in {"waiting", "playing", "finished"}, Writes(k, s, st)
  PROVE  /\ Len(mem'.seats) = Len(mem.seats) /\ mem'.status = st /\ mem'.seats[k] = s
         /\ \A j \in 1 .. Len(mem.seats) : j # k => mem'.seats[j] = mem.seats[j]
<1>1. MemOK(mem) /\ k \in Positions /\ DOMAIN mem.seats = 1 .. Len(mem.seats)
  BY SeatTypes DEF RoomInv, Positions
<1>2. s.index = mem.seats[k].index /\ s.color = mem.seats[k].color
  BY DEF Writes
<1>3. PICK m : m = mem' /\ m = [status |-> st, seats |-> [mem.seats EXCEPT ![k] = s]]
  BY DEF Writes
<1>4. /\ Len(m.seats) = Len(mem.seats) /\ m.status = st /\ m.seats[k] = s
      /\ \A j \in DOMAIN mem.seats : j # k => m.seats[j] = mem.seats[j]
  BY <1>1, <1>2, <1>3, RewrittenSeats
<1> QED
  BY <1>1, <1>3, <1>4

LEMMA CommandsKeepKeys ==
  ASSUME RoomInv, KeyInv, Commands PROVE KeyInv'
<1>1. PICK k \in 1 .. Len(mem.seats), s \in SeatType, st \in {"waiting", "playing", "finished"} :
           /\ Writes(k, s, st) /\ (s.bot = TRUE => s.occ = TRUE)
           /\ KeysHold /\ KeysApart /\ BotsSit => Rekeys(k, s)
           /\ keys' \subseteq keys \cup {NewKey(s)} /\ RoomInv' /\ Strays(s)
  BY CommandWrites
<1>2. Rekeys(k, s)
  BY <1>1, KeyInvHolds
<1>3. \A c : c = s.color \/ s.index # s.color => Fits([s EXCEPT !.color = c], Kept', minted')
  BY <1>1, <1>2, FitsItself
<1>4. \A r \in SeatType : Fits(r, Kept, minted) => Fits(r, Kept', minted')
  BY <1>1, <1>2, FitsStill
<1>5. SeatsHold(Kept', minted', mem')
  <2>1. /\ Len(mem'.seats) = Len(mem.seats) /\ mem'.seats[k] = s
        /\ \A j \in 1 .. Len(mem.seats) : j # k => mem'.seats[j] = mem.seats[j]
    BY <1>1, WrittenSeats
  <2>2. \A j \in 1 .. Len(mem.seats) : mem.seats[j] \in SeatType /\ Fits(mem.seats[j], Kept, minted)
    BY SeatTypes DEF KeyInv, SeatsHold
  <2>3. Fits(s, Kept', minted')
    <3>1. [s EXCEPT !.color = s.color] = s
      BY DEF SeatType
    <3> QED
      BY <1>3, <3>1
  <2>4. \A j \in 1 .. Len(mem.seats) : Fits(mem'.seats[j], Kept', minted')
    BY <1>4, <2>1, <2>2, <2>3
  <2> QED
    BY <2>1, <2>4 DEF SeatsHold
<1>6. RowsHold(Kept', minted', db')
  <2>1. /\ DOMAIN db'.rows = DOMAIN db.rows
        /\ \A i \in DOMAIN db.rows : i # s.index => db'.rows[i] = db.rows[i]
        /\ \A i \in DOMAIN db.rows : i = s.index =>
             db'.rows[i] \in {db.rows[i], [s EXCEPT !.color = i]}
    BY <1>1, WrittenRows
  <2>2. \A i \in DOMAIN db.rows : db.rows[i] \in SeatType /\ Fits(db.rows[i], Kept, minted)
    BY SeatTypes DEF KeyInv, RowsHold
  <2>3. \A i : i = s.index => i = s.color \/ s.index # s.color
    OBVIOUS
  <2>4. \A i \in DOMAIN db.rows : Fits(db'.rows[i], Kept', minted')
    <3> HIDE DEF SeatType
    <3> QED
      BY <1>3, <1>4, <2>1, <2>2, <2>3
  <2> QED
    BY <2>1, <2>4 DEF RowsHold
<1>7. /\ minted' \in {minted, minted + 1} /\ minted \in Nat
      /\ s.tok # NoKey => s.tok = minted' /\ minted' = minted + 1
  BY <1>2, BoundsAssumption DEF Rekeys, RoomInv, CountsOK
<1>8. \A key \in keys : key.tok <= minted /\ key.tok \in Nat
  BY KeyTypes DEF KeyInv
<1>9. \A key \in keys' : key.tok # NoKey
  BY <1>1 DEF RoomInv, CountsOK, NoKey
<1>10. \A key \in keys' : key \in keys \/ (key = NewKey(s) /\ key.tok = minted + 1)
  BY <1>1, <1>7, <1>9 DEF NewKey
<1>11. \A key \in keys' : key.tok <= minted'
  <2> SUFFICES ASSUME NEW key \in keys' PROVE key.tok <= minted'
    OBVIOUS
  <2>1. CASE key \in keys
    BY <1>7, <1>8, <2>1
  <2>2. CASE key = NewKey(s)
    <3>1. s.tok # NoKey /\ key.tok = s.tok
      BY <1>9, <2>2 DEF NewKey
    <3> QED
      BY <1>7, <3>1
  <2> QED
    BY <1>10, <2>1, <2>2
<1>12. KeysApart'
  <2> SUFFICES ASSUME NEW a \in keys', NEW b \in keys', a.tok = b.tok PROVE a = b
    BY DEF KeysApart
  <2>1. CASE a \in keys /\ b \in keys
    BY <2>1 DEF KeyInv, KeysApart
  <2>2. CASE a = NewKey(s) /\ b = NewKey(s)
    BY <2>2
  <2>3. CASE a \in keys /\ b.tok = minted + 1
    BY <1>7, <1>8, <2>3
  <2>4. CASE b \in keys /\ a.tok = minted + 1
    <3>1. b.tok = minted + 1 /\ b.tok <= minted /\ b.tok \in Nat
      BY <1>8, <2>4
    <3> QED
      BY <1>7, <3>1
  <2> QED
    BY <1>10, <2>1, <2>2, <2>3, <2>4
<1> QED
  BY <1>5, <1>6, <1>11, <1>12 DEF KeyInv

LEMMA CommandsKeepSound ==
  ASSUME RoomInv, KeyInv, SoundInv, Commands PROVE SoundInv'
<1> SUFFICES ASSUME Sound'
             PROVE  Mirrors(mem', db', starting', strayed') /\ KeysKept(Kept', db')
  BY DEF SoundInv
<1>1. PICK k \in 1 .. Len(mem.seats), s \in SeatType, st \in {"waiting", "playing", "finished"} :
           /\ Writes(k, s, st)
           /\ KeysHold /\ KeysApart /\ BotsSit => Rekeys(k, s)
           /\ Strays(s) /\ s.color = mem.seats[k].color
           /\ mem.status # "none"
  BY CommandWrites
<1>2. Rekeys(k, s)
  BY <1>1, KeyInvHolds
<1>3. PICK n \in Nat : n = Len(mem.seats)
  BY SeatTypes
<1>4. mishaps' = mishaps /\ mishaps = 0
  <2>1. mishaps \in Nat /\ (mishaps' = mishaps \/ mishaps' = mishaps + 1) /\ mishaps' = 0
    BY <1>1, BoundsAssumption DEF RoomInv, CountsOK, Writes, Sound
  <2> QED
    BY <2>1
<1>5. db.status # "gone"
  <2>1. db.status = "gone" => db' = db
    BY <1>1, WrittenRows
  <2> QED
    BY <2>1 DEF Sound
<1>6. Mirrors(mem, db, starting, strayed) /\ KeysKept(Kept, db)
  BY <1>4, <1>5 DEF SoundInv, Sound
<1>7. PICK D : D = DOMAIN db.rows
  OBVIOUS
<1>8. /\ DOMAIN db'.rows = D
      /\ \A i \in D : i # s.index => db'.rows[i] = db.rows[i]
      /\ \A i \in D : i = s.index => db'.rows[i] = [s EXCEPT !.color = i]
  BY <1>1, <1>4, <1>5, <1>7, WrittenRows
<1>9. /\ Len(mem'.seats) = n /\ mem'.seats[k] = s
      /\ \A j \in 1 .. n : j # k => mem'.seats[j] = mem.seats[j]
  BY <1>1, <1>3, WrittenSeats
<1>10. /\ \A j \in 1 .. n : mem.seats[j].color \notin strayed =>
            mem.seats[j].color \in D /\ Alike(mem.seats[j], db.rows[mem.seats[j].color])
       /\ \A i \in D \ strayed : (starting # "trimmed" \/ db.rows[i].occ = TRUE) =>
            \E j \in 1 .. n : mem.seats[j].color = i
  BY <1>1, <1>3, <1>6, <1>7 DEF Mirrors
<1>11. starting' = starting
  BY <1>1 DEF Writes
<1>12. \A j \in 1 .. n : mem'.seats[j].color = mem.seats[j].color
  BY <1>1, <1>9
<1>13. k \in 1 .. n /\ strayed \subseteq strayed'
  BY <1>1, <1>3 DEF Strays
<1>14. \A c : c \notin strayed' =>
         /\ c = s.index \/ c = s.color => s.index = s.color
         /\ c \in D /\ c = s.color => db'.rows[c] = s
  <2> SUFFICES ASSUME NEW c, c \notin strayed', c = s.index \/ c = s.color
               PROVE  s.index = s.color /\ (c \in D => db'.rows[c] = s)
    OBVIOUS
  <2>1. s.index = s.color
    BY <1>1 DEF Strays
  <2>2. [s EXCEPT !.color = s.color] = s
    BY DEF SeatType
  <2> QED
    BY <1>8, <2>1, <2>2
<1>15. \A j \in 1 .. n : mem'.seats[j].color \notin strayed' =>
         mem'.seats[j].color \in D /\ Alike(mem'.seats[j], db'.rows[mem'.seats[j].color])
  <2> SUFFICES ASSUME NEW j \in 1 .. n, mem'.seats[j].color \notin strayed'
               PROVE  mem'.seats[j].color \in D
                      /\ Alike(mem'.seats[j], db'.rows[mem'.seats[j].color])
    OBVIOUS
  <2>0. /\ mem.seats[j].color \in D /\ mem'.seats[j].color = mem.seats[j].color
        /\ Alike(mem.seats[j], db.rows[mem.seats[j].color])
    BY <1>10, <1>12, <1>13
  <2>1. CASE j = k
    <3>1. mem'.seats[j] = s /\ db'.rows[s.color] = s
      BY <1>1, <1>9, <1>12, <1>14, <2>0, <2>1
    <3> QED
      BY <2>0, <3>1 DEF Alike
  <2>2. CASE j # k
    <3>1. mem.seats[j].color # s.color
      BY <1>1, <1>3, <1>13, <2>2, ColorsDiffer
    <3>2. mem'.seats[j] = mem.seats[j]
      BY <1>9, <2>2
    <3>3. mem.seats[j].color # s.index
      BY <1>14, <2>0, <3>1
    <3> QED
      BY <1>8, <2>0, <3>2, <3>3
  <2> QED
    BY <2>1, <2>2
<1>16. \A i \in D \ strayed' : (starting # "trimmed" \/ db'.rows[i].occ = TRUE) =>
         \E j \in 1 .. n : mem'.seats[j].color = i
  <2> SUFFICES ASSUME NEW i \in D \ strayed', starting # "trimmed" \/ db'.rows[i].occ = TRUE
               PROVE  \E j \in 1 .. n : mem'.seats[j].color = i
    OBVIOUS
  <2>1. CASE i = s.color
    BY <1>9, <1>13, <2>1
  <2>2. CASE i # s.color
    BY <1>8, <1>10, <1>12, <1>13, <1>14, <2>2
  <2> QED
    BY <2>1, <2>2
<1>17. Mirrors(mem', db', starting', strayed')
  BY <1>8, <1>9, <1>11, <1>15, <1>16 DEF Mirrors
<1>18. ASSUME NEW key \in Kept' PROVE \E i \in D : db'.rows[i].tok = key.tok
  <2>1. CASE key \in Kept /\ ~Opens(k, key.tok)
    <3>1. PICK i \in D : db.rows[i].tok = key.tok
      BY <1>6, <1>7, <2>1 DEF KeysKept
    <3>2. i = key.color /\ i \notin strayed'
      <4>1. Holds(db.rows[i], key) /\ db.rows[i].color = i
        BY <1>7, <2>1, <3>1 DEF KeyInv, RowsHold, Fits, RoomInv, DbOK
      <4> QED
        BY <4>1 DEF Holds, Kept
    <3>3. i # s.index
      <4> SUFFICES ASSUME i = s.index PROVE FALSE
        OBVIOUS
      <4>1. i = s.color /\ s.color \notin strayed
        BY <1>13, <1>14, <3>2
      <4>2. mem.seats[k].tok = key.tok
        BY <1>1, <1>10, <1>13, <3>1, <4>1 DEF Alike
      <4>3. key.tok # NoKey
        BY <2>1, KeyTypes DEF Kept
      <4> QED
        BY <2>1, <4>2, <4>3 DEF Opens
    <3> QED
      BY <1>8, <3>1, <3>3
  <2>2. CASE key = NewKey(s) /\ s.index = s.color
    <3>1. s.color \notin strayed'
      BY <2>2 DEF Kept, NewKey
    <3>2. s.color \in D
      BY <1>1, <1>10, <1>13, <3>1
    <3> QED
      BY <1>14, <2>2, <3>1, <3>2 DEF NewKey
  <2> QED
    BY <1>1, <1>2, <2>1, <2>2, KeptAfter
<1>19. KeysKept(Kept', db')
  BY <1>8, <1>18 DEF KeysKept
<1> QED
  BY <1>17, <1>19

\* The steps that leave every seat and every row what it was.
LEMMA FitsAlike ==
  ASSUME NEW r, NEW q, Alike(q, r), NEW K, NEW n, Fits(r, K, n)
  PROVE  Fits(q, K, n)
BY DEF Alike, Fits, Holds

LEMMA SameKeys ==
  ASSUME KeyInv, UNCHANGED <<keys, minted, strayed>>,
         SeatsHold(Kept, minted, mem'), RowsHold(Kept, minted, db')
  PROVE  KeyInv'
BY DEF KeyInv, Kept, KeysApart

\* What the moves and the ends of a game leave alone.
LEMMA GameMoves ==
  ASSUME RoomInv, GameStep
  PROVE  /\ mem.status \in {"playing", "finished"} /\ mem'.status \in {"playing", "finished"}
         /\ mem'.seats = mem.seats /\ db'.rows = db.rows
         /\ db.status = "gone" => db' = db
         /\ UNCHANGED <<keys, minted, starting, strayed>>
         /\ mishaps' = 0 => mishaps = 0
<1>1. DbOK(db) /\ mishaps \in Nat
  BY BoundsAssumption DEF RoomInv, CountsOK
<1>2. PICK st \in {"playing", "finished"} : Status(st) /\ mem'.status = st
  BY GameIsStatus
<1>3. mem'.seats = mem.seats
  BY <1>2 DEF Status
<1>4. db'.rows = db.rows /\ (db.status = "gone" => db' = db)
  BY <1>1, <1>2, CarriedRows DEF Status
<1>5. mishaps' = mishaps \/ mishaps' = mishaps + 1
  BY <1>2 DEF Status
<1> QED
  BY <1>1, <1>2, <1>3, <1>4, <1>5 DEF Status

LEMMA StartTrimKeepsKeys ==
  ASSUME RoomInv, KeyInv, StartTrim PROVE KeyInv'
<1>1. /\ mem' = [status |-> "playing", seats |-> TrimmedSeats]
      /\ UNCHANGED <<db, keys, minted, strayed>>
  BY DEF StartTrim, TrimmedSeats
<1>2. MemOK(mem)
  BY DEF RoomInv
<1>3. PICK at : /\ at \in [1 .. Len(mem'.seats) -> Taken]
                /\ \A k \in 1 .. Len(mem'.seats) :
                     mem'.seats[k] = [mem.seats[at[k]] EXCEPT !.index = k - 1]
  BY <1>1, <1>2, TrimmedRecord
<1>4. PICK n : n = Len(mem'.seats)
  OBVIOUS
<1>5. ASSUME NEW k \in 1 .. n PROVE Fits(mem'.seats[k], Kept, minted)
  <2>1. at[k] \in 1 .. Len(mem.seats) /\ mem.seats[at[k]] \in SeatType
    BY <1>3, <1>4, SeatTypes DEF Taken, Positions
  <2>2. Fits(mem.seats[at[k]], Kept, minted)
    BY <2>1 DEF KeyInv, SeatsHold
  <2>3. mem'.seats[k] = [mem.seats[at[k]] EXCEPT !.index = k - 1]
    BY <1>3, <1>4
  <2>4. Alike(mem'.seats[k], mem.seats[at[k]])
    BY <2>1, <2>3 DEF Alike, SeatType
  <2> QED
    BY <2>2, <2>4, FitsAlike
<1>6. SeatsHold(Kept, minted, mem')
  BY <1>4, <1>5 DEF SeatsHold
<1>7. RowsHold(Kept, minted, db')
  BY <1>1 DEF KeyInv
<1> QED
  BY <1>1, <1>6, <1>7, SameKeys

LEMMA FinalizeStartKeepsKeys ==
  ASSUME RoomInv, KeyInv, FinalizeStart PROVE KeyInv'
<1>1. UNCHANGED <<mem, keys, minted, strayed>>
      /\ (db' = db \/ db' = [status |-> "playing", rows |-> [i \in Trimmed |-> db.rows[i]]])
  BY DEF FinalizeStart
<1>2. DbOK(db)
  BY DEF RoomInv
<1>3. DOMAIN db'.rows \subseteq DOMAIN db.rows /\ \A i \in DOMAIN db'.rows : db'.rows[i] = db.rows[i]
  <2>1. CASE db' = db
    BY <2>1
  <2>2. CASE db' = [status |-> "playing", rows |-> [i \in Trimmed |-> db.rows[i]]]
    BY <1>2, <2>2, FinalizedRows
  <2> QED
    BY <1>1, <2>1, <2>2
<1>4. RowsHold(Kept, minted, db')
  BY <1>3 DEF KeyInv, RowsHold
<1>5. SeatsHold(Kept, minted, mem')
  BY <1>1 DEF KeyInv
<1> QED
  BY <1>1, <1>4, <1>5, SameKeys

LEMMA GameKeepsKeys ==
  ASSUME RoomInv, KeyInv, GameStep PROVE KeyInv'
<1>1. mem'.seats = mem.seats /\ db'.rows = db.rows /\ UNCHANGED <<keys, minted, strayed>>
  BY GameMoves
<1>2. SeatsHold(Kept, minted, mem') /\ RowsHold(Kept, minted, db')
  BY <1>1 DEF KeyInv, SeatsHold, RowsHold
<1> QED
  BY <1>1, <1>2, SameKeys

LEMMA LoadKeepsKeys ==
  ASSUME RoomInv, KeyInv, Load PROVE KeyInv'
<1>1. /\ db.status # "gone" /\ mem' = [status |-> db.status, seats |-> LoadedSeats]
      /\ UNCHANGED <<db, keys, minted, strayed>>
  BY DEF Load
<1>2. DbOK(db)
  BY DEF RoomInv
<1>3. PICK at : Lists(mem'.seats, db.rows, DOMAIN db.rows, at)
  BY <1>1, <1>2, LoadedRecord
<1>4. \A k \in 1 .. Len(mem'.seats) : at[k] \in DOMAIN db.rows /\ mem'.seats[k] = db.rows[at[k]]
  BY <1>3 DEF Lists
<1>5. SeatsHold(Kept, minted, mem')
  BY <1>4 DEF SeatsHold, KeyInv, RowsHold
<1>6. RowsHold(Kept, minted, db')
  BY <1>1 DEF KeyInv
<1> QED
  BY <1>1, <1>5, <1>6, SameKeys

LEMMA DeleteKeepsKeys ==
  ASSUME KeyInv, DeleteStaleWaitingGames PROVE KeyInv'
<1>1. /\ db' = [status |-> "gone", rows |-> <<>>]
      /\ UNCHANGED <<mem, keys, minted, strayed>>
  BY DEF DeleteStaleWaitingGames
<1>2. DOMAIN db'.rows = {}
  BY <1>1
<1>3. SeatsHold(Kept, minted, mem') /\ RowsHold(Kept, minted, db')
  BY <1>1, <1>2 DEF KeyInv, RowsHold
<1> QED
  BY <1>1, <1>3, SameKeys

LEMMA LostKeepsKeys ==
  ASSUME KeyInv, Lost PROVE KeyInv'
<1>1. mem' = NoRec /\ UNCHANGED <<db, keys, minted, strayed>>
  BY DEF Lost
<1>2. 1 .. Len(mem'.seats) = {}
  <2>1. mem'.seats = <<>> /\ Len(<<>>) = 0
    BY <1>1, NoRecOK
  <2> QED
    BY <2>1
<1>3. SeatsHold(Kept, minted, mem') /\ RowsHold(Kept, minted, db')
  BY <1>1, <1>2 DEF KeyInv, SeatsHold
<1> QED
  BY <1>1, <1>3, SameKeys

LEMMA RoomStepKeepsKeys ==
  ASSUME RoomInv, KeyInv, RoomStep PROVE KeyInv'
<1>1. CASE LobbyCommand
  BY <1>1, LobbyCommands, CommandsKeepKeys
<1>2. CASE \E key \in keys : StartAuthorised(key)
  BY <1>2 DEF StartAuthorised, KeyInv, Kept, KeysApart
<1>3. CASE StartRefused
  BY <1>3 DEF StartRefused, KeyInv, Kept, KeysApart
<1>4. CASE StartTrim
  BY <1>4, StartTrimKeepsKeys
<1>5. CASE FinalizeStart
  BY <1>5, FinalizeStartKeepsKeys
<1>6. CASE GameStep
  BY <1>6, GameKeepsKeys
<1>7. CASE Load
  BY <1>7, LoadKeepsKeys
<1>8. CASE DeleteStaleWaitingGames
  BY <1>8, DeleteKeepsKeys
<1>9. CASE Lost
  BY <1>9, LostKeepsKeys
<1>10. CASE UNCHANGED roomVars
  BY <1>10 DEF roomVars, KeyInv, Kept, KeysApart
<1> QED
  BY <1>1, <1>2, <1>3, <1>4, <1>5, <1>6, <1>7, <1>8, <1>9, <1>10 DEF RoomStep

\* A seat that is renumbered, or loaded, is alike.
LEMMA Renumber ==
  ASSUME NEW s \in SeatType, NEW i, NEW q, q = [s EXCEPT !.index = i]
  PROVE  Alike(q, s)
BY DEF Alike, SeatType

LEMMA AlikeTwice ==
  ASSUME NEW q, NEW s, NEW r, Alike(q, s), Alike(s, r) PROVE Alike(q, r) /\ q.color = s.color
BY DEF Alike

LEMMA StartTrimKeepsSound ==
  ASSUME RoomInv, SoundInv, StartTrim PROVE SoundInv'
<1> SUFFICES ASSUME Sound
             PROVE  Mirrors(mem', db, "trimmed", strayed) /\ KeysKept(Kept, db)
  BY DEF SoundInv, StartTrim, Sound, Kept
<1>1. /\ mem' = [status |-> "playing", seats |-> TrimmedSeats]
      /\ mem.status = "waiting" /\ Len(Occupied(mem.seats)) >= 2 /\ starting = "authorised"
  BY DEF StartTrim, TrimmedSeats
<1>2. MemOK(mem)
  BY DEF RoomInv
<1>3. PICK n \in Nat : n = Len(mem'.seats) /\ n >= 2 /\ mem'.status = "playing"
  BY <1>1, <1>2, TrimmedRecord
<1> PICK at : /\ at \in [1 .. Len(mem'.seats) -> Taken]
              /\ \A i \in Taken : \E k \in 1 .. Len(mem'.seats) : at[k] = i
              /\ \A k \in 1 .. Len(mem'.seats) :
                   mem'.seats[k] = [mem.seats[at[k]] EXCEPT !.index = k - 1]
  BY <1>1, <1>2, TrimmedRecord
<1>4. /\ at \in [1 .. n -> Taken]
      /\ \A i \in Taken : \E k \in 1 .. n : at[k] = i
      /\ \A k \in 1 .. n : mem'.seats[k] = [mem.seats[at[k]] EXCEPT !.index = k - 1]
  BY <1>3
<1>5. Mirrors(mem, db, starting, strayed) /\ KeysKept(Kept, db)
  BY DEF SoundInv
<1>6. /\ \A j \in 1 .. Len(mem.seats) : mem.seats[j].color \notin strayed =>
           /\ mem.seats[j].color \in DOMAIN db.rows
           /\ Alike(mem.seats[j], db.rows[mem.seats[j].color])
      /\ \A i \in DOMAIN db.rows \ strayed : \E j \in 1 .. Len(mem.seats) : mem.seats[j].color = i
  BY <1>1, <1>5 DEF Mirrors
<1>7. \A k \in 1 .. n : /\ at[k] \in 1 .. Len(mem.seats) /\ mem.seats[at[k]].occ = TRUE
                        /\ Alike(mem'.seats[k], mem.seats[at[k]])
                        /\ mem'.seats[k].color = mem.seats[at[k]].color
  <2> SUFFICES ASSUME NEW k \in 1 .. n
               PROVE  /\ at[k] \in 1 .. Len(mem.seats) /\ mem.seats[at[k]].occ = TRUE
                      /\ Alike(mem'.seats[k], mem.seats[at[k]])
                      /\ mem'.seats[k].color = mem.seats[at[k]].color
    OBVIOUS
  <2>1. at[k] \in Taken
    BY <1>4
  <2>2. at[k] \in 1 .. Len(mem.seats) /\ mem.seats[at[k]] \in SeatType /\ mem.seats[at[k]].occ
    BY <2>1, SeatTypes DEF Taken, Positions
  <2>3. mem.seats[at[k]].occ = TRUE
    BY <2>2 DEF SeatType
  <2>4. Alike(mem'.seats[k], mem.seats[at[k]])
    BY <1>4, <2>2, Renumber
  <2> QED
    BY <2>2, <2>3, <2>4 DEF Alike
<1>8. \A k \in 1 .. n : mem'.seats[k].color \notin strayed =>
        /\ mem'.seats[k].color \in DOMAIN db.rows
        /\ Alike(mem'.seats[k], db.rows[mem'.seats[k].color])
  <2> SUFFICES ASSUME NEW k \in 1 .. n, mem'.seats[k].color \notin strayed
               PROVE  /\ mem'.seats[k].color \in DOMAIN db.rows
                      /\ Alike(mem'.seats[k], db.rows[mem'.seats[k].color])
    OBVIOUS
  <2>1. PICK q, s : q = mem'.seats[k] /\ s = mem.seats[at[k]]
    OBVIOUS
  <2>2. Alike(q, s) /\ q.color = s.color
    BY <1>7, <2>1
  <2>3. s.color \in DOMAIN db.rows /\ Alike(s, db.rows[s.color])
    BY <1>6, <1>7, <2>1
  <2>4. Alike(q, db.rows[s.color])
    BY <2>2, <2>3, AlikeTwice
  <2> QED
    BY <2>1, <2>2, <2>3, <2>4
<1>9. ASSUME NEW i \in DOMAIN db.rows \ strayed, db.rows[i].occ = TRUE
      PROVE  \E k \in 1 .. n : mem'.seats[k].color = i
  <2>1. PICK j \in 1 .. Len(mem.seats) : mem.seats[j].color = i
    BY <1>6
  <2>2. mem.seats[j].occ = TRUE
    BY <1>6, <1>9, <2>1 DEF Alike
  <2>3. j \in Taken
    BY <2>2, SeatTypes DEF Taken, Positions
  <2> QED
    BY <1>4, <1>7, <2>1, <2>3
<1>10. Mirrors(mem', db, "trimmed", strayed)
  BY <1>3, <1>8, <1>9 DEF Mirrors
<1> QED
  BY <1>5, <1>10

LEMMA FinalizeStartKeepsSound ==
  ASSUME RoomInv, KeyInv, SeatedInv, SoundInv, FinalizeStart PROVE SoundInv'
<1> SUFFICES ASSUME Sound'
             PROVE  Mirrors(mem, db', "no", strayed) /\ KeysKept(Kept, db')
  BY DEF SoundInv, FinalizeStart, Kept
<1>1. mishaps \in Nat /\ DbOK(db) /\ mishaps' = 0 /\ db'.status # "gone"
  BY BoundsAssumption DEF RoomInv, CountsOK, Sound
<1>2. /\ starting = "trimmed" /\ mishaps = 0
      /\ db' = IF db.status = "gone" THEN db
               ELSE [status |-> "playing", rows |-> [i \in Trimmed |-> db.rows[i]]]
  BY <1>1 DEF FinalizeStart
<1>3. db.status # "gone" /\ Sound
  BY <1>1, <1>2 DEF Sound
<1>4. /\ db'.status = "playing" /\ DOMAIN db'.rows = Trimmed
      /\ \A i \in Trimmed : i \in DOMAIN db.rows /\ db'.rows[i] = db.rows[i]
  BY <1>1, <1>2, <1>3, FinalizedRows
<1>5. Mirrors(mem, db, "trimmed", strayed) /\ TableFull(mem) /\ KeysKept(Kept, db)
  BY <1>2, <1>3 DEF SoundInv, SeatedInv
<1>6. mem.status \in {"playing", "finished"}
  BY <1>2 DEF RoomInv, StartOK
<1>7. PICK n \in Nat : n = Len(mem.seats) /\ n >= 2 /\ \A k \in 1 .. n : mem.seats[k].occ = TRUE
  BY <1>5, <1>6, SeatTypes DEF TableFull, Started
<1>8. /\ \A k \in 1 .. n : mem.seats[k].color \notin strayed =>
           /\ mem.seats[k].color \in DOMAIN db.rows
           /\ Alike(mem.seats[k], db.rows[mem.seats[k].color])
      /\ \A i \in DOMAIN db.rows \ strayed : db.rows[i].occ = TRUE => \E k \in 1 .. n : mem.seats[k].color = i
  BY <1>5, <1>6, <1>7 DEF Mirrors
<1>9. \A i \in Trimmed : db.rows[i].occ = TRUE
  <2>1. \A i \in DOMAIN db.rows : db.rows[i].occ \in BOOLEAN
    BY SeatTypes DEF SeatType
  <2> QED
    BY <2>1 DEF Trimmed
<1>10. \A k \in 1 .. n : mem.seats[k].color \notin strayed => mem.seats[k].color \in Trimmed
  BY <1>7, <1>8 DEF Alike, Trimmed
<1>11. Mirrors(mem, db', "no", strayed)
  BY <1>4, <1>6, <1>7, <1>8, <1>9, <1>10 DEF Mirrors
<1>12. ASSUME NEW key \in Kept PROVE \E i \in Trimmed : db'.rows[i].tok = key.tok
  <2>1. PICK i \in DOMAIN db.rows : db.rows[i].tok = key.tok
    BY <1>5 DEF KeysKept
  <2>2. db.rows[i].occ
    BY <2>1 DEF KeyInv, RowsHold, Fits, Holds
  <2>3. i \in Trimmed
    BY <2>2 DEF Trimmed
  <2> QED
    BY <1>4, <2>1, <2>3
<1>13. KeysKept(Kept, db')
  BY <1>4, <1>12 DEF KeysKept
<1> QED
  BY <1>11, <1>13

LEMMA GameKeepsSound ==
  ASSUME RoomInv, SoundInv, GameStep PROVE SoundInv'
<1> SUFFICES ASSUME Sound'
             PROVE  Mirrors(mem', db', starting', strayed') /\ KeysKept(Kept', db')
  BY DEF SoundInv
<1>1. /\ mem.status \in {"playing", "finished"} /\ mem'.seats = mem.seats
      /\ db'.rows = db.rows /\ UNCHANGED <<keys, starting, strayed>>
      /\ db.status = "gone" => db' = db
      /\ mishaps' = 0 => mishaps = 0
  BY GameMoves
<1>2. Sound
  BY <1>1 DEF Sound
<1>3. Mirrors(mem, db, starting, strayed) /\ KeysKept(Kept, db)
  BY <1>2 DEF SoundInv
<1>4. Mirrors(mem', db', starting', strayed')
  BY <1>1, <1>3 DEF Mirrors
<1>5. KeysKept(Kept', db')
  BY <1>1, <1>3 DEF KeysKept, Kept
<1> QED
  BY <1>4, <1>5

LEMMA LoadKeepsSound ==
  ASSUME RoomInv, SoundInv, Load PROVE SoundInv'
<1> SUFFICES ASSUME Sound
             PROVE  Mirrors(mem', db, starting, strayed) /\ KeysKept(Kept, db)
  BY DEF SoundInv, Load, Sound, Kept
<1>1. /\ mem.status = "none" /\ db.status # "gone"
      /\ mem' = [status |-> db.status, seats |-> LoadedSeats]
  BY NoRecOK DEF Load
<1>2. DbOK(db) /\ starting = "no"
  BY <1>1 DEF RoomInv, StartOK
<1>3. KeysKept(Kept, db)
  BY DEF SoundInv
<1>4. PICK n \in Nat : n = Len(mem'.seats) /\ mem'.status = db.status
  BY <1>1, <1>2, LoadedRecord
<1>5. PICK at : /\ at \in [1 .. n -> DOMAIN db.rows]
                /\ \A i \in DOMAIN db.rows : \E k \in 1 .. n : at[k] = i
                /\ \A k \in 1 .. n : mem'.seats[k] = db.rows[at[k]] /\ mem'.seats[k].color = at[k]
  BY <1>1, <1>2, <1>4, LoadedRecord DEF Lists
<1>6. Mirrors(mem', db, starting, strayed)
  BY <1>2, <1>4, <1>5 DEF Mirrors, Alike
<1> QED
  BY <1>3, <1>6

LEMMA LostKeepsSound ==
  ASSUME RoomInv, SoundInv, Lost PROVE SoundInv'
<1> SUFFICES ASSUME Sound'
             PROVE  Mirrors(mem', db, "no", strayed) /\ KeysKept(Kept, db)
  BY DEF SoundInv, Lost, Kept
<1>1. mem' = NoRec /\ mem'.status = "none" /\ db' = db
  BY NoRecOK DEF Lost
<1>2. mishaps = 0 /\ starting # "trimmed"
  <2>1. mishaps \in Nat /\ mishaps' = 0
    BY BoundsAssumption DEF RoomInv, CountsOK, Sound
  <2> QED
    BY <2>1 DEF Lost
<1>3. Sound
  BY <1>1, <1>2 DEF Sound
<1> QED
  BY <1>1, <1>2, <1>3 DEF SoundInv, Mirrors

LEMMA RoomStepKeepsSound ==
  ASSUME RoomInv, KeyInv, SeatedInv, SoundInv, RoomStep PROVE SoundInv'
<1>1. CASE LobbyCommand
  BY <1>1, LobbyCommands, CommandsKeepSound
<1>2. CASE \E key \in keys : StartAuthorised(key)
  <2>1. starting = "no" /\ starting' = "authorised" /\ UNCHANGED <<mem, db, keys, strayed, mishaps>>
    BY <1>2 DEF StartAuthorised
  <2> QED
    BY <2>1 DEF SoundInv, Sound, Mirrors, Kept
<1>3. CASE StartRefused
  <2>1. starting = "authorised" /\ starting' = "no" /\ UNCHANGED <<mem, db, keys, strayed, mishaps>>
    BY <1>3 DEF StartRefused
  <2> QED
    BY <2>1 DEF SoundInv, Sound, Mirrors, Kept
<1>4. CASE StartTrim
  BY <1>4, StartTrimKeepsSound
<1>5. CASE FinalizeStart
  BY <1>5, FinalizeStartKeepsSound
<1>6. CASE GameStep
  BY <1>6, GameKeepsSound
<1>7. CASE Load
  BY <1>7, LoadKeepsSound
<1>8. CASE DeleteStaleWaitingGames
  BY <1>8 DEF DeleteStaleWaitingGames, SoundInv, Sound
<1>9. CASE Lost
  BY <1>9, LostKeepsSound
<1>10. CASE UNCHANGED roomVars
  BY <1>10 DEF roomVars, SoundInv, Sound, Kept
<1> QED
  BY <1>1, <1>2, <1>3, <1>4, <1>5, <1>6, <1>7, <1>8, <1>9, <1>10 DEF RoomStep

LEMMA InitKeys ==
  ASSUME SeatsInit PROVE KeyInv /\ SeatedInv /\ SoundInv
<1>1. PICK host \in Ids, n \in 2 .. NSeats : \E rows :
           /\ rows = Created(host, n)
           /\ mem.status = "waiting" /\ mem.seats \in Seq(SeatType)
           /\ Len(mem.seats) = n /\ DOMAIN mem.seats = 1 .. n
           /\ \A k \in 1 .. n : mem.seats[k] = rows[k - 1]
           /\ mem = [status |-> "waiting", seats |-> mem.seats]
           /\ db = [status |-> "waiting", rows |-> rows]
           /\ keys = {[tok |-> 1, color |-> 0, user |-> host]}
           /\ minted = 1 /\ starting = "no" /\ mishaps = 0
           /\ owed = {} /\ strayed = {}
  BY InitSeats
<1> PICK rows : rows = Created(host, n)
  OBVIOUS
<1>2. FreshRows(rows, host, n)
  BY CreatedSeats
<1>3. db.rows = rows /\ db.status = "waiting" /\ DOMAIN rows = 0 .. n - 1 /\ n \in Nat
  BY <1>1, <1>2 DEF FreshRows
<1>4. PICK key : keys = {key} /\ key.tok = 1 /\ key.color = 0 /\ key.user = host
  <2>1. PICK key : key = [tok |-> 1, color |-> 0, user |-> host]
    OBVIOUS
  <2>2. keys = {key} /\ key.tok = 1 /\ key.color = 0 /\ key.user = host
    BY <1>1, <2>1
  <2> QED
    BY <2>2
<1>5. 0 \in 0 .. n - 1 /\ 1 \in 1 .. n /\ \A k \in 1 .. n : k - 1 \in 0 .. n - 1
  BY <1>3, SeatsAssumption
<1>6. ASSUME NEW i \in 0 .. n - 1 PROVE Fits(rows[i], Kept, minted)
  <2>1. CASE i = 0
    <3>1. /\ rows[i].tok = 1 /\ rows[i].color = 0 /\ rows[i].user = host
          /\ rows[i].occ = TRUE /\ rows[i].bot = FALSE
      BY <1>2, <1>5, <2>1 DEF FreshRows
    <3>2. Holds(rows[i], key) /\ rows[i].tok <= minted
      BY <1>1, <1>4, <3>1 DEF Holds
    <3> QED
      BY <1>4, <3>1, <3>2 DEF Fits, Kept
  <2>2. CASE i # 0
    <3>1. i \in 1 .. n - 1
      BY <1>3, <2>2
    <3>2. rows[i].tok = 0 /\ rows[i].bot = FALSE
      BY <1>2, <3>1 DEF FreshRows, NoKey
    <3>3. rows[i].tok <= minted
      BY <1>1, <3>2
    <3> QED
      BY <1>4, <3>2, <3>3 DEF Fits, Kept
  <2> QED
    BY <2>1, <2>2
<1>7. KeyInv
  <2>1. SeatsHold(Kept, minted, mem)
    BY <1>1, <1>5, <1>6 DEF SeatsHold
  <2>2. RowsHold(Kept, minted, db)
    BY <1>3, <1>6 DEF RowsHold
  <2>3. (\A k \in keys : k.tok <= minted) /\ KeysApart
    BY <1>1, <1>4 DEF KeysApart
  <2> QED
    BY <2>1, <2>2, <2>3 DEF KeyInv
<1>8. Mirrors(mem, db, starting, strayed)
  <2>1. \A k \in 1 .. n : mem.seats[k].color = k - 1
    BY <1>1, <1>2, <1>5 DEF FreshRows
  <2>2. \A k \in 1 .. n : mem.seats[k].color \in 0 .. n - 1
                          /\ Alike(mem.seats[k], rows[mem.seats[k].color])
    BY <1>1, <1>5, <2>1 DEF Alike
  <2>3. \A i \in 0 .. n - 1 : i + 1 \in 1 .. n /\ (i + 1) - 1 = i
    BY <1>3
  <2>4. \A i \in 0 .. n - 1 : \E k \in 1 .. n : mem.seats[k].color = i
    BY <2>1, <2>3
  <2>5. Len(mem.seats) = n /\ mem.status = db.status /\ starting = "no"
    BY <1>1, <1>3
  <2> QED
    BY <1>3, <2>2, <2>4, <2>5 DEF Mirrors
<1>9. KeysKept(Kept, db)
  BY <1>2, <1>3, <1>4, <1>5 DEF KeysKept, FreshRows, Kept
<1>10. TableFull(mem) /\ RowsFull(db, starting)
  BY <1>1, <1>3 DEF TableFull, RowsFull, Started
<1>11. RowsTaken(mem, db) /\ InStep(mem, db, starting, owed)
  BY <1>1, <1>3, <1>8 DEF RowsTaken, InStep, Mirrors, Alike
<1> QED
  BY <1>7, <1>8, <1>9, <1>10, <1>11 DEF SoundInv, SeatedInv

-----------------------------------------------------------------------------
(* Nobody plays with an empty seat, a late ResolveSeat notwithstanding: it   *)
(* may save a player under the number of another, but only a taken seat.     *)

\* What a statement that went well does to the rows: the one with the number
\* of the seat, whosever it is, is taken or empty as the seat is.
LEMMA CommandTakes ==
  ASSUME RoomInv, Commands, Sound'
  PROVE  \E k \in 1 .. Len(mem.seats), s \in SeatType, st \in {"waiting", "playing", "finished"} :
           /\ Writes(k, s, st) /\ Sound /\ mem.status # "none"
           /\ db'.status = st /\ DOMAIN db'.rows = DOMAIN db.rows
           /\ \A i \in DOMAIN db.rows :
                db'.rows[i].occ = IF i = s.index THEN s.occ ELSE db.rows[i].occ
<1>1. PICK k \in Positions, s \in SeatType, st \in {"waiting", "playing", "finished"} :
        Writes(k, s, st)
  BY DEF Commands
<1>2. k \in 1 .. Len(mem.seats) /\ DbOK(db) /\ mishaps \in Nat
  BY SeatTypes, BoundsAssumption DEF Positions, RoomInv, CountsOK
<1>3. mem.status # "none"
  <2> SUFFICES ASSUME mem.status = "none" PROVE FALSE
    OBVIOUS
  <2>1. mem.seats = <<>>
    BY DEF RoomInv, StartOK, NoRec
  <2> QED
    BY <2>1 DEF Positions
<1>4. st = "waiting" => db.status \in {"waiting", "gone"}
  BY <1>1 DEF Writes, RoomInv, LobbyOK
<1>5. PICK u : u = Updated(s, st)
  OBVIOUS
<1>6. /\ DOMAIN u.rows = DOMAIN db.rows
      /\ db.status = "gone" => u = db
      /\ db.status # "gone" => u.status = st
      /\ \A i \in DOMAIN db.rows : i # s.index => u.rows[i] = db.rows[i]
      /\ db.status # "gone" => \A i \in DOMAIN db.rows : i = s.index =>
              u.rows[i] = [s EXCEPT !.color = i]
  BY <1>2, <1>4, <1>5, UpdatedRows
<1>7. db' = u /\ mishaps = 0
  <2>1. mishaps' = 0 /\ (db' = u \/ mishaps' = mishaps + 1)
        /\ (mishaps' = mishaps \/ mishaps' = mishaps + 1)
    BY <1>1, <1>5 DEF Writes, Sound
  <2> QED
    BY <1>2, <2>1
<1>8. db.status # "gone"
  BY <1>6, <1>7 DEF Sound
<1>9. ASSUME NEW i \in DOMAIN db.rows
      PROVE  u.rows[i].occ = IF i = s.index THEN s.occ ELSE db.rows[i].occ
  <2>1. CASE i = s.index
    <3>1. u.rows[i] = [s EXCEPT !.color = i]
      BY <1>6, <1>8, <2>1
    <3>2. [s EXCEPT !.color = i].occ = s.occ
      BY DEF SeatType
    <3> QED
      BY <2>1, <3>1, <3>2
  <2>2. CASE i # s.index
    BY <1>6, <2>2
  <2> QED
    BY <2>1, <2>2
<1>10. Sound
  BY <1>7, <1>8 DEF Sound
<1> HIDE DEF SeatType
<1> QED
  BY <1>1, <1>2, <1>3, <1>6, <1>7, <1>8, <1>9, <1>10

LEMMA CommandsKeepSeated ==
  ASSUME RoomInv, SeatedInv, Commands PROVE SeatedInv'
<1> SUFFICES ASSUME Sound'
             PROVE  /\ RowsTaken(mem', db') /\ InStep(mem', db', starting', owed')
                    /\ TableFull(mem') /\ RowsFull(db', starting')
  BY DEF SeatedInv
<1>1. PICK k \in 1 .. Len(mem.seats), s \in SeatType, st \in {"waiting", "playing", "finished"} :
           /\ Writes(k, s, st) /\ Sound /\ mem.status # "none"
           /\ db'.status = st /\ DOMAIN db'.rows = DOMAIN db.rows
           /\ \A i \in DOMAIN db.rows :
                db'.rows[i].occ = IF i = s.index THEN s.occ ELSE db.rows[i].occ
  BY CommandTakes
<1>2. PICK n \in Nat : n = Len(mem.seats)
  BY SeatTypes
<1>3. PICK D : D = DOMAIN db.rows
  OBVIOUS
<1>4. /\ RowsTaken(mem, db) /\ InStep(mem, db, starting, owed)
      /\ TableFull(mem) /\ RowsFull(db, starting)
  BY <1>1 DEF SeatedInv
<1>5. /\ Len(mem'.seats) = n /\ mem'.status = st /\ mem'.seats[k] = s
      /\ \A j \in 1 .. n : j # k => mem'.seats[j] = mem.seats[j]
  BY <1>1, <1>2, WrittenSeats
<1>6. /\ s.index = mem.seats[k].index /\ s.color = mem.seats[k].color
      /\ starting' = starting /\ owed' = owed /\ k \in 1 .. n
  BY <1>1, <1>2 DEF Writes
<1>7. \A j \in 1 .. n : /\ mem'.seats[j].color = mem.seats[j].color
                        /\ mem.seats[j].color \in D
                        /\ mem.seats[j].occ = TRUE => db.rows[mem.seats[j].color].occ = TRUE
  BY <1>2, <1>3, <1>4, <1>5, <1>6 DEF RowsTaken
<1>8. CASE mem.status = "waiting"
  <2>1. /\ n >= 2 /\ D = 0 .. n - 1
        /\ \A j \in 1 .. n : mem.seats[j].index = j - 1 /\ mem.seats[j].color = j - 1
    BY <1>1, <1>2, <1>3, <1>8 DEF RoomInv, LobbyOK, Sound
  <2>2. starting # "trimmed" /\ st \in {"waiting", "playing"}
    BY <1>1, <1>8 DEF RoomInv, StartOK, Writes
  <2>3. \A j \in 1 .. n : mem'.seats[j].occ = TRUE => db'.rows[j - 1].occ = TRUE
    <3> SUFFICES ASSUME NEW j \in 1 .. n, mem'.seats[j].occ = TRUE
                 PROVE  db'.rows[j - 1].occ = TRUE
      OBVIOUS
    <3>1. j - 1 \in D /\ s.index = k - 1
      BY <1>6, <2>1
    <3>2. CASE j = k
      BY <1>1, <1>3, <1>5, <3>1, <3>2
    <3>3. CASE j # k
      <4>1. mem.seats[j].occ = TRUE /\ j - 1 # s.index
        BY <1>2, <1>5, <3>1, <3>3
      <4>2. db.rows[j - 1].occ = TRUE
        BY <1>7, <2>1, <4>1
      <4> QED
        BY <1>1, <1>3, <3>1, <4>1, <4>2
    <3> QED
      BY <3>2, <3>3
  <2>4. RowsTaken(mem', db')
    <3>1. \A j \in 1 .. n : mem'.seats[j].color = j - 1 /\ j - 1 \in DOMAIN db'.rows
      BY <1>1, <1>3, <1>7, <2>1
    <3> QED
      BY <1>5, <2>3, <3>1 DEF RowsTaken
  <2>5. InStep(mem', db', starting', owed')
    BY <1>1, <1>5, <1>6, <2>2 DEF InStep
  <2>6. ASSUME st = "playing" PROVE \A j \in 1 .. n : mem'.seats[j].occ = TRUE
    <3>1. AllSeated(mem'.seats)
      BY <1>1, <1>8, <2>6 DEF Writes
    <3>2. RoomInv'
      BY CommandsKeepRoom
    <3>3. PICK q \in Seq(SeatType) : q = mem'.seats
      BY <3>2 DEF RoomInv, MemOK
    <3>4. q \in [1 .. n -> SeatType] /\ DOMAIN q = 1 .. n
      BY <1>5, <3>3, LenProperties
    <3>5. \A j \in 1 .. n : q[j].occ /\ q[j].occ \in BOOLEAN
      BY <3>1, <3>3, <3>4 DEF AllSeated, SeatType
    <3> QED
      BY <3>3, <3>5
  <2>7. TableFull(mem')
    BY <1>5, <2>1, <2>2, <2>6 DEF TableFull, Started
  <2>8. RowsFull(db', starting')
    <3> SUFFICES ASSUME st = "playing"
                 PROVE  /\ \A i \in D : db'.rows[i].occ = TRUE
                        /\ \E i, j \in D : i # j
      BY <1>1, <1>3, <2>2 DEF RowsFull, Started
    <3>1. 0 \in D /\ 1 \in D
      BY <2>1
    <3>2. \A i \in D : i + 1 \in 1 .. n /\ (i + 1) - 1 = i
      BY <2>1
    <3>3. \A i \in D : db'.rows[i].occ = TRUE
      BY <2>3, <2>6, <3>2
    <3> QED
      BY <3>1, <3>3
  <2> QED
    BY <2>4, <2>5, <2>7, <2>8
<1>9. CASE mem.status # "waiting"
  <2>1. st = mem.status /\ s.occ = mem.seats[k].occ /\ mem.status \in Started
    BY <1>1, <1>9 DEF Writes, Started
  <2>2. n >= 2 /\ s.occ = TRUE /\ \A j \in 1 .. n : mem.seats[j].occ = TRUE
    BY <1>2, <1>4, <1>6, <2>1 DEF TableFull
  <2>3. \A j \in 1 .. n : mem'.seats[j].occ = TRUE
    BY <1>5, <2>2
  <2>4. \A i \in D : db.rows[i].occ = TRUE => db'.rows[i].occ = TRUE
    BY <1>1, <1>3, <2>2
  <2>5. RowsTaken(mem', db')
    BY <1>1, <1>3, <1>5, <1>7, <2>2, <2>4 DEF RowsTaken
  <2>6. InStep(mem', db', starting', owed')
    BY <1>1, <1>4, <1>5, <1>6, <2>1 DEF InStep, OutcomeDue
  <2>7. TableFull(mem')
    BY <1>5, <2>2, <2>3 DEF TableFull
  <2>8. RowsFull(db', starting')
    <3> SUFFICES ASSUME starting # "trimmed"
                 PROVE  /\ \A i \in D : db'.rows[i].occ = TRUE
                        /\ \E i, j \in D : i # j
      BY <1>1, <1>3, <1>6 DEF RowsFull
    <3>1. db.status \in Started
      BY <1>1, <1>4, <2>1 DEF InStep, Started
    <3> QED
      BY <1>3, <1>4, <2>1, <2>4, <3>1 DEF RowsFull
  <2> QED
    BY <2>5, <2>6, <2>7, <2>8
<1> QED
  BY <1>8, <1>9

LEMMA StartTrimKeepsSeated ==
  ASSUME RoomInv, SeatedInv, StartTrim PROVE SeatedInv'
<1> SUFFICES ASSUME Sound
             PROVE  /\ RowsTaken(mem', db) /\ InStep(mem', db, "trimmed", owed)
                    /\ TableFull(mem') /\ RowsFull(db, "trimmed")
  BY DEF SeatedInv, StartTrim, Sound
<1>1. /\ mem' = [status |-> "playing", seats |-> TrimmedSeats]
      /\ Len(Occupied(mem.seats)) >= 2
  BY DEF StartTrim, TrimmedSeats
<1>2. MemOK(mem) /\ RowsTaken(mem, db)
  BY DEF RoomInv, SeatedInv
<1>3. PICK n \in Nat : n = Len(mem'.seats) /\ n >= 2 /\ mem'.status = "playing"
  BY <1>1, <1>2, TrimmedRecord
<1>4. PICK at : /\ at \in [1 .. Len(mem'.seats) -> Taken]
                /\ \A k \in 1 .. Len(mem'.seats) :
                     mem'.seats[k] = [mem.seats[at[k]] EXCEPT !.index = k - 1]
  BY <1>1, <1>2, TrimmedRecord
<1>5. \A k \in 1 .. n : /\ mem'.seats[k].color \in DOMAIN db.rows
                        /\ mem'.seats[k].occ = TRUE
                        /\ db.rows[mem'.seats[k].color].occ = TRUE
  <2> SUFFICES ASSUME NEW k \in 1 .. n
               PROVE  /\ mem'.seats[k].color \in DOMAIN db.rows
                      /\ mem'.seats[k].occ = TRUE
                      /\ db.rows[mem'.seats[k].color].occ = TRUE
    OBVIOUS
  <2>1. at[k] \in 1 .. Len(mem.seats) /\ mem.seats[at[k]] \in SeatType /\ mem.seats[at[k]].occ
    BY <1>3, <1>4, SeatTypes DEF Taken, Positions
  <2>2. mem.seats[at[k]].occ = TRUE
    BY <2>1 DEF SeatType
  <2>3. mem'.seats[k] = [mem.seats[at[k]] EXCEPT !.index = k - 1]
    BY <1>3, <1>4
  <2>4. Alike(mem'.seats[k], mem.seats[at[k]])
    BY <2>1, <2>3, Renumber
  <2> QED
    BY <1>2, <2>1, <2>2, <2>4 DEF RowsTaken, Alike
<1> QED
  BY <1>3, <1>5 DEF RowsTaken, InStep, TableFull, RowsFull

LEMMA FinalizeStartKeepsSeated ==
  ASSUME RoomInv, SeatedInv, FinalizeStart PROVE SeatedInv'
<1> SUFFICES ASSUME Sound'
             PROVE  /\ RowsTaken(mem, db') /\ InStep(mem, db', "no", owed)
                    /\ TableFull(mem) /\ RowsFull(db', "no")
  BY DEF SeatedInv, FinalizeStart
<1>1. mishaps \in Nat /\ DbOK(db) /\ mishaps' = 0 /\ db'.status # "gone"
  BY BoundsAssumption DEF RoomInv, CountsOK, Sound
<1>2. /\ starting = "trimmed" /\ mishaps = 0
      /\ db' = IF db.status = "gone" THEN db
               ELSE [status |-> "playing", rows |-> [i \in Trimmed |-> db.rows[i]]]
  BY <1>1 DEF FinalizeStart
<1>3. db.status # "gone" /\ Sound
  BY <1>1, <1>2 DEF Sound
<1>4. /\ db'.status = "playing" /\ DOMAIN db'.rows = Trimmed
      /\ \A i \in Trimmed : i \in DOMAIN db.rows /\ db'.rows[i] = db.rows[i]
  BY <1>1, <1>2, <1>3, FinalizedRows
<1>5. /\ RowsTaken(mem, db) /\ TableFull(mem)
      /\ (mem.status = "playing" \/ OutcomeDue(mem, owed))
  BY <1>2, <1>3 DEF SeatedInv, InStep
<1>6. PICK n \in Nat : n = Len(mem.seats) /\ n >= 2 /\ \A k \in 1 .. n : mem.seats[k].occ = TRUE
  BY <1>5, SeatTypes DEF TableFull, Started, OutcomeDue
<1>7. \A k \in 1 .. n : mem.seats[k].color \in Trimmed
  BY <1>5, <1>6 DEF RowsTaken, Trimmed
<1>8. \A i \in Trimmed : db'.rows[i].occ = TRUE
  <2>1. \A i \in DOMAIN db.rows : db.rows[i].occ \in BOOLEAN
    BY SeatTypes DEF SeatType
  <2> QED
    BY <1>4, <2>1 DEF Trimmed
<1>9. \E i, j \in Trimmed : i # j
  <2>1. 1 \in 1 .. n /\ 2 \in 1 .. n
    BY <1>6
  <2>2. mem.seats[1].color # mem.seats[2].color
    BY <1>6, <2>1, ColorsDiffer
  <2> QED
    BY <1>7, <2>1, <2>2
<1>10. RowsTaken(mem, db')
  BY <1>4, <1>6, <1>7, <1>8 DEF RowsTaken
<1> QED
  BY <1>4, <1>5, <1>8, <1>9, <1>10 DEF InStep, RowsFull

\* A statement that goes well, and is not overtaken, takes the status of memory.
LEMMA CarriesOn ==
  ASSUME RoomInv, NEW w \in {"playing", "finished"}, NEW ok \in BOOLEAN, Carries(w, ok),
         db.status # "gone", mishaps' = 0
  PROVE  mem'.status = w /\ db'.status = w /\ ~(w = "finished" /\ starting = "trimmed")
<1>1. mishaps \in Nat /\ DbOK(db)
  BY BoundsAssumption DEF RoomInv, CountsOK
<1>2. ok = TRUE
  BY <1>1 DEF Carries
<1>3. db' = Carried(w) /\ ~Overtaken(w)
  BY <1>1, <1>2 DEF Carries
<1> QED
  BY <1>1, <1>3, CarriedRows DEF Overtaken

LEMMA GameKeepsStep ==
  ASSUME RoomInv, InStep(mem, db, starting, owed), GameStep,
         db.status # "gone", mishaps' = 0
  PROVE  InStep(mem', db', starting', owed')
<1>1. MemOK(mem) /\ OwedOK(owed, mem.status) /\ UNCHANGED starting
  BY GameMoves DEF RoomInv
<1>2. CASE \E st \in {"playing", "finished"}, ok \in BOOLEAN : Move(st, ok)
  <2>1. PICK st \in {"playing", "finished"}, ok \in BOOLEAN : Move(st, ok)
    BY <1>2
  <2>2. mem'.status = st /\ db'.status = st /\ ~(st = "finished" /\ starting = "trimmed")
    BY <2>1, CarriesOn DEF Move
  <2> QED
    BY <1>1, <2>2 DEF InStep
<1>3. CASE \/ \E st \in {"playing", "finished"} : BotMove(st)
           \/ \E by \in {"call", "timer"} : Decide(by)
  <2>1. PICK st \in {"playing", "finished"} :
          /\ Plays(st) /\ db' = db
          /\ st = "finished" => \E r \in Results : owed' = owed \cup {r}
    BY <1>3 DEF BotMove, Decide, Results
  <2>2. mem.status = "playing" /\ mem'.status = st
    BY <1>1, <2>1, PlaysStatus
  <2>3. starting # "trimmed" => db.status = "playing"
    BY <2>2 DEF InStep, OutcomeDue
  <2>4. st = "finished" => OutcomeDue(mem', owed')
    BY <2>1, <2>2 DEF OutcomeDue
  <2> QED
    BY <1>1, <2>1, <2>2, <2>3, <2>4 DEF InStep
<1>4. CASE \E w \in {"bot", "won", "call", "timer"} : Persist(w)
  <2>1. PICK w \in {"bot", "won", "call", "timer"} : Persist(w)
    BY <1>4
  <2>2. PICK ok \in BOOLEAN : Carries(IF w = "bot" THEN "playing" ELSE "finished", ok)
    BY <2>1 DEF Persist
  <2>3. CASE w = "bot"
    <3>1. mem'.status = "playing" /\ db'.status = "playing"
      BY <2>2, <2>3, CarriesOn
    <3> QED
      BY <1>1, <3>1 DEF InStep
  <2>4. CASE w # "bot"
    <3>1. mem'.status = "finished" /\ db'.status = "finished" /\ starting # "trimmed"
      BY <2>2, <2>4, CarriesOn
    <3> QED
      BY <1>1, <3>1 DEF InStep
  <2> QED
    BY <2>3, <2>4
<1> QED
  BY <1>2, <1>3, <1>4 DEF GameStep

LEMMA GameKeepsSeated ==
  ASSUME RoomInv, SeatedInv, GameStep PROVE SeatedInv'
<1> SUFFICES ASSUME Sound'
             PROVE  /\ RowsTaken(mem', db') /\ InStep(mem', db', starting', owed')
                    /\ TableFull(mem') /\ RowsFull(db', starting')
  BY DEF SeatedInv
<1>1. /\ mem.status \in Started /\ mem'.seats = mem.seats
      /\ db'.rows = db.rows /\ starting' = starting
      /\ db.status = "gone" => db' = db
      /\ mishaps' = 0 => mishaps = 0
  BY GameMoves DEF Started
<1>2. Sound /\ mishaps' = 0 /\ db.status # "gone"
  BY <1>1 DEF Sound
<1>3. /\ RowsTaken(mem, db) /\ InStep(mem, db, starting, owed)
      /\ TableFull(mem) /\ RowsFull(db, starting)
  BY <1>2 DEF SeatedInv
<1>4. InStep(mem', db', starting', owed')
  BY <1>2, <1>3, GameKeepsStep
<1>5. RowsTaken(mem', db') /\ TableFull(mem')
  BY <1>1, <1>3 DEF RowsTaken, TableFull
<1>6. RowsFull(db', starting')
  BY <1>1, <1>3 DEF RowsFull, InStep, Started
<1> QED
  BY <1>4, <1>5, <1>6

LEMMA LoadKeepsSeated ==
  ASSUME RoomInv, SeatedInv, Load PROVE SeatedInv'
<1> SUFFICES ASSUME Sound
             PROVE  /\ RowsTaken(mem', db) /\ InStep(mem', db, starting, owed)
                    /\ TableFull(mem') /\ RowsFull(db, starting)
  BY DEF SeatedInv, Load, Sound
<1>1. /\ mem.status = "none" /\ db.status # "gone"
      /\ mem' = [status |-> db.status, seats |-> LoadedSeats]
  BY NoRecOK DEF Load
<1>2. DbOK(db) /\ starting = "no" /\ RowsFull(db, starting)
  BY <1>1 DEF RoomInv, StartOK, SeatedInv
<1>3. PICK n \in Nat : n = Len(mem'.seats) /\ mem'.status = db.status
  BY <1>1, <1>2, LoadedRecord
<1>4. PICK at : /\ at \in [1 .. n -> DOMAIN db.rows]
                /\ \A i \in DOMAIN db.rows : \E k \in 1 .. n : at[k] = i
                /\ \A k \in 1 .. n : mem'.seats[k] = db.rows[at[k]] /\ mem'.seats[k].color = at[k]
  BY <1>1, <1>2, <1>3, LoadedRecord DEF Lists
<1>5. RowsTaken(mem', db) /\ InStep(mem', db, starting, owed)
  BY <1>2, <1>3, <1>4 DEF RowsTaken, InStep
<1>6. TableFull(mem')
  <2> SUFFICES ASSUME db.status \in Started
               PROVE  n >= 2 /\ \A k \in 1 .. n : mem'.seats[k].occ = TRUE
    BY <1>3 DEF TableFull
  <2>1. \A i \in DOMAIN db.rows : db.rows[i].occ = TRUE
    BY <1>2 DEF RowsFull
  <2>2. PICK i, j \in DOMAIN db.rows : i # j
    BY <1>2 DEF RowsFull
  <2>3. PICK a, b \in 1 .. n : at[a] = i /\ at[b] = j
    BY <1>4
  <2>4. a # b
    BY <2>2, <2>3
  <2>5. n >= 2
    BY <2>4
  <2> QED
    BY <1>4, <2>1, <2>5
<1> QED
  BY <1>2, <1>5, <1>6

LEMMA LostKeepsSeated ==
  ASSUME RoomInv, SeatedInv, Lost PROVE SeatedInv'
<1> SUFFICES ASSUME Sound'
             PROVE  /\ RowsTaken(mem', db) /\ InStep(mem', db, "no", {})
                    /\ TableFull(mem') /\ RowsFull(db, "no")
  BY DEF SeatedInv, Lost
<1>1. mem' = NoRec /\ mem'.status = "none" /\ 1 .. Len(mem'.seats) = {} /\ db' = db
  <2>1. mem' = NoRec /\ db' = db /\ Len(<<>>) = 0
    BY DEF Lost
  <2> QED
    BY <2>1, NoRecOK
<1>2. mishaps = 0 /\ starting # "trimmed"
  <2>1. mishaps \in Nat /\ mishaps' = 0
    BY BoundsAssumption DEF RoomInv, CountsOK, Sound
  <2> QED
    BY <2>1 DEF Lost
<1>3. Sound
  BY <1>1, <1>2 DEF Sound
<1> QED
  BY <1>1, <1>2, <1>3 DEF SeatedInv, RowsTaken, InStep, TableFull, RowsFull, Started

LEMMA RoomStepKeepsSeated ==
  ASSUME RoomInv, SeatedInv, RoomStep PROVE SeatedInv'
<1>1. CASE LobbyCommand
  BY <1>1, LobbyCommands, CommandsKeepSeated
<1>2. CASE \E key \in keys : StartAuthorised(key)
  <2>1. starting = "no" /\ starting' = "authorised" /\ UNCHANGED <<mem, db, owed, mishaps>>
    BY <1>2 DEF StartAuthorised
  <2> QED
    BY <2>1 DEF SeatedInv, Sound, InStep, RowsFull
<1>3. CASE StartRefused
  <2>1. starting = "authorised" /\ starting' = "no" /\ UNCHANGED <<mem, db, owed, mishaps>>
    BY <1>3 DEF StartRefused
  <2> QED
    BY <2>1 DEF SeatedInv, Sound, InStep, RowsFull
<1>4. CASE StartTrim
  BY <1>4, StartTrimKeepsSeated
<1>5. CASE FinalizeStart
  BY <1>5, FinalizeStartKeepsSeated
<1>6. CASE GameStep
  BY <1>6, GameKeepsSeated
<1>7. CASE Load
  BY <1>7, LoadKeepsSeated
<1>8. CASE DeleteStaleWaitingGames
  BY <1>8 DEF DeleteStaleWaitingGames, SeatedInv, Sound
<1>9. CASE Lost
  BY <1>9, LostKeepsSeated
<1>10. CASE UNCHANGED roomVars
  BY <1>10 DEF roomVars, SeatedInv, Sound
<1> QED
  BY <1>1, <1>2, <1>3, <1>4, <1>5, <1>6, <1>7, <1>8, <1>9, <1>10 DEF RoomStep

-----------------------------------------------------------------------------
(* The properties of the seats.                                            *)

LEMMA NextIsRoomStep == [Next]_vars => RoomStep
<1> SUFFICES ASSUME [Next]_vars PROVE RoomStep
  OBVIOUS
<1>1. CASE Room
  BY <1>1, SeatsNextIsRoomStep DEF Room
<1>2. CASE \E s \in DOMAIN sock : (\E key \in keys : Hello(s, key)) \/ Greeted(s)
                                  \/ Close(s) \/ Gone(s)
  BY <1>2 DEF Hello, Greeted, Close, Gone, RoomStep
<1>3. CASE \E i \in Colors : GraceExpires(i) \/ TimeoutIgnored(i)
  BY <1>3 DEF GraceExpires, TimeoutIgnored, RoomStep
<1>4. CASE \E i \in Colors : TimeoutForfeits(i)
  BY <1>4 DEF TimeoutForfeits, GameStep, RoomStep
<1>5. CASE Finish
  BY <1>5 DEF Finish, GameStep, RoomStep
<1>6. CASE GameEnded
  BY <1>6 DEF GameEnded, RoomStep
<1>7. CASE Restart
  BY <1>7 DEF Restart, Crash, Refused, RoomStep
<1>8. CASE UNCHANGED vars
  BY <1>8 DEF vars, RoomStep
<1>9. CASE Answer
  BY <1>9 DEF Answer, GameStep, RoomStep
<1> QED
  BY <1>1, <1>2, <1>3, <1>4, <1>5, <1>6, <1>7, <1>8, <1>9 DEF Next, Timeout

TableInv == RoomInv /\ KeyInv /\ SeatedInv /\ SoundInv

LEMMA TableHolds == Spec => []TableInv
<1>1. Init => TableInv
  BY InitRoom, InitKeys DEF Init, TableInv
<1>2. TableInv /\ [Next]_vars => TableInv'
  <2> SUFFICES ASSUME TableInv, [Next]_vars PROVE TableInv'
    OBVIOUS
  <2>1. RoomInv /\ KeyInv /\ SeatedInv /\ SoundInv /\ RoomStep
    BY NextIsRoomStep DEF TableInv
  <2>2. RoomInv' /\ KeyInv' /\ SeatedInv' /\ SoundInv'
    BY <2>1, RoomStepKeepsRoom, RoomStepKeepsKeys, RoomStepKeepsSeated, RoomStepKeepsSound
  <2> QED
    BY <2>2 DEF TableInv
<1> QED
  BY <1>1, <1>2, PTL DEF Spec

LEMMA TableOpens == TableInv => KeyOpensSeat
<1> SUFFICES ASSUME TableInv, NEW key \in Kept
             PROVE  /\ \A k \in Positions : Opens(k, key.tok) => Holds(mem.seats[k], key)
                    /\ \A i \in DOMAIN db.rows : db.rows[i].tok = key.tok => Holds(db.rows[i], key)
                    /\ Sound => \E i \in DOMAIN db.rows : db.rows[i].tok = key.tok
                    /\ Sound /\ mem # NoRec => \E k \in Positions : Opens(k, key.tok)
  BY DEF KeyOpensSeat
<1>1. RoomInv /\ KeyInv /\ SoundInv /\ key \in keys /\ key.color \notin strayed
  BY DEF TableInv, Kept
<1>2. \A k \in Positions : Opens(k, key.tok) => Holds(mem.seats[k], key)
  BY <1>1, KeyInvHolds DEF KeysHold
<1>3. \A i \in DOMAIN db.rows : db.rows[i].tok = key.tok => Holds(db.rows[i], key)
  BY <1>1 DEF KeyInv, RowsHold, Fits
<1>4. Sound => \E i \in DOMAIN db.rows : db.rows[i].tok = key.tok
  BY <1>1 DEF SoundInv, KeysKept
<1>5. ASSUME Sound, mem # NoRec PROVE \E k \in Positions : Opens(k, key.tok)
  <2>1. mem.status # "none" /\ Mirrors(mem, db, starting, strayed)
    BY <1>1, <1>5 DEF RoomInv, StartOK, SoundInv
  <2>2. PICK i \in DOMAIN db.rows : db.rows[i].tok = key.tok
    BY <1>4, <1>5
  <2>3. db.rows[i].occ = TRUE /\ i \notin strayed
    <3>1. db.rows[i].occ /\ db.rows[i].occ \in BOOLEAN /\ db.rows[i].color = key.color
      BY <1>1, <1>3, <2>2, SeatTypes DEF Holds, SeatType
    <3>2. db.rows[i].color = i
      BY <1>1 DEF RoomInv, DbOK
    <3> QED
      BY <1>1, <3>1, <3>2
  <2>4. PICK k \in 1 .. Len(mem.seats) : mem.seats[k].color = i
    BY <2>1, <2>3 DEF Mirrors
  <2>5. mem.seats[k].tok = key.tok
    BY <2>1, <2>2, <2>3, <2>4 DEF Mirrors, Alike
  <2>6. k \in Positions /\ key.tok # NoKey
    BY <1>1, SeatTypes, KeyTypes DEF Positions
  <2> QED
    BY <2>5, <2>6 DEF Opens
<1> QED
  BY <1>2, <1>3, <1>4, <1>5

LEMMA SameButIndex ==
  ASSUME NEW s \in SeatType, NEW r \in SeatType, Alike(s, r)
  PROVE  [s EXCEPT !.index = r.index] = r
BY DEF Alike, SeatType

LEMMA TableIsRows == TableInv => MemoryIsRows
<1> SUFFICES ASSUME TableInv, Sound, mem # NoRec, starting # "trimmed", owed \subseteq {"bot"}
             PROVE  /\ mem.status = db.status
                    /\ \A j, k \in Positions : j < k => mem.seats[j].color < mem.seats[k].color
                    /\ \A c \in Colors \ strayed :
                         {[mem.seats[k] EXCEPT !.index = c] :
                            k \in {j \in Positions : mem.seats[j].color = c}}
                         = {db.rows[i] : i \in DOMAIN db.rows \cap {c}}
  BY DEF MemoryIsRows
<1>1. /\ RoomInv /\ Mirrors(mem, db, starting, strayed) /\ InStep(mem, db, starting, owed)
      /\ mem.status # "none" /\ DbOK(db) /\ MemOK(mem)
  BY DEF TableInv, RoomInv, StartOK, SoundInv, SeatedInv
<1>2. mem.status = db.status
  BY <1>1 DEF InStep, OutcomeDue, Results
<1>3. PICK n \in Nat : n = Len(mem.seats) /\ Positions = 1 .. n
  BY <1>1, SeatTypes DEF Positions
<1>4. \A j, k \in Positions : j < k => mem.seats[j].color < mem.seats[k].color
  BY <1>1, <1>3 DEF MemOK
<1>5. ASSUME NEW c \in Colors \ strayed
      PROVE  {[mem.seats[k] EXCEPT !.index = c] :
                k \in {j \in Positions : mem.seats[j].color = c}}
             = {db.rows[i] : i \in DOMAIN db.rows \cap {c}}
  <2>1. ASSUME NEW k \in Positions, mem.seats[k].color = c
        PROVE  c \in DOMAIN db.rows /\ [mem.seats[k] EXCEPT !.index = c] = db.rows[c]
    <3>1. c \in DOMAIN db.rows /\ Alike(mem.seats[k], db.rows[c])
      BY <1>1, <1>3, <2>1 DEF Mirrors
    <3>2. mem.seats[k] \in SeatType /\ db.rows[c] \in SeatType /\ db.rows[c].index = c
      BY <1>1, <1>3, <3>1, SeatTypes DEF DbOK
    <3> QED
      BY <3>1, <3>2, SameButIndex
  <2>2. c \in DOMAIN db.rows => \E k \in Positions : mem.seats[k].color = c
    BY <1>1, <1>3 DEF Mirrors
  <2>3. PICK P : P = {j \in Positions : mem.seats[j].color = c}
    OBVIOUS
  <2>4. ASSUME NEW k \in P
        PROVE  c \in DOMAIN db.rows /\ [mem.seats[k] EXCEPT !.index = c] = db.rows[c]
    BY <2>1, <2>3
  <2>5. DOMAIN db.rows \cap {c} # {} => \E k \in P : TRUE
    BY <2>2, <2>3
  <2>6. {[mem.seats[k] EXCEPT !.index = c] : k \in P} = {db.rows[i] : i \in DOMAIN db.rows \cap {c}}
    BY <2>4, <2>5, Zenon
  <2> QED
    BY <2>3, <2>6
<1> QED
  BY <1>2, <1>4, <1>5

LEMMA SeatedHolds == Spec => [](RoomInv /\ SeatedInv)
<1>1. Init => RoomInv /\ SeatedInv
  BY InitRoom, InitKeys DEF Init
<1>2. RoomInv /\ SeatedInv /\ [Next]_vars => (RoomInv /\ SeatedInv)'
  BY NextIsRoomStep, RoomStepKeepsRoom, RoomStepKeepsSeated
<1> QED
  BY <1>1, <1>2, PTL DEF Spec

LEMMA SeatedPlay == RoomInv /\ SeatedInv => PlayingIsSeated
<1> SUFFICES ASSUME RoomInv, SeatedInv, Sound
             PROVE  /\ mem.status = "playing" => AllSeated(mem.seats) /\ Len(mem.seats) >= 2
                    /\ db.status = "playing" /\ starting # "trimmed" =>
                         \A i \in DOMAIN db.rows : db.rows[i].occ
  BY DEF PlayingIsSeated
<1>1. TableFull(mem) /\ RowsFull(db, starting)
  BY DEF SeatedInv
<1>2. mem.status = "playing" => AllSeated(mem.seats) /\ Len(mem.seats) >= 2
  BY <1>1, SeatTypes DEF TableFull, AllSeated, Started
<1> QED
  BY <1>1, <1>2 DEF RowsFull, Started

\* What a client is promised when a seat is given to it (httpJoin, httpResolveSeat:
\* "store this token"): the token opens that seat, and no other, in memory and
\* in the rows, whatever commands, starts, crashes and loads come after.  The
\* two seats that a ResolveSeat after a start with a gap mixes up are excepted
\* (Kept); no third one is touched by it.
THEOREM KeysOpenTheirSeats == Spec => []KeyOpensSeat
BY TableHolds, TableOpens, PTL

\* The record that LoadGame makes of the rows is the one in memory, the
\* numbers of the seats apart, whenever no statement has failed or was
\* overtaken, no result is still to be written and Start is not between its
\* trim and FinalizeStart; the seats in strayed apart.
THEOREM MemoryMatchesRows == Spec => []MemoryIsRows
BY TableHolds, TableIsRows, PTL

\* startInternal, Join and AddBot, and FinalizeStart and LoadGame after them,
\* never let a game be played with an empty seat or a single player, not even
\* where ResolveSeat has saved a seat under the number of another.
THEOREM PlayersAreSeated == Spec => []PlayingIsSeated
BY SeatedHolds, SeatedPlay, PTL

-----------------------------------------------------------------------------
(* Sockets and counts.                                                     *)

SockType == [at : {"closed", "joining", "up", "leaving"}, index : Colors, color : Colors]

Counts(r) == r.at \in {"joining", "up"}
LiveIn(f) == {s \in DOMAIN f : Counts(f[s])}
LiveAt(f, i) == {s \in LiveIn(f) : f[s].index = i}

\* TypeOK, and why the counts stay finite: one socket at a time says hello.
PeerInv ==
  /\ DOMAIN sock \subseteq Sockets /\ sock \in [DOMAIN sock -> SockType]
  /\ IsFiniteSet(LiveIn(sock))
  /\ refs \in [Colors -> Nat]
  /\ \A i \in Colors : refs[i] <= Cardinality(LiveAt(sock, i))
  /\ timer \in [Colors -> {"none", "armed", "spent"}]
  /\ firing \subseteq Colors /\ ending \in BOOLEAN
  /\ away \subseteq Colors /\ crossed \subseteq Colors

LEMMA OneMore ==
  ASSUME NEW S, IsFiniteSet(S), NEW x
  PROVE  /\ Cardinality(S) \in Nat
         /\ x \notin S => Cardinality(S \cup {x}) = Cardinality(S) + 1 /\ S \ {x} = S
         /\ x \in S => Cardinality(S \ {x}) = Cardinality(S) - 1 /\ S \cup {x} = S
                       /\ Cardinality(S) >= 1
<1>1. Cardinality(S) \in Nat
  BY FS_CardinalityType
<1>2. x \notin S => Cardinality(S \cup {x}) = Cardinality(S) + 1
  BY FS_AddElement
<1>3. x \in S => Cardinality(S \ {x}) = Cardinality(S) - 1
  BY FS_RemoveElement
<1>4. x \in S => Cardinality(S) >= 1
  <2> SUFFICES ASSUME x \in S, Cardinality(S) = 0 PROVE FALSE
    BY <1>1
  <2> QED
    BY FS_EmptySet
<1>5. (x \notin S => S \ {x} = S) /\ (x \in S => S \cup {x} = S)
  OBVIOUS
<1> QED
  BY <1>1, <1>2, <1>3, <1>4, <1>5

LEMMA FiniteAt ==
  ASSUME NEW f, IsFiniteSet(LiveIn(f)), NEW i
  PROVE  IsFiniteSet(LiveAt(f, i)) /\ Cardinality(LiveAt(f, i)) \in Nat
<1>1. LiveAt(f, i) \in SUBSET LiveIn(f)
  BY DEF LiveAt
<1>2. IsFiniteSet(LiveAt(f, i))
  BY <1>1, FS_Subset
<1> QED
  BY <1>2, FS_CardinalityType

\* What becomes of the counts when socket s becomes r.
Recounted(f, g, s, r) ==
  \A i \in Colors : LiveAt(g, i) = IF Counts(r) /\ r.index = i
                                   THEN LiveAt(f, i) \cup {s}
                                   ELSE LiveAt(f, i) \ {s}

LEMMA SockChange ==
  ASSUME NEW D, NEW f \in [D -> SockType], IsFiniteSet(LiveIn(f)),
         NEW s \in D, NEW r \in SockType, NEW g, g = [f EXCEPT ![s] = r]
  PROVE  /\ g \in [D -> SockType] /\ IsFiniteSet(LiveIn(g))
         /\ g[s] = r /\ \A t \in D : t # s => g[t] = f[t]
         /\ Recounted(f, g, s, r)
<1>1. g \in [D -> SockType] /\ g[s] = r /\ \A t \in D : t # s => g[t] = f[t]
  OBVIOUS
<1>2. DOMAIN f = D /\ DOMAIN g = D
  BY <1>1
<1> HIDE DEF SockType, Counts
<1>3. LiveIn(g) \in SUBSET (LiveIn(f) \cup {s})
  BY <1>1, <1>2 DEF LiveIn
<1>4. IsFiniteSet(LiveIn(f) \cup {s})
  BY FS_AddElement
<1>5. IsFiniteSet(LiveIn(g))
  BY <1>3, <1>4, FS_Subset
<1>6. Recounted(f, g, s, r)
  BY <1>1, <1>2 DEF LiveAt, LiveIn, Recounted
<1> QED
  BY <1>1, <1>5, <1>6

\* A socket that begins to count, ceases to, or does neither.
Accounts(f, g, s, r) == \A i \in Colors :
  /\ ~Counts(f[s]) /\ Counts(r) =>
       Cardinality(LiveAt(g, i)) = Cardinality(LiveAt(f, i)) + (IF r.index = i THEN 1 ELSE 0)
  /\ Counts(f[s]) /\ ~Counts(r) =>
       /\ Cardinality(LiveAt(g, i)) = Cardinality(LiveAt(f, i)) - (IF f[s].index = i THEN 1 ELSE 0)
       /\ f[s].index = i => Cardinality(LiveAt(f, i)) >= 1
  /\ (Counts(f[s]) <=> Counts(r)) /\ r.index = f[s].index => LiveAt(g, i) = LiveAt(f, i)
  /\ ~Counts(f[s]) /\ ~Counts(r) => LiveAt(g, i) = LiveAt(f, i)

LEMMA CountChange ==
  ASSUME NEW D, NEW f \in [D -> SockType], IsFiniteSet(LiveIn(f)),
         NEW s \in D, NEW r \in SockType, NEW g, g = [f EXCEPT ![s] = r]
  PROVE  Accounts(f, g, s, r)
<1> SUFFICES ASSUME NEW i \in Colors
             PROVE  /\ ~Counts(f[s]) /\ Counts(r) =>
                         Cardinality(LiveAt(g, i)) = Cardinality(LiveAt(f, i))
                                                     + (IF r.index = i THEN 1 ELSE 0)
                    /\ Counts(f[s]) /\ ~Counts(r) =>
                         /\ Cardinality(LiveAt(g, i)) = Cardinality(LiveAt(f, i))
                                                        - (IF f[s].index = i THEN 1 ELSE 0)
                         /\ f[s].index = i => Cardinality(LiveAt(f, i)) >= 1
                    /\ (Counts(f[s]) <=> Counts(r)) /\ r.index = f[s].index =>
                         LiveAt(g, i) = LiveAt(f, i)
                    /\ ~Counts(f[s]) /\ ~Counts(r) => LiveAt(g, i) = LiveAt(f, i)
  BY DEF Accounts
<1>1. PICK S : S = LiveAt(f, i) /\ IsFiniteSet(S) /\ Cardinality(S) \in Nat
  BY FiniteAt
<1>2. LiveAt(g, i) = IF Counts(r) /\ r.index = i THEN S \cup {s} ELSE S \ {s}
  <2>1. Recounted(f, g, s, r)
    BY SockChange
  <2> QED
    BY <1>1, <2>1 DEF Recounted
<1>3. s \in S <=> Counts(f[s]) /\ f[s].index = i
  BY <1>1 DEF LiveAt, LiveIn
<1> HIDE DEF Counts, SockType
<1>4. ASSUME ~Counts(f[s]), Counts(r)
      PROVE  Cardinality(LiveAt(g, i)) = Cardinality(S) + (IF r.index = i THEN 1 ELSE 0)
  <2>1. S \ {s} = S /\ Cardinality(S \cup {s}) = Cardinality(S) + 1
    BY <1>1, <1>3, <1>4, OneMore
  <2> QED
    BY <1>1, <1>2, <1>4, <2>1
<1>5. ASSUME Counts(f[s]), ~Counts(r)
      PROVE  /\ Cardinality(LiveAt(g, i)) = Cardinality(S) - (IF f[s].index = i THEN 1 ELSE 0)
             /\ f[s].index = i => Cardinality(S) >= 1
  <2>1. LiveAt(g, i) = S \ {s}
    BY <1>2, <1>5
  <2>2. CASE f[s].index = i
    <3>1. s \in S
      BY <1>3, <1>5, <2>2
    <3> QED
      BY <1>1, <2>1, <2>2, <3>1, OneMore
  <2>3. CASE f[s].index # i
    <3>1. s \notin S
      BY <1>3, <2>3
    <3>2. LiveAt(g, i) = S
      BY <2>1, <3>1
    <3> QED
      BY <1>1, <2>3, <3>2
  <2> QED
    BY <2>2, <2>3
<1>6. (Counts(f[s]) <=> Counts(r)) /\ r.index = f[s].index => LiveAt(g, i) = S
  BY <1>2, <1>3
<1>7. ~Counts(f[s]) /\ ~Counts(r) => LiveAt(g, i) = S
  BY <1>2, <1>3
<1> QED
  BY <1>1, <1>4, <1>5, <1>6, <1>7

\* What the four steps of a socket do to it.
LEMMA HelloMoves ==
  ASSUME RoomInv, PeerInv, NEW s \in DOMAIN sock, NEW key \in keys, Hello(s, key)
  PROVE  \E k \in 1 .. Len(mem.seats), r \in SockType, i \in Colors :
           /\ i = mem.seats[k].index /\ sock[s].at = "closed"
           /\ Counts(r) /\ r.index = i /\ r.color = mem.seats[k].color
           /\ refs[i] = 0 => r.at = "joining"
           /\ sock' = [sock EXCEPT ![s] = r] /\ refs' = [refs EXCEPT ![i] = @ + 1]
           /\ crossed' = crossed \cup Crossing(i)
           /\ UNCHANGED <<roomVars, timer, firing, ending, away>>
<1>1. PICK k \in Positions :
        LET i == mem.seats[k].index
        IN  /\ sock[s].at = "closed" /\ Opens(k, key.tok)
            /\ refs' = [refs EXCEPT ![i] = @ + 1]
            /\ sock' = [sock EXCEPT ![s] =
                 [at |-> IF refs[i] = 0 THEN "joining" ELSE "up",
                  index |-> i, color |-> mem.seats[k].color]]
            /\ crossed' = crossed \cup Crossing(i)
            /\ UNCHANGED <<roomVars, timer, firing, ending, away>>
  BY DEF Hello
<1>2. k \in 1 .. Len(mem.seats) /\ mem.seats[k] \in SeatType
  BY SeatTypes DEF Positions
<1>3. PICK i, c \in Colors : i = mem.seats[k].index /\ c = mem.seats[k].color
  BY <1>2 DEF SeatType
<1>4. PICK r : r = [at |-> IF refs[i] = 0 THEN "joining" ELSE "up", index |-> i, color |-> c]
  OBVIOUS
<1>5. /\ r \in SockType /\ Counts(r) /\ r.index = i /\ r.color = c
      /\ refs[i] = 0 => r.at = "joining"
  BY <1>4 DEF SockType, Counts
<1>6. /\ sock' = [sock EXCEPT ![s] = r] /\ refs' = [refs EXCEPT ![i] = @ + 1]
      /\ sock[s].at = "closed" /\ crossed' = crossed \cup Crossing(i)
      /\ UNCHANGED <<roomVars, timer, firing, ending, away>>
  BY <1>1, <1>3, <1>4
<1> HIDE DEF SockType, Counts
<1> QED
  BY <1>2, <1>3, <1>5, <1>6

LEMMA CloseMoves ==
  ASSUME PeerInv, NEW s \in DOMAIN sock, Close(s)
  PROVE  \E r \in SockType, i \in Colors :
           /\ i = sock[s].index /\ sock[s].at = "up"
           /\ ~Counts(r) /\ sock' = [sock EXCEPT ![s] = r]
           /\ refs[i] = 1 => r.at = "leaving" /\ r.index = i /\ r.color = sock[s].color
           /\ refs[i] # 1 => r.at = "closed"
           /\ refs' = [refs EXCEPT ![i] = IF @ = 0 THEN 0 ELSE @ - 1]
           /\ away' = away \cup ({sock[s].color} \ {sock[t].color : t \in LiveIn(sock) \ {s}})
           /\ UNCHANGED <<roomVars, timer, firing, ending, crossed>>
<1>1. sock[s] \in SockType
  BY DEF PeerInv
<1>2. PICK i \in Colors : i = sock[s].index
  BY <1>1 DEF SockType
<1>3. PICK r : r = IF refs[i] = 1 THEN [sock[s] EXCEPT !.at = "leaving"] ELSE Closed
  OBVIOUS
<1>4. 0 \in Colors
  BY SeatsAssumption DEF Colors
<1>5. /\ r \in SockType /\ ~Counts(r)
      /\ refs[i] = 1 => r.at = "leaving" /\ r.index = i /\ r.color = sock[s].color
      /\ refs[i] # 1 => r.at = "closed"
  BY <1>1, <1>2, <1>3, <1>4 DEF SockType, Counts, Closed
<1>6. sock' = [sock EXCEPT ![s] = r]
  BY <1>2, <1>3 DEF Close, LastSocket
<1>7. /\ sock[s].at = "up" /\ refs' = [refs EXCEPT ![i] = IF @ = 0 THEN 0 ELSE @ - 1]
      /\ UNCHANGED <<roomVars, timer, firing, ending, crossed>>
  BY <1>2 DEF Close
<1>8. away' = away \cup ({sock[s].color} \ {sock[t].color : t \in LiveIn(sock) \ {s}})
  <2>1. Live = LiveIn(sock)
    BY DEF Live, LiveIn, Counts
  <2> QED
    BY <2>1 DEF Close
<1> HIDE DEF SockType, Counts
<1> QED
  BY <1>2, <1>5, <1>6, <1>7, <1>8

LEMMA TimerMoves ==
  ASSUME PeerInv, NEW s \in DOMAIN sock, Greeted(s) \/ Gone(s)
  PROVE  \E r \in SockType, i \in Colors :
           /\ i = sock[s].index /\ sock' = [sock EXCEPT ![s] = r]
           /\ UNCHANGED <<roomVars, refs, firing, ending, away, crossed>>
           /\ \/ /\ sock[s].at = "joining" /\ r.at = "up" /\ r.index = i /\ r.color = sock[s].color
                 /\ timer' = [timer EXCEPT ![i] = "none"]
              \/ /\ sock[s].at = "leaving" /\ r.at = "closed"
                 /\ timer' = [timer EXCEPT ![i] = "armed"]
<1>1. sock[s] \in SockType
  BY DEF PeerInv
<1>2. PICK i \in Colors : i = sock[s].index
  BY <1>1 DEF SockType
<1>3. 0 \in Colors
  BY SeatsAssumption DEF Colors
<1>4. CASE Greeted(s)
  <2>1. PICK r : r = [sock[s] EXCEPT !.at = "up"]
    OBVIOUS
  <2>2. r \in SockType /\ r.at = "up" /\ r.index = i /\ r.color = sock[s].color
    BY <1>1, <1>2, <2>1 DEF SockType
  <2>3. /\ sock' = [sock EXCEPT ![s] = r] /\ timer' = [timer EXCEPT ![i] = "none"]
        /\ sock[s].at = "joining" /\ UNCHANGED <<roomVars, refs, firing, ending, away, crossed>>
    BY <1>2, <1>4, <2>1 DEF Greeted
  <2> HIDE DEF SockType
  <2> QED
    BY <1>2, <2>2, <2>3
<1>5. CASE Gone(s)
  <2>1. PICK r : r = Closed
    OBVIOUS
  <2>2. r \in SockType /\ r.at = "closed"
    BY <1>3, <2>1 DEF SockType, Closed
  <2>3. /\ sock' = [sock EXCEPT ![s] = r] /\ timer' = [timer EXCEPT ![i] = "armed"]
        /\ sock[s].at = "leaving" /\ UNCHANGED <<roomVars, refs, firing, ending, away, crossed>>
    BY <1>2, <1>5, <2>1 DEF Gone
  <2> HIDE DEF SockType
  <2> QED
    BY <1>2, <2>2, <2>3
<1> QED
  BY <1>4, <1>5

\* A change of one socket and of the counts, whose types are then to be kept.
LEMMA SockKeepsPeers ==
  ASSUME PeerInv, NEW s \in DOMAIN sock, NEW r \in SockType, sock' = [sock EXCEPT ![s] = r],
         refs' \in [Colors -> Nat],
         \A i \in Colors : refs'[i] <= Cardinality(LiveAt(sock', i)),
         timer' \in [Colors -> {"none", "armed", "spent"}],
         firing' \subseteq Colors, ending' \in BOOLEAN,
         away' \subseteq Colors, crossed' \subseteq Colors
  PROVE  PeerInv'
<1>1. PICK D : D = DOMAIN sock
  OBVIOUS
<1>2. sock \in [D -> SockType] /\ IsFiniteSet(LiveIn(sock)) /\ D \subseteq Sockets
  BY <1>1 DEF PeerInv
<1>3. sock' \in [D -> SockType] /\ IsFiniteSet(LiveIn(sock'))
  BY <1>1, <1>2, SockChange
<1>4. DOMAIN sock' = D
  BY <1>3
<1> QED
  BY <1>2, <1>3, <1>4 DEF PeerInv

LEMMA HelloKeepsPeers ==
  ASSUME RoomInv, PeerInv, NEW s \in DOMAIN sock, NEW key \in keys, Hello(s, key)
  PROVE  PeerInv'
<1>1. PICK r \in SockType, i \in Colors :
           /\ sock[s].at = "closed" /\ Counts(r) /\ r.index = i
           /\ sock' = [sock EXCEPT ![s] = r] /\ refs' = [refs EXCEPT ![i] = @ + 1]
           /\ crossed' = crossed \cup Crossing(i)
           /\ UNCHANGED <<timer, firing, ending, away>>
  BY HelloMoves
<1>2. PICK D : D = DOMAIN sock
  OBVIOUS
<1>3. sock \in [D -> SockType] /\ IsFiniteSet(LiveIn(sock)) /\ refs \in [Colors -> Nat]
  BY <1>2 DEF PeerInv
<1>4. refs' \in [Colors -> Nat] /\ \A j \in Colors : refs'[j] = refs[j] + (IF j = i THEN 1 ELSE 0)
  BY <1>1, <1>3
<1>5. ASSUME NEW j \in Colors PROVE refs'[j] <= Cardinality(LiveAt(sock', j))
  <2>1. ~Counts(sock[s])
    BY <1>1 DEF Counts
  <2>2. Cardinality(LiveAt(sock', j)) = Cardinality(LiveAt(sock, j)) + (IF r.index = j THEN 1 ELSE 0)
    <3>1. Accounts(sock, sock', s, r)
      BY <1>1, <1>2, <1>3, CountChange
    <3> QED
      BY <1>1, <2>1, <3>1 DEF Accounts
  <2>3. refs[j] <= Cardinality(LiveAt(sock, j)) /\ refs[j] \in Nat /\ Cardinality(LiveAt(sock, j)) \in Nat
    BY <1>3, FiniteAt DEF PeerInv
  <2> QED
    BY <1>1, <1>4, <2>2, <2>3
<1>6. /\ timer' \in [Colors -> {"none", "armed", "spent"}]
      /\ firing' \subseteq Colors /\ ending' \in BOOLEAN
      /\ away' \subseteq Colors /\ crossed' \subseteq Colors
  BY <1>1 DEF PeerInv, Crossing
<1> QED
  BY <1>1, <1>4, <1>5, <1>6, SockKeepsPeers

LEMMA CloseKeepsPeers ==
  ASSUME PeerInv, NEW s \in DOMAIN sock, Close(s)
  PROVE  PeerInv'
<1>1. PICK r \in SockType, i \in Colors :
           /\ i = sock[s].index /\ sock[s].at = "up" /\ ~Counts(r)
           /\ sock' = [sock EXCEPT ![s] = r]
           /\ refs' = [refs EXCEPT ![i] = IF @ = 0 THEN 0 ELSE @ - 1]
           /\ away' = away \cup ({sock[s].color} \ {sock[t].color : t \in LiveIn(sock) \ {s}})
           /\ UNCHANGED <<timer, firing, ending, crossed>>
  BY CloseMoves
<1>2. PICK D : D = DOMAIN sock
  OBVIOUS
<1>3. sock \in [D -> SockType] /\ IsFiniteSet(LiveIn(sock)) /\ refs \in [Colors -> Nat]
  BY <1>2 DEF PeerInv
<1>4. /\ refs' \in [Colors -> Nat]
      /\ \A j \in Colors : j # i => refs'[j] = refs[j]
      /\ refs'[i] = IF refs[i] = 0 THEN 0 ELSE refs[i] - 1
  BY <1>1, <1>3
<1>5. ASSUME NEW j \in Colors PROVE refs'[j] <= Cardinality(LiveAt(sock', j))
  <2>1. Counts(sock[s])
    BY <1>1 DEF Counts
  <2>2. /\ Cardinality(LiveAt(sock', j)) = Cardinality(LiveAt(sock, j)) - (IF sock[s].index = j THEN 1 ELSE 0)
        /\ sock[s].index = j => Cardinality(LiveAt(sock, j)) >= 1
    <3>1. Accounts(sock, sock', s, r)
      BY <1>1, <1>2, <1>3, CountChange
    <3> QED
      BY <1>1, <2>1, <3>1 DEF Accounts
  <2>3. refs[j] <= Cardinality(LiveAt(sock, j)) /\ refs[j] \in Nat /\ Cardinality(LiveAt(sock, j)) \in Nat
    BY <1>3, FiniteAt DEF PeerInv
  <2> QED
    BY <1>1, <1>4, <2>2, <2>3
<1>6. sock[s].color \in Colors
  BY <1>2, <1>3 DEF SockType
<1>7. /\ timer' \in [Colors -> {"none", "armed", "spent"}]
      /\ firing' \subseteq Colors /\ ending' \in BOOLEAN
      /\ away' \subseteq Colors /\ crossed' \subseteq Colors
  BY <1>1, <1>6 DEF PeerInv
<1> QED
  BY <1>1, <1>4, <1>5, <1>7, SockKeepsPeers

LEMMA TimerKeepsPeers ==
  ASSUME PeerInv, NEW s \in DOMAIN sock, Greeted(s) \/ Gone(s)
  PROVE  PeerInv' /\ \A j \in Colors : LiveAt(sock', j) = LiveAt(sock, j)
<1>1. PICK r \in SockType, i \in Colors :
           /\ i = sock[s].index /\ sock' = [sock EXCEPT ![s] = r]
           /\ UNCHANGED <<refs, firing, ending, away, crossed>>
           /\ timer' = [timer EXCEPT ![i] = "none"] \/ timer' = [timer EXCEPT ![i] = "armed"]
           /\ \/ sock[s].at = "joining" /\ r.at = "up" /\ r.index = i
              \/ sock[s].at = "leaving" /\ r.at = "closed"
  BY TimerMoves
<1>2. PICK D : D = DOMAIN sock
  OBVIOUS
<1>3. sock \in [D -> SockType] /\ IsFiniteSet(LiveIn(sock)) /\ refs \in [Colors -> Nat]
  BY <1>2 DEF PeerInv
<1>4. \/ (Counts(sock[s]) <=> Counts(r)) /\ r.index = sock[s].index
      \/ ~Counts(sock[s]) /\ ~Counts(r)
  BY <1>1 DEF Counts
<1>5. \A j \in Colors : LiveAt(sock', j) = LiveAt(sock, j)
  <2>1. Accounts(sock, sock', s, r)
    BY <1>1, <1>2, <1>3, CountChange
  <2> QED
    BY <1>4, <2>1 DEF Accounts
<1>6. refs' \in [Colors -> Nat] /\ \A j \in Colors : refs'[j] <= Cardinality(LiveAt(sock', j))
  BY <1>1, <1>5 DEF PeerInv
<1>7. /\ timer' \in [Colors -> {"none", "armed", "spent"}]
      /\ firing' \subseteq Colors /\ ending' \in BOOLEAN
      /\ away' \subseteq Colors /\ crossed' \subseteq Colors
  BY <1>1 DEF PeerInv
<1> QED
  BY <1>1, <1>5, <1>6, <1>7, SockKeepsPeers

LEMMA NobodyLive ==
  ASSUME NEW f, NEW D, f = [s \in D |-> Closed]
  PROVE  /\ f \in [D -> SockType] /\ DOMAIN f = D /\ \A s \in D : f[s].at = "closed"
         /\ IsFiniteSet(LiveIn(f))
         /\ \A i \in Colors : Cardinality(LiveAt(f, i)) = 0
<1>1. Closed \in SockType /\ ~Counts(Closed) /\ Closed.at = "closed"
  BY SeatsAssumption DEF Closed, SockType, Counts, Colors
<1>2. LiveIn(f) = {}
  BY <1>1 DEF LiveIn
<1>3. \A i \in Colors : LiveAt(f, i) = {}
  BY <1>2 DEF LiveAt
<1>4. IsFiniteSet({}) /\ Cardinality({}) = 0
  BY FS_EmptySet
<1> QED
  BY <1>1, <1>2, <1>3, <1>4

LEMMA InitPeers == Init => PeerInv
<1> SUFFICES ASSUME Init PROVE PeerInv
  OBVIOUS
<1>1. PICK D \in SUBSET Sockets : sock = [s \in D |-> Closed]
  BY DEF Init
<1>2. /\ sock \in [D -> SockType] /\ DOMAIN sock = D /\ IsFiniteSet(LiveIn(sock))
      /\ \A i \in Colors : Cardinality(LiveAt(sock, i)) = 0
  BY <1>1, NobodyLive
<1>3. refs \in [Colors -> Nat] /\ \A i \in Colors : refs[i] = 0
  BY DEF Init
<1>4. timer \in [Colors -> {"none", "armed", "spent"}]
  BY DEF Init, NoTimers
<1>5. /\ firing \subseteq Colors /\ ending \in BOOLEAN
      /\ away \subseteq Colors /\ crossed \subseteq Colors
  BY DEF Init
<1> QED
  BY <1>2, <1>3, <1>4, <1>5 DEF PeerInv

LEMMA NextKeepsPeers ==
  ASSUME RoomInv, PeerInv, [Next]_vars PROVE PeerInv'
<1>1. CASE Room \/ Answer \/ UNCHANGED vars
  BY <1>1 DEF Room, Answer, vars, peerVars, PeerInv
<1>2. CASE \E s \in DOMAIN sock : \E key \in keys : Hello(s, key)
  BY <1>2, HelloKeepsPeers
<1>3. CASE \E s \in DOMAIN sock : Greeted(s) \/ Gone(s)
  BY <1>3, TimerKeepsPeers
<1>4. CASE \E s \in DOMAIN sock : Close(s)
  BY <1>4, CloseKeepsPeers
<1>5. CASE \E i \in Colors : GraceExpires(i)
  BY <1>5 DEF GraceExpires, PeerInv
<1>6. CASE \E i \in Colors : Timeout(i)
  BY <1>6 DEF Timeout, TimeoutIgnored, TimeoutForfeits, PeerInv
<1>7. CASE Finish
  BY <1>7 DEF Finish, PeerInv
<1>8. CASE GameEnded
  <2>1. refs' = [i \in Colors |-> 0] /\ timer' = NoTimers /\ UNCHANGED <<sock, firing, away, crossed>>
        /\ ending' = FALSE
    BY <1>8 DEF GameEnded
  <2>2. \A i \in Colors : refs'[i] = 0 /\ Cardinality(LiveAt(sock, i)) \in Nat
    BY <2>1, FiniteAt DEF PeerInv
  <2>3. refs' \in [Colors -> Nat] /\ timer' \in [Colors -> {"none", "armed", "spent"}]
    BY <2>1 DEF NoTimers
  <2>4. \A i \in Colors : refs'[i] <= Cardinality(LiveAt(sock, i))
    BY <2>2
  <2> QED
    BY <2>1, <2>3, <2>4 DEF PeerInv
<1>9. CASE Restart
  <2>1. PICK D : D = DOMAIN sock
    OBVIOUS
  <2>2. /\ sock' = [s \in D |-> Closed] /\ refs' = [i \in Colors |-> 0]
        /\ timer' = NoTimers /\ firing' = {} /\ ending' = FALSE
        /\ away' = {} /\ crossed' = {}
    BY <1>9, <2>1 DEF Restart
  <2>3. /\ sock' \in [D -> SockType] /\ DOMAIN sock' = D /\ IsFiniteSet(LiveIn(sock'))
        /\ \A i \in Colors : Cardinality(LiveAt(sock', i)) = 0
    BY <2>2, NobodyLive
  <2>4. refs' \in [Colors -> Nat] /\ timer' \in [Colors -> {"none", "armed", "spent"}]
        /\ \A i \in Colors : refs'[i] = 0
    BY <2>2 DEF NoTimers
  <2>5. D \subseteq Sockets
    BY <2>1 DEF PeerInv
  <2>6. \A i \in Colors : refs'[i] <= Cardinality(LiveAt(sock', i))
    BY <2>3, <2>4
  <2> QED
    BY <2>2, <2>3, <2>4, <2>5, <2>6 DEF PeerInv
<1> QED
  BY <1>1, <1>2, <1>3, <1>4, <1>5, <1>6, <1>7, <1>8, <1>9 DEF Next

LEMMA PeerTypes == RoomInv /\ PeerInv => TypeOK
<1> SUFFICES ASSUME RoomInv, PeerInv PROVE TypeOK
  OBVIOUS
<1>1. SeatsTypeOK
  BY RoomTypes
<1>2. \A i \in Colors : {s \in Live : sock[s].index = i} = LiveAt(sock, i)
  BY DEF Live, LiveAt, LiveIn, Counts
<1>3. \A i \in Colors : refs[i] <= Cardinality({s \in Live : sock[s].index = i})
  BY <1>2 DEF PeerInv
<1>4. DOMAIN refs = Colors
  BY DEF PeerInv
<1> QED
  BY <1>1, <1>3, <1>4 DEF TypeOK, PeerInv, SockType

LEMMA PeersHold == Spec => [](RoomInv /\ PeerInv)
<1>1. Init => RoomInv /\ PeerInv
  BY InitRoom, InitPeers DEF Init
<1>2. RoomInv /\ PeerInv /\ [Next]_vars => (RoomInv /\ PeerInv)'
  BY NextIsRoomStep, RoomStepKeepsRoom, NextKeepsPeers
<1> QED
  BY <1>1, <1>2, PTL DEF Spec

\* Every variable keeps its type: the fields of a seat that InviteSeat,
\* ResolveSeat and the others rewrite, the row UpdateSeat finds, and
\* Store.seatRefs, which never counts a socket that is not there.
THEOREM PresenceTypeCorrect == Spec => []TypeOK
BY PeersHold, PeerTypes, PTL

-----------------------------------------------------------------------------
(* Who is away.                                                            *)

Whole(m) == /\ m.status \in {"waiting", "playing"}
            /\ \A k \in 1 .. Len(m.seats) : m.seats[k].color = k - 1

Watched ==
  /\ \A s \in DOMAIN sock : sock[s].at # "closed" => sock[s].index = sock[s].color
  /\ \A i \in Colors : refs[i] = Cardinality(LiveAt(sock, i))
  /\ \A c \in away : \/ timer[c] # "none" \/ LiveAt(sock, c) # {}
                     \/ \E s \in DOMAIN sock : sock[s].at = "leaving" /\ sock[s].index = c

AllGone == /\ \A s \in DOMAIN sock : sock[s].at = "closed"
           /\ firing = {} /\ away = {} /\ \A i \in Colors : timer[i] # "armed"

\* While the game may still be played with every seat at its index, the counts
\* are exact, and a timer, a socket or a goroutine stands for whoever has been
\* away; without a record there is nobody.
WatchInv ==
  /\ ending = TRUE => mem.status = "finished"
  /\ mem.status = "none" => AllGone
  /\ Whole(mem) => Watched

\* What a step of the room can do to the record, short of a crash.
MemMoves ==
  /\ mem'.status = "none" => mem.status = "none"
  /\ mem.status = "finished" => mem'.status = "finished"
  /\ Whole(mem') => Whole(mem) \/ mem.status = "none"

LEMMA CommandsMove ==
  ASSUME RoomInv, Commands PROVE MemMoves
<1>1. PICK k \in Positions, s \in SeatType, st \in {"waiting", "playing", "finished"} :
        Writes(k, s, st)
  BY DEF Commands
<1>2. k \in 1 .. Len(mem.seats) /\ s.color = mem.seats[k].color
  BY <1>1, SeatTypes DEF Writes, Positions
<1>3. /\ Len(mem'.seats) = Len(mem.seats) /\ mem'.status = st
      /\ \A j \in 1 .. Len(mem.seats) : mem'.seats[j].color = mem.seats[j].color
  BY <1>1, <1>2, WrittenSeats
<1>4. st = mem.status \/ (mem.status = "waiting" /\ st \in {"waiting", "playing"})
  BY <1>1 DEF Writes
<1> QED
  BY <1>3, <1>4 DEF MemMoves, Whole

LEMMA GameMovesMem ==
  ASSUME RoomInv, GameStep PROVE MemMoves
<1>1. PICK st \in {"playing", "finished"} : Status(st) /\ mem'.status = st
  BY GameIsStatus
<1>2. mem'.seats = mem.seats
  BY <1>1 DEF Status
<1> QED
  BY <1>1, <1>2 DEF Status, MemMoves, Whole

LEMMA SeatsMoves ==
  ASSUME RoomInv, SeatsNext PROVE MemMoves
<1>1. CASE LobbyCommand
  BY <1>1, LobbyCommands, CommandsMove
<1>2. CASE StartTrim
  <2>1. mem.status = "waiting" /\ mem'.status = "playing"
    BY <1>2 DEF StartTrim
  <2>2. Whole(mem)
    BY <2>1 DEF Whole, RoomInv, LobbyOK
  <2> QED
    BY <2>1, <2>2 DEF MemMoves
<1>3. CASE GameStep
  BY <1>3, GameMovesMem
<1>4. CASE Load
  BY <1>4, NoRecOK DEF Load, MemMoves, RoomInv, DbOK
<1>5. CASE mem' = mem
  BY <1>5 DEF MemMoves
<1>6. mem' = mem \/ LobbyCommand \/ StartTrim \/ GameStep \/ Load
  BY DEF SeatsNext, LobbyCommand, StartAuthorised, StartRefused, FinalizeStart,
         DeleteStaleWaitingGames, GameStep
<1> QED
  BY <1>1, <1>2, <1>3, <1>4, <1>5, <1>6

LEMMA NobodyToWatch ==
  ASSUME PeerInv, AllGone PROVE Watched
<1>1. \A i \in Colors : LiveAt(sock, i) = {}
  BY DEF AllGone, LiveAt, LiveIn, Counts
<1>2. ASSUME NEW i \in Colors PROVE refs[i] = Cardinality(LiveAt(sock, i))
  <2>1. Cardinality(LiveAt(sock, i)) = 0
    BY <1>1, FS_EmptySet
  <2>2. refs[i] \in Nat /\ refs[i] <= Cardinality(LiveAt(sock, i))
    BY DEF PeerInv
  <2> QED
    BY <2>1, <2>2
<1> QED
  BY <1>2 DEF AllGone, Watched

LEMMA RoomKeepsWatch ==
  ASSUME RoomInv, PeerInv, WatchInv, MemMoves, UNCHANGED peerVars PROVE WatchInv'
<1>1. Whole(mem') => Watched
  BY NobodyToWatch DEF MemMoves, WatchInv
<1> QED
  BY <1>1 DEF peerVars, MemMoves, WatchInv, Watched, AllGone

LEMMA EndKeepsWatch ==
  ASSUME mem'.status = "finished" PROVE WatchInv'
BY DEF WatchInv, Whole

\* The steps that end a game.
LEMMA Ended ==
  ASSUME RoomInv, Finish \/ \E i \in Colors : TimeoutForfeits(i)
  PROVE  mem'.status = "finished"
<1>1. MemOK(mem) /\ Plays("finished")
  BY DEF RoomInv, Finish, TimeoutForfeits, Decide, Move
<1> QED
  BY <1>1, PlaysStatus

\* A step of the peers leaves the record alone.
LEMMA PeersKeepWatch ==
  ASSUME WatchInv, mem' = mem, mem.status # "none", ending' = ending \/ ending' = FALSE,
         Whole(mem) => Watched'
  PROVE  WatchInv'
BY DEF WatchInv

LEMMA SomebodyThere ==
  ASSUME WatchInv, NEW s \in DOMAIN sock, sock[s].at # "closed" PROVE mem.status # "none"
BY DEF WatchInv, AllGone

LEMMA HelloKeepsWatch ==
  ASSUME RoomInv, PeerInv, WatchInv, NEW s \in DOMAIN sock, NEW key \in keys, Hello(s, key)
  PROVE  WatchInv'
<1>1. PICK k \in 1 .. Len(mem.seats), r \in SockType, i \in Colors :
           /\ i = mem.seats[k].index /\ sock[s].at = "closed"
           /\ Counts(r) /\ r.index = i /\ r.color = mem.seats[k].color
           /\ sock' = [sock EXCEPT ![s] = r] /\ refs' = [refs EXCEPT ![i] = @ + 1]
           /\ UNCHANGED <<roomVars, timer, firing, ending, away>>
  BY HelloMoves
<1>2. mem' = mem
  BY <1>1 DEF roomVars
<1>3. mem.status # "none"
  <2> SUFFICES ASSUME mem.status = "none" PROVE FALSE
    OBVIOUS
  <2>1. mem.seats = <<>> /\ Len(<<>>) = 0
    BY DEF RoomInv, StartOK, NoRec
  <2> QED
    BY <1>1, <2>1
<1>4. ASSUME Whole(mem) PROVE Watched'
  <2>1. PICK D : D = DOMAIN sock
    OBVIOUS
  <2>2. sock \in [D -> SockType] /\ IsFiniteSet(LiveIn(sock)) /\ refs \in [Colors -> Nat]
    BY <2>1 DEF PeerInv
  <2>3. /\ sock' \in [D -> SockType] /\ sock'[s] = r
        /\ \A t \in D : t # s => sock'[t] = sock[t]
    BY <1>1, <2>1, <2>2
  <2>4. Accounts(sock, sock', s, r) /\ Recounted(sock, sock', s, r)
    BY <1>1, <2>1, <2>2, CountChange, SockChange
  <2>5. Watched
    BY <1>4 DEF WatchInv
  <2>6. r.index = r.color
    BY <1>1, <1>4 DEF Whole, RoomInv, MemOK
  <2>7. \A t \in D : sock'[t].at # "closed" => sock'[t].index = sock'[t].color
    BY <2>1, <2>3, <2>5, <2>6 DEF Watched
  <2>8. ASSUME NEW j \in Colors PROVE refs'[j] = Cardinality(LiveAt(sock', j))
    <3>1. Cardinality(LiveAt(sock', j)) = Cardinality(LiveAt(sock, j)) + (IF r.index = j THEN 1 ELSE 0)
      BY <1>1, <2>4 DEF Accounts, Counts
    <3>2. refs[j] = Cardinality(LiveAt(sock, j)) /\ refs[j] \in Nat
      BY <2>2, <2>5 DEF Watched
    <3>3. refs'[j] = refs[j] + (IF j = i THEN 1 ELSE 0)
      BY <1>1, <2>2
    <3> QED
      BY <1>1, <3>1, <3>2, <3>3
  <2>9. ASSUME NEW c \in away
         PROVE  \/ timer[c] # "none" \/ LiveAt(sock', c) # {}
                \/ \E t \in D : sock'[t].at = "leaving" /\ sock'[t].index = c
    <3>1. c \in Colors
      BY DEF PeerInv
    <3>2. LiveAt(sock, c) \subseteq LiveAt(sock', c)
      <4>1. s \notin LiveAt(sock, c)
        BY <1>1 DEF LiveAt, LiveIn, Counts
      <4> QED
        BY <3>1, <2>4, <4>1 DEF Recounted
    <3>3. CASE \E t \in D : sock[t].at = "leaving" /\ sock[t].index = c
      BY <1>1, <2>3, <3>3
    <3> QED
      BY <2>1, <2>5, <3>2, <3>3 DEF Watched
  <2>10. DOMAIN sock' = D /\ UNCHANGED <<timer, away>>
    BY <1>1, <2>3
  <2> QED
    BY <2>7, <2>8, <2>9, <2>10 DEF Watched
<1> QED
  BY <1>1, <1>2, <1>3, <1>4, PeersKeepWatch

LEMMA CloseKeepsWatch ==
  ASSUME RoomInv, PeerInv, WatchInv, NEW s \in DOMAIN sock, Close(s)
  PROVE  WatchInv'
<1>1. PICK r \in SockType, i \in Colors :
           /\ i = sock[s].index /\ sock[s].at = "up"
           /\ ~Counts(r) /\ sock' = [sock EXCEPT ![s] = r]
           /\ refs[i] = 1 => r.at = "leaving" /\ r.index = i /\ r.color = sock[s].color
           /\ refs[i] # 1 => r.at = "closed"
           /\ refs' = [refs EXCEPT ![i] = IF @ = 0 THEN 0 ELSE @ - 1]
           /\ away' = away \cup ({sock[s].color} \ {sock[t].color : t \in LiveIn(sock) \ {s}})
           /\ UNCHANGED <<roomVars, timer, firing, ending>>
  BY CloseMoves
<1>2. mem' = mem
  BY <1>1 DEF roomVars
<1>3. mem.status # "none"
  BY <1>1, SomebodyThere
<1>4. ASSUME Whole(mem) PROVE Watched'
  <2>1. PICK D : D = DOMAIN sock
    OBVIOUS
  <2>2. sock \in [D -> SockType] /\ IsFiniteSet(LiveIn(sock)) /\ refs \in [Colors -> Nat]
    BY <2>1 DEF PeerInv
  <2>3. /\ sock' \in [D -> SockType] /\ sock'[s] = r
        /\ \A t \in D : t # s => sock'[t] = sock[t]
    BY <1>1, <2>1, <2>2
  <2>4. Accounts(sock, sock', s, r) /\ Recounted(sock, sock', s, r)
    BY <1>1, <2>1, <2>2, CountChange, SockChange
  <2>5. Watched /\ sock[s].color = i /\ Counts(sock[s])
    BY <1>1, <1>4 DEF WatchInv, Watched, Counts
  <2>6. away \subseteq away' /\ away' \subseteq away \cup {i}
    BY <1>1, <2>5
  <2>7. \A t \in D : sock'[t].at # "closed" => sock'[t].index = sock'[t].color
    BY <1>1, <2>1, <2>3, <2>5 DEF Watched
  <2>8. ASSUME NEW j \in Colors
        PROVE  /\ refs'[j] = Cardinality(LiveAt(sock', j))
               /\ refs[j] = Cardinality(LiveAt(sock, j)) /\ refs[j] \in Nat
               /\ j = i => refs[j] >= 1 /\ refs'[j] = refs[j] - 1
    <3>1. /\ Cardinality(LiveAt(sock', j)) = Cardinality(LiveAt(sock, j)) - (IF sock[s].index = j THEN 1 ELSE 0)
          /\ sock[s].index = j => Cardinality(LiveAt(sock, j)) >= 1
      BY <1>1, <2>4, <2>5 DEF Accounts
    <3>2. refs[j] = Cardinality(LiveAt(sock, j)) /\ refs[j] \in Nat
      BY <2>2, <2>5 DEF Watched
    <3>3. /\ j # i => refs'[j] = refs[j]
          /\ j = i => refs'[j] = IF refs[j] = 0 THEN 0 ELSE refs[j] - 1
      BY <1>1, <2>2
    <3> QED
      BY <1>1, <3>1, <3>2, <3>3
  <2>9. ASSUME NEW c \in away'
         PROVE  \/ timer[c] # "none" \/ LiveAt(sock', c) # {}
                \/ \E t \in D : sock'[t].at = "leaving" /\ sock'[t].index = c
    <3>1. CASE c = i
      <4>1. CASE refs[i] = 1
        BY <1>1, <2>1, <2>3, <3>1, <4>1
      <4>2. CASE refs[i] # 1
        <5>1. Cardinality(LiveAt(sock', i)) # 0
          BY <2>8, <4>2
        <5>2. LiveAt(sock', i) # {}
          BY <5>1, FS_EmptySet
        <5> QED
          BY <3>1, <5>2
      <4> QED
        BY <4>1, <4>2
    <3>2. CASE c # i
      <4>1. c \in away /\ c \in Colors
        BY <2>6, <3>2 DEF PeerInv
      <4>2. s \notin LiveAt(sock, c)
        BY <1>1, <3>2 DEF LiveAt
      <4>3. LiveAt(sock', c) = LiveAt(sock, c)
        <5>1. LiveAt(sock', c) = LiveAt(sock, c) \ {s}
          BY <1>1, <2>4, <4>1 DEF Recounted
        <5> QED
          BY <4>2, <5>1
      <4>4. CASE \E t \in D : sock[t].at = "leaving" /\ sock[t].index = c
        BY <1>1, <2>3, <4>4
      <4> QED
        BY <2>1, <2>5, <4>1, <4>3, <4>4 DEF Watched
    <3> QED
      BY <3>1, <3>2
  <2>10. DOMAIN sock' = D /\ UNCHANGED timer
    BY <1>1, <2>3
  <2>11. \A j \in Colors : refs'[j] = Cardinality(LiveAt(sock', j))
    BY <2>8
  <2> QED
    BY <2>7, <2>9, <2>10, <2>11 DEF Watched
<1> QED
  BY <1>1, <1>2, <1>3, <1>4, PeersKeepWatch

LEMMA TimerKeepsWatch ==
  ASSUME PeerInv, WatchInv, NEW s \in DOMAIN sock, Greeted(s) \/ Gone(s)
  PROVE  WatchInv'
<1>1. PICK r \in SockType, i \in Colors :
           /\ i = sock[s].index /\ sock' = [sock EXCEPT ![s] = r]
           /\ UNCHANGED <<roomVars, refs, firing, ending, away>>
           /\ \/ /\ sock[s].at = "joining" /\ r.at = "up" /\ r.index = i /\ r.color = sock[s].color
                 /\ timer' = [timer EXCEPT ![i] = "none"]
              \/ /\ sock[s].at = "leaving" /\ r.at = "closed"
                 /\ timer' = [timer EXCEPT ![i] = "armed"]
  BY TimerMoves
<1>2. mem' = mem
  BY <1>1 DEF roomVars
<1>3. mem.status # "none"
  BY <1>1, SomebodyThere
<1>4. ASSUME Whole(mem) PROVE Watched'
  <2>1. PICK D : D = DOMAIN sock
    OBVIOUS
  <2>2. sock \in [D -> SockType] /\ timer \in [Colors -> {"none", "armed", "spent"}]
    BY <2>1 DEF PeerInv
  <2>3. /\ sock' \in [D -> SockType] /\ sock'[s] = r /\ DOMAIN sock' = D
        /\ \A t \in D : t # s => sock'[t] = sock[t]
    BY <1>1, <2>1, <2>2
  <2>4. \A j \in Colors : LiveAt(sock', j) = LiveAt(sock, j)
    BY TimerKeepsPeers
  <2>5. Watched
    BY <1>4 DEF WatchInv
  <2>6. \A t \in D : sock'[t].at # "closed" => sock'[t].index = sock'[t].color
    BY <1>1, <2>1, <2>3, <2>5 DEF Watched
  <2>7. \A j \in Colors : refs'[j] = Cardinality(LiveAt(sock', j))
    BY <1>1, <2>4, <2>5 DEF Watched
  <2>8. \A j \in Colors : j # i => timer'[j] = timer[j]
    BY <1>1, <2>2
  <2>9. ASSUME NEW c \in away
         PROVE  \/ timer'[c] # "none" \/ LiveAt(sock', c) # {}
                \/ \E t \in D : sock'[t].at = "leaving" /\ sock'[t].index = c
    <3>1. c \in Colors
      BY DEF PeerInv
    <3>2. CASE c = i
      <4>1. CASE sock[s].at = "joining"
        <5>1. s \in LiveAt(sock, i)
          BY <1>1, <4>1 DEF LiveAt, LiveIn, Counts
        <5> QED
          BY <2>4, <3>2, <5>1
      <4>2. CASE sock[s].at = "leaving"
        BY <1>1, <2>2, <3>2, <4>2
      <4> QED
        BY <1>1, <4>1, <4>2
    <3>3. CASE c # i
      <4>1. timer'[c] = timer[c] /\ LiveAt(sock', c) = LiveAt(sock, c)
        BY <2>4, <2>8, <3>1, <3>3
      <4>2. CASE \E t \in D : sock[t].at = "leaving" /\ sock[t].index = c
        BY <1>1, <2>3, <3>3, <4>2
      <4> QED
        BY <2>1, <2>5, <4>1, <4>2 DEF Watched
    <3> QED
      BY <3>2, <3>3
  <2> QED
    BY <1>1, <2>3, <2>6, <2>7, <2>9 DEF Watched
<1> QED
  BY <1>1, <1>2, <1>3, <1>4, PeersKeepWatch

LEMMA GraceKeepsWatch ==
  ASSUME PeerInv, WatchInv, NEW i \in Colors, GraceExpires(i) PROVE WatchInv'
<1>1. /\ timer[i] = "armed" /\ timer' = [timer EXCEPT ![i] = "spent"] /\ firing' = {i}
      /\ UNCHANGED <<roomVars, sock, refs, ending, away>>
  BY DEF GraceExpires
<1>2. mem' = mem /\ mem.status # "none"
  BY <1>1 DEF roomVars, WatchInv, AllGone
<1>3. ASSUME Whole(mem) PROVE Watched'
  <2>1. Watched /\ timer \in [Colors -> {"none", "armed", "spent"}] /\ away \subseteq Colors
    BY <1>3 DEF WatchInv, PeerInv
  <2>2. \A j \in Colors : /\ j # i => timer'[j] = timer[j]
                          /\ j = i => timer'[j] = "spent"
    BY <1>1, <2>1
  <2>3. \A c \in away : timer[c] # "none" => timer'[c] # "none"
    BY <2>1, <2>2
  <2> QED
    BY <1>1, <2>1, <2>3 DEF Watched
<1> QED
  BY <1>1, <1>2, <1>3, PeersKeepWatch

LEMMA InitSilence == Init => AllGone
<1> SUFFICES ASSUME Init PROVE AllGone
  OBVIOUS
<1>1. PICK D \in SUBSET Sockets : sock = [s \in D |-> Closed]
  BY DEF Init
<1>2. \A s \in DOMAIN sock : sock[s].at = "closed"
  BY <1>1, NobodyLive
<1> QED
  BY <1>2 DEF Init, AllGone, NoTimers

LEMMA InitWatch == Init => WatchInv
<1> SUFFICES ASSUME Init PROVE WatchInv
  OBVIOUS
<1>1. ending = FALSE
  BY DEF Init
<1> QED
  BY <1>1, InitSilence, InitPeers, NobodyToWatch DEF WatchInv

LEMMA NextKeepsWatch ==
  ASSUME RoomInv, PeerInv, WatchInv, [Next]_vars PROVE WatchInv'
<1>1. CASE Room \/ Answer
  <2>1. MemMoves /\ UNCHANGED peerVars
    BY <1>1, SeatsMoves, GameMovesMem DEF Room, Answer, GameStep
  <2> QED
    BY <2>1, RoomKeepsWatch
<1>2. CASE UNCHANGED vars
  BY <1>2, RoomKeepsWatch DEF vars, roomVars, MemMoves
<1>3. CASE \E s \in DOMAIN sock : \E key \in keys : Hello(s, key)
  BY <1>3, HelloKeepsWatch
<1>4. CASE \E s \in DOMAIN sock : Greeted(s) \/ Gone(s)
  BY <1>4, TimerKeepsWatch
<1>5. CASE \E s \in DOMAIN sock : Close(s)
  BY <1>5, CloseKeepsWatch
<1>6. CASE \E i \in Colors : GraceExpires(i)
  BY <1>6, GraceKeepsWatch
<1>7. CASE \E i \in Colors : TimeoutIgnored(i)
  <2>1. PICK i \in Colors : i \in firing /\ firing' = firing \ {i}
                            /\ UNCHANGED <<roomVars, sock, refs, timer, ending, away>>
    BY <1>7 DEF TimeoutIgnored
  <2>2. mem' = mem /\ mem.status # "none"
    BY <2>1 DEF roomVars, WatchInv, AllGone
  <2>3. Whole(mem) => Watched'
    BY <2>1 DEF WatchInv, Watched
  <2> QED
    BY <2>1, <2>2, <2>3, PeersKeepWatch
<1>8. CASE \E i \in Colors : TimeoutForfeits(i)
  BY <1>8, Ended, EndKeepsWatch
<1>9. CASE Finish
  BY <1>9, Ended, EndKeepsWatch
<1>10. CASE GameEnded
  <2>1. mem.status = "finished" /\ mem' = mem /\ ending' = FALSE
    BY <1>10 DEF GameEnded, roomVars, WatchInv, PeerInv
  <2> QED
    BY <2>1 DEF WatchInv, Whole
<1>11. CASE Restart
  <2>1. PICK D : D = DOMAIN sock
    OBVIOUS
  <2>2. /\ mem' = NoRec /\ sock' = [s \in D |-> Closed]
        /\ timer' = NoTimers /\ firing' = {} /\ ending' = FALSE /\ away' = {}
    BY <1>11, <2>1 DEF Restart, Crash, Refused, Lost
  <2>3. DOMAIN sock' = D /\ \A s \in D : sock'[s].at = "closed"
    BY <2>2, NobodyLive
  <2>4. AllGone'
    BY <2>2, <2>3 DEF AllGone, NoTimers
  <2>5. mem'.status = "none"
    BY <2>2, NoRecOK
  <2> QED
    BY <2>2, <2>4, <2>5 DEF WatchInv, Whole
<1> QED
  BY <1>1, <1>2, <1>3, <1>4, <1>5, <1>6, <1>7, <1>8, <1>9, <1>10, <1>11 DEF Next, Timeout

\* Where no hello has crossed a farewell or a grace timer, the timer that runs
\* is about to be cancelled or nobody is there; and so with the farewells and
\* handlers under way.
Heeded == \A i \in Colors \ crossed :
  /\ i \in firing \cup Handshake("leaving") => LiveAt(sock, i) = {}
  /\ timer[i] = "armed" /\ LiveAt(sock, i) # {} =>
       \E s \in LiveAt(sock, i) : sock[s].at = "joining"

HeedInv == Whole(mem) => Heeded

LEMMA HandshakeAt ==
  ASSUME NEW at, NEW i
  PROVE  i \in Handshake(at) <=> \E s \in DOMAIN sock : sock[s].at = at /\ sock[s].index = i
BY DEF Handshake

LEMMA HandshakeAfter ==
  ASSUME NEW at, NEW i
  PROVE  i \in Handshake(at)' <=> \E s \in DOMAIN sock' : sock'[s].at = at /\ sock'[s].index = i
BY DEF Handshake

LEMMA NobodyToHeed ==
  ASSUME AllGone PROVE Heeded
<1>1. \A i \in Colors : LiveAt(sock, i) = {}
  BY DEF AllGone, LiveAt, LiveIn, Counts
<1> QED
  BY <1>1 DEF Heeded

LEMMA HelloKeepsHeed ==
  ASSUME RoomInv, PeerInv, Watched, Heeded,
         NEW s \in DOMAIN sock, NEW key \in keys, Hello(s, key)
  PROVE  Heeded'
<1>1. PICK r \in SockType, i \in Colors :
           /\ sock[s].at = "closed" /\ Counts(r) /\ r.index = i
           /\ refs[i] = 0 => r.at = "joining"
           /\ sock' = [sock EXCEPT ![s] = r] /\ crossed' = crossed \cup Crossing(i)
           /\ UNCHANGED <<timer, firing>>
  BY HelloMoves
<1>2. PICK D : D = DOMAIN sock
  OBVIOUS
<1>3. sock \in [D -> SockType] /\ IsFiniteSet(LiveIn(sock))
  BY <1>2 DEF PeerInv
<1>4. /\ sock'[s] = r /\ DOMAIN sock' = D /\ s \in D
      /\ \A t \in D : t # s => sock'[t] = sock[t]
  BY <1>1, <1>2, <1>3
<1>5. Recounted(sock, sock', s, r)
  BY <1>1, <1>2, <1>3, SockChange
<1>6. r.at # "leaving" /\ \A j \in Colors : s \notin LiveAt(sock, j)
  BY <1>1 DEF Counts, LiveAt, LiveIn
<1>7. ASSUME NEW j \in Colors \ crossed'
      PROVE  /\ j \in firing' \cup Handshake("leaving")' => LiveAt(sock', j) = {}
             /\ timer'[j] = "armed" /\ LiveAt(sock', j) # {} =>
                  \E t \in LiveAt(sock', j) : sock'[t].at = "joining"
  <2>1. /\ j \in firing \cup Handshake("leaving") => LiveAt(sock, j) = {}
        /\ timer[j] = "armed" /\ LiveAt(sock, j) # {} =>
             \E t \in LiveAt(sock, j) : sock[t].at = "joining"
    BY <1>1 DEF Heeded
  <2>2. j \in Handshake("leaving")' => j \in Handshake("leaving")
    BY <1>2, <1>4, <1>6, HandshakeAt, HandshakeAfter
  <2>3. CASE j = i
    <3>1. j \notin firing \cup Handshake("leaving")
      BY <1>1, <2>3 DEF Crossing
    <3>2. LiveAt(sock', j) = LiveAt(sock, j) \cup {s}
      BY <1>1, <1>5, <2>3 DEF Recounted
    <3>3. CASE LiveAt(sock, j) = {}
      <4>1. refs[j] = 0
        BY <3>3, FS_EmptySet DEF Watched
      <4> QED
        BY <1>1, <1>4, <2>2, <2>3, <3>1, <3>2, <4>1
    <3>4. CASE LiveAt(sock, j) # {}
      <4>1. \A t \in LiveAt(sock, j) : sock'[t] = sock[t]
        BY <1>2, <1>4, <1>6 DEF LiveAt, LiveIn
      <4> QED
        BY <1>1, <2>1, <2>2, <3>1, <3>2, <3>4, <4>1
    <3> QED
      BY <3>3, <3>4
  <2>4. CASE j # i
    <3>1. LiveAt(sock', j) = LiveAt(sock, j)
      <4>1. LiveAt(sock', j) = LiveAt(sock, j) \ {s}
        BY <1>1, <1>5, <2>4 DEF Recounted
      <4> QED
        BY <1>6, <4>1
    <3>2. \A t \in LiveAt(sock, j) : sock'[t] = sock[t]
      BY <1>2, <1>4, <1>6 DEF LiveAt, LiveIn
    <3> QED
      BY <1>1, <2>1, <2>2, <3>1, <3>2
  <2> QED
    BY <2>3, <2>4
<1> QED
  BY <1>7 DEF Heeded

LEMMA CloseKeepsHeed ==
  ASSUME PeerInv, Watched, Watched', Heeded, NEW s \in DOMAIN sock, Close(s)
  PROVE  Heeded'
<1>1. PICK r \in SockType, i \in Colors :
           /\ i = sock[s].index /\ sock[s].at = "up"
           /\ ~Counts(r) /\ sock' = [sock EXCEPT ![s] = r]
           /\ refs[i] = 1 => r.at = "leaving" /\ r.index = i
           /\ refs[i] # 1 => r.at = "closed"
           /\ refs' = [refs EXCEPT ![i] = IF @ = 0 THEN 0 ELSE @ - 1]
           /\ UNCHANGED <<timer, firing, crossed>>
  BY CloseMoves
<1>2. PICK D : D = DOMAIN sock
  OBVIOUS
<1>3. sock \in [D -> SockType] /\ IsFiniteSet(LiveIn(sock)) /\ refs \in [Colors -> Nat]
  BY <1>2 DEF PeerInv
<1>4. /\ sock' \in [D -> SockType] /\ IsFiniteSet(LiveIn(sock'))
      /\ sock'[s] = r /\ DOMAIN sock' = D /\ s \in D
      /\ \A t \in D : t # s => sock'[t] = sock[t]
  BY <1>1, <1>2, <1>3, SockChange
<1>5. \A j \in Colors : LiveAt(sock', j) = LiveAt(sock, j) \ {s}
  <2>1. Recounted(sock, sock', s, r)
    BY <1>1, <1>2, <1>3, SockChange
  <2> QED
    BY <1>1, <2>1 DEF Recounted
<1>6. r.at = "leaving" => LiveAt(sock', i) = {}
  <2> SUFFICES ASSUME refs[i] = 1 PROVE LiveAt(sock', i) = {}
    BY <1>1
  <2>1. refs'[i] = 0
    BY <1>1, <1>3
  <2>2. Cardinality(LiveAt(sock', i)) = 0 /\ IsFiniteSet(LiveAt(sock', i))
    BY <1>4, <2>1, FiniteAt DEF Watched
  <2> QED
    BY <2>2, FS_EmptySet
<1>7. ASSUME NEW j \in Colors \ crossed'
      PROVE  /\ j \in firing' \cup Handshake("leaving")' => LiveAt(sock', j) = {}
             /\ timer'[j] = "armed" /\ LiveAt(sock', j) # {} =>
                  \E t \in LiveAt(sock', j) : sock'[t].at = "joining"
  <2>1. /\ j \in firing \cup Handshake("leaving") => LiveAt(sock, j) = {}
        /\ timer[j] = "armed" /\ LiveAt(sock, j) # {} =>
             \E t \in LiveAt(sock, j) : sock[t].at = "joining"
    BY <1>1 DEF Heeded
  <2>2. j \in Handshake("leaving")' => j \in Handshake("leaving") \/ (j = i /\ r.at = "leaving")
    <3> SUFFICES ASSUME j \in Handshake("leaving")'
                 PROVE  j \in Handshake("leaving") \/ (j = i /\ r.at = "leaving")
      OBVIOUS
    <3>1. PICK t \in D : sock'[t].at = "leaving" /\ sock'[t].index = j
      BY <1>4, HandshakeAfter
    <3>2. CASE t = s
      BY <1>1, <1>4, <3>1, <3>2
    <3>3. CASE t # s
      BY <1>2, <1>4, <3>1, <3>3, HandshakeAt
    <3> QED
      BY <3>2, <3>3
  <2>3. LiveAt(sock', j) = LiveAt(sock, j) \ {s}
    BY <1>5
  <2>4. ASSUME timer[j] = "armed", LiveAt(sock', j) # {}
        PROVE  \E t \in LiveAt(sock', j) : sock'[t].at = "joining"
    <3>1. PICK t \in LiveAt(sock, j) : sock[t].at = "joining"
      BY <2>1, <2>3, <2>4
    <3>2. t # s /\ t \in D
      BY <1>1, <1>2, <3>1 DEF LiveAt, LiveIn
    <3> QED
      BY <1>4, <2>3, <3>1, <3>2
  <2> QED
    BY <1>1, <1>6, <2>1, <2>2, <2>3, <2>4
<1> QED
  BY <1>7 DEF Heeded

LEMMA TimerKeepsHeed ==
  ASSUME PeerInv, Heeded, NEW s \in DOMAIN sock, Greeted(s) \/ Gone(s)
  PROVE  Heeded'
<1>1. PICK r \in SockType, i \in Colors :
           /\ i = sock[s].index /\ sock' = [sock EXCEPT ![s] = r]
           /\ UNCHANGED <<firing, crossed>>
           /\ \/ /\ sock[s].at = "joining" /\ r.at = "up"
                 /\ timer' = [timer EXCEPT ![i] = "none"]
              \/ /\ sock[s].at = "leaving" /\ r.at = "closed"
                 /\ timer' = [timer EXCEPT ![i] = "armed"]
  BY TimerMoves
<1>2. PICK D : D = DOMAIN sock
  OBVIOUS
<1>3. sock \in [D -> SockType] /\ timer \in [Colors -> {"none", "armed", "spent"}]
  BY <1>2 DEF PeerInv
<1>4. /\ sock'[s] = r /\ DOMAIN sock' = D /\ s \in D /\ r.at \notin {"leaving", "joining"}
      /\ \A t \in D : t # s => sock'[t] = sock[t]
  BY <1>1, <1>2, <1>3
<1>5. \A j \in Colors : LiveAt(sock', j) = LiveAt(sock, j)
  BY TimerKeepsPeers
<1>6. ASSUME NEW j \in Colors \ crossed'
      PROVE  /\ j \in firing' \cup Handshake("leaving")' => LiveAt(sock', j) = {}
             /\ timer'[j] = "armed" /\ LiveAt(sock', j) # {} =>
                  \E t \in LiveAt(sock', j) : sock'[t].at = "joining"
  <2>1. /\ j \in firing \cup Handshake("leaving") => LiveAt(sock, j) = {}
        /\ timer[j] = "armed" /\ LiveAt(sock, j) # {} =>
             \E t \in LiveAt(sock, j) : sock[t].at = "joining"
    BY <1>1 DEF Heeded
  <2>2. j \in Handshake("leaving")' => j \in Handshake("leaving")
    BY <1>2, <1>4, HandshakeAt, HandshakeAfter
  <2>3. LiveAt(sock', j) = LiveAt(sock, j)
    BY <1>5
  <2>4. ASSUME timer'[j] = "armed", LiveAt(sock', j) # {}
        PROVE  \E t \in LiveAt(sock', j) : sock'[t].at = "joining"
    <3>1. CASE j = i
      <4>1. sock[s].at = "leaving"
        BY <1>1, <1>3, <2>4, <3>1
      <4>2. j \in Handshake("leaving")
        BY <1>1, <3>1, <4>1, HandshakeAt
      <4> QED
        BY <2>1, <2>3, <2>4, <4>2
    <3>2. CASE j # i
      <4>1. timer[j] = "armed"
        BY <1>1, <1>3, <2>4, <3>2
      <4>2. PICK t \in LiveAt(sock, j) : sock[t].at = "joining"
        BY <2>1, <2>3, <2>4, <4>1
      <4>3. t # s /\ t \in D
        BY <1>1, <1>2, <3>2, <4>2 DEF LiveAt, LiveIn
      <4> QED
        BY <1>4, <2>3, <4>2, <4>3
    <3> QED
      BY <3>1, <3>2
  <2> QED
    BY <1>1, <2>1, <2>2, <2>3, <2>4
<1> QED
  BY <1>6 DEF Heeded

LEMMA GraceKeepsHeed ==
  ASSUME PeerInv, Heeded, NEW i \in Colors, GraceExpires(i) PROVE Heeded'
<1>1. /\ timer[i] = "armed" /\ timer' = [timer EXCEPT ![i] = "spent"] /\ firing' = {i}
      /\ crossed' = crossed \cup ({i} \cap Handshake("joining")) /\ sock' = sock
  BY DEF GraceExpires
<1>2. timer \in [Colors -> {"none", "armed", "spent"}]
  BY DEF PeerInv
<1>3. Handshake("leaving")' = Handshake("leaving")
  BY <1>1 DEF Handshake
<1>4. ASSUME NEW j \in Colors \ crossed'
      PROVE  /\ j \in firing' \cup Handshake("leaving")' => LiveAt(sock', j) = {}
             /\ timer'[j] = "armed" /\ LiveAt(sock', j) # {} =>
                  \E t \in LiveAt(sock', j) : sock'[t].at = "joining"
  <2>1. /\ j \in firing \cup Handshake("leaving") => LiveAt(sock, j) = {}
        /\ timer[j] = "armed" /\ LiveAt(sock, j) # {} =>
             \E t \in LiveAt(sock, j) : sock[t].at = "joining"
    BY <1>1 DEF Heeded
  <2>2. CASE j = i
    <3>1. j \notin Handshake("joining")
      BY <1>1, <2>2
    <3>2. LiveAt(sock, j) = {}
      <4>1. \A t \in LiveAt(sock, j) : sock[t].at # "joining"
        BY <3>1, HandshakeAt DEF LiveAt, LiveIn
      <4> QED
        BY <1>1, <2>1, <2>2, <4>1
    <3> QED
      BY <1>1, <3>2
  <2>3. CASE j # i
    <3>1. timer'[j] = timer[j] /\ j \notin firing'
      BY <1>1, <1>2, <2>3
    <3> QED
      BY <1>1, <1>3, <2>1, <3>1
  <2> QED
    BY <2>2, <2>3
<1> QED
  BY <1>4 DEF Heeded

LEMMA NextKeepsHeed ==
  ASSUME RoomInv, PeerInv, WatchInv, WatchInv', HeedInv, [Next]_vars PROVE HeedInv'
<1> SUFFICES ASSUME Whole(mem)' PROVE Heeded'
  BY DEF HeedInv
<1>1. Watched' /\ mem'.status # "finished"
  BY DEF WatchInv, Whole
<1>2. CASE Room \/ Answer \/ UNCHANGED vars
  <2>1. MemMoves /\ UNCHANGED peerVars
    BY <1>2, SeatsMoves, GameMovesMem
    DEF Room, Answer, GameStep, vars, roomVars, MemMoves
  <2>2. Heeded
    BY <2>1, NobodyToHeed DEF MemMoves, WatchInv, HeedInv
  <2> QED
    BY <2>1, <2>2 DEF peerVars, Heeded, Handshake
<1>3. CASE UNCHANGED roomVars /\ Whole(mem)
  <2>1. Watched /\ Heeded
    BY <1>3 DEF WatchInv, HeedInv
  <2>2. CASE \E s \in DOMAIN sock : \E key \in keys : Hello(s, key)
    BY <2>1, <2>2, HelloKeepsHeed
  <2>3. CASE \E s \in DOMAIN sock : Greeted(s) \/ Gone(s)
    BY <2>1, <2>3, TimerKeepsHeed
  <2>4. CASE \E s \in DOMAIN sock : Close(s)
    BY <1>1, <2>1, <2>4, CloseKeepsHeed
  <2>5. CASE \E i \in Colors : GraceExpires(i)
    BY <2>1, <2>5, GraceKeepsHeed
  <2>6. CASE \E i \in Colors : TimeoutIgnored(i)
    <3>1. (\E i \in Colors : firing' = firing \ {i}) /\ UNCHANGED <<sock, timer, crossed>>
      BY <2>6 DEF TimeoutIgnored
    <3>2. Handshake("leaving")' = Handshake("leaving")
      BY <3>1 DEF Handshake
    <3> QED
      BY <2>1, <3>1, <3>2 DEF Heeded
  <2>7. CASE GameEnded
    BY <1>3, <2>7 DEF GameEnded, WatchInv, PeerInv, Whole
  <2>8. CASE Restart
    BY <1>3, <2>8, NoRecOK DEF Restart, Crash, Refused, Lost, Whole, roomVars
  <2>9. CASE Finish \/ \E i \in Colors : TimeoutForfeits(i)
    BY <1>1, <2>9, Ended
  <2> QED
    BY <1>2, <2>2, <2>3, <2>4, <2>5, <2>6, <2>7, <2>8, <2>9 DEF Next, Timeout
<1>4. CASE Finish \/ \E i \in Colors : TimeoutForfeits(i)
  BY <1>1, <1>4, Ended
<1>5. CASE Restart
  BY <1>5, NoRecOK DEF Restart, Crash, Refused, Lost, Whole
<1>6. CASE \/ \E s \in DOMAIN sock : \/ \E key \in keys : Hello(s, key)
                                  \/ Greeted(s) \/ Close(s) \/ Gone(s)
           \/ (\E i \in Colors : GraceExpires(i) \/ TimeoutIgnored(i)) \/ GameEnded
  <2>1. UNCHANGED roomVars
    BY <1>6 DEF Hello, Greeted, Close, Gone, GraceExpires, TimeoutIgnored, GameEnded
  <2>2. Whole(mem)
    BY <2>1 DEF roomVars
  <2> QED
    BY <1>3, <2>1, <2>2
<1> QED
  BY <1>2, <1>4, <1>5, <1>6 DEF Next, Timeout

PresenceInv == RoomInv /\ PeerInv /\ WatchInv /\ HeedInv

LEMMA PresenceHolds == Spec => []PresenceInv
<1>1. Init => PresenceInv
  <2> SUFFICES ASSUME Init PROVE PresenceInv
    OBVIOUS
  <2>1. RoomInv /\ PeerInv /\ WatchInv
    BY InitRoom, InitPeers, InitWatch DEF Init
  <2>2. Heeded
    BY InitSilence, NobodyToHeed
  <2> QED
    BY <2>1, <2>2 DEF PresenceInv, HeedInv
<1>2. PresenceInv /\ [Next]_vars => PresenceInv'
  BY NextIsRoomStep, RoomStepKeepsRoom, NextKeepsPeers, NextKeepsWatch, NextKeepsHeed
  DEF PresenceInv
<1> QED
  BY <1>1, <1>2, PTL DEF Spec

LEMMA WholeIsUngapped ==
  ASSUME RoomInv, ~Gapped, mem.status = "playing"
  PROVE  Whole(mem) /\ \A i \in Colors : i < Len(mem.seats) => mem.seats[i + 1].color = i
<1>1. DOMAIN mem.seats = 1 .. Len(mem.seats) /\ Len(mem.seats) \in Nat
  BY SeatTypes
<1>2. \A k \in 1 .. Len(mem.seats) : mem.seats[k].color = k - 1
  BY <1>1 DEF Gapped, Positions
<1>3. \A i \in Colors : i < Len(mem.seats) => i + 1 \in 1 .. Len(mem.seats) /\ (i + 1) - 1 = i
  BY <1>1, SeatsAssumption DEF Colors
<1> QED
  BY <1>2, <1>3 DEF Whole

LEMMA AbsentIsWatched == PresenceInv => AbsenceIsWatched
<1> SUFFICES ASSUME PresenceInv, Quiet, NEW c \in Colors, Absent(c)
             PROVE  timer[c] # "none"
  BY DEF AbsenceIsWatched
<1>1. Watched /\ c \in away
  BY WholeIsUngapped DEF PresenceInv, WatchInv, Absent
<1>2. LiveAt(sock, c) = {}
  <2> SUFFICES ASSUME NEW s \in LiveAt(sock, c) PROVE FALSE
    OBVIOUS
  <2>1. s \in DOMAIN sock /\ sock[s].at \in {"joining", "up"} /\ sock[s].index = c
    BY DEF LiveAt, LiveIn, Counts
  <2>2. sock[s].color = c /\ s \in Live
    BY <1>1, <2>1 DEF Watched, Live
  <2> QED
    BY <2>2 DEF Absent
<1>3. ~ \E s \in DOMAIN sock : sock[s].at = "leaving" /\ sock[s].index = c
  BY DEF Quiet
<1> QED
  BY <1>1, <1>2, <1>3 DEF Watched

\* presence.go keeps one cancel function for each seat, and its map is changed
\* after Store.mu is let go: whatever connects and disconnects in between, once
\* the handlers are done a player without a socket has a timer, in a game whose
\* start left no gap.
THEOREM AbsentPlayersAreWatched == Spec => []AbsenceIsWatched
BY PresenceHolds, AbsentIsWatched, PTL

\* handleDisconnectTimeout ends the game of a seat by its index alone.  Where the
\* start left no gap, and at that seat no hello has crossed a farewell or a grace
\* timer, nobody is connected who forfeits: neither a player who came back nor
\* one who sits where another has left.
THEOREM OnlyTheGoneForfeit == Spec => ForfeitedIsGone
<1>1. PresenceInv /\ [Next]_vars =>
        [\A i \in Colors :
           TimeoutForfeits(i) /\ ~Gapped /\ i \notin crossed =>
             \A s \in Live : sock[s].color # mem.seats[i + 1].color]_vars
  <2> SUFFICES ASSUME PresenceInv, NEW i \in Colors, TimeoutForfeits(i), ~Gapped,
                      i \notin crossed, NEW s \in Live
               PROVE  sock[s].color # mem.seats[i + 1].color
    OBVIOUS
  <2>1. i \in firing /\ i < Len(mem.seats) /\ mem.status = "playing"
    BY DEF TimeoutForfeits, Decide, Plays
  <2>2. Whole(mem) /\ mem.seats[i + 1].color = i
    BY <2>1, WholeIsUngapped DEF PresenceInv
  <2>3. Watched /\ LiveAt(sock, i) = {}
    BY <2>1, <2>2 DEF PresenceInv, WatchInv, HeedInv, Heeded
  <2>4. s \in DOMAIN sock /\ sock[s].at \in {"joining", "up"} /\ sock[s].index = sock[s].color
    BY <2>3 DEF Live, Watched
  <2> QED
    BY <2>2, <2>3, <2>4 DEF LiveAt, LiveIn, Counts
<1> QED
  BY <1>1, PresenceHolds, PTL DEF Spec, ForfeitedIsGone
=============================================================================
