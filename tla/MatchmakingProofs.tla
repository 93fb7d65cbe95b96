-------------------------- MODULE MatchmakingProofs --------------------------
(***************************************************************************)
(* Proofs about Matchmaking: its types, and that the queue and the         *)
(* transactions of the matchers implement the tickets.                     *)
(*                                                                         *)
(* What a tick has planned stays good until it commits: the rows it holds  *)
(* are in the queue and nobody else's, their players only wait longer, and *)
(* bands only widen.  So the commit is one step of Tickets.                *)
(***************************************************************************)
EXTENDS Matchmaking, FiniteSetTheorems, FunctionTheorems, SequenceTheorems,
        WellFoundedInduction, TLAPS

-----------------------------------------------------------------------------
(* The election.                                                           *)

LEMMA ElectorStarts == ElectorInit => ElectorTypeOK
BY PodsAssumption, ElectorBounds DEF ElectorInit, ElectorTypeOK, NoRow

RowOK(r) ==
  /\ r \in [owner : Pods \cup {Nobody, Departed}, live : BOOLEAN]
  /\ r.owner = Nobody => r = NoRow

LEMMA BereavedType ==
  ASSUME NEW p \in Pods, RowOK(row) PROVE RowOK(Bereaved(p))
<1> DEFINE r == [row EXCEPT !.owner = Departed]
<1>1. r \in [owner : Pods \cup {Nobody, Departed}, live : BOOLEAN] /\ r.owner = Departed
  BY DEF RowOK
<1> HIDE DEF r
<1>2. RowOK(r)
  BY <1>1, PodsAssumption DEF RowOK
<1> QED
  BY <1>2 DEF Bereaved, r

LEMMA ElectorKeeps ==
  ASSUME ElectorTypeOK,
         \/ Expire \/ UNCHANGED electorVars
         \/ \E p \in Pods :
              \/ Start(p) \/ CampaignSQL(p) \/ CampaignFails(p) \/ BecomeLeader(p)
              \/ StepDown(p) \/ Close(p) \/ Resign(p) \/ ResignFails(p) \/ Crash(p)
  PROVE  ElectorTypeOK'
<1> USE PodsAssumption, ElectorBounds DEF ElectorTypeOK, NoRow, Mishap
<1>1. CASE Expire
  <2>1. row' \in [owner : Pods \cup {Nobody, Departed}, live : BOOLEAN]
    BY <1>1 DEF Expire
  <2>2. row'.owner # Nobody
    BY <1>1 DEF Expire
  <2>3. mishaps' \in 0 .. MaxMishaps
    BY <1>1 DEF Expire
  <2> QED
    BY <1>1, <2>1, <2>2, <2>3 DEF Expire
<1>2. CASE UNCHANGED electorVars
  BY <1>2 DEF electorVars
<1>3. ASSUME NEW p \in Pods, Start(p) PROVE ElectorTypeOK'
  BY <1>3 DEF Start
<1>4. ASSUME NEW p \in Pods, CampaignSQL(p) PROVE ElectorTypeOK'
  BY <1>4 DEF CampaignSQL
<1>5. ASSUME NEW p \in Pods, CampaignFails(p) PROVE ElectorTypeOK'
  BY <1>5 DEF CampaignFails
<1>6. ASSUME NEW p \in Pods, BecomeLeader(p) PROVE ElectorTypeOK'
  BY <1>6 DEF BecomeLeader
<1>7. ASSUME NEW p \in Pods, StepDown(p) PROVE ElectorTypeOK'
  BY <1>7 DEF StepDown
<1>8. ASSUME NEW p \in Pods, Close(p) PROVE ElectorTypeOK'
  BY <1>8 DEF Close
<1>9. ASSUME NEW p \in Pods, Resign(p) PROVE ElectorTypeOK'
  BY <1>9 DEF Resign
<1>10. ASSUME NEW p \in Pods, ResignFails(p) PROVE ElectorTypeOK'
  <2>1. RowOK(row')
    BY <1>10, BereavedType DEF ResignFails, RowOK
  <2> QED
    BY <1>10, <2>1 DEF ResignFails, RowOK
<1>11. ASSUME NEW p \in Pods, Crash(p) PROVE ElectorTypeOK'
  <2>1. RowOK(row')
    BY <1>11, BereavedType DEF Crash, RowOK
  <2> QED
    BY <1>11, <2>1 DEF Crash, RowOK
<1> QED
  BY <1>1, <1>2, <1>3, <1>4, <1>5, <1>6, <1>7, <1>8, <1>9, <1>10, <1>11

-----------------------------------------------------------------------------
(* Parts of sequences.                                                     *)

\* Only keeps the entries at the places, each once.
Part(r, s, places) ==
  \E at \in Bijection(1 .. Cardinality(places), places) :
     r = [i \in 1 .. Cardinality(places) |-> s[at[i]]]

LEMMA OnlyProperties ==
  ASSUME NEW n \in Nat, NEW places \in SUBSET (1 .. n), NEW s
  PROVE  Cardinality(places) \in Nat /\ Part(Only(s, places), s, places)
<1> DEFINE m == Cardinality(places)
           rank == [k \in places |-> Rank(places, k)]
           Below(k) == {j \in places : j < k}
<1>1. IsFiniteSet(places) /\ m \in Nat /\ places \subseteq Nat
  <2>1. IsFiniteSet(1 .. n)
    BY FS_Interval
  <2>2. IsFiniteSet(places)
    BY <2>1, FS_Subset
  <2> QED
    BY <2>2, FS_CardinalityType
<1>0. ASSUME NEW k \in places PROVE rank[k] = Cardinality(Below(k))
  BY DEF Rank
<1>2. ASSUME NEW k \in places PROVE rank[k] \in 0 .. m - 1
  <2>1. IsFiniteSet(places \ {k}) /\ Cardinality(places \ {k}) = m - 1
    BY <1>1, FS_RemoveElement
  <2>2. Below(k) \in SUBSET (places \ {k})
    BY <1>1
  <2>3. Cardinality(Below(k)) \in 0 .. m - 1
    BY <2>1, <2>2, FS_Subset, FS_CardinalityType
  <2> QED
    BY <1>0, <2>3
<1> HIDE DEF rank
<1>3. ASSUME NEW k \in places, NEW l \in places, k < l PROVE rank[k] < rank[l]
  <2>1. IsFiniteSet(Below(k)) /\ IsFiniteSet(Below(l))
    <3>1. Below(k) \in SUBSET places /\ Below(l) \in SUBSET places
      OBVIOUS
    <3> QED
      BY <3>1, <1>1, FS_Subset
  <2>2. Cardinality(Below(k) \cup {k}) = rank[k] + 1
    <3>1. k \notin Below(k)
      BY <1>1
    <3> QED
      BY <1>0, <2>1, <3>1, FS_AddElement
  <2>3. Below(k) \cup {k} \in SUBSET Below(l)
    <3>1. k \in Nat /\ l \in Nat
      BY <1>1
    <3>2. ASSUME NEW j \in Below(k) PROVE j \in Below(l)
      BY <3>1, <1>1, <1>3
    <3>3. k \in Below(l)
      BY <1>3
    <3> QED
      BY <3>2, <3>3
  <2>4. Cardinality(Below(k) \cup {k}) <= rank[l]
    BY <1>0, <2>1, <2>3, FS_Subset
  <2> QED
    BY <1>2, <2>2, <2>4
<1>4. rank \in Injection(places, 0 .. m - 1)
  <2>1. rank \in [places -> 0 .. m - 1]
    BY <1>2 DEF rank
  <2>2. \A k, l \in places : rank[k] = rank[l] => k = l
    <3> SUFFICES ASSUME NEW k \in places, NEW l \in places, k # l PROVE rank[k] # rank[l]
      OBVIOUS
    <3>1. k < l \/ l < k
      BY <1>1
    <3>2. rank[k] \in Int /\ rank[l] \in Int
      BY <1>1, <1>2
    <3> QED
      BY <1>3, <3>1, <3>2
  <2> QED
    BY <2>1, <2>2 DEF Injection, IsInjective
<1>5. rank \in Surjection(places, 0 .. m - 1)
  <2>1. IsFiniteSet(0 .. m - 1) /\ Cardinality(0 .. m - 1) = m
    BY <1>1, FS_Interval
  <2> HIDE DEF m
  <2> QED
    BY <1>4, <2>1, FS_Injection DEF m
<1> DEFINE at == [i \in 1 .. m |-> CHOOSE k \in places : Rank(places, k) = i - 1]
<1>6. \A i \in 1 .. m : at[i] \in places /\ Rank(places, at[i]) = i - 1
  <2>1. \A i \in 0 .. m - 1 : \E k \in places : rank[k] = i
    BY <1>5 DEF Surjection
  <2>2. ASSUME NEW i \in 1 .. m PROVE \E k \in places : Rank(places, k) = i - 1
    <3>1. i - 1 \in 0 .. m - 1
      BY <1>1
    <3> QED
      BY <2>1, <3>1 DEF rank
  <2> QED
    BY <2>2
<1>7. at \in Bijection(1 .. m, places)
  <2>1. at \in [1 .. m -> places]
    BY <1>6
  <2>2. ASSUME NEW i \in 1 .. m, NEW j \in 1 .. m, at[i] = at[j] PROVE i = j
    <3>1. i - 1 = j - 1 /\ i \in Nat /\ j \in Nat
      BY <1>1, <1>6, <2>2
    <3> QED
      BY <3>1
  <2>3. ASSUME NEW k \in places PROVE \E i \in 1 .. m : at[i] = k
    <3>1. rank[k] + 1 \in 1 .. m /\ (rank[k] + 1) - 1 = rank[k]
      BY <1>1, <1>2
    <3>2. at[rank[k] + 1] \in places /\ Rank(places, at[rank[k] + 1]) = rank[k]
      BY <1>6, <3>1
    <3>3. rank[at[rank[k] + 1]] = rank[k]
      BY <3>2 DEF rank
    <3>4. at[rank[k] + 1] = k
      BY <1>4, <3>2, <3>3 DEF Injection, IsInjective
    <3> QED
      BY <3>1, <3>4
  <2> HIDE DEF at
  <2> QED
    BY <2>1, <2>2, <2>3 DEF Bijection, Injection, Surjection, IsInjective
<1>8. Only(s, places) = [i \in 1 .. m |-> s[at[i]]]
  BY DEF Only
<1> HIDE DEF at
<1> QED
  BY <1>1, <1>7, <1>8 DEF Part

-----------------------------------------------------------------------------
(* Queues: nobody is in them twice.                                        *)

Ticket == [user : Users, size : Sizes, age : 0 .. MaxWait]
UsersOf(q) == {q[i].user : i \in DOMAIN q}
RowIn(q, u) == q[CHOOSE i \in DOMAIN q : q[i].user = u]

QueueOK(q) ==
  /\ q \in Seq(Ticket)
  /\ \A i, j \in DOMAIN q : q[i].user = q[j].user => i = j

LEMMA RowOf ==
  ASSUME NEW q, QueueOK(q), NEW i \in DOMAIN q
  PROVE  RowIn(q, q[i].user) = q[i]
<1> DEFINE k == CHOOSE k \in DOMAIN q : q[k].user = q[i].user
<1>1. k \in DOMAIN q /\ q[k].user = q[i].user
  OBVIOUS
<1>2. k = i
  BY <1>1 DEF QueueOK
<1> QED
  BY <1>2 DEF RowIn

\* Everybody queued has a row.
LEMMA RowFor ==
  ASSUME NEW q, QueueOK(q), NEW u \in UsersOf(q)
  PROVE  RowIn(q, u) \in Ticket /\ RowIn(q, u).user = u
<1>1. PICK i \in DOMAIN q : q[i].user = u
  BY DEF UsersOf
<1>2. q[i] \in Ticket
  BY DEF QueueOK
<1> QED
  BY <1>1, <1>2, RowOf

LEMMA Counted ==
  ASSUME NEW q, QueueOK(q) PROVE Len(q) \in Nat /\ Cardinality(UsersOf(q)) = Len(q)
<1> DEFINE f == [i \in 1 .. Len(q) |-> q[i].user]
<1>1. q \in Seq(Ticket) /\ Len(q) \in Nat /\ DOMAIN q = 1 .. Len(q)
  BY LenProperties DEF QueueOK
<1>2. f \in Bijection(1 .. Len(q), UsersOf(q))
  <2>1. f \in [1 .. Len(q) -> UsersOf(q)]
    BY <1>1 DEF UsersOf
  <2>2. \A i, j \in 1 .. Len(q) : f[i] = f[j] => i = j
    BY <1>1 DEF QueueOK
  <2>3. \A u \in UsersOf(q) : \E i \in 1 .. Len(q) : f[i] = u
    BY <1>1 DEF UsersOf
  <2> HIDE DEF f
  <2> QED
    BY <2>1, <2>2, <2>3 DEF Bijection, Injection, Surjection, IsInjective
<1>3. IsFiniteSet(1 .. Len(q)) /\ Cardinality(1 .. Len(q)) = Len(q)
  BY <1>1, FS_Interval
<1> HIDE DEF f
<1> QED
  BY <1>1, <1>2, <1>3, FS_Bijection DEF ExistsBijection

\* A part of a queue is a queue, with the same rows.
LEMMA OnlyQueue ==
  ASSUME NEW q, QueueOK(q), NEW places \in SUBSET (DOMAIN q)
  PROVE  LET r == Only(q, places)
         IN  /\ QueueOK(r)
             /\ UsersOf(r) = {q[k].user : k \in places}
             /\ \A i \in DOMAIN r : \E k \in places : r[i] = q[k]
             /\ \A u \in UsersOf(r) : RowIn(r, u) = RowIn(q, u)
<1> DEFINE r == Only(q, places)
           m == Cardinality(places)
<1>1. Len(q) \in Nat /\ DOMAIN q = 1 .. Len(q)
  BY LenProperties DEF QueueOK
<1>2. m \in Nat /\ Part(r, q, places)
  BY <1>1, OnlyProperties
<1>3. PICK at \in Bijection(1 .. m, places) : r = [i \in 1 .. m |-> q[at[i]]]
  BY <1>2 DEF Part
<1> HIDE DEF r, m
<1>4. /\ at \in [1 .. m -> places]
      /\ \A i, j \in 1 .. m : at[i] = at[j] => i = j
      /\ \A k \in places : \E i \in 1 .. m : at[i] = k
  BY DEF Bijection, Injection, Surjection, IsInjective
<1>5. DOMAIN r = 1 .. m /\ \A i \in 1 .. m : at[i] \in places /\ r[i] = q[at[i]]
  BY <1>3, <1>4
<1>6. QueueOK(r)
  <2>1. r \in [1 .. m -> Ticket]
    BY <1>3, <1>4 DEF QueueOK
  <2>2. r \in Seq(Ticket)
    BY <1>2, <2>1, SeqDef
  <2> QED
    BY <1>4, <1>5, <2>2 DEF QueueOK
<1>7. UsersOf(r) = {q[k].user : k \in places}
  BY <1>4, <1>5 DEF UsersOf
<1>8. ASSUME NEW u \in UsersOf(r) PROVE RowIn(r, u) = RowIn(q, u)
  <2>1. PICK i \in DOMAIN r : r[i].user = u
    BY DEF UsersOf
  <2>2. at[i] \in DOMAIN q /\ r[i] = q[at[i]]
    BY <1>5, <2>1
  <2>3. RowIn(r, u) = r[i] /\ RowIn(q, u) = q[at[i]]
    BY <1>6, <2>1, <2>2, RowOf
  <2> QED
    BY <2>2, <2>3
<1> QED
  BY <1>5, <1>6, <1>7, <1>8 DEF r

LEMMA LessQueue ==
  ASSUME QueueOK(queue), NEW S
  PROVE  /\ QueueOK(Less(S)) /\ UsersOf(Less(S)) = Queued \ S
         /\ \A u \in Queued \ S : RowIn(Less(S), u) = Row(u)
<1> DEFINE places == {i \in DOMAIN queue : queue[i].user \notin S}
<1>1. Less(S) = Only(queue, places)
  BY DEF Less
<1>2. UsersOf(Less(S)) = {queue[k].user : k \in places}
  BY <1>1, OnlyQueue
<1>3. UsersOf(Less(S)) = Queued \ S
  BY <1>2 DEF Queued
<1>4. places \in SUBSET (DOMAIN queue)
  OBVIOUS
<1> HIDE DEF places
<1>5. QueueOK(Less(S)) /\ \A u \in UsersOf(Less(S)) : RowIn(Less(S), u) = RowIn(queue, u)
  BY <1>1, <1>4, OnlyQueue
<1>6. \A u : Row(u) = RowIn(queue, u)
  BY DEF Row, RowIn
<1> QED
  BY <1>3, <1>5, <1>6

\* A newcomer goes to the back.
LEMMA AppendQueue ==
  ASSUME NEW q, QueueOK(q), NEW r \in Ticket, r.user \notin UsersOf(q)
  PROVE  /\ QueueOK(Append(q, r)) /\ UsersOf(Append(q, r)) = UsersOf(q) \cup {r.user}
         /\ \A u \in UsersOf(q) : RowIn(Append(q, r), u) = RowIn(q, u)
         /\ RowIn(Append(q, r), r.user) = r
<1> DEFINE s == Append(q, r)
           n == Len(q)
<1>1. /\ q \in Seq(Ticket) /\ n \in Nat /\ DOMAIN q = 1 .. n
      /\ s \in Seq(Ticket) /\ Len(s) = n + 1
      /\ s[n + 1] = r
  BY LenProperties, AppendProperties DEF QueueOK
<1>2. \A i \in 1 .. n : s[i] = q[i]
  BY <1>1, AppendProperties
<1>3. DOMAIN s = 1 .. (n + 1)
  BY <1>1, LenProperties
<1> HIDE DEF s, n
<1>4. \A i \in DOMAIN s : i = n + 1 \/ i \in DOMAIN q
  BY <1>1, <1>3
<1>5. \A i \in DOMAIN q : i \in DOMAIN s /\ i # n + 1 /\ s[i] = q[i] /\ s[i].user # r.user
  BY <1>1, <1>2, <1>3 DEF UsersOf
<1>6. n + 1 \in DOMAIN s
  BY <1>1, <1>3
<1>7. QueueOK(s)
  BY <1>1, <1>4, <1>5, <1>6 DEF QueueOK
<1>8. UsersOf(s) = UsersOf(q) \cup {r.user}
  BY <1>1, <1>4, <1>5, <1>6 DEF UsersOf
<1>9. ASSUME NEW u \in UsersOf(q) PROVE RowIn(s, u) = RowIn(q, u)
  <2>1. PICK i \in DOMAIN q : q[i].user = u
    BY DEF UsersOf
  <2> QED
    BY <1>5, <1>7, <2>1, RowOf
<1>10. RowIn(s, r.user) = r
  BY <1>1, <1>6, <1>7, RowOf
<1> QED
  BY <1>7, <1>8, <1>9, <1>10 DEF s

\* Time changes ages only, and lowers none.
LEMMA WaitQueue ==
  ASSUME QueueOK(queue), Wait
  PROVE  /\ QueueOK(queue') /\ UsersOf(queue') = Queued
         /\ \A u \in Queued :
              RowIn(queue', u) = [Row(u) EXCEPT !.age = IF @ = MaxWait THEN @ ELSE @ + 1]
<1> DEFINE Older(r) == [r EXCEPT !.age = IF @ = MaxWait THEN @ ELSE @ + 1]
<1>1. queue' = [i \in DOMAIN queue |-> Older(queue[i])]
  BY DEF Wait
<1>2. ASSUME NEW r \in Ticket
      PROVE  Older(r) \in Ticket /\ Older(r).user = r.user
  BY MatchmakingBounds DEF Ticket
<1> HIDE DEF Older
<1>3. /\ \A i \in DOMAIN queue : queue[i] \in Ticket
      /\ queue \in Seq(Ticket) /\ Len(queue) \in Nat /\ DOMAIN queue = 1 .. Len(queue)
  BY LenProperties DEF QueueOK
<1>4. DOMAIN queue' = DOMAIN queue /\ \A i \in DOMAIN queue :
         /\ queue'[i] = Older(queue[i]) /\ queue'[i] \in Ticket
         /\ queue'[i].user = queue[i].user
  BY <1>1, <1>2, <1>3
<1>5. QueueOK(queue')
  <2>1. queue' \in [1 .. Len(queue) -> Ticket]
    BY <1>1, <1>3, <1>4
  <2>2. queue' \in Seq(Ticket)
    BY <1>3, <2>1, SeqDef
  <2> QED
    BY <1>4, <2>2 DEF QueueOK
<1>6. UsersOf(queue') = Queued
  BY <1>4 DEF UsersOf, Queued
<1>7. ASSUME NEW u \in Queued PROVE RowIn(queue', u) = Older(Row(u))
  <2>1. PICK i \in DOMAIN queue : queue[i].user = u
    BY DEF Queued
  <2>2. Row(u) = queue[i] /\ RowIn(queue', u) = queue'[i]
    BY <1>4, <1>5, <2>1, RowOf DEF Row, RowIn
  <2> QED
    BY <1>4, <2>2
<1> QED
  BY <1>5, <1>6, <1>7 DEF Older

-----------------------------------------------------------------------------
(* Pairing.                                                                *)

\* The rules of a game, told from the rows of its players.
Fits(group, size) ==
  /\ \A u \in group : Row(u).size = size
  /\ IF size = 2
     THEN /\ Cardinality(group) = 2
          /\ \A u, v \in group :
               \E w \in group : Delta(u, v) <= ScoreBandFor(Row(w).age)
     ELSE /\ Cardinality(group) \in 3 .. size
          /\ \/ Cardinality(group) = size
             \/ \E u \in group : Step * Row(u).age >= MultiWaitThreshold(Cardinality(group))

\* Rows of the queue that one tick works on.
Chosen(qs, size) ==
  /\ QueueOK(qs) /\ UsersOf(qs) \subseteq Queued
  /\ \A i \in DOMAIN qs : qs[i].size = size /\ Row(qs[i].user) = qs[i]

Grouping(qs, size, groups) ==
  /\ groups \in Seq(SUBSET UsersOf(qs))
  /\ \A k \in DOMAIN groups : Fits(groups[k], size)
  /\ \A k, l \in DOMAIN groups : k # l => groups[k] \cap groups[l] = {}

LEMMA BatchedIsChosen ==
  ASSUME QueueOK(queue), NEW size
  PROVE  Chosen(Batched(size), size) /\ UsersOf(Batched(size)) \cap Locked = {}
<1> DEFINE rows == {i \in DOMAIN queue : queue[i].size = size /\ Free(queue[i])}
           places == {i \in rows : Rank(rows, i) < Batch}
           qs == Only(queue, places)
<1>1. Batched(size) = qs
  BY DEF Batched
<1>2. places \in SUBSET (DOMAIN queue)
  OBVIOUS
<1>3. \A k \in places : /\ k \in DOMAIN queue /\ queue[k].size = size
                        /\ queue[k].user \notin Locked /\ queue[k].user \in Queued
  BY DEF Free, Queued
<1> HIDE DEF places, rows
<1>4. /\ QueueOK(qs) /\ UsersOf(qs) = {queue[k].user : k \in places}
      /\ \A i \in DOMAIN qs : \E k \in places : qs[i] = queue[k]
      /\ \A u \in UsersOf(qs) : RowIn(qs, u) = RowIn(queue, u)
  BY <1>2, OnlyQueue
<1> HIDE DEF qs
<1>5. UsersOf(qs) \subseteq Queued /\ UsersOf(qs) \cap Locked = {}
  BY <1>3, <1>4
<1>6. ASSUME NEW i \in DOMAIN qs PROVE qs[i].size = size /\ Row(qs[i].user) = qs[i]
  <2>1. PICK k \in places : qs[i] = queue[k]
    BY <1>4
  <2>2. RowIn(queue, queue[k].user) = queue[k]
    BY <1>3, RowOf
  <2> QED
    BY <1>3, <2>1, <2>2 DEF Row, RowIn
<1> QED
  BY <1>1, <1>4, <1>5, <1>6 DEF Chosen

LEMMA Least ==
  ASSUME NEW S \in SUBSET Nat, S # {} PROVE \E m \in S : \A n \in S : m <= n
<1> DEFINE R == OpToRel(<, Nat)
<1>1. IsWellFoundedOn(R, Nat)
  BY NatLessThanWellFounded, Zenon
<1>2. \E m \in S : \A n \in S : ~ (<<n, m>> \in R)
  <2> HIDE DEF R
  <2> QED
    BY <1>1, WFMin
<1>3. PICK m \in S : \A n \in S : ~ (<<n, m>> \in R)
  BY <1>2
<1>4. ASSUME NEW n \in S PROVE m <= n
  <2>1. n \in Nat /\ m \in Nat /\ ~ (<<n, m>> \in R)
    BY <1>3
  <2>2. ~ (n < m)
    BY <2>1 DEF OpToRel
  <2> HIDE DEF R
  <2> QED
    BY <2>1, <2>2
<1> QED
  BY <1>4

LEMMA DeltaType == ASSUME NEW u \in Users, NEW v \in Users PROVE Delta(u, v) \in Nat
BY RatingAssumption DEF Delta

\* The closest of those behind is one of them.
LEMMA Closest ==
  ASSUME NEW qs, QueueOK(qs), NEW i \in DOMAIN qs, NEW free \in SUBSET (DOMAIN qs), free # {}
  PROVE  (CHOOSE j \in free : \A k \in free : Closer(qs, i, j, k)) \in free
<1> DEFINE d(j) == Delta(qs[i].user, qs[j].user)
           ds == {d(j) : j \in free}
<1>1. DOMAIN qs \in SUBSET Nat /\ \A j \in DOMAIN qs : qs[j].user \in Users
  <2>1. qs \in Seq(Ticket) /\ Len(qs) \in Nat /\ DOMAIN qs = 1 .. Len(qs)
    BY LenProperties DEF QueueOK
  <2>2. \A j \in DOMAIN qs : qs[j] \in Ticket
    BY <2>1
  <2> QED
    BY <2>1, <2>2 DEF Ticket
<1>2. \A j \in free : d(j) \in Nat
  BY <1>1, DeltaType
<1>3. PICK least \in ds : \A e \in ds : least <= e
  <2>1. ds \in SUBSET Nat /\ ds # {}
    BY <1>2
  <2> HIDE DEF ds
  <2> QED
    BY <2>1, Least
<1> DEFINE best == {j \in free : d(j) = least}
<1>4. PICK j \in best : \A k \in best : j <= k
  <2>1. best \in SUBSET Nat /\ best # {}
    BY <1>1, <1>3
  <2> HIDE DEF best
  <2> QED
    BY <2>1, Least
<1>5. ASSUME NEW k \in free PROVE Closer(qs, i, j, k)
  <2>1. d(j) = least /\ d(k) \in Nat /\ d(j) \in Nat /\ least <= d(k)
    BY <1>2, <1>3, <1>4
  <2>2. d(k) = least => j <= k
    BY <1>4
  <2> QED
    BY <2>1, <2>2 DEF Closer
<1> QED
  BY <1>4, <1>5


LEMMA BandGrows ==
  ASSUME NEW a \in Nat, NEW b \in Nat, a <= b
  PROVE  /\ ScoreBandFor(a) \in Nat /\ ScoreBandFor(a) <= ScoreBandFor(b)
         /\ Step * a \in Nat /\ Step * a <= Step * b
<1>1. Step \in Nat
  BY MatchmakingBounds
<1>2. Step * a \in Nat /\ Step * b \in Nat /\ Step * a <= Step * b
  BY <1>1
<1>3. a * Step * 10 = 10 * (Step * a) /\ b * Step * 10 = 10 * (Step * b)
  BY <1>1
<1> DEFINE x == Step * a
           y == Step * b
<1>4. ScoreBandFor(a) = (IF 100 + 10 * x > 1000 THEN 1000 ELSE 100 + 10 * x)
  BY <1>3 DEF ScoreBandFor
<1>5. ScoreBandFor(b) = (IF 100 + 10 * y > 1000 THEN 1000 ELSE 100 + 10 * y)
  BY <1>3 DEF ScoreBandFor
<1>6. x \in Nat /\ y \in Nat /\ x <= y
  BY <1>2
<1> HIDE DEF x, y
<1>7. ScoreBandFor(a) \in Nat /\ ScoreBandFor(a) <= ScoreBandFor(b)
  BY <1>4, <1>5, <1>6
<1> QED
  BY <1>2, <1>7

LEMMA DuelFits ==
  ASSUME NEW qs, Chosen(qs, 2), NEW i \in DOMAIN qs, NEW j \in DOMAIN qs, i # j,
         Accepts(qs, i, j)
  PROVE  /\ {qs[i].user, qs[j].user} \in SUBSET UsersOf(qs)
         /\ Fits({qs[i].user, qs[j].user}, 2)
<1> DEFINE x == qs[i].user
           y == qs[j].user
           band(u) == ScoreBandFor(Row(u).age)
<1>1. /\ x \in Users /\ y \in Users /\ x # y
      /\ qs[i].age \in Nat /\ qs[j].age \in Nat
      /\ Row(x) = qs[i] /\ Row(y) = qs[j] /\ Row(x).size = 2 /\ Row(y).size = 2
  <2>1. qs[i] \in Ticket /\ qs[j] \in Ticket
    BY DEF Chosen, QueueOK
  <2>2. x # y
    BY DEF Chosen, QueueOK
  <2> QED
    BY <2>1, <2>2, MatchmakingBounds DEF Ticket, Chosen
<1>2. Delta(x, y) <= band(x) \/ Delta(x, y) <= band(y)
  BY <1>1 DEF Accepts
<1>3. band(x) \in Nat /\ band(y) \in Nat
  BY <1>1, BandGrows
<1>4. Delta(x, y) = Delta(y, x) /\ Delta(x, x) = 0 /\ Delta(y, y) = 0 /\ Delta(x, y) \in Nat
  BY <1>1, RatingAssumption DEF Delta
<1>5. \A u, v \in {x, y} : \E w \in {x, y} : Delta(u, v) <= band(w)
  <2> HIDE DEF x, y, band
  <2> QED
    BY <1>2, <1>3, <1>4
<1>6. Cardinality({x, y}) = 2
  <2> HIDE DEF x, y
  <2>1. IsFiniteSet({x}) /\ Cardinality({x}) = 1
    BY FS_Singleton
  <2>2. IsFiniteSet({x} \cup {y}) /\ Cardinality({x} \cup {y}) = 2
    BY <1>1, <2>1, FS_AddElement
  <2>3. {x} \cup {y} = {x, y}
    OBVIOUS
  <2> QED
    BY <2>2, <2>3
<1>7. {x, y} \in SUBSET UsersOf(qs)
  BY DEF UsersOf
<1>8. \A u \in {x, y} : Row(u).size = 2
  BY <1>1
<1> HIDE DEF x, y
<1>9. Fits({x, y}, 2)
  BY <1>5, <1>6, <1>8 DEF Fits
<1> QED
  BY <1>7, <1>9 DEF x, y

LEMMA Paired ==
  ASSUME NEW qs, NEW size, NEW groups, Grouping(qs, size, groups),
         NEW g \in SUBSET UsersOf(qs), Fits(g, size), g \cap UNION Range(groups) = {}
  PROVE  Grouping(qs, size, Append(groups, g))
<1> DEFINE more == Append(groups, g)
           n == Len(groups)
<1>1. /\ groups \in Seq(SUBSET UsersOf(qs)) /\ n \in Nat /\ DOMAIN groups = 1 .. n
      /\ more \in Seq(SUBSET UsersOf(qs)) /\ Len(more) = n + 1 /\ more[n + 1] = g
  BY LenProperties, AppendProperties DEF Grouping
<1>2. \A k \in 1 .. n : more[k] = groups[k]
  BY <1>1, AppendProperties
<1>3. DOMAIN more = 1 .. (n + 1)
  BY <1>1, LenProperties
<1>4. \A k \in DOMAIN groups : groups[k] \cap g = {}
  BY DEF Range
<1> HIDE DEF more, n
<1>5. \A k \in DOMAIN more : k \in DOMAIN groups \/ k = n + 1
  BY <1>1, <1>3
<1>6. \A k \in DOMAIN more : Fits(more[k], size)
  BY <1>1, <1>2, <1>5 DEF Grouping
<1>7. \A k, l \in DOMAIN more : k # l => more[k] \cap more[l] = {}
  <2> SUFFICES ASSUME NEW k \in DOMAIN more, NEW l \in DOMAIN more, k # l
               PROVE  more[k] \cap more[l] = {}
    OBVIOUS
  <2> QED
    BY <1>1, <1>2, <1>4, <1>5 DEF Grouping
<1>8. Grouping(qs, size, more)
  BY <1>1, <1>6, <1>7 DEF Grouping
<1> QED
  BY <1>8 DEF more

LEMMA MeetGroups ==
  ASSUME NEW qs, Chosen(qs, 2), NEW i \in DOMAIN qs,
         NEW groups, Grouping(qs, 2, groups)
  PROVE  Grouping(qs, 2, Meet(qs, groups, i))
<1> DEFINE matched == UNION Range(groups)
           free == {j \in i + 1 .. Len(qs) : qs[j].user \notin matched /\ Accepts(qs, i, j)}
           j == CHOOSE j \in free : \A k \in free : Closer(qs, i, j, k)
<1>1. CASE qs[i].user \in matched \/ free = {}
  BY <1>1 DEF Meet
<1>2. CASE ~(qs[i].user \in matched \/ free = {})
  <2>1. Meet(qs, groups, i) = Append(groups, {qs[i].user, qs[j].user})
    BY <1>2 DEF Meet
  <2>2. Len(qs) \in Nat /\ DOMAIN qs = 1 .. Len(qs)
    BY LenProperties DEF Chosen, QueueOK
  <2>3. free \in SUBSET (DOMAIN qs) /\ \A k \in free : k # i
    BY <2>2
  <2>4. j \in free
    <3> HIDE DEF free
    <3> QED
      BY <1>2, <2>3, Closest DEF Chosen
  <2>5. j \in DOMAIN qs /\ j # i /\ qs[j].user \notin matched /\ Accepts(qs, i, j)
    <3> HIDE DEF j
    <3> QED
      BY <2>3, <2>4
  <2> HIDE DEF j
  <2>6. {qs[i].user, qs[j].user} \cap matched = {}
    BY <1>2, <2>5
  <2> HIDE DEF matched, free
  <2>7. /\ {qs[i].user, qs[j].user} \in SUBSET UsersOf(qs)
        /\ Fits({qs[i].user, qs[j].user}, 2)
    BY <2>5, DuelFits
  <2>8. Grouping(qs, 2, Append(groups, {qs[i].user, qs[j].user}))
    BY <2>6, <2>7, Paired DEF matched
  <2> QED
    BY <2>1, <2>8
<1> QED
  BY <1>1, <1>2

-----------------------------------------------------------------------------
\* Induction, with a set for the formula.
LEMMA Climb ==
  ASSUME NEW S, 0 \in S, \A k \in Nat : k \in S => k + 1 \in S
  PROVE  Nat \subseteq S
<1> SUFFICES ASSUME Nat \ S # {} PROVE FALSE
  OBVIOUS
<1>1. PICK m \in Nat \ S : \A n \in Nat \ S : m <= n
  <2>1. Nat \ S \in SUBSET Nat
    OBVIOUS
  <2> QED
    BY <2>1, Least
<1>2. m - 1 \in Nat /\ m - 1 \in S
  BY <1>1
<1> QED
  BY <1>1, <1>2

\* The loop of pair1v1 is well defined: some function gives the groups after
\* each of its rounds.
Rounds(qs, f, n) ==
  f = [i \in 0 .. n |-> IF i = 0 THEN <<>> ELSE Meet(qs, f[i - 1], i)]

LEMMA RoundsExist == ASSUME NEW qs, NEW n \in Nat PROVE \E f : Rounds(qs, f, n)
<1> DEFINE S == {k \in Nat : \E f : Rounds(qs, f, k)}
<1>1. 0 \in S
  <2> DEFINE f == [i \in 0 .. 0 |-> <<>>]
  <2>1. Rounds(qs, f, 0)
    BY DEF Rounds
  <2> QED
    BY <2>1
<1>2. ASSUME NEW k \in Nat, k \in S PROVE k + 1 \in S
  <2>1. PICK f : Rounds(qs, f, k)
    BY <1>2
  <2> DEFINE g == [i \in 0 .. (k + 1) |-> IF i = k + 1 THEN Meet(qs, f[k], k + 1) ELSE f[i]]
  <2>2. ASSUME NEW i \in 0 .. (k + 1)
        PROVE  g[i] = IF i = 0 THEN <<>> ELSE Meet(qs, g[i - 1], i)
    <3>1. CASE i = k + 1
      BY <3>1
    <3>2. CASE i # k + 1
      <4>1. i \in 0 .. k /\ g[i] = f[i] /\ (i # 0 => g[i - 1] = f[i - 1])
        BY <3>2
      <4>2. f[i] = IF i = 0 THEN <<>> ELSE Meet(qs, f[i - 1], i)
        BY <2>1, <4>1 DEF Rounds
      <4> QED
        BY <4>1, <4>2
    <3> QED
      BY <3>1, <3>2
  <2>3. g = [i \in 0 .. (k + 1) |-> g[i]]
    OBVIOUS
  <2> HIDE DEF g
  <2>4. Rounds(qs, g, k + 1)
    BY <2>2, <2>3 DEF Rounds
  <2> QED
    BY <2>4
<1> HIDE DEF S
<1>3. Nat \subseteq S
  BY <1>1, <1>2, Climb
<1> QED
  BY <1>3 DEF S

LEMMA PairIsRounds ==
  ASSUME NEW qs, Len(qs) \in Nat
  PROVE  \E f : Rounds(qs, f, Len(qs)) /\ Pair1v1(qs) = f[Len(qs)]
<1> DEFINE f == CHOOSE f : Rounds(qs, f, Len(qs))
<1>1. Rounds(qs, f, Len(qs))
  BY RoundsExist
<1>2. Pair1v1(qs) = f[Len(qs)]
  BY DEF Pair1v1, Rounds
<1> QED
  BY <1>1, <1>2

LEMMA Pair1v1Groups ==
  ASSUME NEW qs, Chosen(qs, 2) PROVE Grouping(qs, 2, Pair1v1(qs))
<1> DEFINE n == Len(qs)
<1>1. n \in Nat /\ DOMAIN qs = 1 .. n
  BY LenProperties DEF Chosen, QueueOK
<1>2. PICK f : Rounds(qs, f, n) /\ Pair1v1(qs) = f[n]
  BY <1>1, PairIsRounds
<1> DEFINE S == {k \in Nat : k <= n => Grouping(qs, 2, f[k])}
<1> HIDE DEF n
<1>3. 0 \in S
  <2>1. f[0] = <<>>
    BY <1>1, <1>2 DEF Rounds
  <2>2. <<>> \in Seq(SUBSET UsersOf(qs)) /\ DOMAIN <<>> = {}
    OBVIOUS
  <2>3. Grouping(qs, 2, <<>>)
    BY <2>2 DEF Grouping
  <2> QED
    BY <2>1, <2>3
<1>4. ASSUME NEW k \in Nat, k \in S PROVE k + 1 \in S
  <2> SUFFICES ASSUME k + 1 <= n PROVE Grouping(qs, 2, f[k + 1])
    OBVIOUS
  <2>1. k + 1 \in DOMAIN qs /\ k + 1 \in 0 .. n /\ k + 1 # 0 /\ (k + 1) - 1 = k /\ k <= n
    BY <1>1
  <2>2. f[k + 1] = Meet(qs, f[k], k + 1)
    BY <1>2, <2>1 DEF Rounds
  <2>3. Grouping(qs, 2, f[k])
    BY <1>4, <2>1
  <2> QED
    BY <2>1, <2>2, <2>3, MeetGroups
<1>5. n \in S
  <2> HIDE DEF S
  <2> QED
    BY <1>1, <1>3, <1>4, Climb
<1> QED
  BY <1>1, <1>2, <1>5


LEMMA FirstQueue ==
  ASSUME NEW qs, QueueOK(qs), NEW k \in 1 .. Len(qs)
  PROVE  LET first == SubSeq(qs, 1, k)
         IN  /\ QueueOK(first) /\ Len(first) = k /\ UsersOf(first) \in SUBSET UsersOf(qs)
             /\ first[1] = qs[1] /\ 1 \in DOMAIN first
<1> DEFINE first == SubSeq(qs, 1, k)
<1>1. qs \in Seq(Ticket) /\ Len(qs) \in Nat /\ DOMAIN qs = 1 .. Len(qs)
  BY LenProperties DEF QueueOK
<1>2. /\ first \in Seq(Ticket) /\ Len(first) = k
      /\ \A i \in 1 .. k : first[i] = qs[i]
  BY <1>1, SubSeqProperties
<1>3. DOMAIN first = 1 .. k
  BY <1>2, LenProperties
<1> HIDE DEF first
<1>4. \A i \in DOMAIN first : i \in DOMAIN qs /\ first[i] = qs[i]
  BY <1>1, <1>2, <1>3
<1>5. QueueOK(first) /\ UsersOf(first) \in SUBSET UsersOf(qs)
  BY <1>2, <1>4 DEF QueueOK, UsersOf
<1>6. 1 \in 1 .. k
  BY <1>1
<1> QED
  BY <1>2, <1>3, <1>5, <1>6 DEF first

LEMMA OneGroup ==
  ASSUME NEW qs, NEW size, NEW g \in SUBSET UsersOf(qs), Fits(g, size)
  PROVE  Grouping(qs, size, <<g>>)
<1>1. <<g>> \in Seq(SUBSET UsersOf(qs)) /\ DOMAIN <<g>> = {1} /\ <<g>>[1] = g
  OBVIOUS
<1> QED
  BY <1>1 DEF Grouping

LEMMA PairMultiGroups ==
  ASSUME NEW size \in 3 .. 6, NEW qs, Chosen(qs, size)
  PROVE  Grouping(qs, size, PairMulti(qs, size))
<1> DEFINE n == Len(qs)
           k == IF n < size THEN n ELSE size
           first == SubSeq(qs, 1, k)
           g == UsersOf(first)
           early == n < 3 \/ (n < size /\ Step * qs[1].age < MultiWaitThreshold(n))
<1>1. QueueOK(qs) /\ n \in Nat
  BY LenProperties DEF Chosen, QueueOK
<1>2. PairMulti(qs, size) = IF early THEN <<>> ELSE <<g>>
  BY DEF PairMulti, UsersOf
<1>3. CASE early
  <2>1. <<>> \in Seq(SUBSET UsersOf(qs)) /\ DOMAIN <<>> = {}
    OBVIOUS
  <2> QED
    BY <1>2, <1>3, <2>1 DEF Grouping
<1>4. CASE ~early
  <2>1. n >= 3 /\ k \in 1 .. n /\ k \in 3 .. size /\ (k = size \/ (k = n /\ n < size))
    <3>1. ~ (n < 3)
      BY <1>4
    <3>2. n \in Nat /\ size \in Nat /\ size >= 3
      BY <1>1
    <3> HIDE DEF n, early
    <3>3. k = IF n < size THEN n ELSE size
      OBVIOUS
    <3> HIDE DEF k
    <3>4. CASE n < size
      BY <3>1, <3>2, <3>3, <3>4
    <3>5. CASE ~ (n < size)
      BY <3>1, <3>2, <3>3, <3>5
    <3> QED
      BY <3>4, <3>5
  <2>2. /\ QueueOK(first) /\ Len(first) = k /\ g \in SUBSET UsersOf(qs)
        /\ first[1] = qs[1] /\ 1 \in DOMAIN first
    <3> HIDE DEF k
    <3> QED
      BY <1>1, <2>1, FirstQueue
  <2> HIDE DEF first, k
  <2>3. Cardinality(g) = k
    BY <2>2, Counted
  <2>4. qs[1].user \in g /\ Row(qs[1].user) = qs[1]
    <3>1. 1 \in DOMAIN qs
      BY <1>1, <2>1, LenProperties DEF Chosen, QueueOK
    <3> QED
      BY <2>2, <3>1 DEF UsersOf, Chosen
  <2>5. ASSUME NEW u \in g PROVE Row(u).size = size
    <3>1. u \in UsersOf(qs)
      BY <2>2
    <3> QED
      BY <3>1 DEF UsersOf, Chosen
  <2>6. k # size => Step * Row(qs[1].user).age >= MultiWaitThreshold(Cardinality(g))
    <3>1. SUFFICES ASSUME k # size PROVE Step * qs[1].age >= MultiWaitThreshold(n)
      BY <2>1, <2>3, <2>4
    <3>2. ~ (Step * qs[1].age < MultiWaitThreshold(n))
      BY <1>4, <2>1, <3>1
    <3>3. Step * qs[1].age \in Nat
      <4>1. qs[1].age \in Nat
        <5>1. 1 \in DOMAIN qs
          BY <1>1, <2>1, LenProperties DEF Chosen, QueueOK
        <5>2. qs[1] \in Ticket
          BY <5>1 DEF Chosen, QueueOK
        <5> QED
          BY <5>2, MatchmakingBounds DEF Ticket
      <4> QED
        BY <4>1, BandGrows
    <3>4. MultiWaitThreshold(n) \in Nat
      BY <1>1 DEF MultiWaitThreshold
    <3> QED
      BY <3>2, <3>3, <3>4
  <2> HIDE DEF g
  <2>7. size # 2
    OBVIOUS
  <2>8. Fits(g, size)
    BY <2>1, <2>3, <2>4, <2>5, <2>6, <2>7 DEF Fits
  <2> QED
    BY <1>2, <1>4, <2>2, <2>8, OneGroup
<1> QED
  BY <1>3, <1>4

LEMMA PairingGroups ==
  ASSUME NEW size \in Sizes, NEW qs, Chosen(qs, size)
  PROVE  Grouping(qs, size, Pairing(qs, size))
<1>1. size = 2 \/ size \in 3 .. 6
  BY SizesAssumption
<1> QED
  BY <1>1, Pair1v1Groups, PairMultiGroups DEF Pairing

-----------------------------------------------------------------------------
(* The inductive invariant: a tick holds the rows it works on, and its     *)
(* groups are disjoint, are of these rows and meet the rules; they still   *)
(* do at the commit, for nobody else touches the rows and ages only grow.  *)

Tick == [pod : Pods, rows : SUBSET Users, groups : Seq(SUBSET Users), stale : BOOLEAN]
Game == [players : SUBSET Users, over : BOOLEAN]

Planned(rows, groups) ==
  /\ rows \subseteq Queued /\ groups # <<>>
  /\ \A k \in DOMAIN groups : groups[k] \subseteq rows
  /\ \A k, l \in DOMAIN groups : k # l => groups[k] \cap groups[l] = {}
  /\ \E size \in Sizes : \A k \in DOMAIN groups : Fits(groups[k], size)

TicksOK ==
  /\ \A t \in ticks : t \in Tick /\ Planned(t.rows, t.groups)
  /\ \A t, u \in ticks : t # u => t.rows \cap u.rows = {}

Plain ==
  /\ games \in Seq(Game)
  /\ searching \subseteq Users /\ pushes \subseteq Users \X DOMAIN games
  /\ asks \in 0 .. MaxAsks

MatchInv == ElectorTypeOK /\ QueueOK(queue) /\ Plain /\ TicksOK

LEMMA MatchInvIsTypeOK == MatchInv => TypeOK
<1> SUFFICES ASSUME MatchInv PROVE TypeOK
  OBVIOUS
<1>1. UsersOf(queue) = Queued
  BY DEF UsersOf, Queued
<1>2. Len(queue) = Cardinality(Queued)
  BY <1>1, Counted DEF MatchInv
<1>3. queue \in Seq([user : Users, size : Sizes, age : 0 .. MaxWait])
  BY DEF MatchInv, QueueOK, Ticket
<1>4. \A g \in DOMAIN games : games[g].players \subseteq Users /\ games[g].over \in BOOLEAN
  <2>1. \A g \in DOMAIN games : games[g] \in Game
    BY DEF MatchInv, Plain
  <2> QED
    BY <2>1 DEF Game
<1>5. \A t \in ticks : t.pod \in Pods /\ t.stale \in BOOLEAN
  BY DEF MatchInv, TicksOK, Tick
<1>6. Locked \subseteq Queued
  BY DEF MatchInv, TicksOK, Planned, Locked
<1> QED
  BY <1>2, <1>3, <1>4, <1>5, <1>6 DEF TypeOK, MatchInv, Plain, TicksOK

LEMMA MatchStarts == Init => MatchInv
<1> SUFFICES ASSUME Init PROVE MatchInv
  OBVIOUS
<1>1. ElectorTypeOK
  BY ElectorStarts DEF Init
<1>2. <<>> \in Seq(Ticket) /\ <<>> \in Seq(Game) /\ DOMAIN <<>> = {}
  OBVIOUS
<1>3. QueueOK(queue) /\ Plain
  BY <1>2, MatchmakingBounds DEF Init, QueueOK, Plain
<1>4. TicksOK
  BY DEF Init, TicksOK
<1> QED
  BY <1>1, <1>3, <1>4 DEF MatchInv

\* What a step may do to rows that a tick has locked.
LEMMA PlannedStays ==
  ASSUME QueueOK(queue), QueueOK(queue)', NEW rows, NEW groups, Planned(rows, groups),
         \A u \in rows : u \in Queued' /\ Row(u)'.size = Row(u).size /\ Row(u).age <= Row(u)'.age
  PROVE  Planned(rows, groups)'
<1>1. PICK size \in Sizes : \A k \in DOMAIN groups : Fits(groups[k], size)
  BY DEF Planned
<1>2. \A u \in rows : u \in Queued /\ u \in Queued'
  BY DEF Planned
<1>3. ASSUME NEW u \in rows
      PROVE  /\ Row(u).age \in Nat /\ Row(u)'.age \in Nat
             /\ ScoreBandFor(Row(u).age) \in Nat /\ ScoreBandFor(Row(u)'.age) \in Nat
             /\ ScoreBandFor(Row(u).age) <= ScoreBandFor(Row(u)'.age)
             /\ Step * Row(u).age \in Nat /\ Step * Row(u)'.age \in Nat
             /\ Step * Row(u).age <= Step * Row(u)'.age
  <2>1. u \in UsersOf(queue) /\ u \in UsersOf(queue)'
    BY <1>2 DEF UsersOf, Queued
  <2>2. Row(u) = RowIn(queue, u) /\ Row(u)' = RowIn(queue', u)
    BY DEF Row, RowIn
  <2>3. Row(u) \in Ticket /\ Row(u)' \in Ticket
    BY <2>1, <2>2, RowFor
  <2>4. Row(u).age \in Nat /\ Row(u)'.age \in Nat
    BY <2>3, MatchmakingBounds DEF Ticket
  <2> QED
    BY <2>4, BandGrows
<1>4. ASSUME NEW k \in DOMAIN groups PROVE Fits(groups[k], size)'
  <2>0. PICK g : g = groups[k]
    OBVIOUS
  <2> SUFFICES Fits(g, size)'
    BY <2>0
  <2>1. \A u \in g : u \in rows
    BY <2>0 DEF Planned
  <2>2. Fits(g, size)
    BY <1>1, <2>0
  <2>3. \A u \in g : Row(u)'.size = size
    BY <2>1, <2>2 DEF Fits
  <2>4. CASE size = 2
    <3>1. Cardinality(g) = 2
      BY <2>2, <2>4 DEF Fits
    <3>2. ASSUME NEW u \in g, NEW v \in g
          PROVE  \E w \in g : Delta(u, v) <= ScoreBandFor(Row(w)'.age)
      <4>1. PICK w \in g : Delta(u, v) <= ScoreBandFor(Row(w).age)
        BY <2>2, <2>4 DEF Fits
      <4>2. Delta(u, v) \in Nat
        <5>1. \A x \in Queued : x \in Users
          <6>1. \A i \in DOMAIN queue : queue[i] \in Ticket
            BY DEF QueueOK
          <6> QED
            BY <6>1 DEF Queued, Ticket
        <5>2. u \in Users /\ v \in Users
          BY <1>2, <2>1, <5>1
        <5> QED
          BY <5>2, DeltaType
      <4>3. Delta(u, v) <= ScoreBandFor(Row(w)'.age)
        BY <1>3, <2>1, <4>1, <4>2
      <4> QED
        BY <4>3
    <3> QED
      BY <2>3, <2>4, <3>1, <3>2 DEF Fits
  <2>5. CASE size # 2
    <3>1. /\ Cardinality(g) \in 3 .. size
          /\ \/ Cardinality(g) = size
             \/ \E u \in g : Step * Row(u).age >= MultiWaitThreshold(Cardinality(g))
      BY <2>2, <2>5 DEF Fits
    <3>2. ASSUME NEW u \in g, Step * Row(u).age >= MultiWaitThreshold(Cardinality(g))
          PROVE  Step * Row(u)'.age >= MultiWaitThreshold(Cardinality(g))
      <4>1. MultiWaitThreshold(Cardinality(g)) \in Nat
        BY <3>1 DEF MultiWaitThreshold
      <4> QED
        BY <1>3, <2>1, <3>2, <4>1
    <3> QED
      BY <2>3, <2>5, <3>1, <3>2 DEF Fits
  <2> QED
    BY <2>4, <2>5
<1> QED
  BY <1>1, <1>2, <1>4 DEF Planned

-----------------------------------------------------------------------------
(* The steps.                                                              *)

\* What becomes of the queue, told from the users and their rows.
Users2Rows == UsersOf(queue) = Queued /\ \A u : Row(u) = RowIn(queue, u)

LEMMA RowsOfUsers == Users2Rows /\ Users2Rows'
BY DEF Users2Rows, UsersOf, Queued, Row, RowIn

LEMMA QueueLess ==
  ASSUME QueueOK(queue), NEW S, queue' = Less(S)
  PROVE  /\ QueueOK(queue)' /\ Queued' = Queued \ S
         /\ \A u \in Queued \ S : Row(u)' = Row(u)
BY LessQueue, RowsOfUsers DEF Users2Rows

LEMMA QueueAsk ==
  ASSUME QueueOK(queue), NEW u \in Users, NEW size \in Sizes, Ask(u, size)
  PROVE  /\ QueueOK(queue)' /\ Queued' = Queued \cup {u}
         /\ \A v \in Queued \ {u} : Row(v)' = Row(v)
         /\ Row(u)' = [user |-> u, size |-> size, age |-> 0]
<1> DEFINE r == [user |-> u, size |-> size, age |-> 0]
           q == Less({u})
<1>1. QueueOK(q) /\ UsersOf(q) = Queued \ {u} /\ \A v \in Queued \ {u} : RowIn(q, v) = Row(v)
  BY LessQueue
<1>2. r \in Ticket /\ r.user = u
  BY MatchmakingBounds DEF Ticket
<1>3. queue' = Append(q, r)
  BY DEF Ask
<1> HIDE DEF q, r
<1>4. /\ QueueOK(Append(q, r)) /\ UsersOf(Append(q, r)) = UsersOf(q) \cup {u}
      /\ \A v \in UsersOf(q) : RowIn(Append(q, r), v) = RowIn(q, v)
      /\ RowIn(Append(q, r), u) = r
  <2>1. r.user \notin UsersOf(q)
    BY <1>1, <1>2
  <2> QED
    BY <1>1, <1>2, <2>1, AppendQueue
<1>5. QueueOK(queue') /\ UsersOf(queue') = Queued \cup {u}
  BY <1>1, <1>3, <1>4
<1> QED
  BY <1>1, <1>3, <1>4, <1>5, RowsOfUsers DEF Users2Rows, r

LEMMA QueueWait ==
  ASSUME QueueOK(queue), Wait
  PROVE  /\ QueueOK(queue)' /\ Queued' = Queued
         /\ \A u \in Queued : Row(u)' = [Row(u) EXCEPT !.age = IF @ = MaxWait THEN @ ELSE @ + 1]
BY WaitQueue, RowsOfUsers DEF Users2Rows

\* A step that leaves the ticks and the rows they lock.
LEMMA TicksFrame ==
  ASSUME MatchInv, QueueOK(queue)', UNCHANGED ticks,
         \A u \in Locked :
           u \in Queued' /\ Row(u)'.size = Row(u).size /\ Row(u).age <= Row(u)'.age
  PROVE  TicksOK'
<1>1. ASSUME NEW t \in ticks PROVE t \in Tick /\ Planned(t.rows, t.groups)'
  <2>1. t.rows \subseteq Locked /\ Planned(t.rows, t.groups) /\ t \in Tick
    BY DEF Locked, MatchInv, TicksOK
  <2>2. PICK rows, groups : rows = t.rows /\ groups = t.groups
    OBVIOUS
  <2>3. Planned(rows, groups)'
    BY <2>1, <2>2, PlannedStays DEF MatchInv
  <2> QED
    BY <2>1, <2>2, <2>3
<1> QED
  BY <1>1 DEF MatchInv, TicksOK

\* Those who are locked are queued, with a row.
LEMMA LockedRows ==
  ASSUME MatchInv, NEW u \in Locked
  PROVE  u \in Queued /\ Row(u) \in Ticket /\ Row(u).age \in 0 .. MaxWait
<1>1. u \in Queued
  BY DEF Locked, MatchInv, TicksOK, Planned
<1>2. u \in UsersOf(queue) /\ Row(u) = RowIn(queue, u)
  BY <1>1, RowsOfUsers DEF Users2Rows
<1>3. Row(u) \in Ticket
  BY <1>2, RowFor DEF MatchInv
<1> QED
  BY <1>1, <1>3 DEF Ticket

LEMMA AskInv ==
  ASSUME MatchInv, NEW u \in Users, NEW size \in Sizes, Ask(u, size) PROVE MatchInv'
<1>1. /\ QueueOK(queue)' /\ Queued' = Queued \cup {u}
      /\ \A v \in Queued \ {u} : Row(v)' = Row(v)
  BY QueueAsk DEF MatchInv
<1>2. u \notin Locked /\ UNCHANGED <<electorVars, games, ticks, pushes>>
  BY DEF Ask
<1>3. ElectorTypeOK'
  BY <1>2, ElectorKeeps DEF MatchInv
<1>4. Plain'
  BY <1>2, MatchmakingBounds DEF Ask, MatchInv, Plain
<1>5. TicksOK'
  BY <1>1, <1>2, TicksFrame, LockedRows
<1> QED
  BY <1>1, <1>3, <1>4, <1>5 DEF MatchInv

LEMMA LeaveInv ==
  ASSUME MatchInv, NEW u \in Users, Leave(u), UNCHANGED <<electorVars, games, ticks, asks>>,
         pushes' \subseteq pushes
  PROVE  MatchInv'
<1>1. ElectorTypeOK'
  BY ElectorKeeps DEF MatchInv
<1>2. Plain'
  BY DEF Leave, MatchInv, Plain
<1>3. CASE UNCHANGED queue
  <2>1. Queued' = Queued /\ \A v : Row(v)' = Row(v)
    BY <1>3 DEF Queued, Row
  <2>2. QueueOK(queue)'
    BY <1>3 DEF MatchInv
  <2>3. TicksOK'
    BY <2>1, <2>2, TicksFrame, LockedRows
  <2> QED
    BY <1>1, <1>2, <2>2, <2>3 DEF MatchInv
<1>4. CASE u \notin Locked /\ queue' = Less({u})
  <2>1. /\ QueueOK(queue)' /\ Queued' = Queued \ {u}
        /\ \A v \in Queued \ {u} : Row(v)' = Row(v)
    BY <1>4, QueueLess DEF MatchInv
  <2>2. TicksOK'
    BY <1>4, <2>1, TicksFrame, LockedRows
  <2> QED
    BY <1>1, <1>2, <2>1, <2>2 DEF MatchInv
<1> QED
  BY <1>3, <1>4 DEF Leave

LEMMA WaitInv == ASSUME MatchInv, Wait PROVE MatchInv'
<1>1. /\ QueueOK(queue)' /\ Queued' = Queued
      /\ \A u \in Queued : Row(u)' = [Row(u) EXCEPT !.age = IF @ = MaxWait THEN @ ELSE @ + 1]
  BY QueueWait DEF MatchInv
<1>2. UNCHANGED <<electorVars, games, ticks, searching, pushes, asks>>
  BY DEF Wait
<1>3. ElectorTypeOK' /\ Plain'
  BY <1>2, ElectorKeeps DEF MatchInv, Plain
<1>4. ASSUME NEW u \in Locked
      PROVE  u \in Queued' /\ Row(u)'.size = Row(u).size /\ Row(u).age <= Row(u)'.age
  <2>1. u \in Queued /\ Row(u) \in Ticket /\ Row(u).age \in Int
    BY LockedRows
  <2>2. Row(u)' = [Row(u) EXCEPT !.age = IF @ = MaxWait THEN @ ELSE @ + 1]
    BY <1>1, <2>1
  <2>3. /\ Row(u)'.size = Row(u).size
        /\ Row(u)'.age = Row(u).age \/ Row(u)'.age = Row(u).age + 1
    BY <2>1, <2>2 DEF Ticket
  <2> QED
    BY <1>1, <2>1, <2>3
<1>5. TicksOK'
  BY <1>1, <1>2, <1>4, TicksFrame
<1> QED
  BY <1>1, <1>3, <1>5 DEF MatchInv


\* Nothing that concerns rows or ticks.
LEMMA QuietInv ==
  ASSUME MatchInv, ElectorTypeOK', Plain', UNCHANGED <<queue, ticks>> PROVE MatchInv'
<1>1. Queued' = Queued /\ \A v : Row(v)' = Row(v)
  BY DEF Queued, Row
<1>2. QueueOK(queue)'
  BY DEF MatchInv
<1>3. TicksOK'
  BY <1>1, <1>2, TicksFrame, LockedRows
<1> QED
  BY <1>2, <1>3 DEF MatchInv

LEMMA PlayersInv ==
  ASSUME MatchInv,
         \/ UNCHANGED vars
         \/ Lapse
         \/ \E u \in Users : (\E size \in Sizes : Ask(u, size)) \/ Cancel(u) \/ Poll(u)
         \/ \E push \in pushes : Push(push[1], push[2]) \/ PushLost(push[1], push[2])
         \/ \E g \in DOMAIN games : Finish(g)
  PROVE  MatchInv'
<1>1. CASE UNCHANGED vars
  <2>1. ElectorTypeOK' /\ Plain'
    BY <1>1, ElectorKeeps DEF vars, queueVars, MatchInv, Plain
  <2> QED
    BY <1>1, <2>1, QuietInv DEF vars, queueVars
<1>2. CASE Lapse
  <2>1. ElectorTypeOK'
    BY <1>2, ElectorKeeps DEF Lapse, MatchInv
  <2>2. Plain'
    BY <1>2 DEF Lapse, queueVars, MatchInv, Plain
  <2> QED
    BY <1>2, <2>1, <2>2, QuietInv DEF Lapse, queueVars
<1>3. ASSUME NEW u \in Users, (\E size \in Sizes : Ask(u, size)) \/ Cancel(u) \/ Poll(u)
      PROVE  MatchInv'
  BY <1>3, AskInv, LeaveInv DEF Cancel, Poll
<1>4. ASSUME NEW push \in pushes, Push(push[1], push[2]) \/ PushLost(push[1], push[2])
      PROVE  MatchInv'
  <2>1. CASE Push(push[1], push[2])
    <3>1. push[1] \in Users
      BY DEF MatchInv, Plain
    <3> QED
      BY <2>1, <3>1, LeaveInv DEF Push
  <2>2. CASE PushLost(push[1], push[2])
    <3>1. ElectorTypeOK'
      BY <2>2, ElectorKeeps DEF PushLost, MatchInv
    <3>2. Plain'
      BY <2>2 DEF PushLost, MatchInv, Plain
    <3> QED
      BY <2>2, <3>1, <3>2, QuietInv DEF PushLost
  <2> QED
    BY <1>4, <2>1, <2>2
<1>5. ASSUME NEW g \in DOMAIN games, Finish(g) PROVE MatchInv'
  <2>1. ElectorTypeOK'
    BY <1>5, ElectorKeeps DEF Finish, MatchInv
  <2>2. games' = [games EXCEPT ![g].over = TRUE] /\ games \in Seq(Game)
    BY <1>5 DEF Finish, MatchInv, Plain
  <2>3. games' \in Seq(Game) /\ DOMAIN games' = DOMAIN games
    <3>1. Len(games) \in Nat /\ DOMAIN games = 1 .. Len(games)
      BY <2>2, LenProperties
    <3>2. games' \in [1 .. Len(games) -> Game]
      <4>1. \A k \in 1 .. Len(games) : games[k] \in Game
        BY <2>2, <3>1
      <4>2. [games[g] EXCEPT !.over = TRUE] \in Game
        BY <4>1, <3>1 DEF Game
      <4> QED
        BY <2>2, <3>1, <4>1, <4>2
    <3> QED
      BY <2>2, <3>1, <3>2, SeqDef
  <2>4. Plain'
    BY <1>5, <2>3 DEF Finish, MatchInv, Plain
  <2> QED
    BY <1>5, <2>1, <2>4, QuietInv DEF Finish
<1> QED
  BY <1>1, <1>2, <1>3, <1>4, <1>5

\* The election touches ticks only to cancel their context.
LEMMA ElectionInv == ASSUME MatchInv, Election PROVE MatchInv'
<1>1. ElectorTypeOK'
  BY ElectorKeeps DEF Election, MatchInv
<1>2. Plain' /\ QueueOK(queue)' /\ Queued' = Queued /\ \A v : Row(v)' = Row(v)
  BY DEF Election, MatchInv, Plain, Queued, Row
<1>3. \A p \in Pods : leads'[p] \in BOOLEAN
  BY <1>1 DEF ElectorTypeOK
<1>4. ASSUME NEW t \in ticks'
      PROVE  \E u \in ticks : t.rows = u.rows /\ t.groups = u.groups /\ t \in Tick
  <2>1. PICK u \in ticks : t = [u EXCEPT !.stale = u.stale \/ ~leads'[u.pod]]
    BY DEF Election, Deposed
  <2>2. u \in Tick
    BY DEF MatchInv, TicksOK
  <2>3. (u.stale \/ ~leads'[u.pod]) \in BOOLEAN
    BY Zenon
  <2>4. t.rows = u.rows /\ t.groups = u.groups /\ t \in Tick
    BY <2>1, <2>2, <2>3 DEF Tick
  <2> QED
    BY <2>4
<1>5. ASSUME NEW t \in ticks' PROVE t \in Tick /\ Planned(t.rows, t.groups)'
  <2>1. PICK u \in ticks : t.rows = u.rows /\ t.groups = u.groups /\ t \in Tick
    BY <1>4
  <2>2. PICK rows, groups : rows = t.rows /\ groups = t.groups
    OBVIOUS
  <2>3. Planned(rows, groups)
    BY <2>1, <2>2 DEF MatchInv, TicksOK
  <2>4. \A x \in rows : x \in Queued /\ Row(x).age <= Row(x).age
    <3>1. \A x \in rows : x \in Locked
      BY <2>1, <2>2 DEF Locked
    <3> QED
      BY <3>1, LockedRows
  <2>5. Planned(rows, groups)'
    BY <1>2, <2>3, <2>4, PlannedStays DEF MatchInv
  <2> QED
    BY <2>1, <2>2, <2>5
<1>6. ASSUME NEW t \in ticks', NEW u \in ticks', t # u PROVE t.rows \cap u.rows = {}
  <2>1. PICK v \in ticks : t = [v EXCEPT !.stale = v.stale \/ ~leads'[v.pod]]
    BY DEF Election, Deposed
  <2>2. PICK w \in ticks : u = [w EXCEPT !.stale = w.stale \/ ~leads'[w.pod]]
    BY DEF Election, Deposed
  <2>3. v # w
    BY <1>6, <2>1, <2>2
  <2>4. v \in Tick /\ w \in Tick /\ v.rows \cap w.rows = {}
    BY <2>3 DEF MatchInv, TicksOK
  <2> QED
    BY <2>1, <2>2, <2>4 DEF Tick
<1>7. TicksOK'
  BY <1>5, <1>6 DEF TicksOK
<1> QED
  BY <1>1, <1>2, <1>7 DEF MatchInv


\* A tick begins with rows that nobody has locked, and plans its groups.
LEMMA TickBeginInv ==
  ASSUME MatchInv, NEW p \in Pods, NEW size \in Sizes, TickBegin(p, size) PROVE MatchInv'
<1> DEFINE qs == Batched(size)
           groups == Pairing(qs, size)
           new == [pod |-> p, rows |-> UsersOf(qs), groups |-> groups, stale |-> FALSE]
<1>1. /\ groups # <<>> /\ ticks' = ticks \cup {new}
      /\ UNCHANGED <<electorVars, queue, games, searching, pushes, asks>>
  BY DEF TickBegin, UsersOf
<1>2. Chosen(qs, size) /\ UsersOf(qs) \cap Locked = {}
  BY BatchedIsChosen DEF MatchInv
<1> HIDE DEF qs
<1>3. Grouping(qs, size, groups)
  BY <1>2, PairingGroups
<1> HIDE DEF groups
<1>4. Queued \subseteq Users
  <2>1. \A i \in DOMAIN queue : queue[i] \in Ticket
    BY DEF MatchInv, QueueOK
  <2> QED
    BY <2>1 DEF Queued, Ticket
<1>5. /\ \A k \in DOMAIN groups : groups[k] \in SUBSET UsersOf(qs)
      /\ groups \in Seq(SUBSET Users) /\ UsersOf(qs) \subseteq Users
  <2>1. UsersOf(qs) \subseteq Users
    BY <1>2, <1>4 DEF Chosen
  <2>2. SUBSET UsersOf(qs) \subseteq SUBSET Users
    BY <2>1
  <2>3. groups \in Seq(SUBSET UsersOf(qs))
    BY <1>3 DEF Grouping
  <2>4. groups \in Seq(SUBSET Users)
    BY <2>2, <2>3, SeqMonotonic
  <2> QED
    BY <2>1, <2>3, <2>4
<1>6. new \in Tick /\ new.rows = UsersOf(qs) /\ new.groups = groups
  BY <1>5 DEF Tick
<1>7. Planned(UsersOf(qs), groups)
  BY <1>1, <1>2, <1>3, <1>5 DEF Planned, Grouping, Chosen
<1> HIDE DEF new
<1>8. Queued' = Queued /\ QueueOK(queue)' /\ \A v : Row(v)' = Row(v)
  BY <1>1 DEF Queued, Row, MatchInv
<1>9. ElectorTypeOK' /\ Plain'
  BY <1>1, ElectorKeeps DEF MatchInv, Plain
<1>10. ASSUME NEW t \in ticks' PROVE t \in Tick /\ Planned(t.rows, t.groups)'
  <2>1. t \in Tick /\ Planned(t.rows, t.groups)
    BY <1>1, <1>6, <1>7 DEF MatchInv, TicksOK
  <2>2. PICK rows, plan : rows = t.rows /\ plan = t.groups
    OBVIOUS
  <2>3. \A x \in rows : x \in Queued /\ Row(x).age <= Row(x).age
    <3>1. ASSUME NEW x \in rows PROVE Row(x).age \in Nat /\ x \in Queued
      <4>1. x \in Queued
        BY <2>1, <2>2 DEF Planned
      <4>2. Row(x) \in Ticket
        BY <4>1, RowsOfUsers, RowFor DEF Users2Rows, MatchInv
      <4> QED
        BY <4>1, <4>2, MatchmakingBounds DEF Ticket
    <3> QED
      BY <3>1
  <2>4. Planned(rows, plan)'
    BY <1>8, <2>1, <2>2, <2>3, PlannedStays DEF MatchInv
  <2> QED
    BY <2>1, <2>2, <2>4
<1>11. ASSUME NEW t \in ticks', NEW u \in ticks', t # u PROVE t.rows \cap u.rows = {}
  BY <1>1, <1>2, <1>6, <1>11 DEF MatchInv, TicksOK, Locked
<1> QED
  BY <1>8, <1>9, <1>10, <1>11 DEF MatchInv, TicksOK

\* A tick that ends lets go of its rows, and the others keep theirs.
LEMMA OthersStay ==
  ASSUME MatchInv, NEW t \in ticks, ticks' = ticks \ {t}, QueueOK(queue)',
         \A u \in Queued : u \notin t.rows => u \in Queued' /\ Row(u)' = Row(u)
  PROVE  TicksOK'
<1>1. ASSUME NEW u \in ticks' PROVE u \in Tick /\ Planned(u.rows, u.groups)'
  <2>1. u \in Tick /\ Planned(u.rows, u.groups) /\ u.rows \cap t.rows = {}
    BY DEF MatchInv, TicksOK
  <2>2. PICK rows, groups : rows = u.rows /\ groups = u.groups
    OBVIOUS
  <2>3. ASSUME NEW x \in rows
        PROVE  x \in Queued' /\ Row(x)'.size = Row(x).size /\ Row(x).age <= Row(x)'.age
    <3>1. x \in Locked
      BY <2>2 DEF Locked
    <3>2. x \in Queued /\ Row(x).age \in 0 .. MaxWait
      BY <3>1, LockedRows
    <3>3. x \in Queued' /\ Row(x)' = Row(x)
      BY <2>1, <2>2, <3>2
    <3> QED
      BY <3>2, <3>3
  <2>4. Planned(rows, groups)'
    BY <2>1, <2>2, <2>3, PlannedStays DEF MatchInv
  <2> QED
    BY <2>1, <2>2, <2>4
<1> QED
  BY <1>1 DEF MatchInv, TicksOK

LEMMA TickAbortInv == ASSUME MatchInv, NEW t \in ticks, TickAbort(t) PROVE MatchInv'
<1>1. Queued' = Queued /\ QueueOK(queue)' /\ \A v : Row(v)' = Row(v)
  BY DEF TickAbort, Queued, Row, MatchInv
<1>2. ElectorTypeOK'
  BY ElectorBounds DEF TickAbort, MatchInv, ElectorTypeOK, Mishap
<1>3. Plain'
  BY DEF TickAbort, MatchInv, Plain
<1>4. TicksOK'
  BY <1>1, OthersStay DEF TickAbort
<1> QED
  BY <1>1, <1>2, <1>3, <1>4 DEF MatchInv

\* The games of a tick follow those there are.
LEMMA NewGames ==
  ASSUME MatchInv, NEW t \in ticks, Commit(t)
  PROVE  LET n == Len(games)
             k == Len(t.groups)
         IN  /\ n \in Nat /\ k \in Nat \ {0}
             /\ DOMAIN games = 1 .. n /\ DOMAIN t.groups = 1 .. k
             /\ games' \in Seq(Game) /\ DOMAIN games' = 1 .. (n + k)
             /\ \A g \in 1 .. n : games'[g] = games[g]
             /\ \A g \in 1 .. k : games'[n + g] = [players |-> t.groups[g], over |-> FALSE]
<1> DEFINE n == Len(games)
           k == Len(t.groups)
           more == [i \in DOMAIN t.groups |-> [players |-> t.groups[i], over |-> FALSE]]
<1>1. games \in Seq(Game) /\ n \in Nat /\ DOMAIN games = 1 .. n
  BY LenProperties DEF MatchInv, Plain
<1>2. t.groups \in Seq(SUBSET Users) /\ k \in Nat \ {0} /\ DOMAIN t.groups = 1 .. k
  <2>1. t.groups \in Seq(SUBSET Users) /\ t.groups # <<>>
    BY DEF MatchInv, TicksOK, Tick, Planned
  <2> QED
    BY <2>1, LenProperties, EmptySeq
<1>3. \A i \in 1 .. k : t.groups[i] \in SUBSET Users
  BY <1>2
<1>4. more \in Seq(Game) /\ Len(more) = k
  <2>1. more \in [1 .. k -> Game]
    BY <1>2, <1>3 DEF Game
  <2>2. more \in Seq(Game)
    BY <1>2, <2>1, SeqDef
  <2>3. DOMAIN more = 1 .. k /\ DOMAIN more = 1 .. Len(more) /\ Len(more) \in Nat
    BY <2>1, <2>2, LenProperties
  <2> HIDE DEF more
  <2> QED
    BY <1>2, <2>2, <2>3
<1>5. games' = games \o more
  BY DEF Commit
<1>6. \A i \in 1 .. k : more[i] = [players |-> t.groups[i], over |-> FALSE]
  BY <1>2
<1> HIDE DEF more, k, n
<1>7. /\ games \o more \in Seq(Game) /\ Len(games \o more) = n + k
      /\ \A i \in 1 .. n + k : (games \o more)[i] = IF i <= n THEN games[i] ELSE more[i - n]
  <2>1. Len(games \o more) = Len(games) + Len(more)
    BY <1>1, <1>4, ConcatProperties
  <2>2. \A i \in 1 .. Len(games) + Len(more) :
          (games \o more)[i] = IF i <= Len(games) THEN games[i] ELSE more[i - Len(games)]
    BY <1>1, <1>4, ConcatProperties
  <2>3. games \o more \in Seq(Game)
    BY <1>1, <1>4, ConcatProperties
  <2> QED
    BY <1>4, <2>1, <2>2, <2>3 DEF n
<1>8. games' \in Seq(Game) /\ DOMAIN games' = 1 .. (n + k)
  BY <1>1, <1>2, <1>5, <1>7, LenProperties
<1>9. \A g \in 1 .. n : games'[g] = games[g]
  BY <1>1, <1>2, <1>5, <1>7
<1>10. ASSUME NEW g \in 1 .. k PROVE games'[n + g] = [players |-> t.groups[g], over |-> FALSE]
  <2>1. n + g \in 1 .. n + k /\ ~ (n + g <= n) /\ (n + g) - n = g
    BY <1>1, <1>2
  <2> QED
    BY <1>5, <1>6, <1>7, <2>1
<1> QED
  BY <1>1, <1>2, <1>8, <1>9, <1>10 DEF k, n


LEMMA MatchedRows ==
  ASSUME MatchInv, NEW t \in ticks
  PROVE  /\ Matched(t.groups) = UNION {t.groups[k] : k \in DOMAIN t.groups}
         /\ Matched(t.groups) \subseteq t.rows /\ t.rows \subseteq Queued
<1>1. \A k \in DOMAIN t.groups : t.groups[k] \subseteq t.rows
  BY DEF MatchInv, TicksOK, Planned
<1>2. Matched(t.groups) = UNION {t.groups[k] : k \in DOMAIN t.groups}
  BY DEF Matched, Range
<1>3. t.rows \subseteq Queued
  BY DEF MatchInv, TicksOK, Planned
<1> QED
  BY <1>1, <1>2, <1>3

LEMMA CommitInv ==
  ASSUME MatchInv, NEW t \in ticks, Commit(t), ElectorTypeOK', UNCHANGED <<searching, asks>>,
         \/ UNCHANGED pushes
         \/ pushes' = pushes \cup UNION {games'[g].players \X {g} : g \in DOMAIN games' \ DOMAIN games}
  PROVE  MatchInv'
<1>1. /\ QueueOK(queue)' /\ Queued' = Queued \ Matched(t.groups)
      /\ \A u \in Queued \ Matched(t.groups) : Row(u)' = Row(u)
  BY QueueLess DEF Commit, MatchInv
<1>2. TicksOK'
  BY <1>1, OthersStay, MatchedRows DEF Commit
<1>3. games' \in Seq(Game) /\ DOMAIN games \subseteq DOMAIN games'
  BY NewGames
<1>4. \A g \in DOMAIN games' : games'[g].players \subseteq Users
  <2>1. \A g \in DOMAIN games' : games'[g] \in Game
    BY <1>3
  <2> QED
    BY <2>1 DEF Game
<1>5. pushes' \subseteq Users \X DOMAIN games'
  <2>1. pushes \subseteq Users \X DOMAIN games'
    BY <1>3 DEF MatchInv, Plain
  <2>2. UNION {games'[g].players \X {g} : g \in DOMAIN games' \ DOMAIN games}
          \subseteq Users \X DOMAIN games'
    BY <1>4
  <2> QED
    BY <2>1, <2>2
<1>6. Plain'
  BY <1>3, <1>5 DEF MatchInv, Plain
<1> QED
  BY <1>1, <1>2, <1>6 DEF MatchInv

LEMMA TickCommitInv ==
  ASSUME MatchInv, NEW t \in ticks, TickCommit(t) \/ TickCommitUnheard(t) PROVE MatchInv'
<1>1. ElectorTypeOK'
  <2>1. CASE TickCommit(t)
    BY <2>1, ElectorKeeps DEF TickCommit, MatchInv
  <2>2. CASE TickCommitUnheard(t)
    BY <2>2, ElectorBounds DEF TickCommitUnheard, MatchInv, ElectorTypeOK, Mishap
  <2> QED
    BY <2>1, <2>2
<1> QED
  BY <1>1, CommitInv DEF TickCommit, TickCommitUnheard

LEMMA MatchStep == MatchInv /\ [Next]_vars => MatchInv'
<1> SUFFICES ASSUME MatchInv, [Next]_vars PROVE MatchInv'
  OBVIOUS
<1>1. ASSUME NEW p \in Pods, NEW size \in Sizes, TickBegin(p, size) PROVE MatchInv'
  BY <1>1, TickBeginInv
<1>2. ASSUME NEW t \in ticks, TickCommit(t) \/ TickCommitUnheard(t) \/ TickAbort(t)
      PROVE  MatchInv'
  BY <1>2, TickCommitInv, TickAbortInv
<1> QED
  BY <1>1, <1>2, ElectionInv, WaitInv, PlayersInv DEF Next

\* The queue never holds a player twice, and no row is locked by two ticks or
\* after it has gone: EnqueueMatchmake upserts, and MatchmakeTick skips what
\* another transaction has locked and deletes under its own lock.
THEOREM TypeCorrect == Spec => []TypeOK
<1>1. Spec => []MatchInv
  BY MatchStarts, MatchStep, PTL DEF Spec
<1> QED
  BY <1>1, MatchInvIsTypeOK, PTL
-----------------------------------------------------------------------------
(* The tickets.                                                            *)

Held == [u \in Queued |-> [size |-> Row(u).size, waited |-> Row(u).age]]
Made == [g \in DOMAIN games |-> games[g].players]

LEMMA AskTicket ==
  ASSUME MatchInv, NEW u \in Users, NEW size \in Sizes, Ask(u, size) PROVE Promise!Ask(u, size)
<1>1. /\ QueueOK(queue)' /\ Queued' = Queued \cup {u}
      /\ \A v \in Queued \ {u} : Row(v)' = Row(v)
      /\ Row(u)' = [user |-> u, size |-> size, age |-> 0]
  BY QueueAsk DEF MatchInv
<1>2. Held' = [v \in Queued \cup {u} |->
                 IF v = u THEN [size |-> size, waited |-> 0] ELSE Held[v]]
  BY <1>1 DEF Held
<1>3. Made' = Made
  BY DEF Ask, Made
<1> QED
  BY <1>2, <1>3 DEF Promise!Ask, Held, Made

LEMMA LeaveTicket ==
  ASSUME MatchInv, NEW u \in Users, Leave(u), UNCHANGED games
  PROVE  Promise!Withdraw(u) \/ UNCHANGED <<Held, Made>>
<1>1. Made' = Made
  BY DEF Made
<1>2. CASE UNCHANGED queue
  BY <1>1, <1>2 DEF Held, Queued, Row
<1>3. CASE queue' = Less({u})
  <2>1. Queued' = Queued \ {u} /\ \A v \in Queued \ {u} : Row(v)' = Row(v)
    BY <1>3, QueueLess DEF MatchInv
  <2>2. Held' = [v \in DOMAIN Held \ {u} |-> Held[v]]
    BY <2>1 DEF Held
  <2> QED
    BY <1>1, <2>2 DEF Promise!Withdraw, Promise!Without, Held, Made
<1> QED
  BY <1>2, <1>3 DEF Leave

LEMMA WaitTicket == ASSUME MatchInv, Wait PROVE Promise!Pass
<1>1. /\ Queued' = Queued
      /\ \A u \in Queued : Row(u)' = [Row(u) EXCEPT !.age = IF @ = MaxWait THEN @ ELSE @ + 1]
  BY QueueWait DEF MatchInv
<1>2. \A u \in Queued : Row(u) \in Ticket
  BY RowsOfUsers, RowFor DEF Users2Rows, MatchInv
<1>3. \A u \in Queued : /\ Row(u)'.size = Row(u).size
                        /\ Row(u)'.age = IF Row(u).age = MaxWait THEN Row(u).age ELSE Row(u).age + 1
  BY <1>1, <1>2 DEF Ticket
<1>4. Held' = [u \in DOMAIN Held |->
                 [Held[u] EXCEPT !.waited = IF @ = MaxWait THEN @ ELSE @ + 1]]
  BY <1>1, <1>3 DEF Held
<1>5. Made' = Made
  BY DEF Wait, Made
<1> QED
  BY <1>4, <1>5 DEF Promise!Pass, Held, Made


\* The rules the matcher applies to its rows are those of the tickets.
LEMMA FitsIsAllowed ==
  ASSUME MatchInv, NEW size \in Sizes, NEW group, group \subseteq Queued, Fits(group, size)
  PROVE  Promise!Allowed(group, size)
<1>1. \A u \in group : u \in Queued /\ Held[u].size = Row(u).size /\ Held[u].waited = Row(u).age
  BY DEF Held
<1>2. \A u \in group : Held[u].size = size
  BY <1>1 DEF Fits
<1>3. ASSUME NEW u \in group PROVE Row(u).age \in Nat
  <2>1. Row(u) \in Ticket
    BY <1>1, RowsOfUsers, RowFor DEF Users2Rows, MatchInv
  <2> QED
    BY <2>1, MatchmakingBounds DEF Ticket
<1>0. Promise!Cardinality(group) = Cardinality(group)
  BY DEF Promise!Cardinality, Cardinality
<1>4. CASE size = 2
  <2>1. ASSUME NEW a \in Nat PROVE Promise!Band(a) = ScoreBandFor(a)
    <3>1. Step \in Nat
      BY MatchmakingBounds
    <3>2. 10 * Step * a = a * Step * 10
      BY <3>1
    <3> QED
      BY <3>2 DEF Promise!Band, ScoreBandFor
  <2>2. ASSUME NEW u \in group, NEW v \in group
        PROVE  \E w \in group : Promise!Gap(u, v) <= Promise!Band(Held[w].waited)
    <3>1. PICK w \in group : Delta(u, v) <= ScoreBandFor(Row(w).age)
      BY <1>4 DEF Fits
    <3>2. Promise!Gap(u, v) = Delta(u, v)
      <4>1. \A x \in Queued : x \in Users
        <5>1. \A i \in DOMAIN queue : queue[i] \in Ticket
          BY DEF MatchInv, QueueOK
        <5> QED
          BY <5>1 DEF Queued, Ticket
      <4>2. u \in Users /\ v \in Users
        BY <1>1, <4>1
      <4> QED
        BY <4>2, RatingAssumption DEF Promise!Gap, Delta
    <3>3. Promise!Band(Held[w].waited) = ScoreBandFor(Row(w).age)
      BY <1>1, <1>3, <2>1
    <3> QED
      BY <3>1, <3>2, <3>3
  <2>3. Cardinality(group) = 2
    BY <1>4 DEF Fits
  <2> QED
    BY <1>0, <1>2, <1>4, <2>2, <2>3 DEF Promise!Allowed, Held
<1>5. CASE size # 2
  <2>1. /\ Cardinality(group) \in 3 .. size
        /\ \/ Cardinality(group) = size
           \/ \E u \in group : Step * Row(u).age >= MultiWaitThreshold(Cardinality(group))
    BY <1>5 DEF Fits
  <2>2. \A n \in 3 .. 6 : Promise!Patience[n] = MultiWaitThreshold(n)
    BY DEF Promise!Patience, MultiWaitThreshold
  <2>3. Cardinality(group) \in 3 .. 6
    BY <2>1, SizesAssumption
  <2>4. \/ Cardinality(group) = size
        \/ \E u \in group : Step * Held[u].waited >= Promise!Patience[Cardinality(group)]
    BY <1>1, <2>1, <2>2, <2>3
  <2> QED
    BY <1>0, <1>2, <1>5, <2>1, <2>4 DEF Promise!Allowed, Held
<1> QED
  BY <1>4, <1>5

LEMMA CommitTicket ==
  ASSUME MatchInv, NEW t \in ticks, Commit(t)
  PROVE  \E size \in Sizes : Promise!Form(size)
<1> DEFINE n == Len(games)
           k == Len(t.groups)
           new == DOMAIN Made' \ DOMAIN Made
<1>1. /\ n \in Nat /\ k \in Nat \ {0}
      /\ DOMAIN games = 1 .. n /\ DOMAIN t.groups = 1 .. k
      /\ DOMAIN games' = 1 .. (n + k)
      /\ \A g \in 1 .. n : games'[g] = games[g]
      /\ \A g \in 1 .. k : games'[n + g] = [players |-> t.groups[g], over |-> FALSE]
  BY NewGames
<1>2. PICK size \in Sizes : \A g \in DOMAIN t.groups : Fits(t.groups[g], size)
  BY DEF MatchInv, TicksOK, Planned
<1>3. /\ Matched(t.groups) = UNION {t.groups[g] : g \in DOMAIN t.groups}
      /\ Matched(t.groups) \subseteq Queued
  BY MatchedRows
<1>4. /\ Queued' = Queued \ Matched(t.groups)
      /\ \A u \in Queued \ Matched(t.groups) : Row(u)' = Row(u)
  BY QueueLess DEF Commit, MatchInv
<1> HIDE DEF n, k
<1>5. DOMAIN Made = 1 .. n /\ DOMAIN Made' = 1 .. (n + k)
  BY <1>1 DEF Made
<1>6. \A g \in DOMAIN Made : g \in DOMAIN Made' /\ Made'[g] = Made[g]
  BY <1>1, <1>5 DEF Made
<1>7. ASSUME NEW g \in 1 .. k PROVE n + g \in new /\ Made'[n + g] = t.groups[g]
  <2>1. n + g \in 1 .. (n + k) /\ n + g \notin 1 .. n
    BY <1>1
  <2>2. n + g \in new
    BY <1>5, <2>1
  <2>3. Made'[n + g] = games'[n + g].players
    BY <1>1, <2>1 DEF Made
  <2>4. games'[n + g] = [players |-> t.groups[g], over |-> FALSE]
    BY <1>1, Zenon
  <2> QED
    BY <2>2, <2>3, <2>4
<1>8. \A g \in new : g - n \in 1 .. k /\ n + (g - n) = g
  BY <1>1, <1>5
<1> HIDE DEF new
<1>9. ASSUME NEW g \in new
      PROVE  Made'[g] \subseteq Queued /\ Promise!Allowed(Made'[g], size)
  <2>1. g - n \in DOMAIN t.groups /\ Made'[g] = t.groups[g - n]
    BY <1>1, <1>7, <1>8
  <2>2. t.groups[g - n] \subseteq Queued
    BY <1>3, <2>1
  <2> QED
    BY <1>2, <2>1, <2>2, FitsIsAllowed
<1>10. ASSUME NEW g \in new, NEW h \in new, g # h PROVE Made'[g] \cap Made'[h] = {}
  <2>1. /\ g - n \in DOMAIN t.groups /\ Made'[g] = t.groups[g - n]
        /\ h - n \in DOMAIN t.groups /\ Made'[h] = t.groups[h - n]
    BY <1>1, <1>7, <1>8
  <2>2. g - n # h - n
    BY <1>8, <1>10
  <2> QED
    BY <2>1, <2>2 DEF MatchInv, TicksOK, Planned
<1>11. new # {}
  BY <1>1, <1>7
<1>12. UNION {Made'[g] : g \in new} = Matched(t.groups)
  <2>1. ASSUME NEW g \in new PROVE Made'[g] \subseteq Matched(t.groups)
    <3>1. g - n \in DOMAIN t.groups /\ Made'[g] = t.groups[g - n]
      BY <1>1, <1>7, <1>8
    <3> QED
      BY <1>3, <3>1
  <2>2. ASSUME NEW g \in DOMAIN t.groups PROVE \E h \in new : Made'[h] = t.groups[g]
    BY <1>1, <1>7
  <2> QED
    BY <1>3, <2>1, <2>2
<1>13. Held' = [u \in DOMAIN Held \ UNION {Made'[g] : g \in new} |-> Held[u]]
  BY <1>4, <1>12 DEF Held
<1>14. DOMAIN Held = Queued
  BY DEF Held
<1>15. Promise!Form(size)
  BY <1>6, <1>9, <1>10, <1>11, <1>13, <1>14 DEF Promise!Form, Promise!Without, Held, Made, new
<1> QED
  BY <1>15

LEMMA StepsAreTickets ==
  MatchInv /\ [Next]_vars => [Promise!Next]_(Promise!vars)
<1> SUFFICES ASSUME MatchInv, [Next]_vars
             PROVE  Promise!Next \/ UNCHANGED <<Held, Made>>
  BY DEF Promise!vars, Held, Made
<1>1. ASSUME UNCHANGED <<queue, games>> PROVE UNCHANGED <<Held, Made>>
  BY <1>1 DEF Held, Made, Queued, Row
<1>2. CASE UNCHANGED vars \/ Election \/ Lapse
  BY <1>1, <1>2 DEF vars, queueVars, Election, Lapse
<1>3. CASE Wait
  BY <1>3, WaitTicket DEF Promise!Next
<1>4. ASSUME NEW u \in Users, (\E size \in Sizes : Ask(u, size)) \/ Cancel(u) \/ Poll(u)
      PROVE  Promise!Next \/ UNCHANGED <<Held, Made>>
  BY <1>4, AskTicket, LeaveTicket DEF Cancel, Poll, Promise!Next
<1>5. ASSUME NEW push \in pushes, Push(push[1], push[2]) \/ PushLost(push[1], push[2])
      PROVE  Promise!Next \/ UNCHANGED <<Held, Made>>
  <2>1. push[1] \in Users
    BY DEF MatchInv, Plain
  <2> QED
    BY <1>1, <1>5, <2>1, LeaveTicket DEF Push, PushLost, Promise!Next
<1>6. ASSUME NEW g \in DOMAIN games, Finish(g) PROVE UNCHANGED <<Held, Made>>
  <2>1. games' = [games EXCEPT ![g].over = TRUE]
    BY <1>6 DEF Finish
  <2>2. \A h \in DOMAIN games : games[h] \in Game
    BY DEF MatchInv, Plain
  <2>3. Made' = Made
    BY <2>1, <2>2 DEF Made, Game
  <2>4. Held' = Held
    BY <1>6 DEF Finish, Held, Queued, Row
  <2> QED
    BY <2>3, <2>4
<1>7. ASSUME NEW p \in Pods, NEW size \in Sizes, TickBegin(p, size)
      PROVE  UNCHANGED <<Held, Made>>
  BY <1>1, <1>7 DEF TickBegin
<1>8. ASSUME NEW t \in ticks, TickCommit(t) \/ TickCommitUnheard(t) \/ TickAbort(t)
      PROVE  Promise!Next \/ UNCHANGED <<Held, Made>>
  BY <1>1, <1>8, CommitTicket DEF TickCommit, TickCommitUnheard, TickAbort, Promise!Next
<1> QED
  BY <1>2, <1>3, <1>4, <1>5, <1>6, <1>7, <1>8 DEF Next

\* The queue and the matchers' transactions implement the tickets: whoever
\* leads and however ticks of two processes overlap, a player is matched once
\* per ticket, loses it only for a game or on leaving, and every game is within
\* the bands and the patience that pair1v1 and pairMulti grant.
THEOREM TicketsAreHonoured == Spec => KeepsPromise
<1>1. Init => Promise!Init
  <2> SUFFICES ASSUME Init PROVE Held = <<>> /\ Made = <<>>
    BY DEF Promise!Init, Held, Made
  <2>1. Queued = {} /\ DOMAIN games = {}
    BY DEF Init, Queued
  <2>2. DOMAIN Held = {} /\ DOMAIN Made = {} /\ Held \in [{} -> {}] /\ Made \in [{} -> {}]
    BY <2>1 DEF Held, Made
  <2> QED
    BY <2>2
<1>2. MatchInv /\ [Next]_vars => [Promise!Next]_(Promise!vars)
  BY StepsAreTickets
<1> QED
  BY <1>1, <1>2, MatchStarts, MatchStep, PTL DEF Spec, KeepsPromise, Promise!Spec
=============================================================================
