--------------------------- MODULE GamePlayProofs ---------------------------
(***************************************************************************)
(* Proofs about GamePlay: for every deployment its types, that a timer     *)
(* ends only the games it is due for, and that an acknowledged move        *)
(* survives; and after that what needs one process at a time.              *)
(***************************************************************************)
EXTENDS GamePlay, FiniteSetTheorems, SequenceTheorems, TLAPS

\* What Append returns, for any set of elements.
LEMMA Appended ==
  ASSUME NEW X, NEW a \in Seq(X), NEW v \in X
  PROVE  /\ Append(a, v) \in Seq(X) /\ Append(a, v) # <<>>
         /\ Len(Append(a, v)) = Len(a) + 1
         /\ \A i \in 1 .. Len(a) : Append(a, v)[i] = a[i]
         /\ Append(a, v)[Len(a) + 1] = v
         /\ Append(a, v) = a \o <<v>>
<1>1. Append(a, v) \in Seq(X) /\ Append(a, v) # <<>>
  BY AppendProperties
<1>2. Len(Append(a, v)) = Len(a) + 1
  BY AppendProperties
<1>3. \A i \in 1 .. Len(a) : Append(a, v)[i] = a[i]
  BY AppendProperties
<1>4. Append(a, v)[Len(a) + 1] = v
  BY AppendProperties
<1>5. Append(a, v) = a \o <<v>>
  BY AppendIsConcat
<1> QED
  BY <1>1, <1>2, <1>3, <1>4, <1>5

\* Todo lists are built by concatenating lists of at most one element.
LEMMA Joined ==
  ASSUME NEW X, NEW w \in X, NEW v \in X
  PROVE  <<w>> \o <<>> = <<w>> /\ <<w>> \o <<v>> = <<w, v>>
<1>1. <<w>> \in Seq(X) /\ Len(<<w>>) = 1 /\ <<w>>[1] = w
  OBVIOUS
<1>2. <<w, v>> \in Seq(X) /\ Len(<<w, v>>) = 2 /\ <<w, v>>[1] = w /\ <<w, v>>[2] = v
  OBVIOUS
<1>3. PICK a \in Seq(X) : a = <<w>> /\ Len(a) = 1 /\ a[1] = w
  BY <1>1, Zenon
<1>4. PICK b \in Seq(X) : b = <<w, v>> /\ Len(b) = 2 /\ b[1] = w /\ b[2] = v
  BY <1>2, Zenon
<1>5. a \o <<>> = a
  BY ConcatEmptySeq
<1> DEFINE c == a \o <<v>>
<1>7. /\ c \in Seq(X) /\ Len(c) = Len(a) + 1 /\ c[Len(a) + 1] = v
      /\ \A i \in 1 .. Len(a) : c[i] = a[i]
  <2>1. c = Append(a, v)
    BY Appended
  <2> HIDE DEF c
  <2> QED
    BY <2>1, Appended, Zenon
<1> HIDE DEF c
<1>8. Len(c) = Len(b) /\ \A i \in 1 .. Len(c) : c[i] = b[i]
  <2>1. c[1] = w /\ c[2] = v /\ Len(c) = 2
    BY <1>3, <1>7
  <2> QED
    BY <1>4, <2>1
<1>9. c = b
  BY <1>7, <1>8, SeqEqual
<1> QED
  BY <1>3, <1>4, <1>5, <1>9, Zenon DEF c

\* LoadGame's list: one entry per row of the table, in the order of the keys.
LEMMA LogProperties ==
  ASSUME DOMAIN moves \subseteq 0 .. (MaxMoves - 1)
  PROVE  LET n == Cardinality(DOMAIN moves)
         IN  /\ n \in Nat /\ DOMAIN Log = 1 .. n
             /\ \A i \in 1 .. n : \E k \in DOMAIN moves :
                  /\ Cardinality({j \in DOMAIN moves : j < k}) = i - 1
                  /\ Log[i] = moves[k]
<1> DEFINE S == DOMAIN moves
           n == Cardinality(S)
           Below(k) == {j \in S : j < k}
           rank == [k \in S |-> Cardinality(Below(k))]
<1>1. IsFiniteSet(S) /\ n \in Nat /\ S \subseteq Nat
  <2>1. IsFiniteSet(0 .. (MaxMoves - 1)) /\ S \in SUBSET (0 .. (MaxMoves - 1))
    BY FS_Interval, LimitAssumption
  <2>2. IsFiniteSet(S)
    BY <2>1, FS_Subset
  <2>3. n \in Nat
    BY <2>2, FS_CardinalityType
  <2>4. S \subseteq Nat
    BY LimitAssumption
  <2> QED
    BY <2>2, <2>3, <2>4
<1> HIDE DEF S
<1>2. ASSUME NEW k \in S PROVE rank[k] \in 0 .. n - 1
  <2>1. IsFiniteSet(S \ {k}) /\ Cardinality(S \ {k}) = n - 1
    BY <1>1, FS_RemoveElement
  <2>2. Below(k) \in SUBSET (S \ {k})
    BY <1>1
  <2> QED
    BY <2>1, <2>2, FS_Subset, FS_CardinalityType
<1>3. ASSUME NEW k \in S, NEW l \in S, k < l PROVE rank[k] < rank[l]
  <2>1. IsFiniteSet(Below(k)) /\ IsFiniteSet(Below(l))
    <3>1. Below(k) \in SUBSET S /\ Below(l) \in SUBSET S
      OBVIOUS
    <3> QED
      BY <3>1, <1>1, FS_Subset
  <2>2. Cardinality(Below(k) \cup {k}) = rank[k] + 1
    <3>1. k \notin Below(k)
      BY <1>1
    <3> QED
      BY <2>1, <3>1, FS_AddElement
  <2>3. Below(k) \cup {k} \in SUBSET Below(l)
    <3>1. k \in Nat /\ l \in Nat
      BY <1>1
    <3>2. ASSUME NEW j \in Below(k) PROVE j \in Below(l)
      BY <3>1, <1>1, <1>3
    <3>3. k \in Below(l)
      BY <1>3
    <3> QED
      BY <3>2, <3>3
  <2>4. Cardinality(Below(k) \cup {k}) <= rank[l]
    BY <2>1, <2>3, FS_Subset
  <2> QED
    BY <1>2, <2>2, <2>4
<1>4. rank \in Injection(S, 0 .. n - 1)
  <2>1. rank \in [S -> 0 .. n - 1]
    BY <1>2
  <2>2. \A k, l \in S : rank[k] = rank[l] => k = l
    <3> SUFFICES ASSUME NEW k \in S, NEW l \in S, k # l PROVE rank[k] # rank[l]
      OBVIOUS
    <3>1. k < l \/ l < k
      BY <1>1
    <3>2. rank[k] \in Int /\ rank[l] \in Int
      BY <1>1, <1>2
    <3> HIDE DEF rank
    <3> QED
      BY <1>3, <3>1, <3>2
  <2> QED
    BY <2>1, <2>2 DEF Injection, IsInjective
<1>5. rank \in Surjection(S, 0 .. n - 1)
  <2>1. IsFiniteSet(0 .. n - 1) /\ Cardinality(0 .. n - 1) = n
    BY <1>1, FS_Interval
  <2> HIDE DEF rank, n
  <2> QED
    BY <1>4, <2>1, FS_Injection DEF n
<1>6. \A i \in 1 .. n : \E k \in S : Cardinality(Below(k)) = i - 1
  <2>1. \A i \in 0 .. n - 1 : \E k \in S : rank[k] = i
    BY <1>5 DEF Surjection
  <2> QED
    BY <1>1, <2>1
<1>7. Log = [i \in 1 .. n |-> moves[CHOOSE k \in S : Cardinality(Below(k)) = i - 1]]
  BY DEF Log, S
<1> HIDE DEF Below, n
<1>8. \A i \in 1 .. n : \E k \in S : Cardinality(Below(k)) = i - 1 /\ Log[i] = moves[k]
  BY <1>6, <1>7
<1> QED
  BY <1>1, <1>7, <1>8 DEF S, n, Below

-----------------------------------------------------------------------------
(* Types.                                                                  *)

Rec == [pod : Pods \cup {Nil}, hist : Seq(Moves), result : Result,
        offer : Seats \cup {NoSeat}, clock : Clocks, lock : Tasks \cup {Nil}]
Row == [result : Result, offer : Seats \cup {NoSeat}]
Job == [op : Ops, pod : Pods \cup {Nil}, obj : Objs \cup {Nil}, todo : Seq(Writes),
        row : Row]

Offers == {Offer(s) : s \in Seats \cup {NoSeat}}
\* What is left to write: at most one other statement before the draw offer.
Todos == {todo \in Seq(Writes) :
            Len(todo) < 2 \/ (Len(todo) = 2 /\ todo[2] \in Offers)}

\* A goroutine points to a record of its own pod, a move under way holds the
\* lock of its record, and a write fits the operation that planned it.
JobOK(t, k, h) ==
  /\ k.todo \in Todos
  /\ k.op \in {"idle", "loading", "ready", "flag"} => k.todo = <<>>
  /\ k.op = "idle" => k = Idle
  /\ k.op # "idle" => k.pod \in Pods
  /\ k.op \in {"ready", "flag", "move", "bot"} => k.obj \in Objs
  /\ k.obj # Nil => h[k.obj].pod = k.pod
  /\ k.op = "move" => h[k.obj].lock = t /\ h[k.obj].hist # <<>>
  /\ k.todo # <<>> /\ Head(k.todo).write = "append" =>
       k.op \in {"move", "bot"} /\ Head(k.todo).n < MaxMoves
  /\ k.todo # <<>> /\ Head(k.todo).write = "outcome" => k.op \in {"concede", "timer"}

RefsOf(h, jobs, cached, woken) ==
  /\ \A t \in Tasks : JobOK(t, jobs[t], h)
  /\ \A p \in Pods : cached[p] # Nil => h[cached[p]].pod = p
  /\ \A o \in woken : h[o].pod \in Pods

Refs == RefsOf(heap, task, cache, bots)

\* The type invariant without its functions of Objs and Tasks.
Plain ==
  /\ row \in Row
  /\ DOMAIN moves \subseteq 0 .. (MaxMoves - 1)
  /\ \A n \in DOMAIN moves : moves[n] \in Moves
  /\ slow \subseteq DOMAIN moves
  /\ cache \in [Pods -> Objs \cup {Nil}]
  /\ timer \in [Pods -> Nat \cup {NoTimer}]
  /\ bots \subseteq Objs /\ believes \subseteq Pods
  /\ life \in [Pods -> {"new", "up", "dead"}]
  /\ lessee \in Pods \cup {Nil}
  /\ acked \subseteq Nat \X Moves
  /\ faults \in Nat

\* The inductive invariant behind TypeOK.
Typed == Plain /\ heap \in [Objs -> Rec] /\ task \in [Tasks -> Job] /\ Refs

LEMMA Empties == Blank \in Rec /\ Idle \in Job /\ InPlay \in Result
BY EmptySeq DEF Blank, Idle, InPlay, Rec, Job, Row, Result, Clocks, Kinds, Ops

LEMMA TurnType == ASSUME NEW h \in Seq(Moves) PROVE Turn(h) \in Seats
<1>1. Len(h) \in Nat /\ NumPlayers \in Nat /\ NumPlayers > 1
  BY SeatsAssumption, LenProperties
<1>2. \A k \in Nat : k % NumPlayers \in Seats
  BY <1>1 DEF Seats
<1>3. h # <<>> => Len(h) - 1 \in Nat
  BY <1>1, EmptySeq
<1> QED
  BY <1>1, <1>2, <1>3 DEF Turn

LEMMA LostType == ASSUME NEW s \in Seats, NEW k \in Kinds PROVE Lost(s, k) \in Result
BY SeatsAssumption DEF Lost, Survivor, Result, Seats, NoSeat

LEMMA DrawnType == Drawn \in Result
BY DEF Drawn, Result, Kinds, NoSeat

LEMMA PlayedType ==
  ASSUME NEW r \in Rec, NEW m \in Moves
  PROVE  /\ Played(r, m) \in Rec
         /\ Played(r, m).pod = r.pod /\ Played(r, m).lock = r.lock
         /\ Played(r, m).hist = Append(r.hist, m)
         /\ Played(r, m).hist # <<>>
         /\ Len(Played(r, m).hist) = Len(r.hist) + 1
<1>1. r.hist \in Seq(Moves)
  BY DEF Rec
<1>2. /\ Append(r.hist, m) \in Seq(Moves) /\ Append(r.hist, m) # <<>>
      /\ Len(Append(r.hist, m)) = Len(r.hist) + 1
  BY <1>1, AppendProperties
<1>3. [winner |-> m.seat, kind |-> "line"] \in Result
  BY DEF Moves, Result, Kinds
<1> QED
  BY <1>2, <1>3 DEF Played, Rec, Clocks

LEMMA JournalType ==
  ASSUME NEW r \in Rec, NEW m \in Moves, Len(r.hist) < MaxMoves
  PROVE  LET w == Insert(Len(r.hist), m, Played(r, m).result, r.clock = "edge")
         IN  /\ w \in Writes /\ w.write = "append" /\ w.n < MaxMoves
             /\ \/ Journal(r, m) \o Rescind(r) = <<w>>
                \/ Journal(r, m) \o Rescind(r) = <<w, Offer(NoSeat)>>
<1> DEFINE w == Insert(Len(r.hist), m, Played(r, m).result, r.clock = "edge")
           v == Offer(NoSeat)
<1>1. w \in Writes /\ v \in Writes
  <2>1. Len(r.hist) \in Nat
    BY LenProperties DEF Rec
  <2>2. Played(r, m).result \in Result
    BY PlayedType DEF Rec
  <2>3. (r.clock = "edge") \in BOOLEAN
    BY Zenon
  <2> QED
    BY <2>1, <2>2, <2>3 DEF Insert, Offer, Writes
<1>2. w.write = "append" /\ w.n < MaxMoves
  BY DEF Insert
<1> HIDE DEF w, v
<1>3. <<w>> \o <<>> = <<w>> /\ <<w>> \o <<v>> = <<w, v>>
  BY <1>1, Joined
<1>4. Journal(r, m) \o Rescind(r) = <<w>> \/ Journal(r, m) \o Rescind(r) = <<w, v>>
  BY <1>3 DEF Journal, Rescind, w, v
<1> QED
  BY <1>1, <1>2, <1>4, Zenon DEF w, v

\* A todo list of one statement, or of one and the draw offer.
LEMMA TodoType ==
  /\ Todos \subseteq Seq(Writes) /\ Offers \subseteq Writes
  /\ <<>> \in Todos
  /\ \A w \in Writes : <<w>> \in Todos /\ <<w>> # <<>> /\ Head(<<w>>) = w
  /\ \A w \in Writes, v \in Offers :
       <<w, v>> \in Todos /\ <<w, v>> # <<>> /\ Head(<<w, v>>) = w
<1>1. Offers \subseteq Writes
  BY DEF Offers, Offer, Writes
<1>2. <<>> \in Todos
  BY DEF Todos
<1>3. ASSUME NEW w \in Writes PROVE <<w>> \in Todos /\ <<w>> # <<>> /\ Head(<<w>>) = w
  BY DEF Todos
<1>4. ASSUME NEW w \in Writes, NEW v \in Offers
      PROVE  <<w, v>> \in Todos /\ <<w, v>> # <<>> /\ Head(<<w, v>>) = w
  <2>1. /\ <<w, v>> \in Seq(Writes) /\ Len(<<w, v>>) = 2 /\ <<w, v>>[2] = v
        /\ <<w, v>> # <<>> /\ Head(<<w, v>>) = w
    BY <1>1
  <2> QED
    BY <2>1 DEF Todos
<1> QED
  BY <1>1, <1>2, <1>3, <1>4 DEF Todos

LEMMA TailTodo ==
  ASSUME NEW todo \in Todos, todo # <<>>
  PROVE  /\ Head(todo) \in Writes /\ Tail(todo) \in Todos
         /\ Len(todo) = 1 \/ Len(todo) = 2
         /\ Len(todo) = 1 => Tail(todo) = <<>>
         /\ Tail(todo) # <<>> => Head(Tail(todo)) \in Offers
<1>1. todo \in Seq(Writes) /\ Len(todo) \in Nat /\ Len(todo) # 0 /\ Len(todo) <= 2
  <2>1. todo \in Seq(Writes)
    BY DEF Todos
  <2>2. Len(todo) \in Nat
    BY <2>1, LenProperties
  <2>3. Len(todo) # 0
    BY <2>1, EmptySeq
  <2>4. Len(todo) <= 2
    BY <2>2 DEF Todos
  <2> QED
    BY <2>1, <2>2, <2>3, <2>4
<1>2. Head(todo) \in Writes /\ Tail(todo) \in Seq(Writes) /\ Len(Tail(todo)) = Len(todo) - 1
  BY <1>1, HeadTailProperties
<1>3. Len(todo) = 1 => Tail(todo) = <<>>
  <2>1. Len(todo) = 1 => Len(Tail(todo)) = 0
    BY <1>2
  <2> QED
    BY <1>2, <2>1, EmptySeq
<1>4. Len(todo) = 2 => Head(Tail(todo)) \in Offers
  <2>1. SUFFICES ASSUME Len(todo) = 2 PROVE Head(Tail(todo)) \in Offers
    OBVIOUS
  <2>2. Len(Tail(todo)) = 1
    BY <1>2, <2>1
  <2>3. Tail(todo)[1] = todo[2]
    BY <1>1, <2>1
  <2>4. Head(Tail(todo)) = Tail(todo)[1]
    BY <1>2, <2>2
  <2> QED
    BY <2>1, <2>3, <2>4 DEF Todos
<1> QED
  BY <1>1, <1>2, <1>3, <1>4 DEF Todos

LEMMA RescindType ==
  ASSUME NEW r \in Rec, NEW res \in Result
  PROVE  LET w == Outcome(res) IN
         /\ w \in Writes /\ w.write = "outcome"
         /\ \/ <<w>> \o Rescind(r) = <<w>>
            \/ <<w>> \o Rescind(r) = <<w, Offer(NoSeat)>>
         /\ <<w>> \o <<Offer(NoSeat)>> = <<w, Offer(NoSeat)>>
         /\ <<w>> \o <<>> = <<w>>
         /\ Offer(NoSeat) \in Offers
<1> DEFINE w == Outcome(res)
           v == Offer(NoSeat)
<1>1. w \in Writes /\ v \in Writes /\ w.write = "outcome"
  BY DEF Outcome, Offer, Writes
<1>2. v \in Offers
  BY DEF Offers
<1> HIDE DEF w, v
<1>3. <<w>> \o <<>> = <<w>> /\ <<w>> \o <<v>> = <<w, v>>
  BY <1>1, Joined
<1> QED
  BY <1>1, <1>2, <1>3, Zenon DEF Rescind, w, v

LEMMA KeptType ==
  ASSUME NEW h \in [Objs -> Rec]
  PROVE  /\ Kept(h) \in [Objs -> Rec]
         /\ \A o \in Objs : Kept(h)[o] = h[o] \/ Kept(h)[o] = Blank
BY Empties DEF Kept

\* The collector takes no object that anything still points to.
LEMMA KeptRefs ==
  ASSUME NEW h \in [Objs -> Rec], task' \in [Tasks -> Job],
         cache' \in [Pods -> Objs \cup {Nil}], bots' \subseteq Objs,
         RefsOf(h, task', cache', bots')
  PROVE  RefsOf(Kept(h), task', cache', bots')
<1>1. \A t \in Tasks : task'[t].obj \in Objs => Kept(h)[task'[t].obj] = h[task'[t].obj]
  BY DEF Kept
<1>2. \A p \in Pods : cache'[p] \in Objs => Kept(h)[cache'[p]] = h[cache'[p]]
  BY DEF Kept
<1>3. \A o \in bots' : Kept(h)[o] = h[o]
  BY DEF Kept
<1>4. ASSUME NEW t \in Tasks PROVE JobOK(t, task'[t], Kept(h))
  <2>1. JobOK(t, task'[t], h) /\ task'[t] \in Job
    BY DEF RefsOf
  <2> DEFINE k == task'[t]
  <2>2. k.obj \in Objs \cup {Nil} /\ k.op = "move" => k.obj \in Objs
    BY <2>1 DEF Job, JobOK
  <2>3. k.obj \in Objs => Kept(h)[k.obj] = h[k.obj]
    BY <1>1
  <2> HIDE DEF k
  <2> QED
    BY <2>1, <2>2, <2>3 DEF JobOK, Job, k
<1> QED
  BY <1>2, <1>3, <1>4 DEF RefsOf

LEMMA TypedIsTypeOK == Typed => TypeOK
BY DEF Typed, TypeOK, Plain, Rec, Job, Row

LEMMA InitTyped == Init => Typed
<1> SUFFICES ASSUME Init PROVE Typed
  OBVIOUS
<1>1. heap \in [Objs -> Rec] /\ task \in [Tasks -> Job]
  BY Empties DEF Init
<1>2. Plain
  BY Empties DEF Init, Plain, Row, NoTimer
<1>3. Refs
  <2>1. \A t \in Tasks : JobOK(t, Idle, heap)
    BY TodoType DEF JobOK, Idle
  <2> QED
    BY <2>1 DEF Init, Refs, RefsOf
<1> QED
  BY <1>1, <1>2, <1>3 DEF Typed

LEMMA Helpers ==
  ASSUME Typed, NEW p \in Pods, NEW o \in Objs, NEW r \in Rec
  PROVE  /\ Armed(p, r) \in Nat \cup {NoTimer}
         /\ Scheduled(p, o, r) \subseteq bots \cup {o}
         /\ bots \subseteq Scheduled(p, o, r)
<1>1. Len(r.hist) \in Nat
  BY LenProperties DEF Rec
<1> QED
  BY <1>1 DEF Armed, Scheduled, NoTimer

LEMMA BootTyped == ASSUME Typed, NEW p \in Pods, Boot(p) PROVE Typed'
<1>1. Plain'
  BY DEF Typed, Plain, Boot, dbVars, Row
<1>2. UNCHANGED <<heap, task, cache, bots>>
  BY DEF Boot
<1> QED
  BY <1>1, <1>2 DEF Typed, Refs

LEMMA CrashTyped == ASSUME Typed, NEW p \in Pods, Crash(p) PROVE Typed'
<1>1. Plain'
  BY DEF Typed, Plain, Crash, dbVars, NoTimer
<1>2. heap' \in [Objs -> Rec] /\ task' \in [Tasks -> Job]
  BY Empties DEF Typed, Crash
<1>3. Refs'
  <2>1. \A o \in Objs : heap[o].pod # p => heap'[o] = heap[o]
    BY DEF Crash
  <2>2. ASSUME NEW t \in Tasks PROVE JobOK(t, task'[t], heap')
    <3>1. CASE task[t].pod = p
      <4>1. task'[t] = Idle
        BY <3>1 DEF Crash
      <4> QED
        BY <4>1, TodoType DEF JobOK, Idle
    <3>2. CASE task[t].pod # p
      <4>1. task'[t] = task[t]
        BY <3>2 DEF Crash
      <4>2. JobOK(t, task[t], heap) /\ task[t] \in Job
        BY DEF Typed, Refs, RefsOf
      <4> DEFINE k == task[t]
      <4>3. k.obj # Nil => heap'[k.obj] = heap[k.obj]
        BY <2>1, <3>2, <4>2 DEF JobOK, Job
      <4>4. k.op = "move" => k.obj # Nil
        BY <4>2, NilAssumption DEF JobOK
      <4> QED
        BY <4>1, <4>2, <4>3, <4>4 DEF JobOK
    <3> QED
      BY <3>1, <3>2
  <2>3. \A q \in Pods : cache'[q] # Nil => heap'[cache'[q]].pod = q
    BY <2>1 DEF Typed, Plain, Refs, RefsOf, Crash
  <2>4. \A o \in bots' : heap'[o].pod \in Pods
    BY <2>1 DEF Typed, Plain, Refs, RefsOf, Crash
  <2> QED
    BY <2>2, <2>3, <2>4 DEF Refs, RefsOf
<1> QED
  BY <1>1, <1>2, <1>3 DEF Typed

LEMMA ClaimTyped == ASSUME Typed, NEW p \in Pods, Claim(p) PROVE Typed'
<1>1. Plain'
  BY DEF Typed, Plain, Claim, dbVars, Row
<1>2. UNCHANGED <<heap, task, cache, bots>>
  BY DEF Claim
<1> QED
  BY <1>1, <1>2 DEF Typed, Refs

\* The cache lets go of a record; the goroutines keep theirs.
LEMMA DropTyped ==
  ASSUME Typed, NEW p \in Pods, cache' = [cache EXCEPT ![p] = Nil],
         heap' = Kept(heap), UNCHANGED <<task, bots>>
  PROVE  /\ cache' \in [Pods -> Objs \cup {Nil}]
         /\ heap' \in [Objs -> Rec] /\ task' \in [Tasks -> Job] /\ Refs'
<1>1. cache' \in [Pods -> Objs \cup {Nil}]
  BY DEF Typed, Plain
<1>2. heap' \in [Objs -> Rec] /\ task' \in [Tasks -> Job]
  BY KeptType DEF Typed
<1>3. RefsOf(heap, task', cache', bots')
  BY DEF Typed, Plain, Refs, RefsOf
<1>4. RefsOf(Kept(heap), task', cache', bots')
  BY <1>1, <1>2, <1>3, KeptRefs DEF Typed, Plain
<1> QED
  BY <1>1, <1>2, <1>4 DEF Refs

LEMMA StandDownTyped == ASSUME Typed, NEW p \in Pods, StandDown(p) PROVE Typed'
<1>1. /\ cache' \in [Pods -> Objs \cup {Nil}]
      /\ heap' \in [Objs -> Rec] /\ task' \in [Tasks -> Job] /\ Refs'
  BY DropTyped DEF StandDown
<1>2. Plain'
  BY <1>1 DEF Typed, Plain, StandDown, dbVars, NoTimer, Row
<1> QED
  BY <1>1, <1>2 DEF Typed

LEMMA InvalidateTyped == ASSUME Typed, NEW p \in Pods, Invalidate(p) PROVE Typed'
<1>1. /\ cache' \in [Pods -> Objs \cup {Nil}]
      /\ heap' \in [Objs -> Rec] /\ task' \in [Tasks -> Job] /\ Refs'
  BY DropTyped DEF Invalidate
<1>2. Plain'
  BY <1>1 DEF Typed, Plain, Invalidate, dbVars, leaseVars, Row
<1> QED
  BY <1>1, <1>2 DEF Typed

LEMMA AdoptGameTyped == ASSUME Typed, NEW p \in Pods, AdoptGame(p) PROVE Typed'
<1> DEFINE o == cache[p]
<1>1. o \in Objs /\ heap[o] \in Rec /\ heap[o].pod = p
  BY DEF Typed, Plain, AdoptGame, Refs, RefsOf
<1>2. /\ Armed(p, heap[o]) \in Nat \cup {NoTimer}
      /\ Scheduled(p, o, heap[o]) \subseteq bots \cup {o}
  BY <1>1, Helpers
<1>3. timer' \in [Pods -> Nat \cup {NoTimer}] /\ bots' \subseteq bots \cup {o}
  BY <1>2 DEF AdoptGame, Typed, Plain
<1>4. Plain'
  BY <1>1, <1>3 DEF Typed, Plain, AdoptGame, dbVars, leaseVars, Row
<1>5. heap' = heap /\ task' = task /\ cache' = cache
  BY DEF AdoptGame
<1>6. Refs'
  BY <1>1, <1>3, <1>5 DEF Typed, Refs, RefsOf
<1> QED
  BY <1>4, <1>5, <1>6 DEF Typed
-----------------------------------------------------------------------------
\* One goroutine moves on and memory stays: its new job must be in order.
LEMMA OneJob ==
  ASSUME Typed, NEW t \in Tasks, NEW k \in Job, JobOK(t, k, heap),
         task' = [task EXCEPT ![t] = k], UNCHANGED <<heap, cache, bots>>
  PROVE  task' \in [Tasks -> Job] /\ heap' \in [Objs -> Rec] /\ Refs'
BY DEF Typed, Refs, RefsOf

LEMMA IdleOK ==
  ASSUME NEW t \in Tasks, NEW h \in [Objs -> Rec]
  PROVE  JobOK(t, Idle, h)
BY TodoType DEF JobOK, Idle

LEMMA LoadRowTyped ==
  ASSUME Typed, NEW t \in Tasks, NEW p \in Pods, LoadRow(t, p) PROVE Typed'
<1> DEFINE k == [Idle EXCEPT !.op = "loading", !.pod = p, !.row = row]
<1>1. k \in Job
  BY Empties DEF Typed, Plain, Job, Idle, Ops
<1>2. JobOK(t, k, heap)
  BY TodoType, NilAssumption DEF JobOK, Idle
<1>3. task' \in [Tasks -> Job] /\ heap' \in [Objs -> Rec] /\ Refs'
  BY <1>1, <1>2, OneJob DEF LoadRow
<1>4. Plain'
  BY DEF Typed, Plain, LoadRow, dbVars, leaseVars, Row
<1> QED
  BY <1>3, <1>4 DEF Typed

LEMMA OpenTyped ==
  ASSUME Typed, NEW t \in Tasks, NEW p \in Pods, Open(t, p) PROVE Typed'
<1> DEFINE k == [Idle EXCEPT !.op = "ready", !.pod = p, !.obj = cache[p]]
<1>1. cache[p] \in Objs /\ heap[cache[p]].pod = p
  BY DEF Typed, Plain, Open, Refs, RefsOf
<1>2. k \in Job
  BY <1>1, Empties DEF Job, Idle, Ops
<1>3. JobOK(t, k, heap)
  BY <1>1, TodoType DEF JobOK, Idle
<1>4. task' \in [Tasks -> Job] /\ heap' \in [Objs -> Rec] /\ Refs'
  BY <1>2, <1>3, OneJob DEF Open
<1>5. Plain'
  BY DEF Typed, Plain, Open, dbVars, leaseVars, Row
<1> QED
  BY <1>4, <1>5 DEF Typed

\* A goroutine that ends leaves the record to the cache, the bots and others.
LEMMA Ending ==
  ASSUME Typed, NEW t \in Tasks, NEW h \in [Objs -> Rec], Ends(t),
         cache' \in [Pods -> Objs \cup {Nil}], bots' \subseteq Objs,
         \A u \in Tasks \ {t} : JobOK(u, task[u], h),
         \A p \in Pods : cache'[p] # Nil => h[cache'[p]].pod = p,
         \A o \in bots' : h[o].pod \in Pods
  PROVE  /\ task' \in [Tasks -> Job]
         /\ RefsOf(h, task', cache', bots')
         /\ Kept(h) \in [Objs -> Rec] /\ RefsOf(Kept(h), task', cache', bots')
<1>1. task' \in [Tasks -> Job]
  BY Empties DEF Typed, Ends
<1>2. \A u \in Tasks : task'[u] = IF u = t THEN Idle ELSE task[u]
  BY DEF Typed, Ends
<1>3. ASSUME NEW u \in Tasks PROVE JobOK(u, task'[u], h)
  BY <1>2, IdleOK
<1>4. RefsOf(h, task', cache', bots')
  BY <1>3 DEF RefsOf
<1> QED
  BY <1>1, <1>4, KeptRefs, KeptType

\* ... in particular when the records, the cache and the bots stay.
LEMMA EndingQuietly ==
  ASSUME Typed, NEW t \in Tasks, Ends(t), UNCHANGED <<cache, bots>>
  PROVE  /\ task' \in [Tasks -> Job] /\ RefsOf(heap, task', cache', bots')
         /\ Kept(heap) \in [Objs -> Rec] /\ RefsOf(Kept(heap), task', cache', bots')
<1>1. /\ cache' \in [Pods -> Objs \cup {Nil}] /\ bots' \subseteq Objs
      /\ heap \in [Objs -> Rec]
  BY DEF Typed, Plain
<1>2. /\ \A u \in Tasks \ {t} : JobOK(u, task[u], heap)
      /\ \A p \in Pods : cache'[p] # Nil => heap[cache'[p]].pod = p
      /\ \A o \in bots' : heap[o].pod \in Pods
  BY DEF Typed, Refs, RefsOf
<1> QED
  BY <1>1, <1>2, Ending

LEMMA LoadFailsTyped ==
  ASSUME Typed, NEW t \in Tasks, LoadFails(t) PROVE Typed'
<1>1. task' \in [Tasks -> Job] /\ RefsOf(heap, task', cache', bots')
  BY EndingQuietly DEF LoadFails
<1>2. Plain' /\ heap' = heap
  BY DEF Typed, Plain, LoadFails, dbVars, leaseVars, Row
<1> QED
  BY <1>1, <1>2 DEF Typed, Refs

LEMMA LogType == ASSUME Typed PROVE Log \in Seq(Moves)
<1>1. /\ Cardinality(DOMAIN moves) \in Nat
      /\ DOMAIN Log = 1 .. Cardinality(DOMAIN moves)
      /\ \A i \in DOMAIN Log : Log[i] \in Moves
  BY LogProperties DEF Typed, Plain
<1>2. Log = [i \in DOMAIN Log |-> Log[i]]
  BY DEF Log
<1> HIDE DEF Log
<1>3. Log \in [1 .. Cardinality(DOMAIN moves) -> Moves]
  BY <1>1, <1>2
<1> QED
  BY <1>1, <1>3

\* The record LoadGame builds.
Loaded(t, c) ==
  [pod |-> task[t].pod, hist |-> Log, result |-> task[t].row.result,
   offer |-> task[t].row.offer, clock |-> c, lock |-> Nil]

LEMMA LoadMovesTyped ==
  ASSUME Typed, NEW t \in Tasks, LoadMoves(t) PROVE Typed'
<1> DEFINE p == task[t].pod
<1>1. p \in Pods /\ task[t] \in Job /\ UNCHANGED <<dbVars, leaseVars, acked, faults>> /\ Ends(t)
  BY DEF Typed, Refs, RefsOf, JobOK, LoadMoves
<1>2. CASE UNCHANGED <<heap, cache, timer, bots>>
  <2>1. task' \in [Tasks -> Job] /\ RefsOf(heap, task', cache', bots')
    BY <1>1, <1>2, EndingQuietly
  <2>2. Plain'
    BY <1>1, <1>2 DEF Typed, Plain, dbVars, leaseVars, Row
  <2> QED
    BY <1>2, <2>1, <2>2 DEF Typed, Refs
<1>3. CASE ~UNCHANGED <<heap, cache, timer, bots>>
  <2>1. PICK o \in Objs, c \in Clocks :
          /\ cache[p] = Nil /\ Free(o)
          /\ heap' = [heap EXCEPT ![o] = Loaded(t, c)]
          /\ cache' = [cache EXCEPT ![p] = o]
          /\ timer' = [timer EXCEPT ![p] = Armed(p, Loaded(t, c))]
          /\ bots' = Scheduled(p, o, Loaded(t, c))
    BY <1>3, Zenon DEF LoadMoves, Loaded
  <2> DEFINE r == Loaded(t, c)
  <2>2. r \in Rec /\ r.pod = p
    BY <1>1, LogType DEF Loaded, Rec, Job, Row
  <2> HIDE DEF r
  <2>3. heap' \in [Objs -> Rec] /\ heap'[o] = r /\ \A u \in Objs \ {o} : heap'[u] = heap[u]
    BY <2>1, <2>2 DEF Typed, r
  <2>4. Armed(p, r) \in Nat \cup {NoTimer} /\ Scheduled(p, o, r) \subseteq bots \cup {o}
    BY <1>1, <2>2, Helpers
  <2>5. /\ timer' \in [Pods -> Nat \cup {NoTimer}] /\ bots' \subseteq bots \cup {o}
        /\ cache' \in [Pods -> Objs \cup {Nil}]
    BY <2>1, <2>4 DEF r, Typed, Plain
  <2>6. Plain'
    BY <1>1, <2>5 DEF Typed, Plain, dbVars, leaseVars, Row
  <2>7. /\ \A q \in Pods : cache'[q] # Nil => heap'[cache'[q]].pod = q
        /\ \A u \in bots' : heap'[u].pod \in Pods
    BY <1>1, <2>1, <2>2, <2>3, <2>5, NilAssumption DEF Typed, Plain, Refs, RefsOf, Free
  <2>8. ASSUME NEW u \in Tasks \ {t} PROVE JobOK(u, task[u], heap')
    <3>1. JobOK(u, task[u], heap) /\ task[u] \in Job
      BY DEF Typed, Refs, RefsOf
    <3> DEFINE k == task[u]
    <3>2. k.obj \in Objs => k.obj # o
      BY <2>1, <3>1, NilAssumption DEF JobOK, Idle, Free
    <3>3. k.obj \in Objs => heap'[k.obj] = heap[k.obj]
      BY <2>3, <3>2
    <3> HIDE DEF k
    <3> QED
      BY <3>1, <3>3 DEF JobOK, Job, k
  <2>9. task' \in [Tasks -> Job] /\ RefsOf(heap', task', cache', bots')
    <3>1. bots' \subseteq Objs
      BY <2>6 DEF Plain
    <3> QED
      BY <1>1, <2>3, <2>5, <2>7, <2>8, <3>1, Ending
  <2> QED
    BY <2>3, <2>6, <2>9 DEF Typed, Refs
<1> QED
  BY <1>2, <1>3

-----------------------------------------------------------------------------
\* The record of a command that is about to take the lock.
LEMMA Holder ==
  ASSUME Typed, NEW t \in Tasks, task[t].op \in {"ready", "flag", "move", "bot"}
  PROVE  /\ task[t].obj \in Objs /\ task[t].pod \in Pods /\ task[t] \in Job
         /\ heap[task[t].obj] \in Rec /\ heap[task[t].obj].pod = task[t].pod
BY NilAssumption DEF Typed, Refs, RefsOf, JobOK

\* Changing the record o while nobody holds its lock disturbs nobody.
LEMMA Rewrite ==
  ASSUME Typed, NEW o \in Objs, NEW r \in Rec, r.pod = heap[o].pod,
         Unlocked(o) \/ (r.lock = heap[o].lock /\ r.hist = heap[o].hist)
  PROVE  LET h == [heap EXCEPT ![o] = r]
         IN  /\ h \in [Objs -> Rec]
             /\ \A u \in Tasks : JobOK(u, task[u], h)
             /\ \A p \in Pods : cache[p] # Nil => h[cache[p]].pod = p
             /\ \A b \in bots : h[b].pod \in Pods
             /\ \A b \in Objs : h[b].pod = heap[b].pod
<1> DEFINE h == [heap EXCEPT ![o] = r]
<1>1. h \in [Objs -> Rec] /\ h[o] = r /\ \A u \in Objs \ {o} : h[u] = heap[u]
  BY DEF Typed
<1>2. \A u \in Objs : h[u].pod = heap[u].pod
  BY <1>1
<1> HIDE DEF h
<1>3. ASSUME NEW u \in Tasks PROVE JobOK(u, task[u], h)
  <2>1. JobOK(u, task[u], heap) /\ task[u] \in Job
    BY DEF Typed, Refs, RefsOf
  <2> DEFINE k == task[u]
  <2>2. /\ k.obj \in Objs \cup {Nil}
        /\ k.obj # Nil => heap[k.obj].pod = k.pod
        /\ k.op = "move" => /\ k.obj \in Objs /\ heap[k.obj].lock = u
                            /\ heap[k.obj].hist # <<>>
    BY <2>1 DEF JobOK, Job
  <2>3. k.op = "move" => h[k.obj].lock = u /\ h[k.obj].hist # <<>>
    BY <1>1, <2>2, NilAssumption DEF Unlocked
  <2>4. k.obj # Nil => h[k.obj].pod = k.pod
    BY <1>2, <2>2
  <2> HIDE DEF k
  <2> QED
    BY <2>1, <2>3, <2>4 DEF JobOK, k
<1>4. /\ \A p \in Pods : cache[p] # Nil => h[cache[p]].pod = p
      /\ \A b \in bots : h[b].pod \in Pods
  BY <1>2 DEF Typed, Plain, Refs, RefsOf
<1> QED
  BY <1>1, <1>2, <1>3, <1>4 DEF h

\* A command that unlocks, then writes.
LEMMA LeavesTyped ==
  ASSUME Typed, NEW t \in Tasks, task[t].op \in {"ready", "flag"},
         NEW op \in {"concede", "timer", "offer"}, NEW r \in Rec,
         r.pod = heap[task[t].obj].pod,
         NEW todo \in Todos, todo # <<>>, Leaves(t, op, r, todo),
         Head(todo).write # "append",
         Head(todo).write = "outcome" => op \in {"concede", "timer"}
  PROVE  heap' \in [Objs -> Rec] /\ task' \in [Tasks -> Job] /\ Refs'
<1> DEFINE o == task[t].obj
           h == [heap EXCEPT ![o] = r]
           k == [task[t] EXCEPT !.op = op, !.obj = Nil, !.todo = todo]
<1>1. o \in Objs /\ task[t].pod \in Pods /\ task[t] \in Job
  BY Holder
<1>2. /\ h \in [Objs -> Rec]
      /\ \A u \in Tasks : JobOK(u, task[u], h)
      /\ \A p \in Pods : cache[p] # Nil => h[cache[p]].pod = p
      /\ \A b \in bots : h[b].pod \in Pods
  BY <1>1, Rewrite DEF Leaves
<1>3. heap' = Kept(h) /\ task' = [task EXCEPT ![t] = k] /\ cache' = cache /\ bots' = bots
  BY <1>1 DEF Leaves, Typed
<1> HIDE DEF h
<1>4. k \in Job
  BY <1>1, TodoType DEF Job, Ops
<1>5. k.op = op /\ k.pod = task[t].pod /\ k.obj = Nil /\ k.todo = todo
  BY <1>1 DEF Job
<1> HIDE DEF k
<1>6. JobOK(t, k, h)
  BY <1>1, <1>5, NilAssumption DEF JobOK
<1>7. task' \in [Tasks -> Job]
  BY <1>3, <1>4 DEF Typed
<1>8. \A u \in Tasks : JobOK(u, task'[u], h)
  BY <1>2, <1>3, <1>6 DEF Typed
<1>9. RefsOf(h, task', cache', bots')
  BY <1>2, <1>3, <1>8 DEF RefsOf
<1> QED
  BY <1>2, <1>3, <1>7, <1>9, KeptType, KeptRefs DEF Typed, Plain, Refs

LEMMA EndGameTyped ==
  ASSUME Typed, NEW t \in Tasks, task[t].op \in {"ready", "flag"},
         NEW op \in {"concede", "timer"}, NEW res \in Result,
         NEW offer \in Seats \cup {NoSeat}, NEW todo,
         \/ todo = <<>> \/ todo = <<Offer(NoSeat)>>
         \/ todo = Rescind(heap[task[t].obj]),
         EndGame(t, op, res, offer, todo)
  PROVE  Typed'
<1> DEFINE o == task[t].obj
           r == [heap[o] EXCEPT !.result = res, !.offer = offer]
           w == Outcome(res)
           all == <<w>> \o todo
<1>1. o \in Objs /\ task[t].pod \in Pods /\ heap[o] \in Rec
  BY Holder
<1>2. r \in Rec /\ r.pod = heap[o].pod
  BY <1>1 DEF Rec
<1>3. /\ w \in Writes /\ w.write = "outcome" /\ Offer(NoSeat) \in Offers
      /\ all = <<w>> \/ all = <<w, Offer(NoSeat)>>
  BY <1>1, RescindType
<1> HIDE DEF w
<1>4. all \in Todos /\ all # <<>> /\ Head(all) = w
  BY <1>3, TodoType
<1>5. Leaves(t, op, r, all)
  BY DEF EndGame, w
<1> HIDE DEF all, r
<1>6. heap' \in [Objs -> Rec] /\ task' \in [Tasks -> Job] /\ Refs'
  BY <1>2, <1>3, <1>4, <1>5, LeavesTyped
<1>7. Plain'
  BY <1>1 DEF EndGame, Leaves, Typed, Plain, dbVars, leaseVars, Row, NoTimer
<1> QED
  BY <1>6, <1>7 DEF Typed

LEMMA ResignTyped ==
  ASSUME Typed, NEW t \in Tasks, NEW s \in Seats, Resign(t, s) PROVE Typed'
<1>1. Lost(s, "resign") \in Result
  BY LostType DEF Kinds
<1> QED
  BY <1>1, EndGameTyped DEF Resign

LEMMA AcceptDrawTyped ==
  ASSUME Typed, NEW t \in Tasks, NEW s \in Seats, AcceptDraw(t, s) PROVE Typed'
BY DrawnType, EndGameTyped DEF AcceptDraw

LEMMA DisconnectTimeoutTyped ==
  ASSUME Typed, NEW t \in Tasks, NEW s \in Seats, DisconnectTimeout(t, s) PROVE Typed'
<1>1. Lost(s, "timeout") \in Result
  BY LostType DEF Kinds
<1>2. heap[task[t].obj].offer \in Seats \cup {NoSeat}
  BY Holder DEF DisconnectTimeout, Rec
<1> QED
  BY <1>1, <1>2, EndGameTyped DEF DisconnectTimeout

LEMMA HandleFlagTyped ==
  ASSUME Typed, NEW t \in Tasks, HandleFlag(t) PROVE Typed'
<1> DEFINE r == heap[task[t].obj]
<1>1. r \in Rec
  BY Holder DEF HandleFlag
<1>2. r.offer \in Seats \cup {NoSeat} /\ Lost(Turn(r.hist), "timeout") \in Result
  BY <1>1, TurnType, LostType DEF Rec, Kinds
<1> QED
  BY <1>2, EndGameTyped DEF HandleFlag

LEMMA OfferDrawTyped ==
  ASSUME Typed, NEW t \in Tasks, NEW s \in Seats, OfferDraw(t, s) PROVE Typed'
<1> DEFINE o == task[t].obj
           r == [heap[o] EXCEPT !.offer = s]
<1>1. o \in Objs /\ heap[o] \in Rec
  BY Holder DEF OfferDraw
<1>2. r \in Rec /\ r.pod = heap[o].pod
  BY <1>1 DEF Rec
<1>3. Offer(s) \in Writes /\ Offer(s).write = "offer"
  BY DEF Offer, Writes
<1>4. <<Offer(s)>> \in Todos /\ <<Offer(s)>> # <<>> /\ Head(<<Offer(s)>>) = Offer(s)
  BY <1>3, TodoType
<1>5. Leaves(t, "offer", r, <<Offer(s)>>)
  BY DEF OfferDraw
<1> HIDE DEF r
<1>6. heap' \in [Objs -> Rec] /\ task' \in [Tasks -> Job] /\ Refs'
  BY <1>2, <1>3, <1>4, <1>5, LeavesTyped DEF OfferDraw
<1>7. Plain'
  BY DEF OfferDraw, Leaves, Typed, Plain, dbVars, leaseVars, Row
<1> QED
  BY <1>6, <1>7 DEF Typed

LEMMA DeclineDrawTyped ==
  ASSUME Typed, NEW t \in Tasks, DeclineDraw(t) PROVE Typed'
<1> DEFINE o == task[t].obj
           r == [heap[o] EXCEPT !.offer = NoSeat]
           w == Offer(NoSeat)
<1>1. o \in Objs /\ heap[o] \in Rec
  BY Holder DEF DeclineDraw
<1>2. r \in Rec /\ r.pod = heap[o].pod
  BY <1>1 DEF Rec
<1>3. w \in Writes /\ w.write = "offer"
  BY DEF Offer, Writes
<1>4. <<w>> \in Todos /\ <<w>> # <<>> /\ Head(<<w>>) = w
  BY <1>3, TodoType
<1>5. Leaves(t, "offer", r, <<w>>)
  BY DEF DeclineDraw
<1> HIDE DEF r, w
<1>6. heap' \in [Objs -> Rec] /\ task' \in [Tasks -> Job] /\ Refs'
  BY <1>2, <1>3, <1>4, <1>5, LeavesTyped DEF DeclineDraw
<1>7. Plain'
  BY DEF DeclineDraw, Leaves, Typed, Plain, dbVars, leaseVars, Row
<1> QED
  BY <1>6, <1>7 DEF Typed

LEMMA RefusedTyped ==
  ASSUME Typed, NEW t \in Tasks, Refused(t) \/ HandleFlagReturns(t) PROVE Typed'
<1>1. Plain' /\ heap' = Kept(heap) /\ Ends(t) /\ UNCHANGED <<cache, bots>>
  BY DEF Typed, Plain, Refused, HandleFlagReturns, dbVars, leaseVars, Row
<1> QED
  BY <1>1, EndingQuietly DEF Typed, Refs

LEMMA PlayMoveTyped ==
  ASSUME Typed, NEW t \in Tasks, NEW m \in Moves, PlayMove(t, m) PROVE Typed'
<1> DEFINE o == task[t].obj
           r == heap[o]
           q == [Played(r, m) EXCEPT !.lock = t]
           h == [heap EXCEPT ![o] = q]
           todo == Journal(r, m) \o Rescind(r)
           k == [task[t] EXCEPT !.op = "move", !.todo = todo]
<1>1. o \in Objs /\ task[t].pod \in Pods /\ task[t] \in Job /\ r \in Rec /\ r.pod = task[t].pod
  BY Holder DEF PlayMove
<1>2. q \in Rec /\ q.pod = r.pod /\ q.hist # <<>> /\ q.lock = t
  BY <1>1, PlayedType DEF Rec
<1>3. /\ h \in [Objs -> Rec]
      /\ \A u \in Tasks : JobOK(u, task[u], h)
      /\ \A p \in Pods : cache[p] # Nil => h[cache[p]].pod = p
      /\ \A b \in bots : h[b].pod \in Pods
  <2>1. Unlocked(o)
    BY DEF PlayMove
  <2>2. q.pod = heap[o].pod
    BY <1>1, <1>2
  <2> HIDE DEF q, o
  <2> QED
    BY <1>1, <1>2, <2>1, <2>2, Rewrite
<1>4. h[o] = q
  BY <1>1 DEF Typed
<1>5. /\ todo \in Todos /\ todo # <<>> /\ Head(todo).write = "append"
      /\ Head(todo).n < MaxMoves
  <2> DEFINE w == Insert(Len(r.hist), m, Played(r, m).result, r.clock = "edge")
  <2>1. /\ w \in Writes /\ w.write = "append" /\ w.n < MaxMoves
        /\ todo = <<w>> \/ todo = <<w, Offer(NoSeat)>>
    BY <1>1, JournalType DEF PlayMove
  <2>2. Offer(NoSeat) \in Offers
    BY DEF Offers
  <2> HIDE DEF w, todo
  <2> QED
    BY <2>1, <2>2, TodoType
<1> HIDE DEF todo
<1>6. k \in Job /\ k.op = "move" /\ k.pod = task[t].pod /\ k.obj = o /\ k.todo = todo
  BY <1>1, <1>5, TodoType DEF Job, Ops
<1>7. heap' = h /\ task' = [task EXCEPT ![t] = k] /\ cache' = cache /\ bots' = bots
  BY <1>1 DEF PlayMove, Typed, todo
<1> HIDE DEF k, h, q, r
<1>8. JobOK(t, k, h)
  BY <1>1, <1>2, <1>4, <1>5, <1>6 DEF JobOK
<1>9. task' \in [Tasks -> Job]
  BY <1>6, <1>7 DEF Typed
<1>10. \A u \in Tasks : JobOK(u, task'[u], h)
  BY <1>3, <1>7, <1>8 DEF Typed
<1>11. RefsOf(h, task', cache', bots')
  BY <1>3, <1>7, <1>10 DEF RefsOf
<1>12. Plain'
  BY DEF PlayMove, Typed, Plain, dbVars, leaseVars, Row
<1> QED
  BY <1>3, <1>7, <1>9, <1>11, <1>12 DEF Typed, Refs

LEMMA TickTyped ==
  ASSUME Typed, NEW o \in Objs, Tick(o) PROVE Typed'
<1> DEFINE r == [heap[o] EXCEPT !.clock = IF @ = "running" THEN "edge" ELSE "flagged"]
<1>1. heap[o] \in Rec
  BY DEF Typed
<1>2. /\ r \in Rec /\ r.pod = heap[o].pod
      /\ r.lock = heap[o].lock /\ r.hist = heap[o].hist
  BY <1>1 DEF Rec, Clocks
<1>3. heap' = [heap EXCEPT ![o] = r]
  BY DEF Tick, Typed
<1> HIDE DEF r
<1> DEFINE h == [heap EXCEPT ![o] = r]
<1>4. /\ h \in [Objs -> Rec]
      /\ \A u \in Tasks : JobOK(u, task[u], h)
      /\ \A p \in Pods : cache[p] # Nil => h[cache[p]].pod = p
      /\ \A b \in bots : h[b].pod \in Pods
  BY <1>2, Rewrite
<1>5. Plain' /\ UNCHANGED <<task, cache, bots>>
  BY DEF Tick, Typed, Plain, dbVars, leaseVars, Row
<1> QED
  BY <1>3, <1>4, <1>5 DEF Typed, Refs, RefsOf

LEMMA FireTyped ==
  ASSUME Typed, NEW t \in Tasks, NEW p \in Pods, Fire(t, p) PROVE Typed'
<1> DEFINE o == cache[p]
           k == [Idle EXCEPT !.op = "flag", !.pod = p, !.obj = o]
<1>1. Plain' /\ UNCHANGED <<heap, cache, bots>>
  BY DEF Fire, Typed, Plain, dbVars, leaseVars, Row, NoTimer
<1>2. CASE o = Nil
  BY <1>1, <1>2 DEF Fire, Typed, Refs
<1>3. CASE o # Nil
  <2>1. o \in Objs /\ heap[o].pod = p
    BY <1>3 DEF Typed, Plain, Refs, RefsOf
  <2>2. k \in Job
    BY <2>1, Empties DEF Job, Idle, Ops
  <2>3. JobOK(t, k, heap)
    BY <2>1, TodoType DEF JobOK, Idle
  <2>4. task' \in [Tasks -> Job] /\ heap' \in [Objs -> Rec] /\ Refs'
    BY <1>1, <1>3, <2>2, <2>3, OneJob DEF Fire
  <2> QED
    BY <1>1, <2>4 DEF Typed
<1> QED
  BY <1>2, <1>3
-----------------------------------------------------------------------------
LEMMA PlayBotTurnTyped ==
  ASSUME Typed, NEW t \in Tasks, NEW o \in Objs, NEW m \in Moves, PlayBotTurn(t, o, m)
  PROVE  Typed'
<1> DEFINE r == heap[o]
           q == Played(r, m)
           h == [heap EXCEPT ![o] = q]
           todo == Journal(r, m) \o Rescind(r)
           k == [Idle EXCEPT !.op = "bot", !.pod = r.pod, !.obj = o, !.todo = todo]
<1>1. r \in Rec /\ r.pod \in Pods
  BY DEF Typed, Refs, RefsOf, PlayBotTurn
<1>2. q \in Rec /\ q.pod = r.pod
  BY <1>1, PlayedType
<1>3. Armed(r.pod, q) \in Nat \cup {NoTimer}
  BY <1>1, <1>2, Helpers
<1> HIDE DEF q
<1>4. /\ h \in [Objs -> Rec]
      /\ \A u \in Tasks : JobOK(u, task[u], h)
      /\ \A p \in Pods : cache[p] # Nil => h[cache[p]].pod = p
      /\ \A b \in bots : h[b].pod \in Pods
      /\ \A b \in Objs : h[b].pod = heap[b].pod
  BY <1>1, <1>2, Rewrite DEF PlayBotTurn
<1>5. /\ todo \in Todos /\ todo # <<>> /\ Head(todo).write = "append"
      /\ Head(todo).n < MaxMoves
  <2> DEFINE w == Insert(Len(r.hist), m, Played(r, m).result, r.clock = "edge")
  <2>1. /\ w \in Writes /\ w.write = "append" /\ w.n < MaxMoves
        /\ todo = <<w>> \/ todo = <<w, Offer(NoSeat)>>
    BY <1>1, JournalType DEF PlayBotTurn
  <2>2. Offer(NoSeat) \in Offers
    BY DEF Offers
  <2> HIDE DEF w, todo
  <2> QED
    BY <2>1, <2>2, TodoType
<1>6. /\ heap' = h /\ task' = [task EXCEPT ![t] = k] /\ cache' = cache /\ bots' = bots \ {o}
      /\ timer' = [timer EXCEPT ![r.pod] = Armed(r.pod, q)]
  BY DEF PlayBotTurn, q
<1> HIDE DEF todo
<1>7. k \in Job /\ k.op = "bot" /\ k.pod = r.pod /\ k.obj = o /\ k.todo = todo
  BY <1>1, <1>5, TodoType, Empties DEF Job, Ops, Idle
<1> HIDE DEF k, h
<1>8. JobOK(t, k, h)
  BY <1>1, <1>4, <1>5, <1>7 DEF JobOK
<1>9. task' \in [Tasks -> Job]
  BY <1>6, <1>7 DEF Typed
<1>10. \A u \in Tasks : JobOK(u, task'[u], h)
  BY <1>4, <1>6, <1>8 DEF Typed
<1>11. RefsOf(h, task', cache', bots')
  BY <1>4, <1>6, <1>10 DEF RefsOf
<1>12. Plain'
  <2>1. timer' \in [Pods -> Nat \cup {NoTimer}]
    BY <1>3, <1>6 DEF Typed, Plain
  <2> HIDE DEF k, h
  <2> QED
    BY <1>6, <2>1 DEF PlayBotTurn, Typed, Plain, dbVars, leaseVars, Row
<1> QED
  BY <1>4, <1>6, <1>9, <1>11, <1>12 DEF Typed, Refs

LEMMA BotReturnsTyped ==
  ASSUME Typed, NEW o \in Objs, BotReturns(o) PROVE Typed'
<1>1. Plain' /\ heap' = Kept(heap) /\ UNCHANGED <<cache, task>> /\ bots' \subseteq bots
  BY DEF Typed, Plain, BotReturns, dbVars, leaseVars, Row
<1>2. RefsOf(heap, task', cache', bots') /\ heap \in [Objs -> Rec]
  BY <1>1 DEF Typed, Refs, RefsOf
<1>3. task' \in [Tasks -> Job]
  BY <1>1 DEF Typed
<1>4. heap' \in [Objs -> Rec] /\ RefsOf(heap', task', cache', bots')
  BY <1>1, <1>2, <1>3, KeptType, KeptRefs DEF Plain
<1> QED
  BY <1>1, <1>3, <1>4 DEF Typed, Refs

-----------------------------------------------------------------------------
\* One statement less to make; only the draw offer can be left.
LEMMA Continuing ==
  ASSUME Typed, NEW t \in Tasks, task[t].todo # <<>>, Continue(t)
  PROVE  /\ task' \in [Tasks -> Job]
         /\ \A u \in Tasks : JobOK(u, task'[u], heap)
         /\ \A u \in Tasks \ {t} : task'[u] = task[u]
         /\ \/ task'[t] = Idle /\ task[t].op \notin {"move", "bot"}
            \/ task'[t] = [task[t] EXCEPT !.todo = Tail(@)]
         /\ task'[t].todo # <<>> => Head(task'[t].todo) \in Offers
         /\ task'[t].op \in {"idle", task[t].op}
<1> DEFINE k == task[t]
<1>1. k \in Job /\ JobOK(t, k, heap) /\ heap \in [Objs -> Rec]
  BY DEF Typed, Refs, RefsOf
<1>2. /\ Tail(k.todo) \in Todos
      /\ Tail(k.todo) # <<>> => Head(Tail(k.todo)) \in Offers
      /\ Tail(k.todo) = <<>> \/ Len(k.todo) # 1
  BY <1>1, TailTodo DEF JobOK
<1>3. CASE Ends(t) /\ k.op \notin {"move", "bot"}
  <2>1. /\ task' = [task EXCEPT ![t] = Idle] /\ Idle \in Job /\ Idle.todo = <<>>
        /\ Idle.op = "idle"
    BY <1>3, Empties DEF Ends, Idle
  <2>2. task'[t] = Idle /\ \A u \in Tasks \ {t} : task'[u] = task[u]
    BY <2>1 DEF Typed
  <2>3. \A u \in Tasks : JobOK(u, task'[u], heap)
    BY <1>1, <2>2, IdleOK DEF Typed, Refs, RefsOf
  <2> QED
    BY <1>3, <2>1, <2>2, <2>3 DEF Typed
<1>4. CASE /\ task' = [task EXCEPT ![t].todo = Tail(@)]
           /\ k.op \in {"move", "bot"} \/ Len(k.todo) # 1
  <2> DEFINE j == [k EXCEPT !.todo = Tail(@)]
  <2>1. task'[t] = j /\ \A u \in Tasks \ {t} : task'[u] = task[u]
    BY <1>4 DEF Typed
  <2>2. j \in Job /\ j.todo = Tail(k.todo) /\ j.op = k.op /\ j.pod = k.pod /\ j.obj = k.obj
    BY <1>1, <1>2, TodoType DEF Job
  <2>3. j.op # "idle" /\ j.op \notin {"idle", "loading", "ready", "flag"}
    BY <1>1, <2>2 DEF JobOK
  <2>4. j.todo # <<>> => Head(j.todo).write = "offer"
    BY <1>2, <2>2 DEF Offers, Offer
  <2> HIDE DEF j
  <2>5. JobOK(t, j, heap)
    <3> HIDE DEF k
    <3> QED
      BY <1>1, <1>2, <2>2, <2>3, <2>4 DEF JobOK
  <2>6. \A u \in Tasks : JobOK(u, task'[u], heap)
    BY <2>1, <2>5 DEF Typed, Refs, RefsOf
  <2>7. task' \in [Tasks -> Job]
    BY <1>4, <2>1, <2>2 DEF Typed, j
  <2> QED
    BY <1>2, <2>1, <2>2, <2>6, <2>7 DEF j
<1> QED
  BY <1>3, <1>4 DEF Continue

LEMMA AppendMoveTyped ==
  ASSUME Typed, NEW t \in Tasks, AppendMove(t) PROVE Typed'
<1> DEFINE w == Head(task[t].todo)
<1>1. UNCHANGED <<heap, cache, timer, bots, leaseVars, acked, faults>>
  BY DEF AppendMove
<1>2. task' \in [Tasks -> Job] /\ \A u \in Tasks : JobOK(u, task'[u], heap)
  BY Continuing DEF AppendMove, Writing
<1>3. w \in Writes /\ w.write = "append" /\ w.n < MaxMoves
  BY TailTodo DEF AppendMove, Writing, Typed, Refs, RefsOf, JobOK
<1>4. w.n \in Nat /\ w.move \in Moves /\ w.result \in Result
  BY <1>3 DEF Writes
<1> HIDE DEF w
<1>5. row' \in Row
  BY <1>4 DEF AppendMove, Typed, Plain, Row, w
<1>6. /\ DOMAIN moves' = DOMAIN moves \cup {w.n}
      /\ \A n \in DOMAIN moves' : moves'[n] \in Moves
      /\ slow' \subseteq slow \cup {w.n}
  BY <1>4 DEF AppendMove, Typed, Plain, w
<1>7. DOMAIN moves' \subseteq 0 .. (MaxMoves - 1)
  BY <1>3, <1>4, <1>6, LimitAssumption DEF Typed, Plain
<1>8. Plain'
  BY <1>1, <1>5, <1>6, <1>7 DEF Typed, Plain, leaseVars
<1> QED
  BY <1>1, <1>2, <1>8 DEF Typed, Refs, RefsOf

LEMMA SaveDrawOfferTyped ==
  ASSUME Typed, NEW t \in Tasks, SaveDrawOffer(t) PROVE Typed'
<1> DEFINE w == Head(task[t].todo)
<1>1. task' \in [Tasks -> Job] /\ \A u \in Tasks : JobOK(u, task'[u], heap)
  BY Continuing DEF SaveDrawOffer, Writing
<1>2. w \in Writes /\ w.write = "offer"
  BY TailTodo DEF SaveDrawOffer, Writing, Typed, Refs, RefsOf, JobOK
<1>3. w.seat \in Seats \cup {NoSeat}
  BY <1>2 DEF Writes
<1>4. Plain' /\ UNCHANGED <<heap, cache, bots>>
  BY <1>3 DEF SaveDrawOffer, Typed, Plain, Row, leaseVars
<1> QED
  BY <1>1, <1>4 DEF Typed, Refs, RefsOf

LEMMA UpdateOutcomeTyped ==
  ASSUME Typed, NEW t \in Tasks, UpdateOutcome(t) PROVE Typed'
<1> DEFINE w == Head(task[t].todo)
<1>1. task' \in [Tasks -> Job] /\ \A u \in Tasks : JobOK(u, task'[u], heap)
  BY Continuing DEF UpdateOutcome, Writing
<1>2. w \in Writes /\ w.write = "outcome"
  BY TailTodo DEF UpdateOutcome, Writing, Typed, Refs, RefsOf, JobOK
<1>3. w.result \in Result
  BY <1>2 DEF Writes
<1>4. Plain' /\ UNCHANGED <<heap, cache, bots>>
  BY <1>3 DEF UpdateOutcome, Typed, Plain, Row, leaseVars
<1> QED
  BY <1>1, <1>4 DEF Typed, Refs, RefsOf

LEMMA OutcomeFencedTyped ==
  ASSUME Typed, NEW t \in Tasks, OutcomeFenced(t) PROVE Typed'
<1> DEFINE p == task[t].pod
<1>1. /\ heap' = Kept(heap) /\ bots' = bots /\ task[t].todo # <<>>
      /\ UNCHANGED <<dbVars, timer, leaseVars, acked, faults>>
  BY DEF OutcomeFenced, Writing
<1>2. cache' \in [Pods -> Objs \cup {Nil}] /\ \A q \in Pods : cache'[q] # Nil => cache'[q] = cache[q]
  BY DEF OutcomeFenced, Typed, Plain
<1>3. task' \in [Tasks -> Job] /\ \A u \in Tasks : JobOK(u, task'[u], heap)
  <2>1. CASE Ends(t)
    <3>1. task' \in [Tasks -> Job] /\ \A u \in Tasks : task'[u] = IF u = t THEN Idle ELSE task[u]
      BY <2>1, Empties DEF Ends, Typed
    <3> QED
      BY <3>1, IdleOK DEF Typed, Refs, RefsOf
  <2>2. CASE Continue(t)
    BY <1>1, <2>2, Continuing
  <2> QED
    BY <2>1, <2>2 DEF OutcomeFenced
<1>4. RefsOf(heap, task', cache', bots') /\ heap \in [Objs -> Rec]
  BY <1>1, <1>2, <1>3 DEF Typed, Plain, Refs, RefsOf
<1>5. Plain'
  BY <1>1, <1>2 DEF Typed, Plain, dbVars, leaseVars, Row
<1>6. heap' \in [Objs -> Rec] /\ RefsOf(heap', task', cache', bots')
  BY <1>1, <1>3, <1>4, <1>5, KeptType, KeptRefs DEF Plain
<1> QED
  BY <1>3, <1>5, <1>6 DEF Typed, Refs

\* Taking the lock off a record its own move has finished with.
LEMMA Unlocking ==
  ASSUME Typed, NEW t \in Tasks, task[t].op = "move"
  PROVE  /\ Unlocks(t) \in [Objs -> Rec]
         /\ \A u \in Tasks \ {t} : JobOK(u, task[u], Unlocks(t))
         /\ \A o \in Objs : Unlocks(t)[o].pod = heap[o].pod /\ Unlocks(t)[o].hist = heap[o].hist
                            /\ Unlocks(t)[o].result = heap[o].result
<1> DEFINE o == task[t].obj
           h == Unlocks(t)
<1>1. o \in Objs /\ heap[o] \in Rec /\ heap[o].lock = t
  BY Holder DEF Typed, Refs, RefsOf, JobOK
<1>2. /\ h = [heap EXCEPT ![o] = [heap[o] EXCEPT !.lock = Nil]]
      /\ [heap[o] EXCEPT !.lock = Nil] \in Rec
  BY <1>1 DEF Unlocks, Typed, Rec
<1>3. /\ h \in [Objs -> Rec] /\ \A b \in Objs : h[b].pod = heap[b].pod /\ h[b].hist = heap[b].hist
      /\ \A b \in Objs : h[b].result = heap[b].result
      /\ \A b \in Objs \ {o} : h[b] = heap[b]
  BY <1>1, <1>2 DEF Typed, Rec
<1> HIDE DEF h
<1>4. ASSUME NEW u \in Tasks \ {t} PROVE JobOK(u, task[u], h)
  <2> DEFINE k == task[u]
  <2>1. JobOK(u, k, heap) /\ k.obj \in Objs \cup {Nil}
    BY DEF Typed, Refs, RefsOf, Job
  <2>2. k.op = "move" => k.obj \in Objs /\ k.obj # o
    BY <1>1, <2>1 DEF JobOK
  <2> HIDE DEF k
  <2> QED
    BY <1>3, <2>1, <2>2 DEF JobOK, k
<1> QED
  BY <1>3, <1>4 DEF h

LEMMA StumbleTyped ==
  ASSUME Typed, NEW t \in Tasks, task[t].todo # <<>>, Stumble(t)
  PROVE  /\ task' \in [Tasks -> Job] /\ heap' \in [Objs -> Rec] /\ Refs'
         /\ bots' = bots /\ cache' = cache
<1>1. bots' = bots /\ cache' = cache
  BY DEF Stumble
<1>2. CASE task[t].op = "move" /\ Ends(t) /\ heap' = Kept(Unlocks(t))
  <2> DEFINE h == Unlocks(t)
  <2>1. /\ h \in [Objs -> Rec] /\ \A u \in Tasks \ {t} : JobOK(u, task[u], h)
        /\ \A o \in Objs : h[o].pod = heap[o].pod
    BY <1>2, Unlocking
  <2> HIDE DEF h
  <2>2. /\ \A p \in Pods : cache'[p] # Nil => h[cache'[p]].pod = p
        /\ \A b \in bots' : h[b].pod \in Pods
        /\ cache' \in [Pods -> Objs \cup {Nil}] /\ bots' \subseteq Objs
    BY <1>1, <2>1 DEF Typed, Plain, Refs, RefsOf
  <2> QED
    BY <1>1, <1>2, <2>1, <2>2, Ending DEF Refs, h
<1>3. CASE task[t].op # "move" /\ Continue(t) /\ heap' = heap
  BY <1>1, <1>3, Continuing DEF Typed, Refs, RefsOf
<1> QED
  BY <1>2, <1>3 DEF Stumble

LEMMA FailureTyped ==
  ASSUME Typed, NEW t \in Tasks, AppendConflict(t) \/ StatementFails(t) PROVE Typed'
<1>1. task' \in [Tasks -> Job] /\ heap' \in [Objs -> Rec] /\ Refs' /\ bots' = bots /\ cache' = cache
  BY StumbleTyped DEF AppendConflict, StatementFails, Writing
<1>2. Plain'
  BY <1>1 DEF AppendConflict, StatementFails, Typed, Plain, dbVars, leaseVars, Row
<1> QED
  BY <1>1, <1>2 DEF Typed

LEMMA MoveReturnsTyped ==
  ASSUME Typed, NEW t \in Tasks, MoveReturns(t) PROVE Typed'
<1> DEFINE p == task[t].pod
           o == task[t].obj
           h == Unlocks(t)
<1>1. p \in Pods /\ o \in Objs /\ heap[o] \in Rec /\ heap[o].pod = p
  BY Holder DEF MoveReturns
<1>2. /\ Armed(p, heap[o]) \in Nat \cup {NoTimer}
      /\ Scheduled(p, o, heap[o]) \subseteq bots \cup {o}
  BY <1>1, Helpers
<1>3. timer' \in [Pods -> Nat \cup {NoTimer}] /\ bots' \subseteq bots \cup {o} /\ cache' = cache
  BY <1>2 DEF MoveReturns, Typed, Plain
<1>4. /\ h \in [Objs -> Rec] /\ \A u \in Tasks \ {t} : JobOK(u, task[u], h)
      /\ \A b \in Objs : h[b].pod = heap[b].pod
  BY Unlocking DEF MoveReturns
<1>5. Ends(t) /\ heap' = Kept(h)
  BY DEF MoveReturns
<1> HIDE DEF h
<1>6. /\ \A q \in Pods : cache'[q] # Nil => h[cache'[q]].pod = q
      /\ \A b \in bots' : h[b].pod \in Pods
      /\ cache' \in [Pods -> Objs \cup {Nil}] /\ bots' \subseteq Objs
  BY <1>1, <1>3, <1>4 DEF Typed, Plain, Refs, RefsOf
<1>7. task' \in [Tasks -> Job] /\ heap' \in [Objs -> Rec] /\ Refs'
  BY <1>4, <1>5, <1>6, Ending DEF Refs
<1>8. acked' \subseteq Nat \X Moves
  <2>1. heap[o].hist \in Seq(Moves) /\ heap[o].hist # <<>>
    BY <1>1 DEF Rec, MoveReturns, Typed, Refs, RefsOf, JobOK
  <2>2. Len(heap[o].hist) - 1 \in Nat /\ Last(heap[o].hist) \in Moves
    <3>1. Len(heap[o].hist) \in Nat \ {0}
      BY <2>1, EmptySeq
    <3>2. heap[o].hist[Len(heap[o].hist)] \in Moves
      BY <2>1, <3>1
    <3> QED
      BY <3>1, <3>2 DEF Last
  <2> QED
    BY <2>2 DEF MoveReturns, Typed, Plain
<1>9. Plain'
  BY <1>3, <1>6, <1>8 DEF MoveReturns, Typed, Plain, dbVars, leaseVars, Row
<1> QED
  BY <1>7, <1>9 DEF Typed

LEMMA BotPlayedTyped ==
  ASSUME Typed, NEW t \in Tasks, BotPlayed(t) PROVE Typed'
<1> DEFINE p == task[t].pod
           o == task[t].obj
<1>1. p \in Pods /\ o \in Objs /\ heap[o] \in Rec /\ heap[o].pod = p
  BY Holder DEF BotPlayed
<1>2. bots' \subseteq bots \cup {o} /\ cache' = cache
  BY <1>1, Helpers DEF BotPlayed
<1>3. /\ \A q \in Pods : cache'[q] # Nil => heap[cache'[q]].pod = q
      /\ \A b \in bots' : heap[b].pod \in Pods
      /\ cache' \in [Pods -> Objs \cup {Nil}] /\ bots' \subseteq Objs
      /\ heap \in [Objs -> Rec] /\ \A u \in Tasks \ {t} : JobOK(u, task[u], heap)
  BY <1>1, <1>2 DEF Typed, Plain, Refs, RefsOf
<1>4. Ends(t) /\ heap' = Kept(heap)
  BY DEF BotPlayed
<1>5. task' \in [Tasks -> Job] /\ heap' \in [Objs -> Rec] /\ Refs'
  BY <1>3, <1>4, Ending DEF Refs
<1>6. Plain'
  BY <1>3 DEF BotPlayed, Typed, Plain, dbVars, leaseVars, Row
<1> QED
  BY <1>5, <1>6 DEF Typed

LEMMA NextTyped == Typed /\ [Next]_vars => Typed'
<1> SUFFICES ASSUME Typed, [Next]_vars PROVE Typed'
  OBVIOUS
<1>1. CASE UNCHANGED vars
  BY <1>1 DEF vars, Typed, Plain, Refs
<1>2. ASSUME NEW p \in Pods,
             Boot(p) \/ Crash(p) \/ Claim(p) \/ StandDown(p) \/ Invalidate(p) \/ AdoptGame(p)
      PROVE  Typed'
  BY <1>2, BootTyped, CrashTyped, ClaimTyped, StandDownTyped, InvalidateTyped, AdoptGameTyped
<1>3. ASSUME NEW o \in Objs, Tick(o) \/ BotReturns(o) PROVE Typed'
  BY <1>3, TickTyped, BotReturnsTyped
<1>4. ASSUME NEW t \in Tasks, Begin(t) PROVE Typed'
  BY <1>4, LoadRowTyped, OpenTyped DEF Begin
<1>5. ASSUME NEW t \in Tasks, Handle(t) PROVE Typed'
  BY <1>5, LoadMovesTyped, LoadFailsTyped, PlayMoveTyped, ResignTyped, OfferDrawTyped,
     AcceptDrawTyped, DisconnectTimeoutTyped, DeclineDrawTyped, RefusedTyped,
     HandleFlagTyped DEF Handle
<1>6. ASSUME NEW t \in Tasks, Write(t) \/ StatementFails(t) PROVE Typed'
  BY <1>6, AppendMoveTyped, FailureTyped, SaveDrawOfferTyped, UpdateOutcomeTyped,
     OutcomeFencedTyped, MoveReturnsTyped, BotPlayedTyped DEF Write
<1>7. ASSUME NEW t \in Tasks, Bot(t) PROVE Typed'
  BY <1>7, PlayBotTurnTyped DEF Bot
<1>8. ASSUME NEW t \in Tasks, NEW p \in Pods, Fire(t, p) PROVE Typed'
  BY <1>8, FireTyped
<1> QED
  BY <1>1, <1>2, <1>3, <1>4, <1>5, <1>6, <1>7, <1>8 DEF Next

\* Types, for any number of pods, goroutines, records and seats: no write is
\* planned for a move beyond the bound, no timer is armed for a negative turn,
\* and every goroutine's record belongs to the goroutine's own pod.
THEOREM TypeCorrect == Spec => []TypeOK
<1>1. Init => Typed
  BY InitTyped
<1>2. Typed /\ [Next]_vars => Typed'
  BY NextTyped
<1>3. Typed => TypeOK
  BY TypedIsTypeOK
<1> QED
  BY <1>1, <1>2, <1>3, PTL DEF Spec

LEMMA AlwaysTyped == Spec => []Typed
BY InitTyped, NextTyped, PTL DEF Spec
-----------------------------------------------------------------------------
(* The flag.                                                               *)

LEMMA KeptCalm ==
  ASSUME NEW h, NEW o \in Objs
  PROVE  Kept(h)[o].result \in {h[o].result, InPlay}
BY DEF Kept, Blank

\* Handlers of a flag that has fired stay where they are.
Still == \A t \in Tasks : task[t].op = "flag" => task'[t] = task[t]
\* No game is decided in memory.
Calm == \A o \in Objs : heap'[o].result \in {heap[o].result, InPlay}

LEMMA OtherMoves ==
  ASSUME Typed, NEW t \in Tasks, task[t].op # "flag",
         \A u \in Tasks \ {t} : task'[u] = task[u]
  PROVE  Still
BY DEF Still

\* A step decides no game, or moves no flag handler, or is handleFlag itself.
LEMMA Deciders ==
  ASSUME Typed, [Next]_vars
  PROVE  Calm \/ Still \/ \E t \in Tasks : HandleFlag(t)
<1>1. CASE UNCHANGED vars
  BY <1>1 DEF vars, Calm
<1>2. ASSUME NEW p \in Pods,
             Boot(p) \/ Crash(p) \/ Claim(p) \/ StandDown(p) \/ Invalidate(p) \/ AdoptGame(p)
      PROVE  Calm
  <2>1. CASE Boot(p) \/ Claim(p) \/ AdoptGame(p)
    BY <2>1 DEF Boot, Claim, AdoptGame, Calm
  <2>2. CASE Crash(p)
    BY <2>2 DEF Crash, Calm, Blank
  <2>3. CASE StandDown(p) \/ Invalidate(p)
    BY <2>3, KeptCalm DEF StandDown, Invalidate, Calm
  <2> QED
    BY <1>2, <2>1, <2>2, <2>3
<1>3. ASSUME NEW o \in Objs, Tick(o) \/ BotReturns(o) PROVE Calm
  <2>1. CASE Tick(o)
    BY <2>1 DEF Tick, Calm, Typed, Rec
  <2>2. CASE BotReturns(o)
    BY <2>2, KeptCalm DEF BotReturns, Calm
  <2> QED
    BY <1>3, <2>1, <2>2
<1>4. ASSUME NEW t \in Tasks, Begin(t) PROVE Calm
  BY <1>4 DEF Begin, LoadRow, Open, Calm
<1>5. ASSUME NEW t \in Tasks, Handle(t) PROVE Calm \/ Still \/ HandleFlag(t)
  <2>1. CASE LoadMoves(t)
    BY <2>1, OtherMoves DEF LoadMoves, Ends, Typed
  <2>2. CASE LoadFails(t)
    BY <2>2 DEF LoadFails, Calm
  <2>3. CASE \E m \in Moves : PlayMove(t, m)
    BY <2>3, OtherMoves DEF PlayMove, Typed
  <2>4. CASE \E s \in Seats : Resign(t, s) \/ OfferDraw(t, s) \/ AcceptDraw(t, s)
                                \/ DisconnectTimeout(t, s)
    BY <2>4, OtherMoves DEF Resign, OfferDraw, AcceptDraw, DisconnectTimeout, EndGame,
                            Leaves, Typed
  <2>5. CASE DeclineDraw(t)
    BY <2>5, OtherMoves DEF DeclineDraw, Leaves, Typed
  <2>6. CASE Refused(t)
    BY <2>6, OtherMoves DEF Refused, Ends, Typed
  <2>7. CASE HandleFlagReturns(t)
    BY <2>7, KeptCalm DEF HandleFlagReturns, Calm
  <2> QED
    BY <1>5, <2>1, <2>2, <2>3, <2>4, <2>5, <2>6, <2>7 DEF Handle
<1>6. ASSUME NEW t \in Tasks, Write(t) \/ StatementFails(t) PROVE Calm \/ Still
  <2>1. CASE AppendMove(t) \/ SaveDrawOffer(t) \/ UpdateOutcome(t)
    BY <2>1 DEF AppendMove, SaveDrawOffer, UpdateOutcome, Calm
  <2>2. CASE OutcomeFenced(t)
    BY <2>2, KeptCalm DEF OutcomeFenced, Calm
  <2>3. CASE AppendConflict(t) \/ StatementFails(t)
    <3>1. CASE task[t].op = "move" /\ Ends(t)
      BY <3>1, OtherMoves DEF Ends, Typed
    <3>2. CASE heap' = heap
      BY <3>2 DEF Calm
    <3> QED
      BY <2>3, <3>1, <3>2 DEF AppendConflict, StatementFails, Stumble
  <2>4. CASE MoveReturns(t)
    BY <2>4, OtherMoves DEF MoveReturns, Ends, Typed
  <2>5. CASE BotPlayed(t)
    BY <2>5, OtherMoves DEF BotPlayed, Ends, Typed
  <2> QED
    BY <1>6, <2>1, <2>2, <2>3, <2>4, <2>5 DEF Write
<1>7. ASSUME NEW t \in Tasks, Bot(t) PROVE Still
  BY <1>7, OtherMoves DEF Bot, PlayBotTurn, Typed, Idle
<1>8. ASSUME NEW t \in Tasks, NEW p \in Pods, Fire(t, p) PROVE Calm
  BY <1>8 DEF Fire, Calm
<1> QED
  BY <1>1, <1>2, <1>3, <1>4, <1>5, <1>6, <1>7, <1>8 DEF Next

\* handleFlag ends a game under the lock only for a spent clock: every timeout
\* of a record whose player has time left, and whose turn has not changed, comes
\* from someone else, and the flag handlers have not moved.
THEOREM TimeoutsAreDue == Spec => FlagOnTime
<1>1. ASSUME Typed, [Next]_vars, NEW o \in Objs,
             heap[o].clock = "running", heap'[o].result.kind = "timeout",
             ~Over(heap[o].result), heap'[o].hist = heap[o].hist
      PROVE  Still
  <2>1. ~Calm
    BY <1>1 DEF Calm, Over, InPlay
  <2>2. ~\E t \in Tasks : HandleFlag(t)
    <3> SUFFICES ASSUME NEW t \in Tasks, HandleFlag(t) PROVE FALSE
      OBVIOUS
    <3>1. task[t].obj \in Objs /\ task[t].obj # o
      BY <1>1, Holder DEF HandleFlag
    <3> DEFINE r == [heap[task[t].obj] EXCEPT
                       !.result = Lost(Turn(heap[task[t].obj].hist), "timeout"),
                       !.offer = heap[task[t].obj].offer]
    <3>2. heap' = Kept([heap EXCEPT ![task[t].obj] = r])
      BY DEF HandleFlag, EndGame, Leaves
    <3>3. [heap EXCEPT ![task[t].obj] = r][o] = heap[o]
      BY <1>1, <3>1 DEF Typed
    <3> HIDE DEF r
    <3>4. heap'[o].result \in {heap[o].result, InPlay}
      BY <3>2, <3>3, KeptCalm
    <3> QED
      BY <1>1, <3>4 DEF Over, InPlay
  <2> QED
    BY <1>1, <2>1, <2>2, Deciders
<1>2. Typed /\ [Next]_vars =>
        [\A o \in Objs :
           heap[o].clock = "running" /\ heap'[o].result.kind = "timeout"
             /\ ~Over(heap[o].result) /\ heap'[o].hist = heap[o].hist
             => \A t \in Tasks : task[t].op = "flag" => task'[t] = task[t]]_vars
  BY <1>1 DEF Still
<1> QED
  BY <1>2, AlwaysTyped, PTL DEF Spec, FlagOnTime

-----------------------------------------------------------------------------
(* Acknowledged moves.                                                     *)

Appending(k) == k.todo # <<>> /\ Head(k.todo).write = "append"

\* PlayMove's move k is the last one of the record it has locked: it is still
\* to be written as such, or stands in the table.
InHand(k, h, log) ==
  LET n == Len(h[k.obj].hist) - 1
      m == Last(h[k.obj].hist)
  IN  IF Appending(k) THEN Head(k.todo).n = n /\ Head(k.todo).move = m
                      ELSE n \in DOMAIN log /\ log[n] = m

MovesInHand == \A t \in Tasks : task[t].op = "move" => InHand(task[t], heap, moves)

\* The inductive invariant behind AckedMovesSurvive.
AckInv == Typed /\ MovesInHand /\ AckedMovesSurvive

\* The table only grows, and no row of it changes.
Grows == /\ DOMAIN moves \subseteq DOMAIN moves'
         /\ \A n \in DOMAIN moves : moves'[n] = moves[n]

\* Every move under way stays as it is, its record included.
Undisturbed(t) ==
  task'[t].op = "move" =>
    task'[t] = task[t] /\ heap'[task[t].obj].hist = heap[task[t].obj].hist

LEMMA Frame ==
  ASSUME MovesInHand, Grows, NEW t \in Tasks, task'[t].op = "move", Undisturbed(t)
  PROVE  InHand(task'[t], heap', moves')
<1> DEFINE k == task[t]
           n == Len(heap[k.obj].hist) - 1
<1>1. task'[t] = k /\ heap'[k.obj].hist = heap[k.obj].hist /\ InHand(k, heap, moves)
  BY DEF MovesInHand, Undisturbed
<1> HIDE DEF k
<1> QED
  BY <1>1 DEF InHand, Grows

LEMMA MoveHolds ==
  ASSUME Typed, NEW t \in Tasks, task[t].op = "move"
  PROVE  /\ task[t].obj \in Objs /\ ~Unlocked(task[t].obj) /\ ~Free(task[t].obj)
         /\ task[t].pod \in Pods
BY NilAssumption DEF Typed, Refs, RefsOf, JobOK, Unlocked, Free

LEMMA KeptHist ==
  ASSUME NEW h, NEW t \in Tasks, task'[t].obj \in Objs
  PROVE  Kept(h)[task'[t].obj] = h[task'[t].obj]
BY DEF Kept

\* Each step leaves the moves under way alone, but for the goroutine that makes
\* the step when it plays a move or writes for one.
LEMMA Bystanders ==
  ASSUME Typed, [Next]_vars, NEW u \in Tasks
  PROVE  \/ Undisturbed(u)
         \/ \E m \in Moves : PlayMove(u, m)
         \/ AppendMove(u) \/ SaveDrawOffer(u)
<1> DEFINE obj == task[u].obj
<1>1. CASE UNCHANGED vars
  BY <1>1 DEF vars, Undisturbed
<1>2. ASSUME NEW p \in Pods,
             Boot(p) \/ Crash(p) \/ Claim(p) \/ StandDown(p) \/ Invalidate(p) \/ AdoptGame(p)
      PROVE  Undisturbed(u)
  <2>1. CASE Boot(p) \/ Claim(p) \/ AdoptGame(p)
    BY <2>1 DEF Boot, Claim, AdoptGame, Undisturbed
  <2>2. CASE Crash(p)
    <3>1. task'[u] = task[u] \/ task'[u] = Idle
      BY <2>2 DEF Crash
    <3>2. SUFFICES ASSUME task[u].op = "move", task'[u] = task[u], task[u].pod # p
                   PROVE  heap'[obj] = heap[obj]
      BY <2>2, <3>1 DEF Undisturbed, Crash, Idle
    <3>3. obj \in Objs /\ heap[obj].pod # p
      BY <3>2, Holder
    <3> QED
      BY <2>2, <3>3 DEF Crash
  <2>3. CASE StandDown(p) \/ Invalidate(p)
    <3>1. task' = task /\ heap' = Kept(heap)
      BY <2>3 DEF StandDown, Invalidate
    <3> QED
      BY <3>1, MoveHolds, KeptHist DEF Undisturbed
  <2> QED
    BY <1>2, <2>1, <2>2, <2>3
<1>3. ASSUME NEW o \in Objs, Tick(o) \/ BotReturns(o) PROVE Undisturbed(u)
  <2>1. CASE Tick(o)
    <3>1. task' = task /\ \A b \in Objs : heap'[b].hist = heap[b].hist
      BY <2>1 DEF Tick, Typed, Rec
    <3> QED
      BY <3>1, MoveHolds DEF Undisturbed
  <2>2. CASE BotReturns(o)
    BY <2>2, MoveHolds, KeptHist DEF Undisturbed, BotReturns
  <2> QED
    BY <1>3, <2>1, <2>2
<1>4. ASSUME NEW t \in Tasks, Begin(t) PROVE Undisturbed(u)
  <2>1. heap' = heap /\ (u # t => task'[u] = task[u]) /\ task'[t].op # "move"
    BY <1>4 DEF Begin, LoadRow, Open, Typed, Idle
  <2> QED
    BY <2>1 DEF Undisturbed
<1>5. ASSUME NEW t \in Tasks, Handle(t)
      PROVE  Undisturbed(u) \/ \E m \in Moves : PlayMove(u, m)
  <2>1. CASE LoadMoves(t)
    <3>1. \A v \in Tasks : task'[v] = IF v = t THEN Idle ELSE task[v]
      BY <2>1 DEF LoadMoves, Ends, Typed
    <3>2. SUFFICES ASSUME task[u].op = "move" PROVE heap'[obj] = heap[obj]
      BY <3>1 DEF Undisturbed, Idle
    <3> QED
      BY <2>1, <3>2, MoveHolds DEF LoadMoves, Typed
  <2>2. CASE LoadFails(t)
    BY <2>2 DEF LoadFails, Ends, Typed, Undisturbed, Idle
  <2>3. ASSUME NEW m \in Moves, PlayMove(t, m), u # t PROVE Undisturbed(u)
    <3>1. task'[u] = task[u]
      BY <2>3 DEF PlayMove, Typed
    <3>2. SUFFICES ASSUME task[u].op = "move" PROVE heap'[obj] = heap[obj]
      BY <3>1 DEF Undisturbed
    <3> QED
      BY <2>3, <3>2, MoveHolds DEF PlayMove, Typed
  <2>4. ASSUME NEW op \in {"concede", "timer", "offer"}, NEW r, NEW todo,
               task[t].op \in {"ready", "flag"}, Leaves(t, op, r, todo)
        PROVE  Undisturbed(u)
    <3>1. CASE u = t
      BY <2>4, <3>1 DEF Leaves, Undisturbed, Typed, Job
    <3>2. CASE u # t
      <4>1. task'[u] = task[u]
        BY <2>4, <3>2 DEF Leaves, Typed
      <4>2. SUFFICES ASSUME task[u].op = "move" PROVE heap'[obj] = heap[obj]
        BY <4>1 DEF Undisturbed
      <4>3. obj \in Objs /\ obj # task[t].obj
        BY <2>4, <4>2, MoveHolds DEF Leaves
      <4>4. heap'[obj] = [heap EXCEPT ![task[t].obj] = r][obj]
        <5> DEFINE h == [heap EXCEPT ![task[t].obj] = r]
        <5>1. heap' = Kept(h) /\ task'[u].obj = obj
          BY <2>4, <4>1 DEF Leaves
        <5> HIDE DEF h
        <5>2. Kept(h)[task'[u].obj] = h[task'[u].obj]
          BY <4>3, <5>1, KeptHist
        <5> QED
          BY <5>1, <5>2, Zenon DEF h
      <4> QED
        BY <4>3, <4>4 DEF Typed
    <3> QED
      BY <3>1, <3>2
  <2>5. CASE \E s \in Seats : Resign(t, s) \/ OfferDraw(t, s) \/ AcceptDraw(t, s)
                                \/ DisconnectTimeout(t, s)
    BY <2>4, <2>5 DEF Resign, OfferDraw, AcceptDraw, DisconnectTimeout, EndGame
  <2>6. CASE DeclineDraw(t) \/ HandleFlag(t)
    BY <2>4, <2>6 DEF DeclineDraw, HandleFlag, EndGame
  <2>7. CASE Refused(t) \/ HandleFlagReturns(t)
    <3>1. heap' = Kept(heap) /\ \A v \in Tasks : task'[v] = IF v = t THEN Idle ELSE task[v]
      BY <2>7 DEF Refused, HandleFlagReturns, Ends, Typed
    <3> QED
      BY <3>1, MoveHolds, KeptHist DEF Undisturbed, Idle
  <2> QED
    BY <1>5, <2>1, <2>2, <2>3, <2>5, <2>6, <2>7 DEF Handle
<1>6. ASSUME NEW t \in Tasks, Write(t) \/ StatementFails(t)
      PROVE  Undisturbed(u) \/ AppendMove(u) \/ SaveDrawOffer(u)
  <2>1. CASE AppendMove(t) \/ SaveDrawOffer(t)
    <3>1. heap' = heap /\ (u # t => task'[u] = task[u])
      BY <2>1, Continuing DEF AppendMove, SaveDrawOffer, Writing
    <3> QED
      BY <2>1, <3>1 DEF Undisturbed
  <2>2. CASE UpdateOutcome(t) \/ OutcomeFenced(t)
    <3>1. /\ \A v \in Tasks \ {t} : task'[v] = task[v]
          /\ task'[t].op = "move" => task[t].op = "move"
      <4>1. CASE Ends(t)
        BY <4>1 DEF Ends, Typed, Idle
      <4>2. CASE Continue(t)
        BY <2>2, <4>2, Continuing DEF UpdateOutcome, OutcomeFenced, Writing
      <4> QED
        BY <2>2, <4>1, <4>2 DEF UpdateOutcome, OutcomeFenced
    <3>2. task[t].op # "move"
      BY <2>2 DEF UpdateOutcome, OutcomeFenced, Writing, Typed, Refs, RefsOf, JobOK
    <3>3. heap' = heap \/ heap' = Kept(heap)
      BY <2>2 DEF UpdateOutcome, OutcomeFenced
    <3> QED
      BY <3>1, <3>2, <3>3, MoveHolds, KeptHist DEF Undisturbed
  <2>3. CASE AppendConflict(t) \/ StatementFails(t)
    <3>1. CASE task[t].op = "move" /\ Ends(t) /\ heap' = Kept(Unlocks(t))
      <4>1. \A v \in Tasks : task'[v] = IF v = t THEN Idle ELSE task[v]
        BY <3>1 DEF Ends, Typed
      <4>2. \A o \in Objs : Unlocks(t)[o].hist = heap[o].hist
        BY <3>1, Unlocking
      <4> QED
        BY <3>1, <4>1, <4>2, MoveHolds, KeptHist DEF Undisturbed, Idle
    <3>2. CASE task[t].op # "move" /\ Continue(t) /\ heap' = heap
      <4>1. task[t].todo # <<>>
        BY <2>3 DEF AppendConflict, StatementFails, Writing
      <4> QED
        BY <3>2, <4>1, Continuing DEF Undisturbed
    <3> QED
      BY <2>3, <3>1, <3>2 DEF AppendConflict, StatementFails, Stumble
  <2>4. CASE MoveReturns(t)
    <3>1. \A v \in Tasks : task'[v] = IF v = t THEN Idle ELSE task[v]
      BY <2>4 DEF MoveReturns, Ends, Typed
    <3>2. heap' = Kept(Unlocks(t)) /\ \A o \in Objs : Unlocks(t)[o].hist = heap[o].hist
      BY <2>4, Unlocking DEF MoveReturns
    <3> QED
      BY <3>1, <3>2, MoveHolds, KeptHist DEF Undisturbed, Idle
  <2>5. CASE BotPlayed(t)
    <3>1. heap' = Kept(heap) /\ \A v \in Tasks : task'[v] = IF v = t THEN Idle ELSE task[v]
      BY <2>5 DEF BotPlayed, Ends, Typed
    <3> QED
      BY <3>1, MoveHolds, KeptHist DEF Undisturbed, Idle
  <2> QED
    BY <1>6, <2>1, <2>2, <2>3, <2>4, <2>5 DEF Write
<1>7. ASSUME NEW t \in Tasks, Bot(t) PROVE Undisturbed(u)
  <2>1. PICK o \in Objs, m \in Moves : PlayBotTurn(t, o, m)
    BY <1>7 DEF Bot
  <2>2. CASE u = t
    BY <2>1, <2>2 DEF PlayBotTurn, Undisturbed, Typed, Idle
  <2>3. CASE u # t
    <3>1. task'[u] = task[u]
      BY <2>1, <2>3 DEF PlayBotTurn, Typed
    <3>2. SUFFICES ASSUME task[u].op = "move" PROVE heap'[obj] = heap[obj]
      BY <3>1 DEF Undisturbed
    <3> QED
      BY <2>1, <3>2, MoveHolds DEF PlayBotTurn, Typed
  <2> QED
    BY <2>2, <2>3
<1>8. ASSUME NEW t \in Tasks, NEW p \in Pods, Fire(t, p) PROVE Undisturbed(u)
  BY <1>8 DEF Fire, Undisturbed, Typed, Idle
<1> QED
  BY <1>1, <1>2, <1>3, <1>4, <1>5, <1>6, <1>7, <1>8 DEF Next

\* The key of the moves table: a row, once written, is never written again.
LEMMA JournalGrows ==
  ASSUME Typed, [Next]_vars
  PROVE  Grows
<1>1. CASE moves' = moves
  BY <1>1 DEF Grows
<1>2. CASE \E t \in Tasks : AppendMove(t)
  BY <1>2 DEF AppendMove, Grows
<1>3. ASSUME NEW p \in Pods,
             Boot(p) \/ Crash(p) \/ Claim(p) \/ StandDown(p) \/ Invalidate(p) \/ AdoptGame(p)
      PROVE  moves' = moves
  BY <1>3 DEF Boot, Crash, Claim, StandDown, Invalidate, AdoptGame, dbVars
<1>4. ASSUME NEW o \in Objs, Tick(o) \/ BotReturns(o) PROVE moves' = moves
  BY <1>4 DEF Tick, BotReturns, dbVars
<1>5. ASSUME NEW t \in Tasks, Begin(t) \/ Handle(t) PROVE moves' = moves
  BY <1>5 DEF Begin, LoadRow, Open, Handle, LoadMoves, LoadFails, PlayMove, Resign, OfferDraw,
     AcceptDraw, DisconnectTimeout, DeclineDraw, Refused, HandleFlag, HandleFlagReturns,
     EndGame, dbVars
<1>6. ASSUME NEW t \in Tasks, Write(t) \/ StatementFails(t), ~AppendMove(t)
      PROVE  moves' = moves
  BY <1>6 DEF Write, AppendConflict, StatementFails, SaveDrawOffer, UpdateOutcome,
     OutcomeFenced, MoveReturns, BotPlayed, dbVars
<1>7. ASSUME NEW t \in Tasks, Bot(t) \/ \E p \in Pods : Fire(t, p) PROVE moves' = moves
  BY <1>7 DEF Bot, PlayBotTurn, Fire, dbVars
<1> QED
  BY <1>1, <1>2, <1>3, <1>4, <1>5, <1>6, <1>7 DEF Next, vars

\* Success is answered at the end of PlayMove and nowhere else.
LEMMA Answered ==
  ASSUME Typed, [Next]_vars
  PROVE  acked' = acked \/ \E t \in Tasks : MoveReturns(t)
<1>1. ASSUME NEW p \in Pods,
             Boot(p) \/ Crash(p) \/ Claim(p) \/ StandDown(p) \/ Invalidate(p) \/ AdoptGame(p)
      PROVE  acked' = acked
  BY <1>1 DEF Boot, Crash, Claim, StandDown, Invalidate, AdoptGame
<1>2. ASSUME NEW o \in Objs, Tick(o) \/ BotReturns(o) PROVE acked' = acked
  BY <1>2 DEF Tick, BotReturns
<1>3. ASSUME NEW t \in Tasks, Begin(t) \/ Handle(t) PROVE acked' = acked
  BY <1>3 DEF Begin, LoadRow, Open, Handle, LoadMoves, LoadFails, PlayMove, Resign, OfferDraw,
     AcceptDraw, DisconnectTimeout, DeclineDraw, Refused, HandleFlag, HandleFlagReturns, EndGame
<1>4. ASSUME NEW t \in Tasks, Write(t) \/ StatementFails(t), ~MoveReturns(t)
      PROVE  acked' = acked
  BY <1>4 DEF Write, AppendMove, AppendConflict, StatementFails, SaveDrawOffer, UpdateOutcome,
     OutcomeFenced, BotPlayed
<1>5. ASSUME NEW t \in Tasks, Bot(t) \/ \E p \in Pods : Fire(t, p) PROVE acked' = acked
  BY <1>5 DEF Bot, PlayBotTurn, Fire
<1> QED
  BY <1>1, <1>2, <1>3, <1>4, <1>5 DEF Next, vars

LEMMA PlayedInHand ==
  ASSUME Typed, NEW t \in Tasks, NEW m \in Moves, PlayMove(t, m)
  PROVE  InHand(task'[t], heap', moves')
<1> DEFINE o == task[t].obj
           r == heap[o]
           todo == Journal(r, m) \o Rescind(r)
           w == Insert(Len(r.hist), m, Played(r, m).result, r.clock = "edge")
<1>1. o \in Objs /\ task[t] \in Job /\ r \in Rec
  BY Holder DEF PlayMove
<1>2. task'[t].obj = o /\ task'[t].todo = todo /\ heap'[o].hist = Append(r.hist, m)
  <2>1. heap'[o] = [Played(r, m) EXCEPT !.lock = t]
    BY <1>1 DEF PlayMove, Typed
  <2>2. Played(r, m) \in Rec /\ Played(r, m).hist = Append(r.hist, m)
    BY <1>1, PlayedType
  <2>3. [Played(r, m) EXCEPT !.lock = t].hist = Append(r.hist, m)
    BY <2>2 DEF Rec
  <2>4. task'[t] = [task[t] EXCEPT !.op = "move", !.todo = todo]
    BY <1>1 DEF PlayMove, Typed
  <2> HIDE DEF todo
  <2>5. task'[t].obj = o /\ task'[t].todo = todo
    BY <1>1, <2>4 DEF Job
  <2> QED
    BY <2>1, <2>3, <2>5
<1>3. r.hist \in Seq(Moves) /\ Len(r.hist) \in Nat
  BY <1>1, LenProperties DEF Rec
<1>4. Len(Append(r.hist, m)) - 1 = Len(r.hist) /\ Last(Append(r.hist, m)) = m
  <2>1. Len(Append(r.hist, m)) = Len(r.hist) + 1
    BY <1>3, Appended
  <2>2. Append(r.hist, m)[Len(r.hist) + 1] = m
    BY <1>3, Appended
  <2> QED
    BY <1>3, <2>1, <2>2 DEF Last
<1>5. todo # <<>> /\ Head(todo) = w
  <2>1. w \in Writes /\ (todo = <<w>> \/ todo = <<w, Offer(NoSeat)>>)
    BY <1>1, JournalType DEF PlayMove
  <2>2. Offer(NoSeat) \in Offers
    BY DEF Offers
  <2> HIDE DEF w, todo
  <2> QED
    BY <2>1, <2>2, TodoType
<1>6. w.n = Len(r.hist) /\ w.move = m /\ w.write = "append"
  BY DEF Insert
<1> HIDE DEF w, todo, r, o
<1> QED
  BY <1>2, <1>4, <1>5, <1>6 DEF InHand, Appending

LEMMA WrittenInHand ==
  ASSUME Typed, MovesInHand, NEW t \in Tasks, AppendMove(t) \/ SaveDrawOffer(t),
         task'[t].op = "move"
  PROVE  InHand(task'[t], heap', moves')
<1> DEFINE k == task[t]
           n == Len(heap[k.obj].hist) - 1
           m == Last(heap[k.obj].hist)
<1>1. k.todo # <<>> /\ Continue(t) /\ heap' = heap
  BY DEF AppendMove, SaveDrawOffer, Writing
<1>2. /\ k.op = "move" /\ task'[t].obj = k.obj
      /\ task'[t].todo # <<>> => Head(task'[t].todo) \in Offers
  BY <1>1, Continuing DEF Idle, Typed, Job
<1>3. ~Appending(task'[t])
  BY <1>2 DEF Appending, Offers, Offer
<1>4. n \in DOMAIN moves' /\ moves'[n] = m
  <2>1. InHand(k, heap, moves)
    BY <1>2 DEF MovesInHand
  <2>2. CASE AppendMove(t)
    BY <2>1, <2>2 DEF AppendMove, Writing, InHand, Appending
  <2>3. CASE SaveDrawOffer(t)
    BY <2>1, <2>3 DEF SaveDrawOffer, Writing, InHand, Appending
  <2> QED
    BY <2>2, <2>3
<1> QED
  BY <1>1, <1>2, <1>3, <1>4 DEF InHand

LEMMA AckStep == AckInv /\ [Next]_vars => AckInv'
<1> SUFFICES ASSUME AckInv, [Next]_vars PROVE AckInv'
  OBVIOUS
<1>1. Typed /\ Typed' /\ Grows
  BY NextTyped, JournalGrows DEF AckInv
<1>2. MovesInHand'
  <2> SUFFICES ASSUME NEW t \in Tasks, task'[t].op = "move"
               PROVE  InHand(task'[t], heap', moves')
    BY DEF MovesInHand
  <2>1. CASE Undisturbed(t)
    BY <1>1, <2>1, Frame DEF AckInv
  <2>2. CASE \E m \in Moves : PlayMove(t, m)
    BY <1>1, <2>2, PlayedInHand
  <2>3. CASE AppendMove(t) \/ SaveDrawOffer(t)
    BY <1>1, <2>3, WrittenInHand DEF AckInv
  <2> QED
    BY <1>1, <2>1, <2>2, <2>3, Bystanders
<1>3. AckedMovesSurvive'
  <2> SUFFICES ASSUME NEW a \in acked' PROVE a[1] \in DOMAIN moves' /\ moves'[a[1]] = a[2]
    BY DEF AckedMovesSurvive
  <2>1. CASE a \in acked
    BY <1>1, <2>1 DEF AckInv, AckedMovesSurvive, Grows
  <2>2. CASE a \notin acked
    <3>1. PICK t \in Tasks : MoveReturns(t)
      BY <1>1, <2>2, Answered
    <3> DEFINE h == heap[task[t].obj].hist
    <3>2. a = <<Len(h) - 1, Last(h)>>
      BY <2>2, <3>1 DEF MoveReturns
    <3>3. Len(h) - 1 \in DOMAIN moves /\ moves[Len(h) - 1] = Last(h)
      BY <3>1 DEF MoveReturns, AckInv, MovesInHand, InHand, Appending
    <3> HIDE DEF h
    <3> QED
      BY <1>1, <3>2, <3>3 DEF Grows
  <2> QED
    BY <2>1, <2>2
<1> QED
  BY <1>1, <1>2, <1>3 DEF AckInv

\* A move PlayMove has answered for with success stays in the journal, at its
\* ordinal and as played, in every deployment: with any number of pods serving
\* the game at a time, through crashes, takeovers and failed statements.
THEOREM AckedMovesAreKept == Spec => []AckedMovesSurvive
<1>1. Init => AckInv
  <2>1. Init => MovesInHand /\ AckedMovesSurvive
    BY DEF Init, MovesInHand, AckedMovesSurvive, Idle
  <2> QED
    BY <2>1, InitTyped DEF AckInv
<1>2. AckInv => AckedMovesSurvive
  BY DEF AckInv
<1> QED
  BY <1>1, <1>2, AckStep, PTL DEF Spec

-----------------------------------------------------------------------------
(***************************************************************************)
(* The deployment without leases and bots: one process at a time, which    *)
(* owns the game, and players who all write their moves under the lock.    *)
(* There the record in the cache is the only one, every write still to be  *)
(* made carries its result, and the moves table holds its moves.           *)
(***************************************************************************)
\* ownsGame with leases == nil, and no seat with IsBot.
Alone == ~Overlap /\ Bots = {}

\* The process that runs is the only one and owns the game; its cache is never
\* invalidated, so every goroutine uses the record in it.
OneProcess ==
  /\ bots = {} /\ believes = Up
  /\ \A p, q \in Up : p = q
  /\ \A p \in Up : lessee = p
  /\ \A p \in Pods : cache[p] # Nil => p \in Up

Deciding(k) == k.todo # <<>> /\ Head(k.todo).write = "outcome"

\* A write carries the result of the record in the cache, and a load whose
\* cache is still empty the row as it stands.
Working(t) ==
  LET k == task[t]
      c == cache[k.pod]
  IN  /\ k.op # "idle" => k.pod \in Up /\ k.op # "bot"
      /\ k.obj # Nil => c = k.obj
      /\ k.op \in {"move", "concede", "timer", "offer"} => c # Nil
      /\ k.op = "loading" /\ c = Nil => k.row = row
      /\ Appending(k) => Head(k.todo).result = heap[c].result
      /\ Deciding(k) => /\ Head(k.todo).result = heap[c].result
                        /\ Over(heap[c].result)

\* The row never finishes a game the cached record does not know finished.
RowFollows ==
  \A p \in Pods : cache[p] # Nil /\ Over(row.result) => heap[cache[p]].result = row.result

Single == OneProcess /\ (\A t \in Tasks : Working(t)) /\ RowFollows

\* The inductive invariant behind FinishedIsFinal.
SoloInv == AckInv /\ Single
-----------------------------------------------------------------------------
LEMMA SoloInit == Init => SoloInv
<1> SUFFICES ASSUME Init PROVE SoloInv
  OBVIOUS
<1>1. AckInv
  BY InitTyped DEF Init, MovesInHand, AckedMovesSurvive, Idle, AckInv
<1>2. Up = {}
  BY DEF Init, Up
<1>3. OneProcess
  BY <1>2 DEF Init, OneProcess
<1>4. \A t \in Tasks : Working(t)
  BY DEF Init, Working, Idle, Appending, Deciding
<1>5. RowFollows
  BY DEF Init, RowFollows
<1> QED
  BY <1>1, <1>3, <1>4, <1>5 DEF SoloInv, Single

\* A busy goroutine, its pod and the one record there is.
LEMMA Worker ==
  ASSUME SoloInv, NEW t \in Tasks
  PROVE  /\ task[t] \in Job /\ JobOK(t, task[t], heap) /\ Working(t)
         /\ task[t].op # "idle" => task[t].pod \in Pods /\ task[t].pod \in Up
         /\ \A p \in Pods : cache[p] # Nil => cache[p] \in Objs /\ heap[cache[p]] \in Rec
         /\ \A p \in Pods : cache[p] # Nil /\ task[t].op # "idle" => p = task[t].pod
         /\ task[t].todo # <<>> =>
              task[t].op \notin {"idle", "loading", "ready", "flag", "bot"}
         /\ task[t].todo # <<>> => cache[task[t].pod] # Nil
<1>1. Typed /\ OneProcess /\ Working(t)
  BY DEF SoloInv, AckInv, Single
<1>2. task[t] \in Job /\ JobOK(t, task[t], heap)
  BY <1>1 DEF Typed, Refs, RefsOf
<1>3. task[t].op # "idle" => task[t].pod \in Pods /\ task[t].pod \in Up
  BY <1>1, <1>2 DEF JobOK, Working
<1>4. \A p \in Pods : cache[p] # Nil => cache[p] \in Objs /\ heap[cache[p]] \in Rec /\ p \in Up
  BY <1>1 DEF Typed, Plain, OneProcess
<1>5. \A p \in Pods : cache[p] # Nil /\ task[t].op # "idle" => p = task[t].pod
  BY <1>1, <1>3, <1>4 DEF OneProcess
<1>6. task[t].todo # <<>> => task[t].op \notin {"idle", "loading", "ready", "flag", "bot"}
  BY <1>1, <1>2, <1>3 DEF JobOK, Working
<1>7. task[t].todo # <<>> => cache[task[t].pod] # Nil
  BY <1>1, <1>2, <1>6 DEF Working, Job, Ops
<1> QED
  BY <1>1, <1>2, <1>3, <1>4, <1>5, <1>6, <1>7

LEMMA IdleWorks ==
  ASSUME NEW t \in Tasks, task'[t] = Idle
  PROVE  Working(t)'
BY DEF Working, Idle, Appending, Deciding

\* A step that decides nothing: the cached records keep their results, the row
\* stays, and only goroutines whose new job is in order move on.
LEMMA SoloFrame ==
  ASSUME SoloInv, UNCHANGED <<row, cache, bots, life, lessee, believes>>,
         \A p \in Pods : cache[p] # Nil => heap'[cache[p]].result = heap[cache[p]].result,
         \A t \in Tasks : task'[t] = task[t] \/ Working(t)'
  PROVE  Single'
<1>1. OneProcess'
  BY DEF SoloInv, Single, OneProcess, Up
<1>2. RowFollows'
  BY DEF SoloInv, Single, RowFollows
<1>3. ASSUME NEW t \in Tasks, task'[t] = task[t] PROVE Working(t)'
  <2>1. Working(t) /\ Up' = Up
    BY DEF SoloInv, Single, Up
  <2>2. Appending(task[t]) \/ Deciding(task[t]) =>
          heap'[cache[task[t].pod]].result = heap[cache[task[t].pod]].result
    BY Worker DEF Appending, Deciding
  <2> QED
    BY <1>3, <2>1, <2>2 DEF Working
<1> QED
  BY <1>1, <1>2, <1>3 DEF Single

LEMMA SoloBoot ==
  ASSUME Alone, SoloInv, NEW p \in Pods, Boot(p) PROVE Single'
<1>1. Up = {} /\ lessee' = p /\ believes' = {p} /\ life' = [life EXCEPT ![p] = "up"]
  BY DEF Alone, Boot
<1>2. Up' = {p}
  <2>1. life \in [Pods -> {"new", "up", "dead"}]
    BY DEF SoloInv, AckInv, Typed, Plain
  <2> QED
    BY <1>1, <2>1 DEF Up
<1>3. UNCHANGED <<row, heap, cache, task, bots>>
  BY DEF Boot, dbVars
<1>4. OneProcess'
  BY <1>1, <1>2, <1>3 DEF SoloInv, Single, OneProcess
<1>5. RowFollows'
  BY <1>3 DEF SoloInv, Single, RowFollows
<1>6. ASSUME NEW t \in Tasks PROVE Working(t)'
  <2>1. task[t].op = "idle" /\ task[t].todo = <<>>
    BY <1>1, Worker
  <2>2. Working(t)
    BY DEF SoloInv, Single
  <2> QED
    BY <1>3, <2>1, <2>2 DEF Working, Appending, Deciding
<1> QED
  BY <1>4, <1>5, <1>6 DEF Single

LEMMA SoloCrash ==
  ASSUME SoloInv, NEW p \in Pods, Crash(p) PROVE Single'
<1>1. Typed /\ OneProcess /\ life \in [Pods -> {"new", "up", "dead"}]
  BY DEF SoloInv, AckInv, Single, Typed, Plain
<1>2. Up' = {} /\ Up = {p}
  BY <1>1 DEF Crash, Up, OneProcess
<1>3. \A q \in Pods : cache'[q] = Nil
  BY <1>1, <1>2 DEF Crash, OneProcess, Typed, Plain
<1>4. OneProcess'
  BY <1>1, <1>2, <1>3 DEF Crash, OneProcess
<1>5. RowFollows'
  BY <1>3 DEF RowFollows
<1>6. ASSUME NEW t \in Tasks PROVE Working(t)'
  <2>1. task[t].pod = p \/ task[t] = Idle
    BY <1>2, Worker DEF JobOK
  <2>2. task'[t] = Idle
    BY <2>1 DEF Crash
  <2> QED
    BY <2>2, IdleWorks
<1> QED
  BY <1>4, <1>5, <1>6 DEF Single

LEMMA NoBots ==
  ASSUME Alone, SoloInv, NEW p, NEW o, NEW r
  PROVE  Scheduled(p, o, r) = {}
BY DEF Alone, SoloInv, Single, OneProcess, Scheduled

\* The collector never takes the record in the cache.
LEMMA KeptCached ==
  ASSUME SoloInv, cache' = cache, NEW h, NEW p \in Pods, cache[p] # Nil
  PROVE  Kept(h)[cache[p]] = h[cache[p]]
BY Worker DEF Kept, SoloInv, AckInv, Typed, Plain

LEMMA SoloAdopt ==
  ASSUME Alone, SoloInv, NEW p \in Pods, AdoptGame(p) PROVE Single'
BY SoloFrame, NoBots DEF AdoptGame, dbVars, leaseVars, SoloInv, Single, OneProcess

LEMMA SoloTick ==
  ASSUME SoloInv, NEW o \in Objs, Tick(o) PROVE Single'
<1>1. \A b \in Objs : heap'[b].result = heap[b].result
  BY DEF Tick, SoloInv, AckInv, Typed, Rec
<1>2. \A p \in Pods : cache[p] # Nil => heap'[cache[p]].result = heap[cache[p]].result
  BY <1>1 DEF SoloInv, AckInv, Typed, Plain
<1> QED
  BY <1>2, SoloFrame DEF Tick, dbVars, leaseVars

LEMMA SoloLoadRow ==
  ASSUME SoloInv, NEW t \in Tasks, NEW p \in Pods, LoadRow(t, p) PROVE Single'
<1>1. task' = [task EXCEPT ![t] = [Idle EXCEPT !.op = "loading", !.pod = p, !.row = row]]
  BY DEF LoadRow
<1>2. task'[t] = [Idle EXCEPT !.op = "loading", !.pod = p, !.row = row]
  BY <1>1 DEF SoloInv, AckInv, Typed
<1>3. Working(t)'
  BY <1>2 DEF Working, Idle, Appending, Deciding, LoadRow, dbVars, leaseVars, Up
<1>4. \A u \in Tasks : task'[u] = task[u] \/ Working(u)'
  BY <1>1, <1>3 DEF SoloInv, AckInv, Typed
<1> QED
  BY <1>4, SoloFrame DEF LoadRow, dbVars, leaseVars

LEMMA SoloOpen ==
  ASSUME SoloInv, NEW t \in Tasks, NEW p \in Pods, Open(t, p) PROVE Single'
<1>1. task' = [task EXCEPT ![t] = [Idle EXCEPT !.op = "ready", !.pod = p, !.obj = cache[p]]]
  BY DEF Open
<1>2. task'[t] = [Idle EXCEPT !.op = "ready", !.pod = p, !.obj = cache[p]]
  BY <1>1 DEF SoloInv, AckInv, Typed
<1>3. Working(t)'
  BY <1>2 DEF Working, Idle, Appending, Deciding, Open, dbVars, leaseVars, Up
<1>4. \A u \in Tasks : task'[u] = task[u] \/ Working(u)'
  BY <1>1, <1>3 DEF SoloInv, AckInv, Typed
<1> QED
  BY <1>4, SoloFrame DEF Open, dbVars, leaseVars

LEMMA SoloFire ==
  ASSUME SoloInv, NEW t \in Tasks, NEW p \in Pods, Fire(t, p) PROVE Single'
<1> DEFINE k == [Idle EXCEPT !.op = "flag", !.pod = p, !.obj = cache[p]]
<1>1. UNCHANGED <<row, cache, bots, life, lessee, believes, heap>>
  BY DEF Fire, dbVars, leaseVars
<1>2. CASE task' = task
  BY <1>1, <1>2, SoloFrame
<1>3. CASE cache[p] # Nil /\ task' = [task EXCEPT ![t] = k]
  <2>1. task'[t] = k /\ \A u \in Tasks \ {t} : task'[u] = task[u]
    BY <1>3 DEF SoloInv, AckInv, Typed
  <2>2. p \in Up
    BY <1>3 DEF SoloInv, Single, OneProcess
  <2>3. Working(t)'
    BY <1>1, <2>1, <2>2 DEF Working, Idle, Appending, Deciding, Up
  <2> QED
    BY <1>1, <2>1, <2>3, SoloFrame
<1> QED
  BY <1>2, <1>3 DEF Fire

\* A goroutine that ends without having decided anything.
LEMMA SoloEnds ==
  ASSUME SoloInv, NEW t \in Tasks, Ends(t),
         UNCHANGED <<row, cache, bots, life, lessee, believes>>,
         \A p \in Pods : cache[p] # Nil => heap'[cache[p]].result = heap[cache[p]].result
  PROVE  Single'
<1>1. \A u \in Tasks : task'[u] = task[u] \/ task'[u] = Idle
  BY DEF Ends, SoloInv, AckInv, Typed
<1>2. \A u \in Tasks : task'[u] = task[u] \/ Working(u)'
  BY <1>1, IdleWorks
<1> QED
  BY <1>2, SoloFrame

LEMMA SoloRefused ==
  ASSUME SoloInv, NEW t \in Tasks, Refused(t) \/ HandleFlagReturns(t) \/ LoadFails(t)
  PROVE  Single'
<1>1. /\ Ends(t) /\ UNCHANGED <<row, cache, bots, life, lessee, believes>>
      /\ heap' = heap \/ heap' = Kept(heap)
  BY DEF Refused, HandleFlagReturns, LoadFails, dbVars, leaseVars
<1>2. \A p \in Pods : cache[p] # Nil => heap'[cache[p]].result = heap[cache[p]].result
  BY <1>1, KeptCached
<1> QED
  BY <1>1, <1>2, SoloEnds

LEMMA SoloMoveReturns ==
  ASSUME Alone, SoloInv, NEW t \in Tasks, MoveReturns(t) PROVE Single'
<1>1. /\ Ends(t) /\ UNCHANGED <<row, cache, life, lessee, believes>>
      /\ bots' = {} /\ heap' = Kept(Unlocks(t)) /\ task[t].op = "move"
  BY NoBots DEF MoveReturns, dbVars, leaseVars
<1>2. \A o \in Objs : Unlocks(t)[o].result = heap[o].result
  BY <1>1, Unlocking DEF SoloInv, AckInv
<1>3. \A p \in Pods : cache[p] # Nil => heap'[cache[p]].result = heap[cache[p]].result
  BY <1>1, <1>2, KeptCached, Worker
<1>4. bots' = bots
  BY <1>1 DEF SoloInv, Single, OneProcess
<1> QED
  BY <1>1, <1>3, <1>4, SoloEnds

-----------------------------------------------------------------------------
\* A command at work on the record in the cache.
LEMMA AtWork ==
  ASSUME SoloInv, NEW t \in Tasks, task[t].op \in {"ready", "flag", "move"}
  PROVE  /\ task[t].pod \in Pods /\ task[t].pod \in Up
         /\ task[t].obj \in Objs /\ cache[task[t].pod] = task[t].obj
         /\ cache[task[t].pod] # Nil /\ heap[task[t].obj] \in Rec
         /\ \A p \in Pods : cache[p] # Nil => p = task[t].pod
BY Worker, NilAssumption DEF JobOK, Working

\* Under the lock of a live record no other write of a result is outstanding,
\* and the row says the game is still on: the command may decide it.
LEMMA SoloDecides ==
  ASSUME SoloInv, NEW t \in Tasks, task[t].op \in {"ready", "flag"},
         Unlocked(task[t].obj), ~Over(heap[task[t].obj].result),
         UNCHANGED <<row, cache, bots, life, lessee, believes>>,
         \A u \in Tasks \ {t} : task'[u] = task[u],
         Working(t)'
  PROVE  Single'
<1> DEFINE o == task[t].obj
           p == task[t].pod
<1>1. p \in Up /\ cache[p] = o /\ o \in Objs /\ \A q \in Pods : cache[q] # Nil => q = p
  BY AtWork
<1>2. p \in Pods
  BY AtWork
<1>3. OneProcess'
  BY DEF SoloInv, Single, OneProcess, Up
<1>4. ~Over(row.result)
  BY <1>1, <1>2, NilAssumption DEF SoloInv, Single, RowFollows
<1>5. RowFollows'
  BY <1>4 DEF RowFollows
<1>6. ASSUME NEW u \in Tasks \ {t} PROVE Working(u)'
  <2>1. Working(u) /\ JobOK(u, task[u], heap) /\ Up' = Up
    BY Worker DEF Up
  <2>2. task[u].todo # <<>> => cache[task[u].pod] = o
    BY <1>1, Worker
  <2>3. ~Deciding(task[u])
    BY <2>1, <2>2 DEF Working, Deciding
  <2>4. ~Appending(task[u])
    <3>1. Appending(task[u]) => task[u].op = "move" /\ task[u].obj = o
      BY <2>1, <2>2, NilAssumption, Worker DEF Appending, JobOK, Working
    <3> QED
      BY <2>1, <3>1, NilAssumption DEF JobOK, Unlocked
  <2> QED
    BY <2>1, <2>3, <2>4 DEF Working
<1> QED
  BY <1>3, <1>5, <1>6 DEF Single

LEMMA SoloLeaves ==
  ASSUME SoloInv, NEW t \in Tasks, task[t].op \in {"ready", "flag"},
         NEW op \in {"concede", "timer", "offer"}, NEW r, NEW todo,
         Leaves(t, op, r, todo)
  PROVE  LET k == task'[t]
         IN  /\ k.op = op /\ k.obj = Nil /\ k.todo = todo /\ k.pod = task[t].pod
             /\ \A u \in Tasks \ {t} : task'[u] = task[u]
             /\ heap'[cache[task[t].pod]] = r
             /\ UNCHANGED <<cache, bots>> /\ Unlocked(task[t].obj)
<1>1. /\ task[t].pod \in Pods /\ task[t].obj \in Objs /\ cache[task[t].pod] = task[t].obj
      /\ cache[task[t].pod] # Nil
  BY AtWork
<1> DEFINE h == [heap EXCEPT ![task[t].obj] = r]
<1>2. heap' = Kept(h) /\ UNCHANGED <<cache, bots>> /\ Unlocked(task[t].obj)
  BY DEF Leaves
<1>3. h[task[t].obj] = r
  BY <1>1 DEF SoloInv, AckInv, Typed
<1> HIDE DEF h
<1>4. heap'[cache[task[t].pod]] = r
  BY <1>1, <1>2, <1>3, KeptCached
<1>5. task' = [task EXCEPT ![t].op = op, ![t].obj = Nil, ![t].todo = todo]
  BY DEF Leaves
<1> QED
  BY <1>2, <1>4, <1>5 DEF SoloInv, AckInv, Typed, Job

LEMMA SoloOffer ==
  ASSUME SoloInv, NEW t \in Tasks,
         DeclineDraw(t) \/ \E s \in Seats : OfferDraw(t, s)
  PROVE  Single'
<1> DEFINE o == task[t].obj
<1>1. PICK s \in Seats \cup {NoSeat} :
        /\ Leaves(t, "offer", [heap[o] EXCEPT !.offer = s], <<Offer(s)>>)
        /\ UNCHANGED <<dbVars, timer, leaseVars, acked, faults>>
        /\ task[t].op = "ready" /\ ~Over(heap[o].result)
  BY DEF OfferDraw, DeclineDraw
<1>2. /\ task'[t].op = "offer" /\ task'[t].obj = Nil /\ task'[t].todo = <<Offer(s)>>
      /\ task'[t].pod = task[t].pod
      /\ \A u \in Tasks \ {t} : task'[u] = task[u]
      /\ UNCHANGED <<cache, bots>> /\ Unlocked(o)
  BY <1>1, SoloLeaves
<1>3. task[t].pod \in Up /\ cache[task[t].pod] # Nil
  BY <1>1, AtWork
<1>4. Head(<<Offer(s)>>) = Offer(s) /\ Offer(s).write = "offer"
  BY DEF Offer
<1>5. ~Appending(task'[t]) /\ ~Deciding(task'[t])
  BY <1>2, <1>4 DEF Appending, Deciding
<1>6. Working(t)'
  BY <1>1, <1>2, <1>3, <1>5 DEF Working, leaseVars, Up
<1> QED
  BY <1>1, <1>2, <1>6, SoloDecides DEF dbVars, leaseVars

LEMMA SoloEndGame ==
  ASSUME SoloInv, NEW t \in Tasks, task[t].op \in {"ready", "flag"},
         NEW op \in {"concede", "timer"}, NEW res \in Result, Over(res), NEW offer,
         NEW todo,
         \/ todo = <<>> \/ todo = <<Offer(NoSeat)>>
         \/ todo = Rescind(heap[task[t].obj]),
         EndGame(t, op, res, offer, todo)
  PROVE  Single'
<1> DEFINE o == task[t].obj
           r == [heap[o] EXCEPT !.result = res, !.offer = offer]
           w == Outcome(res)
           all == <<w>> \o todo
<1>1. /\ heap[o] \in Rec /\ task[t].pod \in Up /\ cache[task[t].pod] # Nil
  BY AtWork
<1>2. r.result = res
  BY <1>1 DEF Rec
<1>3. all # <<>> /\ Head(all) = w
  <2>1. w \in Writes /\ (all = <<w>> \/ all = <<w, Offer(NoSeat)>>) /\ Offer(NoSeat) \in Offers
    BY <1>1, RescindType
  <2> HIDE DEF all, w
  <2> QED
    BY <2>1, TodoType
<1>4. w.write = "outcome" /\ w.result = res
  BY DEF Outcome
<1>5. Leaves(t, op, r, all) /\ ~Over(heap[o].result)
  BY DEF EndGame
<1> HIDE DEF all, r, w
<1>6. /\ task'[t].op = op /\ task'[t].obj = Nil /\ task'[t].todo = all
      /\ task'[t].pod = task[t].pod
      /\ \A u \in Tasks \ {t} : task'[u] = task[u]
      /\ heap'[cache[task[t].pod]] = r
      /\ UNCHANGED <<cache, bots>> /\ Unlocked(o)
  BY <1>5, SoloLeaves
<1>7. UNCHANGED <<dbVars, leaseVars>>
  BY DEF EndGame
<1>8. Working(t)'
  BY <1>1, <1>2, <1>3, <1>4, <1>6, <1>7 DEF Working, Appending, Deciding, leaseVars, Up
<1> QED
  BY <1>5, <1>6, <1>7, <1>8, SoloDecides DEF dbVars, leaseVars

LEMMA SoloDecisions ==
  ASSUME SoloInv, NEW t \in Tasks,
         \/ HandleFlag(t)
         \/ \E s \in Seats : Resign(t, s) \/ AcceptDraw(t, s) \/ DisconnectTimeout(t, s)
  PROVE  Single'
<1>1. ASSUME NEW s \in Seats, NEW k \in {"resign", "timeout"}
      PROVE  Lost(s, k) \in Result /\ Over(Lost(s, k))
  BY LostType DEF Lost, Over, Kinds
<1>2. Drawn \in Result /\ Over(Drawn)
  BY DrawnType DEF Drawn, Over
<1>3. CASE HandleFlag(t)
  <2>1. heap[task[t].obj].hist \in Seq(Moves)
    BY <1>3, AtWork DEF HandleFlag, Rec
  <2>2. Turn(heap[task[t].obj].hist) \in Seats
    BY <2>1, TurnType
  <2> QED
    BY <1>1, <1>3, <2>2, SoloEndGame DEF HandleFlag
<1>4. CASE \E s \in Seats : Resign(t, s)
  BY <1>1, <1>4, SoloEndGame DEF Resign
<1>5. CASE \E s \in Seats : AcceptDraw(t, s)
  BY <1>2, <1>5, SoloEndGame DEF AcceptDraw
<1>6. CASE \E s \in Seats : DisconnectTimeout(t, s)
  BY <1>1, <1>6, SoloEndGame DEF DisconnectTimeout
<1> QED
  BY <1>3, <1>4, <1>5, <1>6

LEMMA SoloPlayMove ==
  ASSUME SoloInv, NEW t \in Tasks, NEW m \in Moves, PlayMove(t, m) PROVE Single'
<1> DEFINE o == task[t].obj
           r == heap[o]
           todo == Journal(r, m) \o Rescind(r)
           w == Insert(Len(r.hist), m, Played(r, m).result, r.clock = "edge")
<1>1. /\ r \in Rec /\ task[t].pod \in Up /\ cache[task[t].pod] = o /\ o \in Objs
      /\ cache[task[t].pod] # Nil /\ task[t] \in Job
  BY AtWork, Worker DEF PlayMove
<1>2. todo # <<>> /\ Head(todo) = w
  <2>1. w \in Writes /\ (todo = <<w>> \/ todo = <<w, Offer(NoSeat)>>)
    BY <1>1, JournalType DEF PlayMove
  <2>2. Offer(NoSeat) \in Offers
    BY DEF Offers
  <2> HIDE DEF w, todo
  <2> QED
    BY <2>1, <2>2, TodoType
<1>3. w.write = "append" /\ w.result = Played(r, m).result
  BY DEF Insert
<1>4. heap'[o].result = Played(r, m).result
  <2>1. heap'[o] = [Played(r, m) EXCEPT !.lock = t]
    BY <1>1 DEF PlayMove, SoloInv, AckInv, Typed
  <2>2. Played(r, m) \in Rec
    BY <1>1, PlayedType
  <2> QED
    BY <2>1, <2>2 DEF Rec
<1>5. /\ task' = [task EXCEPT ![t].op = "move", ![t].todo = todo]
      /\ UNCHANGED <<dbVars, cache, bots, leaseVars>>
      /\ Unlocked(o) /\ ~Over(r.result) /\ task[t].op = "ready"
  BY DEF PlayMove, Legal
<1> HIDE DEF todo, w
<1>6. /\ task'[t].op = "move" /\ task'[t].todo = todo /\ task'[t].obj = o
      /\ task'[t].pod = task[t].pod
      /\ \A u \in Tasks \ {t} : task'[u] = task[u]
  BY <1>1, <1>5 DEF SoloInv, AckInv, Typed, Job
<1>7. Working(t)'
  <2> HIDE DEF r, o
  <2> QED
    BY <1>1, <1>2, <1>3, <1>4, <1>5, <1>6 DEF Working, Appending, Deciding, leaseVars, Up
<1> QED
  BY <1>5, <1>6, <1>7, SoloDecides DEF dbVars, leaseVars

\* The first load to come back fills the cache with the row as it stands; no
\* write is outstanding then, for a goroutine that writes has a cached record.
LEMMA SoloLoadMoves ==
  ASSUME Alone, SoloInv, NEW t \in Tasks, LoadMoves(t) PROVE Single'
<1> DEFINE p == task[t].pod
<1>1. /\ Ends(t) /\ task[t].op = "loading" /\ p \in Pods /\ p \in Up
      /\ UNCHANGED <<dbVars, leaseVars, acked, faults>>
  BY Worker DEF LoadMoves
<1>2. CASE UNCHANGED <<heap, cache, timer, bots>>
  BY <1>1, <1>2, SoloEnds DEF dbVars, leaseVars
<1>3. CASE ~UNCHANGED <<heap, cache, timer, bots>>
  <2>1. PICK o \in Objs, c \in Clocks :
          /\ cache[p] = Nil /\ Free(o)
          /\ heap' = [heap EXCEPT ![o] = Loaded(t, c)]
          /\ cache' = [cache EXCEPT ![p] = o]
          /\ timer' = [timer EXCEPT ![p] = Armed(p, Loaded(t, c))]
          /\ bots' = Scheduled(p, o, Loaded(t, c))
    BY <1>3, Zenon DEF LoadMoves, Loaded
  <2>2. bots' = {} /\ bots = {}
    BY <2>1, NoBots DEF SoloInv, Single, OneProcess
  <2>3. cache'[p] = o /\ \A q \in Pods \ {p} : cache'[q] = Nil /\ cache[q] = Nil
    BY <1>1, <2>1 DEF SoloInv, Single, OneProcess, AckInv, Typed, Plain
  <2>4. OneProcess'
    BY <1>1, <2>2, <2>3 DEF SoloInv, Single, OneProcess, Up, leaseVars
  <2>5. heap'[o].result = row.result
    <3>1. heap'[o] = Loaded(t, c) /\ task[t].row = row
      BY <1>1, <2>1, Worker DEF SoloInv, AckInv, Typed, Working
    <3> QED
      BY <3>1 DEF Loaded
  <2>6. RowFollows'
    BY <1>1, <2>3, <2>5 DEF RowFollows, dbVars
  <2>7. ASSUME NEW u \in Tasks PROVE Working(u)'
    <3>1. CASE u = t
      BY <1>1, <3>1, IdleWorks DEF Ends, SoloInv, AckInv, Typed
    <3>2. CASE u # t
      <4>1. task'[u] = task[u] /\ Working(u) /\ Up' = Up
        BY <1>1, <3>2, Worker DEF Ends, SoloInv, AckInv, Typed, Up, leaseVars
      <4>2. task[u].todo = <<>>
        <5>1. task[u].todo # <<>> => task[u].pod \in Up /\ cache[task[u].pod] # Nil
          BY Worker
        <5> QED
          BY <1>1, <2>1, <5>1 DEF SoloInv, Single, OneProcess
      <4>3. task[u].obj = Nil
        <5>1. task[u].op # "idle" => task[u].pod = p
          BY <1>1, Worker DEF SoloInv, Single, OneProcess
        <5>2. task[u].op = "idle" => task[u] = Idle
          BY Worker DEF JobOK
        <5> QED
          BY <2>1, <4>1, <5>1, <5>2 DEF Working, Idle
      <4>4. task[u].op # "idle" => cache'[task[u].pod] # Nil
        BY <1>1, <2>3, NilAssumption, Worker DEF SoloInv, Single, OneProcess
      <4> QED
        BY <4>1, <4>2, <4>3, <4>4 DEF Working, Appending, Deciding
    <3> QED
      BY <3>1, <3>2
  <2> QED
    BY <2>4, <2>6, <2>7 DEF Single
<1> QED
  BY <1>2, <1>3
-----------------------------------------------------------------------------
\* A goroutine goes on to the draw offer it may have left to write, or ends.
LEMMA SoloContinue ==
  ASSUME SoloInv, NEW t \in Tasks, task[t].todo # <<>>, Continue(t),
         UNCHANGED <<cache, heap, life>>
  PROVE  Working(t)'
<1>1. \/ task'[t] = Idle
      \/ task'[t] = [task[t] EXCEPT !.todo = Tail(@)]
  BY Continuing DEF SoloInv, AckInv
<1>2. task'[t].todo # <<>> => Head(task'[t].todo) \in Offers
  BY Continuing DEF SoloInv, AckInv
<1>3. ~Appending(task'[t]) /\ ~Deciding(task'[t])
  BY <1>2 DEF Appending, Deciding, Offers, Offer
<1>4. CASE task'[t] = Idle
  BY <1>4, IdleWorks
<1>5. CASE task'[t] = [task[t] EXCEPT !.todo = Tail(@)]
  <2>1. /\ task'[t].op = task[t].op /\ task'[t].pod = task[t].pod
        /\ task'[t].obj = task[t].obj
    BY <1>5, Worker DEF Job
  <2>2. Working(t) /\ task[t].op # "loading" /\ Up' = Up
    BY Worker DEF Up
  <2> QED
    BY <1>3, <2>1, <2>2 DEF Working
<1> QED
  BY <1>1, <1>4, <1>5

LEMMA SoloFailure ==
  ASSUME SoloInv, NEW t \in Tasks, AppendConflict(t) \/ StatementFails(t) PROVE Single'
<1>1. /\ task[t].todo # <<>> /\ Stumble(t) /\ UNCHANGED <<row, cache, bots, life, lessee, believes>>
  BY DEF AppendConflict, StatementFails, Stumble, Writing, dbVars, leaseVars
<1>2. CASE task[t].op = "move" /\ Ends(t) /\ heap' = Kept(Unlocks(t))
  <2>1. \A o \in Objs : Unlocks(t)[o].result = heap[o].result
    BY <1>2, Unlocking DEF SoloInv, AckInv
  <2>2. \A p \in Pods : cache[p] # Nil => heap'[cache[p]].result = heap[cache[p]].result
    BY <1>1, <1>2, <2>1, KeptCached, Worker
  <2> QED
    BY <1>1, <1>2, <2>2, SoloEnds
<1>3. CASE Continue(t) /\ heap' = heap
  <2>1. Working(t)'
    BY <1>1, <1>3, SoloContinue
  <2>2. \A u \in Tasks \ {t} : task'[u] = task[u]
    BY <1>1, <1>3, Continuing DEF SoloInv, AckInv
  <2> QED
    BY <1>1, <1>3, <2>1, <2>2, SoloFrame
<1> QED
  BY <1>1, <1>2, <1>3 DEF Stumble

\* Writing a result: it is the cached record's, and stays final in the row.
LEMMA SoloWrite ==
  ASSUME SoloInv, NEW t \in Tasks,
         AppendMove(t) \/ SaveDrawOffer(t) \/ UpdateOutcome(t)
  PROVE  /\ Single'
         /\ Over(row.result) => row'.result = row.result
<1> DEFINE k == task[t]
           p == k.pod
<1>1. /\ k.todo # <<>> /\ Continue(t)
      /\ UNCHANGED <<cache, heap, bots, life, lessee, believes>>
  BY DEF AppendMove, SaveDrawOffer, UpdateOutcome, Writing, leaseVars
<1>2. /\ p \in Pods /\ p \in Up /\ cache[p] # Nil
      /\ \A q \in Pods : cache[q] # Nil => q = p
      /\ k.op # "idle"
  <2>1. k.op # "idle"
    BY <1>1, Worker
  <2> QED
    BY <1>1, <2>1, Worker
<1>3. row'.result = row.result \/ row'.result = heap[cache[p]].result
  <2>1. CASE SaveDrawOffer(t)
    BY <2>1 DEF SaveDrawOffer, SoloInv, AckInv, Typed, Plain, Row
  <2>2. CASE AppendMove(t)
    <3>1. row'.result = Head(k.todo).result
      BY <2>2 DEF AppendMove, SoloInv, AckInv, Typed, Plain, Row
    <3> QED
      BY <2>2, <3>1, Worker DEF AppendMove, Writing, Appending, Working
  <2>3. CASE UpdateOutcome(t)
    <3>1. row'.result = Head(k.todo).result
      BY <2>3 DEF UpdateOutcome, SoloInv, AckInv, Typed, Plain, Row
    <3> QED
      BY <2>3, <3>1, Worker DEF UpdateOutcome, Writing, Deciding, Working
  <2> QED
    BY <2>1, <2>2, <2>3
<1>4. Over(row.result) => row'.result = row.result
  BY <1>2, <1>3 DEF SoloInv, Single, RowFollows
<1>5. RowFollows'
  BY <1>1, <1>2, <1>3 DEF SoloInv, Single, RowFollows
<1>6. OneProcess'
  BY <1>1 DEF SoloInv, Single, OneProcess, Up
<1>7. ASSUME NEW u \in Tasks PROVE Working(u)'
  <2>1. CASE u = t
    BY <1>1, <2>1, SoloContinue
  <2>2. CASE u # t
    <3>1. task'[u] = task[u] /\ Working(u) /\ Up' = Up
      BY <1>1, <2>2, Continuing, Worker DEF SoloInv, AckInv, Up
    <3>2. task[u].op # "idle" => cache[task[u].pod] # Nil
      <4>1. task[u].op # "idle" => task[u].pod = p
        BY <1>2, Worker
      <4> QED
        BY <1>2, <4>1
    <3> QED
      BY <1>1, <3>1, <3>2 DEF Working
  <2> QED
    BY <2>1, <2>2
<1> QED
  BY <1>4, <1>5, <1>6, <1>7 DEF Single

LEMMA SoloStep ==
  ASSUME Alone
  PROVE  SoloInv /\ [Next]_vars => SoloInv' /\ (Over(row.result) => row'.result = row.result)
<1> SUFFICES ASSUME SoloInv, [Next]_vars
             PROVE  SoloInv' /\ (Over(row.result) => row'.result = row.result)
  OBVIOUS
<1> DEFINE Final == Over(row.result) => row'.result = row.result
<1>0. AckInv'
  BY AckStep DEF SoloInv
<1>1. CASE UNCHANGED vars
  <2>1. UNCHANGED <<row, cache, bots, life, lessee, believes, heap, task>>
    BY <1>1 DEF vars
  <2> QED
    BY <1>0, <2>1, SoloFrame DEF SoloInv
<1>2. ASSUME NEW p \in Pods,
             Boot(p) \/ Crash(p) \/ Claim(p) \/ StandDown(p) \/ Invalidate(p) \/ AdoptGame(p)
      PROVE  Single' /\ row' = row
  <2>1. row' = row
    BY <1>2 DEF Boot, Crash, Claim, StandDown, Invalidate, AdoptGame, dbVars
  <2>2. ~Claim(p) /\ ~StandDown(p) /\ ~Invalidate(p)  \* nobody takes over
    BY DEF Alone, Claim, StandDown, Invalidate, SoloInv, Single, OneProcess
  <2> QED
    BY <1>2, <2>1, <2>2, SoloBoot, SoloCrash, SoloAdopt
<1>3. ASSUME NEW o \in Objs, Tick(o) \/ BotReturns(o) PROVE Single' /\ row' = row
  <2>1. ~BotReturns(o)
    BY DEF BotReturns, SoloInv, Single, OneProcess
  <2> QED
    BY <1>3, <2>1, SoloTick DEF Tick, dbVars
<1>4. ASSUME NEW t \in Tasks, Begin(t) PROVE Single' /\ row' = row
  BY <1>4, SoloLoadRow, SoloOpen DEF Begin, LoadRow, Open, dbVars
<1>5. ASSUME NEW t \in Tasks, Handle(t) PROVE Single' /\ row' = row
  <2>1. row' = row
    BY <1>5 DEF Handle, LoadMoves, LoadFails, PlayMove, Resign, OfferDraw, AcceptDraw,
       DisconnectTimeout, DeclineDraw, Refused, HandleFlag, HandleFlagReturns, EndGame, dbVars
  <2> QED
    BY <1>5, <2>1, SoloLoadMoves, SoloRefused, SoloPlayMove, SoloDecisions, SoloOffer DEF Handle
<1>6. ASSUME NEW t \in Tasks, Write(t) \/ StatementFails(t) PROVE Single' /\ Final
  <2>1. ~OutcomeFenced(t) /\ ~BotPlayed(t)
    <3>1. task[t].todo # <<>> => task[t].pod \in Up
      BY Worker
    <3> QED
      BY <3>1, Worker DEF OutcomeFenced, BotPlayed, Working, Writing, Fenced, Owns, SoloInv, Single, OneProcess
  <2>2. CASE AppendMove(t) \/ SaveDrawOffer(t) \/ UpdateOutcome(t)
    BY <2>2, SoloWrite
  <2>3. CASE AppendConflict(t) \/ StatementFails(t) \/ MoveReturns(t)
    <3>1. row' = row
      BY <2>3 DEF AppendConflict, StatementFails, MoveReturns, dbVars
    <3> QED
      BY <2>3, <3>1, SoloFailure, SoloMoveReturns
  <2> QED
    BY <1>6, <2>1, <2>2, <2>3 DEF Write
<1>7. ASSUME NEW t \in Tasks, Bot(t) PROVE FALSE
  BY <1>7 DEF Bot, PlayBotTurn, SoloInv, Single, OneProcess
<1>8. ASSUME NEW t \in Tasks, NEW p \in Pods, Fire(t, p) PROVE Single' /\ row' = row
  BY <1>8, SoloFire DEF Fire, dbVars
<1> QED
  BY <1>0, <1>1, <1>2, <1>3, <1>4, <1>5, <1>6, <1>7, <1>8 DEF Next, SoloInv, vars

\* A game the row says is finished keeps its winner and the way it was won, in
\* the deployment of one process at a time without bots: whatever a command or
\* a timer still has to write, and through failed statements, crash and reload.
THEOREM FinishedStaysFinished ==
  ASSUME Alone
  PROVE  Spec => FinishedIsFinal
<1>1. Init => SoloInv
  BY SoloInit
<1>2. SoloInv /\ [Next]_vars => SoloInv'
  BY SoloStep
<1>3. SoloInv /\ [Next]_vars => [Over(row.result) => row'.result = row.result]_vars
  BY SoloStep
<1> QED
  BY <1>1, <1>2, <1>3, PTL DEF Spec, FinishedIsFinal

-----------------------------------------------------------------------------
(* As long as no statement has failed: the table, the row and the clock      *)
(* follow the record in the cache.                                           *)

Pending == \E t \in Tasks : Appending(task[t])

\* The table holds the moves 0, 1, ..., each by the player whose turn it was,
\* and a winning one is the last and has finished the row.
Journaled ==
  /\ \E n \in Nat : DOMAIN moves = 0 .. (n - 1)
  /\ \A n \in DOMAIN moves :
       /\ moves[n].seat = n % NumPlayers
       /\ Wins(moves[n]) => (n + 1) \notin DOMAIN moves /\ Over(row.result)

\* The cached record has the same moves, or one more that is being written.
Mirrored(p) ==
  LET r == heap[cache[p]] IN
  /\ DOMAIN moves = 0 .. (Len(r.hist) - (IF Pending THEN 2 ELSE 1))
  /\ \A n \in DOMAIN moves : moves[n] = r.hist[n + 1]
  /\ \A i \in 1 .. Len(r.hist) :
       /\ r.hist[i].seat = (i - 1) % NumPlayers
       /\ Wins(r.hist[i]) => i = Len(r.hist) /\ Over(r.result)

\* The row has the record's result, or a goroutine is about to write it.
Settled(p) ==
  \/ heap[cache[p]].result = row.result
  \/ \E t \in Tasks : Appending(task[t]) \/ Deciding(task[t])

\* A live game has its timer armed for the turn that is running, a move under
\* way that will arm it, or a handler that will find the clock spent.
Guarded(p) ==
  LET r == heap[cache[p]] IN
  Timed /\ ~Over(r.result) =>
    \/ timer[p] = Len(r.hist)
    \/ \E t \in Tasks : task[t].op = "move"
    \/ r.clock # "running" /\ \E t \in Tasks : task[t].op = "flag"

Synced ==
  faults = 0 =>
    Journaled /\ \A p \in Pods : cache[p] # Nil => Mirrored(p) /\ Settled(p) /\ Guarded(p)

\* The inductive invariant behind the properties of memory and journal.
SyncInv == SoloInv /\ Synced

LEMMA SyncInit == Init => SyncInv
<1> SUFFICES ASSUME Init PROVE SyncInv
  OBVIOUS
<1>1. DOMAIN moves = {}
  BY DEF Init
<1>2. DOMAIN moves = 0 .. (0 - 1)
  BY <1>1
<1>3. Journaled
  BY <1>1, <1>2 DEF Init, Journaled
<1>4. Synced
  BY <1>3 DEF Init, Synced
<1> QED
  BY <1>4, SoloInit DEF SyncInv

\* The writers of moves hold the lock of the one cached record.
LEMMA OneWriter ==
  ASSUME SoloInv, NEW t \in Tasks, Appending(task[t])
  PROVE  /\ task[t].op = "move" /\ task[t].pod \in Pods /\ task[t].pod \in Up
         /\ task[t].obj \in Objs /\ cache[task[t].pod] = task[t].obj
         /\ cache[task[t].pod] # Nil
         /\ heap[task[t].obj].lock = t
         /\ \A u \in Tasks : Appending(task[u]) => u = t
         /\ \A p \in Pods : cache[p] # Nil => p = task[t].pod
<1>1. ASSUME NEW u \in Tasks, Appending(task[u])
      PROVE  /\ task[u].op = "move" /\ task[u].pod \in Pods /\ task[u].pod \in Up
             /\ cache[task[u].pod] = task[u].obj
             /\ task[u].obj \in Objs /\ heap[task[u].obj].lock = u
             /\ cache[task[u].pod] # Nil
             /\ \A p \in Pods : cache[p] # Nil => p = task[u].pod
  <2>1. task[u].op = "move"
    BY <1>1, Worker DEF Appending, JobOK
  <2> QED
    BY <2>1, AtWork, Worker DEF JobOK
<1>2. \A u \in Tasks : Appending(task[u]) => u = t
  BY <1>1
<1> QED
  BY <1>1, <1>2

\* A step that changes no move, no result and no outstanding write.
LEMMA SyncFrame ==
  ASSUME Synced, UNCHANGED <<moves, slow, cache, faults>>, row'.result = row.result,
         \A p \in Pods : cache[p] # Nil =>
            /\ heap'[cache[p]].hist = heap[cache[p]].hist
            /\ heap'[cache[p]].result = heap[cache[p]].result
         ,
         \A t \in Tasks : /\ Appending(task'[t]) <=> Appending(task[t])
                          /\ Deciding(task'[t]) <=> Deciding(task[t])
         ,
         \A p \in Pods : faults = 0 /\ cache[p] # Nil => Guarded(p)'
  PROVE  Synced'
<1> SUFFICES ASSUME faults = 0 PROVE Synced'
  BY DEF Synced
<1>1. Journaled'
  BY DEF Synced, Journaled
<1>2. Pending' <=> Pending
  BY DEF Pending
<1>3. ASSUME NEW p \in Pods, cache[p] # Nil PROVE Mirrored(p)' /\ Settled(p)'
  <2>1. Mirrored(p)'
    BY <1>2, <1>3 DEF Synced, Mirrored
  <2>2. Settled(p)'
    BY <1>3 DEF Synced, Settled
  <2> QED
    BY <2>1, <2>2
<1> QED
  BY <1>1, <1>3 DEF Synced

\* The guard of the clock survives when the timer, the clock and the handlers
\* that matter to it do.
LEMMA GuardFrame ==
  ASSUME Synced, faults = 0, NEW p \in Pods, cache[p] # Nil, cache'[p] = cache[p],
         timer'[p] = timer[p],
         heap'[cache[p]].hist = heap[cache[p]].hist,
         heap'[cache[p]].result = heap[cache[p]].result,
         heap'[cache[p]].clock = heap[cache[p]].clock,
         \A t \in Tasks : task[t].op \in {"move", "flag"} => task'[t].op = task[t].op
  PROVE  Guarded(p)'
<1>1. Guarded(p)
  BY DEF Synced
<1> QED
  BY <1>1 DEF Guarded

LEMMA SyncBoot ==
  ASSUME SyncInv, NEW p \in Pods, Boot(p) PROVE Synced'
<1>1. UNCHANGED <<row, moves, slow, heap, cache, task, timer, faults>>
  BY DEF Boot, dbVars
<1>2. \A q \in Pods : faults = 0 /\ cache[q] # Nil => Guarded(q)'
  BY <1>1, GuardFrame DEF SyncInv
<1> QED
  BY <1>1, <1>2, SyncFrame DEF SyncInv

LEMMA SyncCrash ==
  ASSUME SyncInv, NEW p \in Pods, Crash(p) PROVE Synced'
<1>1. UNCHANGED <<row, moves, slow, faults>> /\ cache' = [cache EXCEPT ![p] = Nil] /\ p \in Up
  BY DEF Crash, dbVars
<1>2. \A q \in Pods : cache'[q] = Nil
  BY <1>1 DEF SyncInv, SoloInv, AckInv, Single, OneProcess, Typed, Plain
<1>3. faults = 0 => Journaled'
  BY <1>1 DEF SyncInv, Synced, Journaled
<1> QED
  BY <1>1, <1>2, <1>3 DEF Synced

LEMMA SyncAdopt ==
  ASSUME SyncInv, NEW p \in Pods, AdoptGame(p) PROVE Synced'
<1>1. UNCHANGED <<row, moves, slow, heap, cache, task, faults>>
  BY DEF AdoptGame, dbVars
<1>2. ASSUME NEW q \in Pods, cache[q] # Nil PROVE Guarded(q)'
  <2>1. p \in Up /\ q = p /\ Owns(p)
    BY <1>2 DEF AdoptGame, SyncInv, SoloInv, Single, OneProcess, Owns
  <2>2. timer'[p] = Armed(p, heap[cache[p]])
    BY DEF AdoptGame, SyncInv, SoloInv, AckInv, Typed, Plain
  <2>3. Timed /\ ~Over(heap[cache[p]].result) => timer'[p] = Len(heap[cache[p]].hist)
    BY <2>1, <2>2 DEF Armed
  <2> QED
    BY <1>1, <2>1, <2>3 DEF Guarded
<1> QED
  BY <1>1, <1>2, SyncFrame DEF SyncInv

LEMMA SyncTick ==
  ASSUME SyncInv, NEW o \in Objs, Tick(o) PROVE Synced'
<1>1. UNCHANGED <<row, moves, slow, cache, task, timer, faults>>
  BY DEF Tick, dbVars
<1>2. /\ \A b \in Objs : heap'[b].hist = heap[b].hist /\ heap'[b].result = heap[b].result
      /\ \A b \in Objs : heap'[b].clock = heap[b].clock \/ heap'[b].clock # "running"
  BY DEF Tick, SyncInv, SoloInv, AckInv, Typed, Rec
<1>3. ASSUME NEW p \in Pods, cache[p] # Nil
      PROVE  /\ heap'[cache[p]].hist = heap[cache[p]].hist
             /\ heap'[cache[p]].result = heap[cache[p]].result
             /\ faults = 0 => Guarded(p)'
  <2>1. cache[p] \in Objs
    BY <1>3 DEF SyncInv, SoloInv, AckInv, Typed, Plain
  <2>2. faults = 0 => Guarded(p)
    BY <1>3 DEF SyncInv, Synced
  <2> QED
    BY <1>1, <1>2, <2>1, <2>2 DEF Guarded
<1> QED
  BY <1>1, <1>3, SyncFrame DEF SyncInv

\* A goroutine takes up a load or a command.
LEMMA SyncBegin ==
  ASSUME SyncInv, NEW t \in Tasks, NEW p \in Pods, LoadRow(t, p) \/ Open(t, p) PROVE Synced'
<1>1. /\ UNCHANGED <<row, moves, slow, heap, cache, timer, faults>> /\ task[t] = Idle
      /\ \A u \in Tasks \ {t} : task'[u] = task[u]
      /\ task'[t].todo = <<>>
  BY DEF LoadRow, Open, dbVars, Idle, SyncInv, SoloInv, AckInv, Typed
<1>2. \A u \in Tasks : /\ Appending(task'[u]) <=> Appending(task[u])
                       /\ Deciding(task'[u]) <=> Deciding(task[u])
  BY <1>1 DEF Appending, Deciding, Idle
<1>3. \A u \in Tasks : task[u].op \in {"move", "flag"} => task'[u].op = task[u].op
  BY <1>1 DEF Idle
<1>4. \A q \in Pods : faults = 0 /\ cache[q] # Nil => Guarded(q)'
  BY <1>1, <1>3, GuardFrame DEF SyncInv
<1> QED
  BY <1>1, <1>2, <1>4, SyncFrame DEF SyncInv

LEMMA SyncFire ==
  ASSUME SyncInv, NEW t \in Tasks, NEW p \in Pods, Fire(t, p) PROVE Synced'
<1> DEFINE k == [Idle EXCEPT !.op = "flag", !.pod = p, !.obj = cache[p]]
<1>1. /\ UNCHANGED <<row, moves, slow, heap, cache, faults>> /\ task[t] = Idle
      /\ timer' = [timer EXCEPT ![p] = NoTimer]
      /\ cache[p] # Nil => heap[cache[p]].clock # "running" \/ Len(heap[cache[p]].hist) # timer[p]
  BY DEF Fire, dbVars
<1>2. /\ \A u \in Tasks \ {t} : task'[u] = task[u]
      /\ task'[t].todo = <<>> /\ Idle.todo = <<>> /\ Idle.op = "idle"
      /\ cache[p] # Nil => task'[t].op = "flag"
  <2>1. Idle.todo = <<>> /\ Idle.op = "idle" /\ k.todo = <<>> /\ k.op = "flag"
    BY DEF Idle
  <2>2. task' = task \/ task' = [task EXCEPT ![t] = k]
    BY DEF Fire
  <2>3. cache[p] # Nil => task' = [task EXCEPT ![t] = k]
    BY DEF Fire
  <2> HIDE DEF k
  <2> QED
    BY <1>1, <2>1, <2>2, <2>3 DEF SyncInv, SoloInv, AckInv, Typed
<1>3. \A u \in Tasks : /\ Appending(task'[u]) <=> Appending(task[u])
                       /\ Deciding(task'[u]) <=> Deciding(task[u])
  BY <1>1, <1>2 DEF Appending, Deciding
<1>4. \A u \in Tasks : task[u].op \in {"move", "flag"} => task'[u].op = task[u].op
  BY <1>1, <1>2
<1>5. ASSUME faults = 0, NEW q \in Pods, cache[q] # Nil PROVE Guarded(q)'
  <2>1. CASE q = p
    <3>1. Guarded(p)
      BY <1>5, <2>1 DEF SyncInv, Synced
    <3>2. task'[t].op = "flag"
      BY <1>2, <1>5, <2>1
    <3> QED
      BY <1>1, <1>4, <2>1, <1>5, <3>1, <3>2 DEF Guarded
  <2>2. CASE q # p
    <3>1. timer'[q] = timer[q]
      BY <1>1, <2>2 DEF SyncInv, SoloInv, AckInv, Typed, Plain
    <3> QED
      BY <1>1, <1>4, <1>5, <3>1, GuardFrame DEF SyncInv
  <2> QED
    BY <2>1, <2>2
<1> QED
  BY <1>1, <1>3, <1>5, SyncFrame DEF SyncInv

\* A goroutine that ends without a move: the flag handler may go when the clock
\* runs or the game is over.
LEMMA SyncEnds ==
  ASSUME SyncInv, NEW t \in Tasks, Ends(t), task[t].op \in {"loading", "ready", "flag"},
         UNCHANGED <<row, moves, slow, cache, timer, faults>>,
         heap' = heap \/ heap' = Kept(heap),
         task[t].op = "flag" =>
           Over(heap[task[t].obj].result) \/ heap[task[t].obj].clock = "running"
  PROVE  Synced'
<1>1. /\ \A u \in Tasks \ {t} : task'[u] = task[u]
      /\ task'[t] = Idle /\ Idle.todo = <<>>
  BY DEF Ends, SyncInv, SoloInv, AckInv, Typed, Idle
<1>2. task[t].todo = <<>>
  BY Worker DEF SyncInv
<1>3. \A u \in Tasks : /\ Appending(task'[u]) <=> Appending(task[u])
                       /\ Deciding(task'[u]) <=> Deciding(task[u])
  BY <1>1, <1>2 DEF Appending, Deciding
<1>4. \A p \in Pods : cache[p] # Nil => heap'[cache[p]] = heap[cache[p]]
  BY KeptCached DEF SyncInv
<1>5. ASSUME faults = 0, NEW p \in Pods, cache[p] # Nil PROVE Guarded(p)'
  <2>1. CASE task[t].op # "flag"
    <3>1. \A u \in Tasks : task[u].op \in {"move", "flag"} => task'[u].op = task[u].op
      BY <1>1, <2>1
    <3> QED
      BY <1>4, <1>5, <3>1, GuardFrame DEF SyncInv
  <2>2. CASE task[t].op = "flag"
    <3>1. cache[p] = task[t].obj
      BY <1>5, <2>2, AtWork DEF SyncInv
    <3>2. Guarded(p)
      BY <1>5 DEF SyncInv, Synced
    <3>3. \A u \in Tasks : task[u].op = "move" => task'[u].op = "move"
      BY <1>1, <2>2
    <3> QED
      BY <1>4, <1>5, <2>2, <3>1, <3>2, <3>3 DEF Guarded
  <2> QED
    BY <2>1, <2>2
<1> QED
  BY <1>3, <1>4, <1>5, SyncFrame DEF SyncInv

LEMMA SyncRefused ==
  ASSUME SyncInv, NEW t \in Tasks, Refused(t) \/ HandleFlagReturns(t) \/ LoadFails(t)
  PROVE  Synced'
BY SyncEnds DEF Refused, HandleFlagReturns, LoadFails, dbVars

\* A draw offer changes nothing that is mirrored.
LEMMA SyncOffer ==
  ASSUME SyncInv, NEW t \in Tasks,
         DeclineDraw(t) \/ \E s \in Seats : OfferDraw(t, s)
  PROVE  Synced'
<1> DEFINE o == task[t].obj
<1>1. PICK s \in Seats \cup {NoSeat} :
        /\ Leaves(t, "offer", [heap[o] EXCEPT !.offer = s], <<Offer(s)>>)
        /\ UNCHANGED <<dbVars, timer, leaseVars, acked, faults>>
        /\ task[t].op = "ready"
  BY DEF OfferDraw, DeclineDraw
<1>2. /\ task'[t].op = "offer" /\ task'[t].todo = <<Offer(s)>>
      /\ \A u \in Tasks \ {t} : task'[u] = task[u]
      /\ heap'[cache[task[t].pod]] = [heap[o] EXCEPT !.offer = s]
      /\ UNCHANGED cache
  BY <1>1, SoloLeaves DEF SyncInv
<1>3. /\ cache[task[t].pod] = o /\ heap[o] \in Rec
      /\ \A p \in Pods : cache[p] # Nil => p = task[t].pod
  BY <1>1, AtWork DEF SyncInv
<1>4. /\ heap'[o].hist = heap[o].hist /\ heap'[o].result = heap[o].result
      /\ heap'[o].clock = heap[o].clock
  BY <1>2, <1>3 DEF Rec
<1>5. \A u \in Tasks : /\ Appending(task'[u]) <=> Appending(task[u])
                       /\ Deciding(task'[u]) <=> Deciding(task[u])
  <2>1. task[t].todo = <<>>
    BY <1>1, Worker DEF SyncInv
  <2>2. Head(<<Offer(s)>>) = Offer(s) /\ Offer(s).write = "offer"
    BY DEF Offer
  <2> QED
    BY <1>2, <2>1, <2>2 DEF Appending, Deciding
<1>6. \A u \in Tasks : task[u].op \in {"move", "flag"} => task'[u].op = task[u].op
  BY <1>1, <1>2
<1>7. \A p \in Pods : faults = 0 /\ cache[p] # Nil => Guarded(p)'
  BY <1>1, <1>2, <1>3, <1>4, <1>6, GuardFrame DEF SyncInv
<1> QED
  BY <1>1, <1>2, <1>3, <1>4, <1>5, <1>7, SyncFrame DEF SyncInv, dbVars

\* Under the lock of a live record: no move is being written, the table holds
\* all of the record's moves, and none of them wins.
LEMMA LiveRecord ==
  ASSUME SyncInv, faults = 0, NEW t \in Tasks, task[t].op \in {"ready", "flag"},
         Unlocked(task[t].obj), ~Over(heap[task[t].obj].result)
  PROVE  LET h == heap[task[t].obj].hist
         IN  /\ ~Pending /\ Len(h) \in Nat /\ h \in Seq(Moves)
             /\ DOMAIN moves = 0 .. (Len(h) - 1)
             /\ \A n \in DOMAIN moves : moves[n] = h[n + 1]
             /\ \A i \in 1 .. Len(h) : h[i].seat = (i - 1) % NumPlayers /\ ~Wins(h[i])
             /\ Turn(h) = Len(h) % NumPlayers
<1> DEFINE o == task[t].obj
           h == heap[o].hist
<1>1. /\ cache[task[t].pod] = o /\ o \in Objs /\ task[t].pod \in Pods /\ cache[task[t].pod] # Nil
      /\ heap[o] \in Rec
      /\ \A p \in Pods : cache[p] # Nil => p = task[t].pod
  BY AtWork DEF SyncInv
<1>2. ~Pending
  <2> SUFFICES ASSUME NEW u \in Tasks, Appending(task[u]) PROVE FALSE
    BY DEF Pending
  <2> QED
    BY <1>1, OneWriter, NilAssumption DEF SyncInv, Unlocked
<1>3. Mirrored(task[t].pod)
  BY <1>1 DEF SyncInv, Synced
<1>4. Len(h) \in Nat /\ h \in Seq(Moves)
  BY <1>1, LenProperties DEF Rec
<1>5. \A i \in 1 .. Len(h) : h[i].seat = (i - 1) % NumPlayers /\ ~Wins(h[i])
  BY <1>1, <1>3 DEF Mirrored
<1>6. Turn(h) = Len(h) % NumPlayers
  <2>1. h # <<>> => Len(h) \in 1 .. Len(h) /\ Last(h) = h[Len(h)]
    BY <1>4, EmptySeq DEF Last
  <2> QED
    BY <1>5, <2>1 DEF Turn
<1> QED
  BY <1>1, <1>2, <1>3, <1>4, <1>5, <1>6 DEF Mirrored

LEMMA SyncEndGame ==
  ASSUME SyncInv, NEW t \in Tasks, task[t].op \in {"ready", "flag"},
         NEW op \in {"concede", "timer"}, NEW res \in Result, Over(res), NEW offer,
         NEW todo,
         \/ todo = <<>> \/ todo = <<Offer(NoSeat)>>
         \/ todo = Rescind(heap[task[t].obj]),
         EndGame(t, op, res, offer, todo)
  PROVE  Synced'
<1> DEFINE o == task[t].obj
           r == [heap[o] EXCEPT !.result = res, !.offer = offer]
           w == Outcome(res)
           all == <<w>> \o todo
<1>1. /\ cache[task[t].pod] = o /\ heap[o] \in Rec /\ task[t].todo = <<>>
      /\ \A p \in Pods : cache[p] # Nil => p = task[t].pod
  BY AtWork, Worker DEF SyncInv
<1>2. r.result = res /\ r.hist = heap[o].hist
  BY <1>1 DEF Rec
<1>3. all # <<>> /\ Head(all) = w
  <2>1. w \in Writes /\ (all = <<w>> \/ all = <<w, Offer(NoSeat)>>) /\ Offer(NoSeat) \in Offers
    BY <1>1, RescindType
  <2> HIDE DEF all, w
  <2> QED
    BY <2>1, TodoType
<1>4. w.write = "outcome"
  BY DEF Outcome
<1>5. Leaves(t, op, r, all) /\ ~Over(heap[o].result) /\ Unlocked(o)
  BY DEF EndGame, Leaves
<1> HIDE DEF all, r, w
<1>6. /\ task'[t].todo = all
      /\ \A u \in Tasks \ {t} : task'[u] = task[u]
      /\ heap'[o] = r /\ UNCHANGED cache
  BY <1>1, <1>5, SoloLeaves DEF SyncInv
<1>7. UNCHANGED <<row, moves, slow, faults>>
  BY DEF EndGame, dbVars
<1>8. SUFFICES ASSUME faults = 0 PROVE Synced'
  BY <1>7 DEF Synced
<1>9. ~Pending' /\ Deciding(task'[t])
  <2>1. ~Pending
    BY <1>5, <1>8, LiveRecord
  <2> QED
    BY <1>3, <1>4, <1>6, <2>1 DEF Pending, Appending, Deciding
<1>10. Journaled'
  BY <1>7, <1>8 DEF SyncInv, Synced, Journaled
<1>11. ASSUME NEW p \in Pods, cache[p] # Nil PROVE Mirrored(p)' /\ Settled(p)' /\ Guarded(p)'
  <2>1. cache[p] = o
    BY <1>1, <1>11
  <2>2. Mirrored(p) /\ ~Pending
    BY <1>5, <1>8, <1>11, LiveRecord DEF SyncInv, Synced
  <2>3. Mirrored(p)'
    BY <1>2, <1>6, <1>7, <1>9, <2>1, <2>2 DEF Mirrored
  <2>4. Settled(p)'
    BY <1>9 DEF Settled
  <2>5. Guarded(p)'
    BY <1>2, <1>6, <2>1 DEF Guarded
  <2> QED
    BY <2>3, <2>4, <2>5
<1> QED
  BY <1>6, <1>10, <1>11 DEF Synced

LEMMA SyncDecisions ==
  ASSUME SyncInv, NEW t \in Tasks,
         \/ HandleFlag(t)
         \/ \E s \in Seats : Resign(t, s) \/ AcceptDraw(t, s) \/ DisconnectTimeout(t, s)
  PROVE  Synced'
<1>1. ASSUME NEW s \in Seats, NEW k \in {"resign", "timeout"}
      PROVE  Lost(s, k) \in Result /\ Over(Lost(s, k))
  BY LostType DEF Lost, Over, Kinds
<1>2. Drawn \in Result /\ Over(Drawn)
  BY DrawnType DEF Drawn, Over
<1>3. CASE HandleFlag(t)
  <2>1. heap[task[t].obj].hist \in Seq(Moves)
    BY <1>3, AtWork DEF HandleFlag, Rec, SyncInv
  <2>2. Turn(heap[task[t].obj].hist) \in Seats
    BY <2>1, TurnType
  <2> QED
    BY <1>1, <1>3, <2>2, SyncEndGame DEF HandleFlag
<1>4. CASE \E s \in Seats : Resign(t, s)
  BY <1>1, <1>4, SyncEndGame DEF Resign
<1>5. CASE \E s \in Seats : AcceptDraw(t, s)
  BY <1>2, <1>5, SyncEndGame DEF AcceptDraw
<1>6. CASE \E s \in Seats : DisconnectTimeout(t, s)
  BY <1>1, <1>6, SyncEndGame DEF DisconnectTimeout
<1> QED
  BY <1>3, <1>4, <1>5, <1>6

LEMMA SyncPlayMove ==
  ASSUME SyncInv, NEW t \in Tasks, NEW m \in Moves, PlayMove(t, m) PROVE Synced'
<1> DEFINE o == task[t].obj
           r == heap[o]
           h == r.hist
           g == Append(h, m)
           todo == Journal(r, m) \o Rescind(r)
           w == Insert(Len(h), m, Played(r, m).result, r.clock = "edge")
<1>1. /\ cache[task[t].pod] = o /\ r \in Rec /\ o \in Objs
      /\ \A p \in Pods : cache[p] # Nil => p = task[t].pod
  BY AtWork DEF SyncInv, PlayMove
<1>2. /\ task' = [task EXCEPT ![t].op = "move", ![t].todo = todo]
      /\ UNCHANGED <<row, moves, slow, cache, faults>>
      /\ Unlocked(o) /\ ~Over(r.result) /\ task[t].op = "ready" /\ m.seat = Turn(h)
  BY DEF PlayMove, Legal, dbVars
<1>3. SUFFICES ASSUME faults = 0 PROVE Synced'
  BY <1>2 DEF Synced
<1>4. /\ ~Pending /\ Len(h) \in Nat /\ h \in Seq(Moves)
      /\ DOMAIN moves = 0 .. (Len(h) - 1)
      /\ \A n \in DOMAIN moves : moves[n] = h[n + 1]
      /\ \A i \in 1 .. Len(h) : h[i].seat = (i - 1) % NumPlayers /\ ~Wins(h[i])
      /\ Turn(h) = Len(h) % NumPlayers
  BY <1>2, <1>3, LiveRecord
<1>5. heap'[o].hist = g /\ (Wins(m) => Over(heap'[o].result))
  <2>1. heap'[o] = [Played(r, m) EXCEPT !.lock = t]
    BY <1>1 DEF PlayMove, SyncInv, SoloInv, AckInv, Typed
  <2>2. Played(r, m) \in Rec /\ Played(r, m).hist = g
    BY <1>1, PlayedType
  <2>3. Wins(m) => Over(Played(r, m).result)
    BY <1>1 DEF Played, Rec, Over
  <2> QED
    BY <2>1, <2>2, <2>3 DEF Rec
<1>6. /\ Len(g) = Len(h) + 1 /\ g[Len(h) + 1] = m
      /\ \A i \in 1 .. Len(h) : g[i] = h[i]
  <2>1. Len(g) = Len(h) + 1
    BY <1>4, Appended
  <2>2. g[Len(h) + 1] = m
    BY <1>4, Appended
  <2>3. \A i \in 1 .. Len(h) : g[i] = h[i]
    BY <1>4, Appended
  <2> QED
    BY <2>1, <2>2, <2>3
<1>7. todo # <<>> /\ Head(todo) = w /\ w.write = "append"
  <2>1. w \in Writes /\ w.write = "append" /\ (todo = <<w>> \/ todo = <<w, Offer(NoSeat)>>)
    BY <1>1, JournalType DEF PlayMove
  <2>2. Offer(NoSeat) \in Offers
    BY DEF Offers
  <2> HIDE DEF w, todo
  <2> QED
    BY <2>1, <2>2, TodoType
<1> HIDE DEF todo, w
<1>8. task'[t].op = "move" /\ Appending(task'[t])
  BY <1>2, <1>7 DEF SyncInv, SoloInv, AckInv, Typed, Job, Appending
<1>9. Pending'
  BY <1>8 DEF Pending
<1>10. Journaled'
  BY <1>2, <1>3 DEF SyncInv, Synced, Journaled
<1>11. ASSUME NEW p \in Pods, cache[p] # Nil PROVE Mirrored(p)' /\ Settled(p)' /\ Guarded(p)'
  <2>1. cache'[p] = o
    BY <1>1, <1>2, <1>11
  <2>2. DOMAIN moves' = 0 .. (Len(g) - 2)
    BY <1>2, <1>4, <1>6
  <2>3. \A n \in DOMAIN moves' : moves'[n] = g[n + 1]
    <3> HIDE DEF g, h
    <3> QED
      BY <1>2, <1>4, <1>6
  <2>4. \A i \in 1 .. Len(g) : /\ g[i].seat = (i - 1) % NumPlayers
                               /\ Wins(g[i]) => i = Len(g) /\ Over(heap'[o].result)
    <3> HIDE DEF g, h
    <3> SUFFICES ASSUME NEW i \in 1 .. Len(g)
                 PROVE  /\ g[i].seat = (i - 1) % NumPlayers
                        /\ Wins(g[i]) => i = Len(g) /\ Over(heap'[o].result)
      OBVIOUS
    <3>1. CASE i \in 1 .. Len(h)
      BY <1>4, <1>6, <3>1
    <3>2. CASE i = Len(h) + 1
      BY <1>2, <1>4, <1>5, <1>6, <3>2
    <3> QED
      BY <1>4, <1>6, <3>1, <3>2
  <2>5. Mirrored(p)'
    <3> HIDE DEF g, h, o
    <3> QED
      BY <1>5, <1>9, <2>1, <2>2, <2>3, <2>4 DEF Mirrored
  <2>6. Settled(p)'
    BY <1>8 DEF Settled
  <2>7. Guarded(p)'
    BY <1>8 DEF Guarded
  <2> QED
    BY <2>5, <2>6, <2>7
<1> QED
  BY <1>2, <1>10, <1>11 DEF Synced

\* With no gap in the table LoadGame's list is the table.
LEMMA DenseLog ==
  ASSUME Typed, NEW n \in Nat, DOMAIN moves = 0 .. (n - 1)
  PROVE  Len(Log) = n /\ \A i \in 1 .. n : Log[i] = moves[i - 1]
<1>1. Cardinality(DOMAIN moves) = n
  BY FS_Interval
<1>2. /\ DOMAIN Log = 1 .. n
      /\ \A i \in 1 .. n : \E k \in DOMAIN moves :
           /\ Cardinality({j \in DOMAIN moves : j < k}) = i - 1
           /\ Log[i] = moves[k]
  BY <1>1, LogProperties DEF Typed, Plain
<1>3. Len(Log) = n
  <2>1. Log \in Seq(Moves) /\ Len(Log) \in Nat
    BY LogType, LenProperties
  <2>2. DOMAIN Log = 1 .. Len(Log)
    BY <2>1, LenProperties
  <2> HIDE DEF Log
  <2> QED
    BY <1>2, <2>1, <2>2
<1>4. ASSUME NEW k \in DOMAIN moves PROVE Cardinality({j \in DOMAIN moves : j < k}) = k
  <2>1. k \in Nat /\ {j \in DOMAIN moves : j < k} = 0 .. (k - 1)
    OBVIOUS
  <2>2. Cardinality(0 .. (k - 1)) = k
    BY <2>1, FS_Interval
  <2> QED
    BY <2>1, <2>2
<1>5. ASSUME NEW i \in 1 .. n PROVE Log[i] = moves[i - 1]
  <2>1. PICK k \in DOMAIN moves :
          Cardinality({j \in DOMAIN moves : j < k}) = i - 1 /\ Log[i] = moves[k]
    BY <1>2
  <2>2. k = i - 1
    BY <1>4, <2>1
  <2> QED
    BY <2>1, <2>2
<1> QED
  BY <1>3, <1>5

LEMMA SyncLoadMoves ==
  ASSUME Alone, SyncInv, NEW t \in Tasks, LoadMoves(t) PROVE Synced'
<1>0. PICK p \in Pods : p = task[t].pod
  BY Worker DEF LoadMoves, SyncInv
<1>1. /\ Ends(t) /\ task[t].op = "loading" /\ p \in Up
      /\ UNCHANGED <<row, moves, slow, leaseVars, acked, faults>> /\ Replayable
  BY <1>0, Worker DEF LoadMoves, SyncInv, dbVars
<1>2. CASE UNCHANGED <<heap, cache, timer, bots>>
  BY <1>1, <1>2, SyncEnds
<1>3. CASE ~UNCHANGED <<heap, cache, timer, bots>>
  <2> SUFFICES ASSUME faults = 0 PROVE Synced'
    BY <1>1 DEF Synced
  <2>1. PICK o \in Objs, c \in Clocks :
          /\ cache[p] = Nil /\ Free(o)
          /\ heap' = [heap EXCEPT ![o] = Loaded(t, c)]
          /\ cache' = [cache EXCEPT ![p] = o]
          /\ timer' = [timer EXCEPT ![p] = Armed(p, Loaded(t, c))]
          /\ bots' = Scheduled(p, o, Loaded(t, c))
    BY <1>0, <1>3, Zenon DEF LoadMoves, Loaded
  <2>2. cache'[p] = o /\ \A q \in Pods \ {p} : cache'[q] = Nil /\ cache[q] = Nil
    BY <1>1, <2>1 DEF SyncInv, SoloInv, Single, OneProcess, AckInv, Typed, Plain
  <2>3. heap'[o].result = row.result /\ heap'[o].hist = Log
    <3>1. heap'[o] = Loaded(t, c) /\ task[t].row = row
      BY <1>0, <1>1, <2>1, Worker DEF SyncInv, SoloInv, AckInv, Typed, Working
    <3> QED
      BY <3>1 DEF Loaded
  <2>4. Timed /\ ~Over(row.result) => timer'[p] = Len(Log)
    <3>1. timer'[p] = Armed(p, Loaded(t, c)) /\ Owns(p) /\ task[t].row = row
      BY <1>0, <1>1, <2>1, Worker DEF SyncInv, SoloInv, Single, OneProcess, AckInv, Typed, Plain,
                                Working, Owns
    <3> QED
      BY <3>1 DEF Armed, Loaded
  <2>5. PICK n \in Nat : DOMAIN moves = 0 .. (n - 1)
    BY DEF SyncInv, Synced, Journaled
  <2>6. Len(Log) = n /\ \A i \in 1 .. n : Log[i] = moves[i - 1]
    BY <2>5, DenseLog DEF SyncInv, SoloInv, AckInv
  <2>7. ~Pending'
    <3>1. \A u \in Tasks : task'[u] = IF u = t THEN Idle ELSE task[u]
      BY <1>1 DEF Ends, SyncInv, SoloInv, AckInv, Typed
    <3>2. \A u \in Tasks : ~Appending(task[u])
      BY <1>0, <1>1, <2>1, OneWriter DEF SyncInv, SoloInv, Single, OneProcess
    <3>3. ~Appending(Idle)
      BY DEF Appending, Idle
    <3> QED
      BY <3>1, <3>2, <3>3 DEF Pending
  <2>8. Journaled'
    BY <1>1 DEF SyncInv, Synced, Journaled
  <2>9. Mirrored(p)'
    <3>1. DOMAIN moves' = 0 .. (Len(Log) - 1)
      BY <1>1, <2>5, <2>6
    <3>2. \A k \in DOMAIN moves' : moves'[k] = Log[k + 1]
      BY <1>1, <2>5, <2>6
    <3>3. ASSUME NEW i \in 1 .. Len(Log)
          PROVE  /\ Log[i].seat = (i - 1) % NumPlayers
                 /\ Wins(Log[i]) => i = Len(Log) /\ Over(row.result)
      <4>1. i - 1 \in DOMAIN moves /\ Log[i] = moves[i - 1] /\ n \in Nat /\ i \in Nat
        BY <2>5, <2>6
      <4>2. /\ moves[i - 1].seat = (i - 1) % NumPlayers
            /\ Wins(moves[i - 1]) => i \notin DOMAIN moves /\ Over(row.result)
        <5>1. (i - 1) + 1 = i
          BY <4>1
        <5> QED
          BY <4>1, <5>1 DEF SyncInv, Synced, Journaled
      <4>3. i \notin DOMAIN moves => i = n
        BY <2>5, <2>6, <4>1
      <4> QED
        BY <2>6, <4>1, <4>2, <4>3
    <3> HIDE DEF Log
    <3> QED
      BY <2>2, <2>3, <2>7, <3>1, <3>2, <3>3 DEF Mirrored
  <2>10. Settled(p)'
    BY <1>1, <2>2, <2>3 DEF Settled
  <2>11. Guarded(p)'
    <3> HIDE DEF Log
    <3> QED
      BY <2>2, <2>3, <2>4 DEF Guarded
  <2> QED
    BY <2>2, <2>8, <2>9, <2>10, <2>11 DEF Synced
<1> QED
  BY <1>2, <1>3
-----------------------------------------------------------------------------
\* After a write the goroutine has at most the draw offer left, and an
\* operation that plays a move is still playing it.
LEMMA AfterWrite ==
  ASSUME SyncInv, NEW t \in Tasks, task[t].todo # <<>>, Continue(t)
  PROVE  /\ ~Appending(task'[t]) /\ ~Deciding(task'[t])
         /\ \A u \in Tasks \ {t} : task'[u] = task[u]
         /\ \A u \in Tasks : task[u].op \in {"move", "flag"} => task'[u].op = task[u].op
<1>1. /\ task'[t].todo # <<>> => Head(task'[t].todo) \in Offers
      /\ \A u \in Tasks \ {t} : task'[u] = task[u]
      /\ \/ task'[t] = Idle /\ task[t].op \notin {"move", "bot"}
         \/ task'[t] = [task[t] EXCEPT !.todo = Tail(@)]
  BY Continuing DEF SyncInv, SoloInv, AckInv
<1>2. task[t] \in Job /\ task[t].op # "flag"
  BY Worker DEF SyncInv
<1>3. task[t].op = "move" => task'[t].op = "move"
  BY <1>1, <1>2 DEF Job
<1> QED
  BY <1>1, <1>2, <1>3 DEF Appending, Deciding, Offers, Offer

LEMMA SyncSaveDrawOffer ==
  ASSUME SyncInv, NEW t \in Tasks, SaveDrawOffer(t) PROVE Synced'
<1>1. /\ task[t].todo # <<>> /\ Continue(t) /\ Head(task[t].todo).write = "offer"
      /\ UNCHANGED <<moves, slow, heap, cache, timer, faults>>
  BY DEF SaveDrawOffer, Writing
<1>2. row'.result = row.result
  BY DEF SaveDrawOffer, SyncInv, SoloInv, AckInv, Typed, Plain, Row
<1>3. \A u \in Tasks : /\ Appending(task'[u]) <=> Appending(task[u])
                       /\ Deciding(task'[u]) <=> Deciding(task[u])
  <2>1. ~Appending(task[t]) /\ ~Deciding(task[t])
    BY <1>1 DEF Appending, Deciding
  <2> QED
    BY <1>1, <2>1, AfterWrite
<1>4. \A p \in Pods : faults = 0 /\ cache[p] # Nil => Guarded(p)'
  BY <1>1, AfterWrite, GuardFrame DEF SyncInv
<1> QED
  BY <1>1, <1>2, <1>3, <1>4, SyncFrame DEF SyncInv

LEMMA SyncUpdateOutcome ==
  ASSUME SyncInv, NEW t \in Tasks, UpdateOutcome(t) PROVE Synced'
<1>1. /\ task[t].todo # <<>> /\ Continue(t) /\ Deciding(task[t]) /\ ~Appending(task[t])
      /\ UNCHANGED <<moves, slow, heap, cache, timer, faults>>
  BY DEF UpdateOutcome, Writing, Deciding, Appending
<1>2. row'.result = heap[cache[task[t].pod]].result
  <2>1. row'.result = Head(task[t].todo).result
    BY DEF UpdateOutcome, SyncInv, SoloInv, AckInv, Typed, Plain, Row
  <2> QED
    BY <1>1, <2>1, Worker DEF Working, SyncInv
<1>3. Over(row.result) => row'.result = row.result
  BY SoloWrite DEF SyncInv
<1>4. SUFFICES ASSUME faults = 0 PROVE Synced'
  BY <1>1 DEF Synced
<1>5. Pending' <=> Pending
  BY <1>1, AfterWrite DEF Pending
<1>6. Journaled'
  BY <1>1, <1>3, <1>4 DEF SyncInv, Synced, Journaled
<1>7. ASSUME NEW p \in Pods, cache[p] # Nil PROVE Mirrored(p)' /\ Settled(p)' /\ Guarded(p)'
  <2>1. Mirrored(p)'
    BY <1>1, <1>4, <1>5, <1>7 DEF SyncInv, Synced, Mirrored
  <2>2. p = task[t].pod
    BY <1>1, <1>7, Worker DEF SyncInv
  <2>3. Settled(p)'
    BY <1>1, <1>2, <2>2 DEF Settled
  <2>4. Guarded(p)'
    BY <1>1, <1>4, <1>7, AfterWrite, GuardFrame DEF SyncInv
  <2> QED
    BY <2>1, <2>3, <2>4
<1> QED
  BY <1>1, <1>6, <1>7 DEF Synced

\* The key of the table is free for the move being written.
LEMMA NextKey ==
  ASSUME SyncInv, faults = 0, NEW t \in Tasks, Appending(task[t])
  PROVE  LET h == heap[task[t].obj].hist
         IN  /\ Len(h) \in Nat \ {0} /\ DOMAIN moves = 0 .. (Len(h) - 2)
             /\ Head(task[t].todo).n = Len(h) - 1
             /\ Head(task[t].todo).move = h[Len(h)]
             /\ Mirrored(task[t].pod) /\ Pending
<1> DEFINE h == heap[task[t].obj].hist
<1>1. /\ task[t].op = "move" /\ cache[task[t].pod] = task[t].obj /\ task[t].obj \in Objs
      /\ cache[task[t].pod] # Nil /\ task[t].pod \in Pods
  BY OneWriter DEF SyncInv
<1>2. Pending /\ Mirrored(task[t].pod)
  BY <1>1 DEF Pending, SyncInv, Synced
<1>3. Len(h) \in Nat \ {0}
  <2>1. h \in Seq(Moves) /\ h # <<>>
    BY <1>1, Worker DEF SyncInv, SoloInv, AckInv, Typed, Rec, JobOK
  <2> QED
    BY <2>1, EmptySeq
<1>4. Head(task[t].todo).n = Len(h) - 1 /\ Head(task[t].todo).move = Last(h)
  BY <1>1 DEF SyncInv, SoloInv, AckInv, MovesInHand, InHand
<1> QED
  BY <1>1, <1>2, <1>3, <1>4 DEF Mirrored, Last

LEMMA SyncAppendMove ==
  ASSUME SyncInv, NEW t \in Tasks, AppendMove(t) PROVE Synced'
<1> DEFINE o == task[t].obj
           h == heap[o].hist
           n == Len(h) - 1
           w == Head(task[t].todo)
<1>1. /\ task[t].todo # <<>> /\ Continue(t) /\ Appending(task[t])
      /\ UNCHANGED <<heap, cache, timer, faults>>
  BY DEF AppendMove, Writing, Appending
<1>2. SUFFICES ASSUME faults = 0 PROVE Synced'
  BY <1>1 DEF Synced
<1>3. /\ Len(h) \in Nat \ {0} /\ DOMAIN moves = 0 .. (Len(h) - 2)
      /\ w.n = n /\ w.move = h[Len(h)]
      /\ Mirrored(task[t].pod) /\ Pending
  BY <1>1, <1>2, NextKey
<1>4. /\ task[t].op = "move" /\ cache[task[t].pod] = o /\ o \in Objs
      /\ \A u \in Tasks : Appending(task[u]) => u = t
      /\ \A p \in Pods : cache[p] # Nil => p = task[t].pod
      /\ task[t].pod \in Pods /\ cache[task[t].pod] # Nil
  BY <1>1, OneWriter DEF SyncInv
<1>5. ~Pending'
  BY <1>1, <1>4, AfterWrite DEF Pending
<1>6. row'.result = heap[o].result
  <2>1. row'.result = w.result
    BY DEF AppendMove, SyncInv, SoloInv, AckInv, Typed, Plain, Row
  <2> QED
    BY <1>1, <1>4, <2>1, Worker DEF Working, SyncInv
<1>7. /\ \A i \in 1 .. Len(h) :
           /\ h[i].seat = (i - 1) % NumPlayers
           /\ Wins(h[i]) => i = Len(h) /\ Over(heap[o].result)
      /\ \A k \in DOMAIN moves : moves[k] = h[k + 1]
  BY <1>3, <1>4 DEF Mirrored
<1>9. moves' = [k \in DOMAIN moves \cup {n} |-> IF k = n THEN h[Len(h)] ELSE moves[k]]
  BY <1>3 DEF AppendMove
<1> HIDE DEF h, o, w
<1>10. n \in Nat /\ DOMAIN moves' = 0 .. (Len(h) - 1)
  BY <1>3, <1>9
<1>11. \A k \in DOMAIN moves' : moves'[k] = h[k + 1]
  <2> SUFFICES ASSUME NEW k \in DOMAIN moves' PROVE moves'[k] = h[k + 1]
    OBVIOUS
  <2>1. CASE k = n
    BY <1>3, <1>9, <2>1
  <2>2. CASE k # n
    BY <1>7, <1>9, <2>2
  <2> QED
    BY <2>1, <2>2
<1>12. Journaled'
  <2>1. ASSUME NEW k \in DOMAIN moves'
        PROVE  /\ moves'[k].seat = k % NumPlayers
               /\ Wins(moves'[k]) => (k + 1) \notin DOMAIN moves' /\ Over(row'.result)
    <3>1. k \in Nat /\ k + 1 \in 1 .. Len(h) /\ (k + 1) - 1 = k
      BY <1>3, <1>10
    <3>2. /\ h[k + 1].seat = k % NumPlayers
          /\ Wins(h[k + 1]) => k + 1 = Len(h) /\ Over(heap[o].result)
      BY <1>7, <3>1
    <3>3. k + 1 = Len(h) => (k + 1) \notin DOMAIN moves'
      BY <1>3, <1>10, <3>1
    <3> QED
      BY <1>6, <1>11, <3>2, <3>3
  <2>2. \E l \in Nat : DOMAIN moves' = 0 .. (l - 1)
    BY <1>3, <1>10
  <2> QED
    BY <2>1, <2>2 DEF Journaled
<1>13. ASSUME NEW p \in Pods, cache[p] # Nil PROVE Mirrored(p)' /\ Settled(p)' /\ Guarded(p)'
  <2>1. cache'[p] = o /\ heap' = heap
    BY <1>1, <1>4, <1>13
  <2>2. Mirrored(p)'
    BY <1>5, <1>7, <1>10, <1>11, <2>1 DEF Mirrored, h
  <2>3. Settled(p)'
    BY <1>6, <2>1 DEF Settled
  <2>4. Guarded(p)'
    BY <1>1, <1>2, <1>13, AfterWrite, GuardFrame DEF SyncInv
  <2> QED
    BY <2>2, <2>3, <2>4
<1> QED
  BY <1>1, <1>12, <1>13 DEF Synced

\* No key is ever taken, and a failed statement is counted.
LEMMA SyncFailure ==
  ASSUME SyncInv, NEW t \in Tasks, AppendConflict(t) \/ StatementFails(t) PROVE Synced'
<1>1. CASE StatementFails(t)
  BY <1>1 DEF StatementFails, Synced, SyncInv, SoloInv, AckInv, Typed, Plain
<1>2. CASE AppendConflict(t)
  <2>1. Appending(task[t]) /\ Head(task[t].todo).n \in DOMAIN moves /\ faults' = faults
    BY <1>2 DEF AppendConflict, Writing, Appending
  <2>2. faults # 0
    BY <2>1, NextKey
  <2> QED
    BY <2>1, <2>2 DEF Synced
<1> QED
  BY <1>1, <1>2

LEMMA SyncMoveReturns ==
  ASSUME Alone, SyncInv, NEW t \in Tasks, MoveReturns(t) PROVE Synced'
<1> DEFINE p == task[t].pod
           o == task[t].obj
<1>1. /\ Ends(t) /\ UNCHANGED <<row, moves, slow, cache, faults>>
      /\ timer' = [timer EXCEPT ![p] = Armed(p, heap[o])]
      /\ heap' = Kept(Unlocks(t)) /\ task[t].op = "move" /\ task[t].todo = <<>>
  BY DEF MoveReturns, dbVars
<1>2. /\ p \in Pods /\ p \in Up /\ cache[p] = o /\ cache[p] # Nil /\ o \in Objs
      /\ \A q \in Pods : cache[q] # Nil => q = p
  BY <1>1, AtWork DEF SyncInv
<1>3. heap'[o].hist = heap[o].hist /\ heap'[o].result = heap[o].result
  <2>1. \A b \in Objs : Unlocks(t)[b].result = heap[b].result /\ Unlocks(t)[b].hist = heap[b].hist
    BY <1>1, Unlocking DEF SyncInv, SoloInv, AckInv
  <2>2. heap'[o] = Unlocks(t)[o]
    BY <1>1, <1>2, KeptCached DEF SyncInv
  <2> QED
    BY <1>2, <2>1, <2>2
<1>4. \A u \in Tasks : /\ Appending(task'[u]) <=> Appending(task[u])
                       /\ Deciding(task'[u]) <=> Deciding(task[u])
  <2>1. \A u \in Tasks : task'[u] = IF u = t THEN Idle ELSE task[u]
    BY <1>1 DEF Ends, SyncInv, SoloInv, AckInv, Typed
  <2> QED
    BY <1>1, <2>1 DEF Appending, Deciding, Idle
<1>5. ASSUME NEW q \in Pods, cache[q] # Nil PROVE Guarded(q)'
  <2>1. q = p /\ Owns(p)
    BY <1>2, <1>5 DEF Owns, SyncInv, SoloInv, Single, OneProcess
  <2>2. timer'[p] = Armed(p, heap[o])
    BY <1>1, <1>2 DEF SyncInv, SoloInv, AckInv, Typed, Plain
  <2>3. Timed /\ ~Over(heap[o].result) => timer'[p] = Len(heap[o].hist)
    BY <2>1, <2>2 DEF Armed
  <2> QED
    BY <1>1, <1>2, <1>3, <2>1, <2>3 DEF Guarded
<1> QED
  BY <1>1, <1>2, <1>3, <1>4, <1>5, SyncFrame DEF SyncInv

-----------------------------------------------------------------------------
LEMMA SyncStep ==
  ASSUME Alone
  PROVE  SyncInv /\ [Next]_vars => SyncInv'
<1> SUFFICES ASSUME SyncInv, [Next]_vars PROVE SyncInv'
  OBVIOUS
<1>0. SoloInv'
  BY SoloStep DEF SyncInv
<1>1. CASE UNCHANGED vars
  <2>1. UNCHANGED <<row, moves, slow, heap, cache, task, timer, faults>>
    BY <1>1 DEF vars
  <2>2. \A p \in Pods : faults = 0 /\ cache[p] # Nil => Guarded(p)'
    BY <2>1, GuardFrame DEF SyncInv
  <2>3. \A t \in Tasks : /\ Appending(task'[t]) <=> Appending(task[t])
                         /\ Deciding(task'[t]) <=> Deciding(task[t])
    BY <2>1
  <2>4. \A p \in Pods : cache[p] # Nil =>
            /\ heap'[cache[p]].hist = heap[cache[p]].hist
            /\ heap'[cache[p]].result = heap[cache[p]].result
    BY <2>1
  <2>5. Synced'
    BY <2>1, <2>2, <2>3, <2>4, SyncFrame DEF SyncInv
  <2> QED
    BY <1>0, <2>5 DEF SyncInv
<1>2. ASSUME NEW p \in Pods,
             Boot(p) \/ Crash(p) \/ Claim(p) \/ StandDown(p) \/ Invalidate(p) \/ AdoptGame(p)
      PROVE  Synced'
  <2>1. ~Claim(p) /\ ~StandDown(p) /\ ~Invalidate(p)
    BY DEF Alone, Claim, StandDown, Invalidate, SyncInv, SoloInv, Single, OneProcess
  <2> QED
    BY <1>2, <2>1, SyncBoot, SyncCrash, SyncAdopt
<1>3. ASSUME NEW o \in Objs, Tick(o) \/ BotReturns(o) PROVE Synced'
  <2>1. ~BotReturns(o)
    BY DEF BotReturns, SyncInv, SoloInv, Single, OneProcess
  <2> QED
    BY <1>3, <2>1, SyncTick
<1>4. ASSUME NEW t \in Tasks, Begin(t) PROVE Synced'
  BY <1>4, SyncBegin DEF Begin
<1>5. ASSUME NEW t \in Tasks, Handle(t) PROVE Synced'
  <2>1. CASE LoadMoves(t)
    BY <2>1, SyncLoadMoves
  <2>2. CASE Refused(t) \/ HandleFlagReturns(t) \/ LoadFails(t)
    BY <2>2, SyncRefused
  <2>3. CASE \E m \in Moves : PlayMove(t, m)
    BY <2>3, SyncPlayMove
  <2>4. CASE \/ HandleFlag(t)
             \/ \E s \in Seats : Resign(t, s) \/ AcceptDraw(t, s) \/ DisconnectTimeout(t, s)
    BY <2>4, SyncDecisions
  <2>5. CASE DeclineDraw(t) \/ \E s \in Seats : OfferDraw(t, s)
    BY <2>5, SyncOffer
  <2> QED
    BY <1>5, <2>1, <2>2, <2>3, <2>4, <2>5 DEF Handle
<1>6. ASSUME NEW t \in Tasks, Write(t) \/ StatementFails(t) PROVE Synced'
  <2>1. ~OutcomeFenced(t) /\ ~BotPlayed(t)
    <3>1. task[t].todo # <<>> => task[t].pod \in Up
      BY Worker DEF SyncInv
    <3> QED
      BY <3>1, Worker DEF OutcomeFenced, BotPlayed, Working, Writing, Fenced, Owns,
                          SyncInv, SoloInv, Single, OneProcess
  <2>2. CASE AppendConflict(t) \/ StatementFails(t)
    BY <2>2, SyncFailure
  <2> QED
    BY <1>6, <2>1, <2>2, SyncAppendMove, SyncSaveDrawOffer, SyncUpdateOutcome,
       SyncMoveReturns DEF Write
<1>7. ASSUME NEW t \in Tasks, Bot(t) PROVE FALSE
  BY <1>7 DEF Bot, PlayBotTurn, SyncInv, SoloInv, Single, OneProcess
<1>8. ASSUME NEW t \in Tasks, NEW p \in Pods, Fire(t, p) PROVE Synced'
  BY <1>8, SyncFire
<1> QED
  BY <1>0, <1>1, <1>2, <1>3, <1>4, <1>5, <1>6, <1>7, <1>8 DEF Next, SyncInv

\* PlayMove, AppendMove and LoadGame: as long as no statement has failed the
\* table is the log of one legal game, without gaps, in turn, and with nothing
\* after a winning move, which has finished the row.
THEOREM JournalStaysInOrder ==
  ASSUME Alone
  PROVE  Spec => []JournalInOrder
<1>1. SyncInv => JournalInOrder
  <2> SUFFICES ASSUME SyncInv, faults = 0, NEW n \in DOMAIN moves
               PROVE  /\ n = 0 \/ n - 1 \in DOMAIN moves
                      /\ moves[n].seat = n % NumPlayers
                      /\ Wins(moves[n]) => (n + 1) \notin DOMAIN moves /\ Over(row.result)
    BY DEF JournalInOrder
  <2>1. Journaled
    BY DEF SyncInv, Synced
  <2>2. PICK k \in Nat : DOMAIN moves = 0 .. (k - 1)
    BY <2>1 DEF Journaled
  <2>3. n = 0 \/ n - 1 \in DOMAIN moves
    BY <2>2
  <2> QED
    BY <2>1, <2>3 DEF Journaled
<1> QED
  BY <1>1, SyncInit, SyncStep, PTL DEF Spec

\* With every goroutine done, the cached record is what LoadGame would rebuild
\* from the row and the table: the moves PlayMove, the outcomes EndGame wrote.
THEOREM MemoryFollowsJournal ==
  ASSUME Alone
  PROVE  Spec => []MemoryIsJournal
<1>1. SyncInv => MemoryIsJournal
  <2> SUFFICES ASSUME SyncInv, faults = 0, NEW p \in Pods, cache[p] # Nil, ~Busy(p)
               PROVE  heap[cache[p]].result = row.result /\ heap[cache[p]].hist = Log
    BY DEF MemoryIsJournal
  <2> DEFINE h == heap[cache[p]].hist
  <2>1. p \in Up /\ cache[p] \in Objs /\ heap[cache[p]] \in Rec
    BY DEF SyncInv, SoloInv, AckInv, Single, OneProcess, Typed, Plain
  <2>2. \A t \in Tasks : ~Appending(task[t]) /\ ~Deciding(task[t])
    <3> SUFFICES ASSUME NEW t \in Tasks, task[t].todo # <<>> PROVE FALSE
      BY DEF Appending, Deciding
    <3>1. /\ task[t].pod \in Up /\ task[t].op \notin {"idle", "ready", "flag"}
      BY Worker DEF SyncInv
    <3> QED
      BY <2>1, <3>1 DEF Busy, SyncInv, SoloInv, Single, OneProcess
  <2>3. heap[cache[p]].result = row.result
    BY <2>2 DEF SyncInv, Synced, Settled
  <2>4. /\ DOMAIN moves = 0 .. (Len(h) - 1)
        /\ \A n \in DOMAIN moves : moves[n] = h[n + 1]
    BY <2>2 DEF SyncInv, Synced, Mirrored, Pending
  <2>5. h \in Seq(Moves) /\ Len(h) \in Nat
    BY <2>1, LenProperties DEF Rec
  <2>6. Len(Log) = Len(h) /\ \A i \in 1 .. Len(h) : Log[i] = moves[i - 1]
    BY <2>4, <2>5, DenseLog DEF SyncInv, SoloInv, AckInv
  <2>7. Log \in Seq(Moves)
    BY LogType DEF SyncInv, SoloInv, AckInv
  <2> HIDE DEF h, Log
  <2>8. \A i \in 1 .. Len(h) : Log[i] = h[i]
    <3> SUFFICES ASSUME NEW i \in 1 .. Len(h) PROVE Log[i] = h[i]
      OBVIOUS
    <3>1. i - 1 \in DOMAIN moves /\ (i - 1) + 1 = i
      BY <2>4, <2>5
    <3> QED
      BY <2>4, <2>6, <3>1
  <2>9. h = Log
    BY <2>5, <2>6, <2>7, <2>8, SeqEqual
  <2> QED
    BY <2>3, <2>9 DEF h
<1> QED
  BY <1>1, SyncInit, SyncStep, PTL DEF Spec

\* The owner of a live timed game never leaves it without a clock: armClock has
\* armed the timer for the turn that is running, or its handler is under way.
THEOREM LiveGamesAreTimed ==
  ASSUME Alone
  PROVE  Spec => []ClockGuarded
<1>1. SyncInv => ClockGuarded
  <2> SUFFICES ASSUME SyncInv, NEW p \in believes, faults = 0, Timed, cache[p] # Nil,
                      ~Busy(p), ~Over(heap[cache[p]].result)
               PROVE  \/ timer[p] = Len(heap[cache[p]].hist)
                      \/ \E t \in Tasks : task[t].op = "flag" /\ task[t].pod = p
    BY DEF ClockGuarded
  <2>1. p \in Pods
    BY DEF SyncInv, SoloInv, AckInv, Typed, Plain
  <2>2. Guarded(p)
    BY <2>1 DEF SyncInv, Synced
  <2>3. ASSUME NEW t \in Tasks, task[t].op \in {"move", "flag"} PROVE task[t].pod = p
    BY <2>1, <2>3, AtWork DEF SyncInv
  <2> QED
    BY <2>2, <2>3 DEF Guarded, Busy
<1> QED
  BY <1>1, SyncInit, SyncStep, PTL DEF Spec
=============================================================================
