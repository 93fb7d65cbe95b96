------------------------- MODULE EventStreamProofs -------------------------
(***************************************************************************)
(* Proofs about EventStream, for any pods, writers, buffers and bounds:    *)
(* its types, that no event is dispatched twice or out of order, and that  *)
(* a session misses nothing as long as one fetch returns the whole gap.    *)
(*                                                                         *)
(* FeedInv: whatever is on its way to the browser is a row of the journal, *)
(* a snapshot, or bears no seq; and what the browser has dispatched lies   *)
(* in order below lastSeq.  SessionInv: until a connection breaks, there   *)
(* is one snapshot, before everything else.                                *)
(***************************************************************************)
EXTENDS EventStream, FunctionTheorems, FiniteSetTheorems, SequenceTheorems,
        WellFoundedInduction, TLAPS

JournalOK(rows) ==
  /\ rows \in Seq(Event)
  /\ \A s \in 1 .. Len(rows) : rows[s].seq = s /\ rows[s].hello = FALSE

\* What a subscriber may be sent.
Sent(rows) ==
  {e \in Event : /\ e.seq <= Len(rows)
                 /\ e.seq # NoSeq /\ e.hello = FALSE => e = rows[e.seq]}

WriterJob == [step : {"idle", "changed", "built", "stored"},
              kind : {"state", "chat"}, ver : Nat, seq : Nat]
Published(wr, rows) ==
  /\ wr \in [Writers -> WriterJob]
  /\ \A w \in Writers : wr[w].step = "stored" => wr[w].seq \in 1 .. Len(rows)

\* The browser has dispatched messages up to lastSeq, in order.
Reader(c, rows) ==
  /\ c \in [lastSeq : Nat, view : Nat, joined : Nat, heard : Seq(Nat)]
  /\ c.lastSeq <= Len(rows)
  /\ \A i \in DOMAIN c.heard : c.heard[i] \in 1 .. c.lastSeq
  /\ \A i, j \in DOMAIN c.heard : i < j => c.heard[i] < c.heard[j]

Channel(ch, at, rows) ==
  /\ ch \in Seq(Sent(rows))
  /\ Len(ch) <= Buffer + 1
  /\ at # "open" => Len(ch) <= Buffer

Linked == /\ link \in {"up", "waiting", "offline"}
          /\ attempt \in 0 .. MaxAttempts + 1
          /\ link # "offline" => attempt <= MaxAttempts

Socketed == ws \in [at : {"closed", "got", "subscribed", "built", "open"},
                    pod : Pods, ver : Nat]

Counters == /\ broken \subseteq {"link", "fetch", "tag"}
            /\ drops \in 0 .. MaxDrops /\ faults \in 0 .. MaxFaults

\* The inductive invariant behind OnceInOrder.
FeedInv ==
  /\ truth \in Nat /\ JournalOK(log) /\ Published(writer, log)
  /\ bus \in [Pods -> Seq(1 .. Len(log))]
  /\ Socketed /\ Channel(chan, ws.at, log) /\ inq \in Seq(Sent(log))
  /\ Linked /\ Reader(client, log) /\ Counters
-----------------------------------------------------------------------------

(* Sequences.                                                              *)

LEMMA AppendMore ==
  ASSUME NEW X, NEW q \in Seq(X), NEW v \in X
  PROVE  /\ Append(q, v) \in Seq(X) /\ Append(q, v) # <<>>
         /\ Len(q) \in Nat /\ Len(Append(q, v)) = Len(q) + 1
         /\ DOMAIN q = 1 .. Len(q) /\ DOMAIN Append(q, v) = 1 .. (Len(q) + 1)
         /\ \A i \in 1 .. Len(q) : Append(q, v)[i] = q[i]
         /\ Append(q, v)[Len(q) + 1] = v
<1>1. Append(q, v) \in Seq(X) /\ Append(q, v) # <<>> /\ Len(Append(q, v)) = Len(q) + 1
  BY AppendProperties
<1>2. Append(q, v)[Len(q) + 1] = v /\ \A i \in 1 .. Len(q) : Append(q, v)[i] = q[i]
  BY AppendProperties
<1>3. Len(q) \in Nat /\ DOMAIN q = 1 .. Len(q)
  BY LenProperties
<1>4. DOMAIN Append(q, v) = 1 .. (Len(q) + 1)
  BY <1>1, LenProperties
<1> QED
  BY <1>1, <1>2, <1>3, <1>4

LEMMA Wider ==
  ASSUME NEW X, NEW Y, X \subseteq Y PROVE Seq(X) \subseteq Seq(Y)
<1> SUFFICES ASSUME NEW q \in Seq(X) PROVE q \in Seq(Y)
  OBVIOUS
<1>1. Len(q) \in Nat /\ q \in [1 .. Len(q) -> X]
  BY LenProperties
<1>2. q \in [1 .. Len(q) -> Y]
  BY <1>1
<1> QED
  BY <1>1, <1>2, SeqDef

-----------------------------------------------------------------------------
(* The journal grows.                                                      *)

LEMMA JournalGrows ==
  ASSUME NEW rows, JournalOK(rows), NEW k \in {"state", "chat"}, NEW v \in Nat
  PROVE  LET more == Append(rows, Row(Len(rows) + 1, k, v))
         IN  /\ JournalOK(more) /\ Len(rows) \in Nat /\ Len(more) = Len(rows) + 1
             /\ \A s \in 1 .. Len(rows) : more[s] = rows[s]
             /\ Sent(rows) \subseteq Sent(more)
<1> DEFINE e == Row(Len(rows) + 1, k, v)
           more == Append(rows, e)
<1>1. Len(rows) \in Nat /\ rows \in Seq(Event)
  BY LenProperties DEF JournalOK
<1>2. e \in Event /\ e.seq = Len(rows) + 1 /\ e.hello = FALSE
  BY <1>1 DEF Row, Event
<1> HIDE DEF e
<1>3. /\ more \in Seq(Event) /\ Len(more) = Len(rows) + 1
      /\ \A s \in 1 .. Len(rows) : more[s] = rows[s]
      /\ more[Len(rows) + 1] = e
  BY <1>1, <1>2, AppendMore
<1> HIDE DEF more
<1>4. JournalOK(more)
  BY <1>1, <1>2, <1>3 DEF JournalOK
<1>5. ASSUME NEW x \in Sent(rows) PROVE x \in Sent(more)
  <2>1. x \in Event /\ x.seq \in Nat /\ x.seq <= Len(rows)
    BY DEF Sent, Event
  <2>2. x.seq # NoSeq /\ x.hello = FALSE => x = more[x.seq]
    BY <1>1, <1>3, <2>1 DEF Sent, NoSeq
  <2> QED
    BY <1>1, <1>3, <2>1, <2>2 DEF Sent
<1> QED
  BY <1>1, <1>3, <1>4, <1>5 DEF e, more

LEMMA RowsAreSent ==
  ASSUME NEW rows, JournalOK(rows), NEW s \in 1 .. Len(rows)
  PROVE  rows[s] \in Sent(rows)
<1>1. rows[s] \in Event /\ rows[s].seq = s /\ s <= Len(rows)
  BY LenProperties DEF JournalOK
<1> QED
  BY <1>1 DEF Sent

LEMMA UnnumberedIsSent ==
  ASSUME NEW rows, JournalOK(rows), NEW k \in {"state", "chat"}, NEW v \in Nat
  PROVE  Row(NoSeq, k, v) \in Sent(rows)
<1>1. Len(rows) \in Nat
  BY LenProperties DEF JournalOK
<1> QED
  BY <1>1 DEF Sent, Row, Event, NoSeq

LEMMA HelloIsSent ==
  ASSUME NEW rows, JournalOK(rows), NEW s \in Nat, s <= Len(rows), NEW v \in Nat
  PROVE  Hello(s, v) \in Sent(rows)
BY DEF Sent, Hello, Event

LEMMA DeliverKeeps ==
  ASSUME NEW p, NEW ev \in Sent(log), Deliver(p, ev), Channel(chan, ws.at, log)
  PROVE  Channel(chan', ws.at, log)
<1>1. CASE chan' = chan
  BY <1>1
<1>2. CASE Len(chan) < Buffer /\ chan' = Append(chan, ev)
  <2>1. /\ chan' \in Seq(Sent(log)) /\ Len(chan) \in Nat /\ Len(chan') = Len(chan) + 1
    BY <1>2, AppendMore DEF Channel
  <2> QED
    BY <1>2, <2>1, SizeAssumption DEF Channel
<1> QED
  BY <1>1, <1>2 DEF Deliver

-----------------------------------------------------------------------------
(* The browser.                                                            *)

LEMMA AppliedReader ==
  ASSUME NEW rows, JournalOK(rows), NEW c, Reader(c, rows), NEW e \in Sent(rows),
         c.lastSeq # NoSeq /\ e.seq # NoSeq => e.seq > c.lastSeq
  PROVE  /\ Reader(Applied(c, e), rows)
         /\ Applied(c, e).lastSeq = IF e.seq = NoSeq THEN c.lastSeq ELSE e.seq
<1> DEFINE d == Applied(c, e)
           last == IF e.seq = NoSeq THEN c.lastSeq ELSE e.seq
           said == IF e.kind = "chat" /\ e.seq # NoSeq THEN Append(c.heard, e.seq)
                                                       ELSE c.heard
           from == IF c.lastSeq # NoSeq \/ e.seq = NoSeq THEN c.joined
                   ELSE IF e.hello THEN e.seq ELSE e.seq - 1
           seen == IF e.kind = "state" THEN e.ver ELSE c.view
<1>1. d = [lastSeq |-> last, view |-> seen, joined |-> from, heard |-> said]
  BY DEF Applied
<1>2. /\ e.seq \in Nat /\ e.ver \in Nat /\ e.seq <= Len(rows) /\ Len(rows) \in Nat
      /\ c.lastSeq \in Nat /\ c.view \in Nat /\ c.joined \in Nat /\ c.heard \in Seq(Nat)
      /\ c.lastSeq <= Len(rows)
  BY LenProperties DEF Sent, Event, Reader, JournalOK
<1>3. last \in Nat /\ last <= Len(rows) /\ last >= c.lastSeq /\ seen \in Nat
  BY <1>2 DEF NoSeq
<1>4. from \in Nat
  BY <1>2 DEF NoSeq
<1>5. /\ said \in Seq(Nat) /\ \A i \in DOMAIN said : said[i] \in 1 .. last
      /\ \A i, j \in DOMAIN said : i < j => said[i] < said[j]
  <2>1. CASE said = c.heard
    BY <1>2, <1>3, <2>1 DEF Reader
  <2>2. CASE e.seq # NoSeq /\ said = Append(c.heard, e.seq)
    <3>1. PICK h \in Seq(Nat) : h = c.heard
      BY <1>2
    <3>2. /\ said \in Seq(Nat) /\ Len(h) \in Nat /\ DOMAIN h = 1 .. Len(h)
          /\ DOMAIN said = 1 .. (Len(h) + 1) /\ said[Len(h) + 1] = e.seq
          /\ \A i \in 1 .. Len(h) : said[i] = h[i]
      BY <1>2, <2>2, <3>1, AppendMore
    <3>3. \A i \in 1 .. Len(h) : h[i] \in 1 .. c.lastSeq /\ h[i] < e.seq
      <4>1. \A i \in DOMAIN h : h[i] \in 1 .. c.lastSeq
        BY <3>1 DEF Reader
      <4>2. PICK m, n \in Nat : m = c.lastSeq /\ n = e.seq /\ n > m
        BY <1>2, <2>2 DEF NoSeq
      <4>3. \A i \in 1 .. Len(h) : h[i] \in 1 .. m
        BY <3>2, <4>1, <4>2
      <4>4. \A i \in 1 .. Len(h) : h[i] < n
        BY <4>2, <4>3
      <4> QED
        BY <4>2, <4>3, <4>4
    <3>4. \A i, j \in 1 .. Len(h) : i < j => h[i] < h[j]
      BY <3>1, <3>2 DEF Reader
    <3> HIDE DEF said
    <3>5. last = e.seq
      BY <2>2
    <3>6. \A i \in 1 .. (Len(h) + 1) : i \in 1 .. Len(h) \/ i = Len(h) + 1
      BY <3>2
    <3>7. \A i \in DOMAIN said : said[i] \in 1 .. last
      <4>1. e.seq \in 1 .. last
        BY <1>2, <2>2, <3>5 DEF NoSeq
      <4>2. PICK m, n \in Nat : m = c.lastSeq /\ n = last /\ m <= n
        BY <1>2, <1>3
      <4>3. \A i \in 1 .. Len(h) : said[i] \in 1 .. m
        BY <3>2, <3>3, <4>2
      <4>4. \A i \in 1 .. Len(h) : said[i] \in 1 .. n
        BY <4>2, <4>3
      <4> QED
        BY <3>2, <3>6, <4>1, <4>2, <4>4
    <3>8. \A i, j \in DOMAIN said : i < j => said[i] < said[j]
      BY <3>2, <3>3, <3>4, <3>6
    <3> QED
      BY <3>2, <3>7, <3>8
  <2> QED
    BY <2>1, <2>2
<1> HIDE DEF last, said, from, seen
<1>6. Reader(d, rows) /\ d.lastSeq = last
  BY <1>1, <1>3, <1>4, <1>5 DEF Reader
<1> QED
  BY <1>6 DEF last

LEMMA Least ==
  ASSUME NEW S \in SUBSET Nat, S # {} PROVE \E m \in S : \A n \in S : m <= n
<1> DEFINE R == OpToRel(<, Nat)
<1>1. IsWellFoundedOn(R, Nat)
  BY NatLessThanWellFounded, Zenon
<1>2. \E m \in S : \A n \in S : ~ (<<n, m>> \in R)
  <2> HIDE DEF R
  <2> QED
    BY <1>1, WFMin
<1>3. PICK m \in S : \A n \in S : ~ (<<n, m>> \in R)
  BY <1>2
<1>4. ASSUME NEW n \in S PROVE m <= n
  <2>1. n \in Nat /\ m \in Nat /\ ~ (<<n, m>> \in R)
    BY <1>3
  <2>2. ~ (n < m)
    BY <2>1 DEF OpToRel
  <2> HIDE DEF R
  <2> QED
    BY <2>1, <2>2
<1> QED
  BY <1>4

\* Induction, with a set for the formula.
LEMMA Climb ==
  ASSUME NEW S, 0 \in S, \A k \in Nat : k \in S => k + 1 \in S
  PROVE  Nat \subseteq S
<1> SUFFICES ASSUME Nat \ S # {} PROVE FALSE
  OBVIOUS
<1>1. PICK m \in Nat \ S : \A n \in Nat \ S : m <= n
  <2>1. Nat \ S \in SUBSET Nat
    OBVIOUS
  <2> QED
    BY <2>1, Least
<1>2. m - 1 \in Nat /\ m - 1 \in S
  BY <1>1
<1> QED
  BY <1>1, <1>2

\* The loop of fetchCatchup is well defined: some function gives what the
\* browser knows after each row.
Steps(c, rows, f, n) ==
  f = [i \in 0 .. n |-> IF i = 0 THEN c ELSE Applied(f[i - 1], rows[c.lastSeq + i])]

LEMMA StepsExist ==
  ASSUME NEW c, NEW rows, NEW n \in Nat PROVE \E f : Steps(c, rows, f, n)
<1> DEFINE S == {k \in Nat : \E f : Steps(c, rows, f, k)}
<1>1. 0 \in S
  <2> DEFINE f == [i \in 0 .. 0 |-> c]
  <2>1. Steps(c, rows, f, 0)
    BY DEF Steps
  <2> QED
    BY <2>1
<1>2. ASSUME NEW k \in Nat, k \in S PROVE k + 1 \in S
  <2>1. PICK f : Steps(c, rows, f, k)
    BY <1>2
  <2> DEFINE g == [i \in 0 .. (k + 1) |->
                     IF i = k + 1 THEN Applied(f[k], rows[c.lastSeq + (k + 1)]) ELSE f[i]]
  <2>2. ASSUME NEW i \in 0 .. (k + 1)
        PROVE  g[i] = IF i = 0 THEN c ELSE Applied(g[i - 1], rows[c.lastSeq + i])
    <3>1. CASE i = k + 1
      BY <3>1
    <3>2. CASE i # k + 1
      <4>1. i \in 0 .. k /\ g[i] = f[i] /\ (i # 0 => g[i - 1] = f[i - 1])
        BY <3>2
      <4>2. f[i] = IF i = 0 THEN c ELSE Applied(f[i - 1], rows[c.lastSeq + i])
        BY <2>1, <4>1 DEF Steps
      <4> QED
        BY <4>1, <4>2
    <3> QED
      BY <3>1, <3>2
  <2>3. g = [i \in 0 .. (k + 1) |-> g[i]]
    OBVIOUS
  <2> HIDE DEF g
  <2>4. Steps(c, rows, g, k + 1)
    BY <2>2, <2>3 DEF Steps
  <2> QED
    BY <2>4
<1> HIDE DEF S
<1>3. Nat \subseteq S
  BY <1>1, <1>2, Climb
<1> QED
  BY <1>3 DEF S

\* What has been heard since the first seq the browser learnt.
HeardAll(c, rows) ==
  c.lastSeq # NoSeq =>
    /\ c.joined <= c.lastSeq
    /\ Range(c.heard) = {s \in c.joined + 1 .. c.lastSeq : rows[s].kind = "chat"}

\* The next row, or the first, or a snapshot if nothing was known before.
LEMMA AppliedHeardAll ==
  ASSUME NEW rows, JournalOK(rows), NEW c, Reader(c, rows), HeardAll(c, rows),
         NEW e \in Sent(rows), e.hello # FALSE => c.lastSeq = NoSeq /\ e.kind = "state",
         c.lastSeq # NoSeq /\ e.seq # NoSeq => e.seq = c.lastSeq + 1
  PROVE  HeardAll(Applied(c, e), rows)
<1> DEFINE d == Applied(c, e)
<1>1. /\ e \in Event /\ e.seq \in Nat /\ e.seq <= Len(rows) /\ Len(rows) \in Nat
      /\ c.lastSeq \in Nat /\ c.joined \in Nat /\ c.heard \in Seq(Nat)
  BY LenProperties DEF Sent, Event, Reader, JournalOK
<1>2. CASE e.seq = NoSeq
  <2>1. d.lastSeq = c.lastSeq /\ d.joined = c.joined /\ d.heard = c.heard
    BY <1>2 DEF Applied
  <2> HIDE DEF d
  <2> QED
    BY <2>1 DEF HeardAll, d
<1>3. CASE e.seq # NoSeq /\ e.hello # FALSE
  <2>1. c.lastSeq = NoSeq /\ e.kind = "state" /\ e.hello = TRUE
    BY <1>1, <1>3 DEF Event
  <2>2. d.lastSeq = e.seq /\ d.joined = e.seq /\ d.heard = c.heard
    BY <1>3, <2>1 DEF Applied
  <2>3. DOMAIN c.heard = {}
    BY <2>1 DEF Reader, NoSeq
  <2>4. Range(d.heard) = {}
    BY <2>2, <2>3 DEF Range
  <2>5. e.seq + 1 .. e.seq = {}
    BY <1>1
  <2> HIDE DEF d
  <2> QED
    BY <1>1, <2>2, <2>4, <2>5 DEF HeardAll, d
<1>4. CASE e.seq # NoSeq /\ e.hello = FALSE
  <2>1. e = rows[e.seq]
    BY <1>4 DEF Sent
  <2>2. PICK from \in Nat :
           /\ d.joined = from /\ from <= e.seq - 1
           /\ Range(c.heard) = {s \in from + 1 .. e.seq - 1 : rows[s].kind = "chat"}
    <3>1. CASE c.lastSeq = NoSeq
      <4>1. d.joined = e.seq - 1 /\ e.seq - 1 \in Nat
        BY <1>1, <1>4, <3>1 DEF Applied, NoSeq
      <4>2. DOMAIN c.heard = {}
        BY <3>1 DEF Reader, NoSeq
      <4>3. Range(c.heard) = {}
        BY <4>2 DEF Range
      <4>4. (e.seq - 1) + 1 .. e.seq - 1 = {}
        BY <1>1
      <4>5. {s \in (e.seq - 1) + 1 .. e.seq - 1 : rows[s].kind = "chat"} = {}
        BY <4>4
      <4> HIDE DEF d
      <4> QED
        BY <1>1, <4>1, <4>3, <4>5
    <3>2. CASE c.lastSeq # NoSeq
      <4>1. d.joined = c.joined /\ c.joined <= c.lastSeq /\ e.seq = c.lastSeq + 1
        BY <1>4, <3>2 DEF Applied, HeardAll
      <4>2. Range(c.heard) = {s \in c.joined + 1 .. c.lastSeq : rows[s].kind = "chat"}
        BY <3>2 DEF HeardAll
      <4>3. e.seq - 1 = c.lastSeq
        BY <1>1, <4>1
      <4> HIDE DEF d
      <4> QED
        BY <1>1, <4>1, <4>2, <4>3
    <3> QED
      BY <3>1, <3>2
  <2>3. d.lastSeq = e.seq
    BY <1>4 DEF Applied
  <2>4. Range(d.heard) = {s \in from + 1 .. e.seq : rows[s].kind = "chat"}
    <3>1. \A s \in from + 1 .. e.seq : s \in from + 1 .. e.seq - 1 \/ s = e.seq
      BY <1>1
    <3>2. e.seq \in from + 1 .. e.seq /\ \A s \in from + 1 .. e.seq - 1 : s \in from + 1 .. e.seq
      BY <1>1, <2>2
    <3>3. CASE e.kind = "chat"
      <4>1. d.heard = Append(c.heard, e.seq)
        BY <1>4, <3>3 DEF Applied
      <4>2. PICK h \in Seq(Nat) : h = c.heard
        BY <1>1
      <4>3. /\ DOMAIN d.heard = 1 .. (Len(h) + 1) /\ DOMAIN h = 1 .. Len(h) /\ Len(h) \in Nat
            /\ d.heard[Len(h) + 1] = e.seq /\ \A i \in 1 .. Len(h) : d.heard[i] = h[i]
        BY <1>1, <4>1, <4>2, AppendMore
      <4> HIDE DEF d
      <4>4. \A i \in 1 .. (Len(h) + 1) : i \in 1 .. Len(h) \/ i = Len(h) + 1
        BY <4>3
      <4>5. \A i \in 1 .. Len(h) : i \in 1 .. (Len(h) + 1)
        BY <4>3
      <4>6. Len(h) + 1 \in 1 .. (Len(h) + 1)
        BY <4>3
      <4>7. Range(d.heard) = Range(h) \cup {e.seq}
        BY <4>3, <4>4, <4>5, <4>6 DEF Range
      <4> QED
        BY <2>1, <2>2, <3>1, <3>2, <3>3, <4>2, <4>7
    <3>4. CASE e.kind # "chat"
      <4>1. d.heard = c.heard
        BY <3>4 DEF Applied
      <4> HIDE DEF d
      <4> QED
        BY <2>1, <2>2, <3>1, <3>2, <3>4, <4>1
    <3> QED
      BY <3>3, <3>4
  <2> HIDE DEF d
  <2>5. HeardAll(d, rows)
    BY <1>1, <2>2, <2>3, <2>4 DEF HeardAll
  <2> QED
    BY <2>5 DEF d
<1> QED
  BY <1>2, <1>3, <1>4

LEMMA FetchedReader ==
  ASSUME FeedInv
  PROVE  /\ Reader(Fetched, log)
         /\ Fetched.lastSeq = IF client.lastSeq + Limit < Len(log) THEN client.lastSeq + Limit
                                                                   ELSE Len(log)
         /\ HeardAll(client, log) => HeardAll(Fetched, log)
<1> DEFINE m == IF client.lastSeq + Limit < Len(log) THEN Limit ELSE Len(log) - client.lastSeq
           F == CHOOSE f : Steps(client, log, f, m)
<1>1. /\ JournalOK(log) /\ Reader(client, log) /\ Len(log) \in Nat /\ client.lastSeq \in Nat
      /\ client.lastSeq <= Len(log) /\ Limit \in Nat
  BY SizeAssumption, LenProperties DEF FeedInv, JournalOK, Reader
<1>2. m \in Nat /\ client.lastSeq + m <= Len(log)
  BY <1>1
<1>3. Steps(client, log, F, m)
  <2> HIDE DEF m
  <2> QED
    BY <1>2, StepsExist
<1>4. Fetched = F[m]
  BY DEF Fetched, Steps
<1>5. PICK f : f = F
  OBVIOUS
<1>6. PICK n \in Nat : n = m
  BY <1>2
<1> HIDE DEF F, m
<1>7. Steps(client, log, f, n) /\ Fetched = f[n] /\ client.lastSeq + n <= Len(log)
  BY <1>2, <1>3, <1>4, <1>5, <1>6
<1> DEFINE Good(d, i) == /\ Reader(d, log) /\ d.lastSeq = client.lastSeq + i
                         /\ HeardAll(client, log) => HeardAll(d, log)
           S == {i \in Nat : i <= n => Good(f[i], i)}
<1>8. 0 \in S
  <2>1. f[0] = client
    BY <1>7 DEF Steps
  <2> QED
    BY <1>1, <2>1
<1>9. ASSUME NEW i \in Nat, i \in S PROVE i + 1 \in S
  <2> SUFFICES ASSUME i + 1 <= n PROVE Good(f[i + 1], i + 1)
    OBVIOUS
  <2> DEFINE e == log[client.lastSeq + (i + 1)]
             d == f[i]
  <2>1. i + 1 \in 0 .. n /\ i + 1 # 0 /\ (i + 1) - 1 = i /\ i <= n
    OBVIOUS
  <2>2. f[i + 1] = Applied(d, e)
    BY <1>7, <2>1 DEF Steps
  <2>3. Good(d, i)
    BY <1>9, <2>1
  <2>4. client.lastSeq + (i + 1) \in 1 .. Len(log)
    BY <1>1, <1>7
  <2>5. /\ e.seq = client.lastSeq + (i + 1) /\ e.hello = FALSE /\ e \in Sent(log)
    BY <1>1, <2>4, RowsAreSent DEF JournalOK
  <2> HIDE DEF e
  <2>6. e.seq = d.lastSeq + 1 /\ e.seq > d.lastSeq /\ e.seq # NoSeq
    BY <1>1, <2>3, <2>5 DEF NoSeq
  <2>7. Reader(Applied(d, e), log) /\ Applied(d, e).lastSeq = e.seq
    <3>1. Reader(d, log)
      BY <2>3
    <3> HIDE DEF d
    <3> QED
      BY <1>1, <2>5, <2>6, <3>1, AppliedReader
  <2>8. HeardAll(client, log) => HeardAll(Applied(d, e), log)
    <3>1. Reader(d, log) /\ (HeardAll(client, log) => HeardAll(d, log))
      BY <2>3
    <3> HIDE DEF d
    <3> QED
      BY <1>1, <2>5, <2>6, <3>1, AppliedHeardAll
  <2> QED
    BY <2>2, <2>5, <2>7, <2>8
<1>10. n \in S
  <2> HIDE DEF S
  <2> QED
    BY <1>8, <1>9, Climb
<1>11. Good(f[n], n)
  BY <1>10
<1>12. client.lastSeq + n = IF client.lastSeq + Limit < Len(log) THEN client.lastSeq + Limit
                                                                ELSE Len(log)
  BY <1>1, <1>5, <1>6 DEF m
<1> QED
  BY <1>7, <1>11, <1>12

-----------------------------------------------------------------------------
(* The steps.                                                              *)

LEMMA FeedStarts == Init => FeedInv
<1> SUFFICES ASSUME Init PROVE FeedInv
  OBVIOUS
<1>1. Created \in Nat
  BY SizeAssumption
<1>2. JournalOK(log)
  <2>1. \A i \in 1 .. Created : Row(i, "state", 1) \in Event
    BY <1>1 DEF Row, Event
  <2>2. log \in [1 .. Created -> Event]
    BY <2>1 DEF Init
  <2>3. log \in Seq(Event) /\ Len(log) = Created
    BY <1>1, <2>2, LenProperties, SeqDef
  <2>4. \A i \in 1 .. Created : log[i] = Row(i, "state", 1)
    BY DEF Init
  <2> QED
    BY <2>3, <2>4 DEF JournalOK, Row
<1>3. Published(writer, log)
  BY DEF Init, Published, Quiet, WriterJob, None, NoSeq
<1>4. bus \in [Pods -> Seq(1 .. Len(log))]
  BY DEF Init
<1>5. Socketed /\ Channel(chan, ws.at, log) /\ inq \in Seq(Sent(log)) /\ Linked
  BY HomeAssumption, SizeAssumption DEF Init, Socketed, Closed, Channel, Linked, None
<1>6. Reader(client, log)
  <2>1. Len(log) \in Nat /\ <<>> \in Seq(Nat) /\ DOMAIN <<>> = {}
    BY <1>2, LenProperties DEF JournalOK
  <2>2. client \in [lastSeq : Nat, view : Nat, joined : Nat, heard : Seq(Nat)]
    BY <2>1 DEF Init, NoSeq, None
  <2>3. client.lastSeq = 0 /\ DOMAIN client.heard = {}
    BY <2>1 DEF Init, NoSeq
  <2> QED
    BY <2>1, <2>2, <2>3 DEF Reader
<1>7. Counters
  <2>1. broken \subseteq {"link", "fetch", "tag"}
    BY DEF Init
  <2> QED
    BY <2>1, SizeAssumption DEF Init, Counters
<1> QED
  BY <1>2, <1>3, <1>4, <1>5, <1>6, <1>7 DEF Init, FeedInv

LEMMA FaultCounted ==
  ASSUME Counters, Fault \/ faults' = faults PROVE faults' \in 0 .. MaxFaults
BY SizeAssumption DEF Counters, Fault

\* Steps of a writer that touch nothing but the writer.
LEMMA WriterStep ==
  ASSUME FeedInv, NEW w \in Writers,
         Command(w) \/ BuildState(w) \/ PostMessage(w) \/ AppendRefused(w)
  PROVE  FeedInv'
<1>1. /\ writer' = [writer EXCEPT ![w] = writer'[w]] /\ truth' \in Nat
      /\ writer'[w] \in WriterJob /\ writer'[w].step # "stored"
  <2>1. writer[w] \in WriterJob /\ writer \in [Writers -> WriterJob] /\ truth \in Nat
    BY DEF FeedInv, Published
  <2> USE <2>1 DEF Quiet, WriterJob, None, NoSeq
  <2>2. CASE Command(w)
    BY <2>2 DEF Command
  <2>3. CASE BuildState(w)
    BY <2>3 DEF BuildState
  <2>4. CASE PostMessage(w)
    BY <2>4 DEF PostMessage
  <2>5. CASE AppendRefused(w)
    BY <2>5 DEF AppendRefused
  <2> QED
    BY <2>2, <2>3, <2>4, <2>5
<1>2. /\ UNCHANGED <<log, bus, connVars, inq, client, broken, drops>>
      /\ Fault \/ faults' = faults
  BY DEF Command, BuildState, PostMessage, AppendRefused
<1>3. Published(writer', log)
  BY <1>1 DEF FeedInv, Published
<1>4. faults' \in 0 .. MaxFaults
  BY <1>2, FaultCounted DEF FeedInv
<1>5. broken' \subseteq {"link", "fetch", "tag"}
  BY <1>2 DEF FeedInv, Counters
<1>6. Counters'
  BY <1>2, <1>4, <1>5 DEF FeedInv, Counters
<1> QED
  BY <1>1, <1>2, <1>3, <1>6 DEF FeedInv, connVars, Socketed, Linked

\* A journal that grows leaves everything else as good as it was.
Grown == log' = log \/ \E k \in {"state", "chat"}, v \in Nat :
                          log' = Append(log, Row(Len(log) + 1, k, v))

LEMMA GrownKeeps ==
  ASSUME FeedInv, Grown
  PROVE  /\ JournalOK(log') /\ Sent(log) \subseteq Sent(log') /\ Reader(client, log')
         /\ Channel(chan, ws.at, log') /\ inq \in Seq(Sent(log'))
         /\ bus \in [Pods -> Seq(1 .. Len(log'))] /\ Published(writer, log')
         /\ Len(log) \in Nat /\ Len(log') \in {Len(log), Len(log) + 1}
         /\ \A s \in 1 .. Len(log) : log'[s] = log[s]
<1>1. CASE log' = log
  BY <1>1, LenProperties DEF FeedInv, JournalOK
<1>2. ASSUME NEW k \in {"state", "chat"}, NEW v \in Nat,
             log' = Append(log, Row(Len(log) + 1, k, v))
      PROVE  /\ JournalOK(log') /\ Len(log) \in Nat /\ Len(log') = Len(log) + 1
             /\ Sent(log) \subseteq Sent(log') /\ \A s \in 1 .. Len(log) : log'[s] = log[s]
  BY <1>2, JournalGrows DEF FeedInv
<1>3. CASE log' # log
  <2>1. /\ JournalOK(log') /\ Len(log) \in Nat /\ Len(log') = Len(log) + 1
        /\ Sent(log) \subseteq Sent(log') /\ \A s \in 1 .. Len(log) : log'[s] = log[s]
    BY <1>2, <1>3 DEF Grown
  <2>2. 1 .. Len(log) \subseteq 1 .. Len(log')
    BY <2>1
  <2>3. bus \in [Pods -> Seq(1 .. Len(log'))]
    BY <2>2, Wider DEF FeedInv
  <2>4. Channel(chan, ws.at, log') /\ inq \in Seq(Sent(log'))
    BY <2>1, Wider DEF FeedInv, Channel
  <2>5. Reader(client, log')
    BY <2>1 DEF FeedInv, Reader
  <2>6. Published(writer, log')
    BY <2>2 DEF FeedInv, Published
  <2> QED
    BY <2>1, <2>3, <2>4, <2>5, <2>6
<1> QED
  BY <1>1, <1>3

LEMMA AppendStep ==
  ASSUME FeedInv, NEW w \in Writers, AppendEvent(w) PROVE FeedInv'
<1> DEFINE e == Row(Len(log) + 1, writer[w].kind, writer[w].ver)
<1>1. writer[w] \in WriterJob /\ writer \in [Writers -> WriterJob]
  BY DEF FeedInv, Published
<1>2. /\ log' = Append(log, e)
      /\ writer' = [writer EXCEPT ![w].step = "stored", ![w].seq = Len(log) + 1]
      /\ UNCHANGED <<truth, bus, connVars, inq, client, broken, drops, faults>>
  BY DEF AppendEvent
<1>3. /\ JournalOK(log') /\ Len(log) \in Nat /\ Len(log') = Len(log) + 1
      /\ Sent(log) \subseteq Sent(log')
  BY <1>1, <1>2, JournalGrows DEF FeedInv, WriterJob
<1>4. 1 .. Len(log) \subseteq 1 .. Len(log')
  BY <1>3
<1>5. Published(writer', log')
  <2>1. writer' \in [Writers -> WriterJob]
    <3>1. PICK k \in WriterJob : k = writer[w]
      BY <1>1
    <3>2. PICK n \in Nat : n = Len(log) + 1
      BY <1>3
    <3>3. [k EXCEPT !.step = "stored", !.seq = n] \in WriterJob
      BY DEF WriterJob
    <3>4. writer' = [writer EXCEPT ![w] = [k EXCEPT !.step = "stored", !.seq = n]]
      BY <1>1, <1>2, <3>1, <3>2
    <3> QED
      BY <1>1, <3>3, <3>4
  <2>2. writer'[w].seq = Len(log) + 1 /\ Len(log) + 1 \in 1 .. Len(log')
    BY <1>1, <1>2, <1>3 DEF WriterJob
  <2>3. ASSUME NEW v \in Writers, v # w PROVE writer'[v] = writer[v]
    BY <1>1, <1>2, <2>3
  <2> QED
    BY <1>4, <2>1, <2>2, <2>3 DEF FeedInv, Published
<1>6. bus \in [Pods -> Seq(1 .. Len(log'))]
  BY <1>4, Wider DEF FeedInv
<1>7. Channel(chan, ws.at, log') /\ inq \in Seq(Sent(log'))
  BY <1>3, Wider DEF FeedInv, Channel
<1>8. Reader(client, log')
  BY <1>3 DEF FeedInv, Reader
<1>9. Counters'
  <2>1. broken' \subseteq {"link", "fetch", "tag"}
    BY <1>2 DEF FeedInv, Counters
  <2> QED
    BY <1>2, <2>1 DEF FeedInv, Counters
<1> QED
  BY <1>2, <1>3, <1>5, <1>6, <1>7, <1>8, <1>9 DEF FeedInv, connVars, Socketed, Linked

\* A step that at most delivers, publishes or takes an envelope off the bus, with
\* or without a row more.
LEMMA DeliveryStep ==
  ASSUME FeedInv, Grown, UNCHANGED <<truth, ws, link, attempt, inq, client, broken, drops>>,
         Fault \/ faults' = faults,
         Published(writer', log'), bus' \in [Pods -> Seq(1 .. Len(log'))],
         chan' = chan \/ \E p \in Pods : \E ev \in Sent(log) : Deliver(p, ev)
  PROVE  FeedInv'
<1>1. Channel(chan', ws.at, log)
  BY DeliverKeeps DEF FeedInv
<1>2. /\ JournalOK(log') /\ Sent(log) \subseteq Sent(log') /\ Reader(client, log')
      /\ inq \in Seq(Sent(log'))
  BY GrownKeeps
<1>3. Channel(chan', ws.at, log')
  BY <1>1, <1>2, Wider DEF Channel
<1>4. faults' \in 0 .. MaxFaults
  BY FaultCounted DEF FeedInv
<1>5. Counters'
  BY <1>4 DEF FeedInv, Counters
<1> QED
  BY <1>2, <1>3, <1>5 DEF FeedInv, Socketed, Linked

LEMMA Quieted ==
  ASSUME Published(writer, log), NEW w \in Writers,
         writer' = [writer EXCEPT ![w] = Quiet]
  PROVE  Published(writer', log)
BY DEF Published, Quiet, WriterJob, None, NoSeq

LEMMA FailGrows ==
  ASSUME FeedInv, NEW w \in Writers, AppendFails(w) PROVE Grown
BY DEF AppendFails, Grown, FeedInv, Published, WriterJob

LEMMA PublishStep ==
  ASSUME FeedInv, NEW w \in Writers, AppendFails(w) \/ PublishGame(w) \/ PublishFails(w)
  PROVE  FeedInv'
<1>1. writer' = [writer EXCEPT ![w] = Quiet] /\ writer[w] \in WriterJob
  BY DEF FeedInv, Published, AppendFails, PublishGame, PublishFails
<1>2. Published(writer', log)
  BY <1>1, Quieted DEF FeedInv
<1>3. CASE AppendFails(w)
  <2>1. Row(NoSeq, writer[w].kind, writer[w].ver) \in Sent(log)
    BY <1>1, UnnumberedIsSent DEF FeedInv, WriterJob
  <2>2. Grown
    BY <1>3, FailGrows
  <2>3. bus' \in [Pods -> Seq(1 .. Len(log'))] /\ Published(writer, log')
    BY <1>3, <2>2, GrownKeeps DEF AppendFails
  <2>4. Published(writer', log')
    BY <1>1, <2>3 DEF Published, Quiet, WriterJob, None, NoSeq
  <2>5. /\ UNCHANGED <<truth, ws, link, attempt, inq, client, broken, drops>> /\ Fault
        /\ Deliver(Home, Row(NoSeq, writer[w].kind, writer[w].ver))
    BY <1>3 DEF AppendFails
  <2> QED
    BY <2>1, <2>2, <2>3, <2>4, <2>5, HomeAssumption, DeliveryStep
<1>4. CASE PublishGame(w)
  <2>1. writer[w].seq \in 1 .. Len(log)
    BY <1>4 DEF PublishGame, FeedInv, Published
  <2>2. PICK S \in SUBSET Interested :
          bus' = [p \in Pods |-> IF p \in S THEN Append(bus[p], writer[w].seq) ELSE bus[p]]
    BY <1>4 DEF PublishGame
  <2>3. \A p \in Pods : Append(bus[p], writer[w].seq) \in Seq(1 .. Len(log))
    BY <2>1, AppendMore DEF FeedInv
  <2>4. bus' \in [Pods -> Seq(1 .. Len(log))]
    BY <2>2, <2>3 DEF FeedInv
  <2> QED
    BY <1>2, <1>4, <2>4, DeliveryStep DEF PublishGame, connVars, Grown
<1>5. CASE PublishFails(w)
  <2>1. log[writer[w].seq] \in Sent(log)
    BY <1>5, RowsAreSent DEF PublishFails, FeedInv, Published
  <2>2. bus' \in [Pods -> Seq(1 .. Len(log))]
    BY <1>5 DEF PublishFails, FeedInv
  <2> QED
    BY <1>2, <1>5, <2>1, <2>2, HomeAssumption, DeliveryStep DEF PublishFails, Grown
<1> QED
  BY <1>3, <1>4, <1>5

LEMMA NotifStep ==
  ASSUME FeedInv, NEW p \in Pods, HandleGameEventNotif(p) PROVE FeedInv'
<1>1. PICK q \in Seq(1 .. Len(log)) : q = bus[p]
  BY DEF FeedInv
<1>2. q # <<>> /\ bus' = [bus EXCEPT ![p] = Tail(q)]
  BY <1>1 DEF HandleGameEventNotif
<1>3. Head(q) \in 1 .. Len(log) /\ Tail(q) \in Seq(1 .. Len(log))
  BY <1>2, HeadTailProperties
<1>4. log[Head(bus[p])] \in Sent(log)
  BY <1>1, <1>3, RowsAreSent DEF FeedInv
<1>5. bus' \in [Pods -> Seq(1 .. Len(log))]
  BY <1>2, <1>3 DEF FeedInv
<1>6. Published(writer', log)
  BY DEF HandleGameEventNotif, FeedInv
<1> QED
  BY <1>4, <1>5, <1>6, DeliveryStep DEF HandleGameEventNotif, Grown

LEMMA SocketStep ==
  ASSUME FeedInv, (\E p \in Pods : WsGet(p)) \/ Socket \/ Drop \/ Reconnect
  PROVE  FeedInv'
<1>1. /\ UNCHANGED <<truth, log, writer, bus, client>>
      /\ Fault \/ faults' = faults
  BY DEF WsGet, Socket, WsSubscribe, WsSnapshot, WsSend, Drop, Reconnect, serverVars
<1>2. faults' \in 0 .. MaxFaults
  BY <1>1, FaultCounted DEF FeedInv
<1>3. broken' \subseteq {"link", "fetch", "tag"}
  <2>1. \E k \in {"link", "tag"} : broken' = broken \/ broken' = broken \cup {k}
    BY DEF WsGet, Socket, WsSubscribe, WsSnapshot, WsSend, Drop, Reconnect
  <2> QED
    BY <2>1, Zenon DEF FeedInv, Counters
<1>4. drops' \in 0 .. MaxDrops
  <2>1. drops' = drops \/ (drops < MaxDrops /\ drops' = drops + 1)
    BY DEF WsGet, Socket, WsSubscribe, WsSnapshot, WsSend, Drop, Reconnect
  <2> QED
    BY <2>1, SizeAssumption DEF FeedInv, Counters
<1>5. Socketed' /\ Channel(chan', ws'.at, log) /\ inq' \in Seq(Sent(log)) /\ Linked'
  <2> USE DEF FeedInv
  <2>1. CASE \E p \in Pods : WsGet(p)
    <3>1. PICK p \in Pods : WsGet(p)
      BY <2>1
    <3>2. PICK v \in 1 .. truth : ws' = [at |-> "got", pod |-> p, ver |-> v]
      BY <3>1 DEF WsGet
    <3>3. v \in Nat /\ ws'.at = "got" /\ ws.at = "closed"
      BY <3>1, <3>2 DEF WsGet, Closed
    <3>4. UNCHANGED <<chan, inq, link, attempt>>
      BY <3>1 DEF WsGet
    <3> QED
      BY <3>2, <3>3, <3>4 DEF Socketed, Channel, Linked
  <2>2. CASE WsSubscribe
    <3>1. ws'.at = "subscribed" /\ Socketed' /\ ws.at = "got"
      BY <2>2 DEF WsSubscribe, Socketed
    <3> QED
      BY <2>2, <3>1, SizeAssumption DEF WsSubscribe, Channel, Linked
  <2>3. CASE WsSnapshot
    <3>1. ws'.at = "built" /\ Socketed' /\ ws.at = "subscribed"
      BY <2>3 DEF WsSnapshot, Socketed
    <3> QED
      BY <2>3, <3>1 DEF WsSnapshot, Channel, Linked
  <2>4. CASE WsSend
    <3>1. ws'.at = "open" /\ Socketed' /\ ws.at = "built" /\ ws.ver \in Nat
      BY <2>4 DEF WsSend, Socketed
    <3>2. Len(log) \in Nat /\ NoSeq \in Nat /\ NoSeq <= Len(log)
      BY LenProperties DEF JournalOK, NoSeq
    <3>3. PICK e \in Sent(log) : chan' = <<e>> \o chan
      <4>1. Hello(Len(log), ws.ver) \in Sent(log) /\ Hello(NoSeq, ws.ver) \in Sent(log)
        BY <3>1, <3>2, HelloIsSent
      <4> QED
        BY <2>4, <4>1 DEF WsSend
    <3>4. <<e>> \in Seq(Sent(log)) /\ Len(<<e>>) = 1
      OBVIOUS
    <3>5. chan \in Seq(Sent(log)) /\ Len(chan) \in Nat /\ Len(chan) <= Buffer
      BY <3>1, LenProperties DEF Channel
    <3>6. chan' \in Seq(Sent(log)) /\ Len(chan') = 1 + Len(chan)
      BY <3>3, <3>4, <3>5, ConcatProperties
    <3> QED
      BY <2>4, <3>1, <3>5, <3>6, SizeAssumption DEF WsSend, Channel, Linked
  <2>5. CASE Drop
    <3>1. ws'.at = "closed" /\ Socketed' /\ chan' = <<>>
      BY <2>5, HomeAssumption DEF Drop, Closed, Socketed, None
    <3>2. Channel(chan', ws'.at, log)
      BY <3>1, SizeAssumption DEF Channel
    <3>3. PICK n \in 0 .. Len(chan) : inq' = inq \o SubSeq(chan, 1, n)
      BY <2>5 DEF Drop
    <3>4. SubSeq(chan, 1, n) \in Seq(Sent(log))
      <4>1. chan \in Seq(Sent(log)) /\ Len(chan) \in Nat
        BY LenProperties DEF Channel
      <4>2. \A i \in 1 .. n : chan[i] \in Sent(log)
        BY <4>1, ElementOfSeq
      <4> QED
        BY <4>1, <4>2, SubSeqProperties
    <3>5. inq' \in Seq(Sent(log))
      BY <3>3, <3>4, ConcatProperties
    <3>6. Linked'
      BY <2>5, SizeAssumption DEF Drop, Linked
    <3> QED
      BY <3>1, <3>2, <3>5, <3>6
  <2>6. CASE Reconnect
    BY <2>6 DEF Reconnect, Socketed, Channel, Linked
  <2> QED
    BY <2>1, <2>2, <2>3, <2>4, <2>5, <2>6 DEF Socket
<1> QED
  BY <1>1, <1>2, <1>3, <1>4, <1>5 DEF FeedInv, Counters

\* The message whose turn it is.
LEMMA NextMessage ==
  ASSUME FeedInv, Arrived # <<>>
  PROVE  /\ Head(Arrived) \in Sent(log)
         /\ IF inq # <<>>
            THEN Head(Arrived) = Head(inq) /\ Tail(inq) \in Seq(Sent(log))
            ELSE /\ ws.at = "open" /\ chan # <<>> /\ Head(Arrived) = Head(chan)
                 /\ Channel(Tail(chan), ws.at, log)
<1>1. inq \in Seq(Sent(log)) /\ chan \in Seq(Sent(log)) /\ Len(chan) <= Buffer + 1
  BY DEF FeedInv, Channel
<1>2. CASE inq # <<>>
  <2>1. PICK more \in Seq(Sent(log)) : Arrived = inq \o more
    <3>1. <<>> \in Seq(Sent(log))
      OBVIOUS
    <3> QED
      BY <1>1, <3>1 DEF Arrived
  <2>2. Len(inq) \in Nat /\ Len(inq) # 0 /\ Len(more) \in Nat
    BY <1>1, <1>2, <2>1, EmptySeq, LenProperties
  <2>3. Arrived \in Seq(Sent(log)) /\ Arrived[1] = inq[1]
    BY <1>1, <2>1, <2>2, ConcatProperties
  <2>4. Head(Arrived) = Arrived[1] /\ Head(inq) = inq[1]
    OBVIOUS
  <2>5. inq[1] \in Sent(log) /\ Tail(inq) \in Seq(Sent(log))
    BY <1>1, <1>2, <2>2, ElementOfSeq, HeadTailProperties
  <2> QED
    BY <1>2, <2>3, <2>4, <2>5
<1>3. CASE inq = <<>>
  <2>1. ws.at = "open" /\ chan # <<>> /\ Arrived = chan
    BY <1>1, <1>3 DEF Arrived
  <2>2. /\ Head(chan) \in Sent(log) /\ Tail(chan) \in Seq(Sent(log))
        /\ Len(Tail(chan)) = Len(chan) - 1 /\ Len(chan) \in Nat
    BY <1>1, <2>1, HeadTailProperties, LenProperties
  <2>3. Channel(Tail(chan), ws.at, log)
    BY <1>1, <2>1, <2>2, SizeAssumption DEF Channel
  <2> QED
    BY <1>3, <2>1, <2>2, <2>3
<1> QED
  BY <1>2, <1>3

\* What GameSocket does with it.
LEMMA Processed ==
  ASSUME FeedInv, Browser
  PROVE  Reader(client', log)
<1> DEFINE e == Head(Arrived)
<1>1. Arrived # <<>> /\ e \in Sent(log) /\ JournalOK(log) /\ Reader(client, log)
  BY NextMessage DEF Browser, ProcessEvent, Catchup, CatchupFails, FeedInv
<1>2. e.seq \in Nat /\ client.lastSeq \in Nat
  BY <1>1 DEF Sent, Event, Reader
<1>3. CASE ProcessEvent
  <2>1. client' = IF Old(e) THEN client ELSE Applied(client, e)
    BY <1>3 DEF ProcessEvent, Handled
  <2>2. ~ Old(e) /\ client.lastSeq # NoSeq /\ e.seq # NoSeq => e.seq > client.lastSeq
    BY <1>2 DEF Old, Numbered
  <2> HIDE DEF e
  <2> QED
    BY <1>1, <2>1, <2>2, AppliedReader
<1>4. CASE Catchup
  <2>1. client' = IF e.seq <= Fetched.lastSeq THEN Fetched ELSE Applied(Fetched, e)
    BY <1>4 DEF Catchup, Handled
  <2>2. Reader(Fetched, log)
    BY FetchedReader
  <2>3. Fetched.lastSeq \in Nat
    BY <2>2 DEF Reader
  <2>4. ~ (e.seq <= Fetched.lastSeq) => e.seq > Fetched.lastSeq
    BY <1>2, <2>3
  <2> HIDE DEF e
  <2> QED
    BY <1>1, <2>1, <2>2, <2>4, AppliedReader
<1>5. CASE CatchupFails
  <2>1. client' = Applied(client, e) /\ e.seq > client.lastSeq
    BY <1>2, <1>5 DEF CatchupFails, Handled, Gap, Numbered
  <2> HIDE DEF e
  <2> QED
    BY <1>1, <2>1, AppliedReader
<1> QED
  BY <1>3, <1>4, <1>5 DEF Browser

LEMMA BrowserStep == ASSUME FeedInv, Browser PROVE FeedInv'
<1>1. Reader(client', log)
  BY Processed
<1>2. PICK c : Handled(c)
  BY DEF Browser, ProcessEvent, Catchup, CatchupFails
<1>3. Arrived # <<>> /\ UNCHANGED <<serverVars, ws, link, attempt, drops>>
  BY <1>2 DEF Handled
<1>4. Channel(chan', ws.at, log) /\ inq' \in Seq(Sent(log))
  BY <1>2, <1>3, NextMessage DEF Handled, FeedInv
<1>5. (Fault \/ faults' = faults) /\ (broken' = broken \/ broken' = broken \cup {"fetch"})
  BY DEF Browser, ProcessEvent, Catchup, CatchupFails
<1>6. faults' \in 0 .. MaxFaults
  BY <1>5, FaultCounted DEF FeedInv
<1>7. broken' \subseteq {"link", "fetch", "tag"}
  BY <1>5 DEF FeedInv, Counters
<1> QED
  BY <1>1, <1>3, <1>4, <1>6, <1>7 DEF FeedInv, serverVars, Socketed, Linked, Counters

LEMMA FeedStep == FeedInv /\ [Next]_vars => FeedInv'
<1> SUFFICES ASSUME FeedInv, [Next]_vars PROVE FeedInv'
  OBVIOUS
<1>1. ASSUME NEW w \in Writers, Publisher(w) PROVE FeedInv'
  BY <1>1, WriterStep, AppendStep, PublishStep DEF Publisher
<1>2. ASSUME NEW p \in Pods, HandleGameEventNotif(p) \/ WsGet(p) PROVE FeedInv'
  BY <1>2, NotifStep, SocketStep
<1>3. CASE Socket \/ Drop \/ Reconnect
  BY <1>3, SocketStep
<1>4. CASE Browser
  BY <1>4, BrowserStep
<1>5. CASE UNCHANGED vars
  <2>1. broken' \subseteq {"link", "fetch", "tag"}
    BY <1>5 DEF vars, FeedInv, Counters
  <2> QED
    BY <1>5, <2>1 DEF vars, FeedInv, Socketed, Linked, Counters
<1> QED
  BY <1>1, <1>2, <1>3, <1>4, <1>5 DEF Next

LEMMA FeedHolds == Spec => []FeedInv
<1>1. Init => FeedInv
  BY FeedStarts
<1>2. FeedInv /\ [Next]_vars => FeedInv'
  BY FeedStep
<1> QED
  BY <1>1, <1>2, PTL DEF Spec

\* The journal, the envelopes of the bus, the connection and what GameSocket
\* knows are well typed; no channel holds more than its buffer and a snapshot
\* (Hub.Deliver drops what does not fit).
THEOREM TypeCorrect == Spec => []TypeOK
<1>1. FeedInv => TypeOK
  <2> SUFFICES ASSUME FeedInv PROVE TypeOK
    OBVIOUS
  <2>1. log \in Seq(Event) /\ Len(log) \in Nat
    BY LenProperties DEF FeedInv, JournalOK
  <2>2. Sent(log) \subseteq Event /\ 1 .. Len(log) \subseteq Nat
    BY <2>1 DEF Sent
  <2>3. chan \in Seq(Event) /\ inq \in Seq(Event) /\ bus \in [Pods -> Seq(Nat)]
    BY <2>2, Wider DEF FeedInv, Channel
  <2>4. broken \subseteq {"link", "fetch", "tag"}
    BY DEF FeedInv, Counters
  <2> QED
    BY <2>1, <2>3, <2>4
    DEF TypeOK, FeedInv, Published, WriterJob, Socketed, Channel, Linked, Reader, Counters
<1> QED
  BY <1>1, FeedHolds, PTL

\* processEvent and fetchCatchup: whatever is lost, overtaken or delivered a
\* second time, and over any number of connections, the messages a browser
\* dispatches are rows of ever higher seq.
THEOREM DispatchedInOrder == Spec => []OnceInOrder
<1>1. FeedInv => OnceInOrder
  BY DEF FeedInv, Reader, OnceInOrder
<1> QED
  BY <1>1, FeedHolds, PTL

-----------------------------------------------------------------------------
(* One session.                                                            *)

Coming == {w \in Writers : writer[w].step \in {"changed", "built"}}

\* The journal stays within its bound.
CountInv == IsFiniteSet(Coming) /\ Len(log) + Cardinality(Coming) <= MaxEvents

LEMMA CountStarts == Init => CountInv
<1> SUFFICES ASSUME Init PROVE CountInv
  OBVIOUS
<1>1. Coming = {}
  BY DEF Init, Coming, Quiet
<1>2. Len(log) = Created
  <2>1. Created \in Nat
    BY SizeAssumption
  <2>2. log \in [1 .. Created -> Event]
    BY <2>1 DEF Init, Row, Event
  <2> QED
    BY <2>1, <2>2, LenProperties, SeqDef
<1> QED
  BY <1>1, <1>2, SizeAssumption, FS_EmptySet DEF CountInv

LEMMA ComingAfter ==
  ASSUME FeedInv, CountInv, NEW w \in Writers, NEW k,
         writer' = [writer EXCEPT ![w] = k]
  PROVE  /\ IsFiniteSet(Coming') /\ Cardinality(Coming) \in Nat /\ Cardinality(Coming') \in Nat
         /\ k.step \in {"changed", "built"} =>
              Cardinality(Coming') = Cardinality(Coming) + (IF w \in Coming THEN 0 ELSE 1)
         /\ k.step \notin {"changed", "built"} =>
              Cardinality(Coming') = Cardinality(Coming) - (IF w \in Coming THEN 1 ELSE 0)
<1>1. IsFiniteSet(Coming)
  BY DEF CountInv
<1>2. Coming' = IF k.step \in {"changed", "built"} THEN Coming \cup {w} ELSE Coming \ {w}
  BY DEF FeedInv, Published, Coming
<1>3. /\ IsFiniteSet(Coming \cup {w}) /\ IsFiniteSet(Coming \ {w})
      /\ Cardinality(Coming \cup {w}) = IF w \in Coming THEN Cardinality(Coming)
                                                         ELSE Cardinality(Coming) + 1
      /\ Cardinality(Coming \ {w}) = IF w \in Coming THEN Cardinality(Coming) - 1
                                                      ELSE Cardinality(Coming)
  BY <1>1, FS_AddElement, FS_RemoveElement
<1>4. Cardinality(Coming) \in Nat /\ Cardinality(Coming') \in Nat /\ IsFiniteSet(Coming')
  <2>1. IsFiniteSet(Coming')
    BY <1>2, <1>3
  <2> QED
    BY <1>1, <2>1, FS_CardinalityType
<1> QED
  BY <1>2, <1>3, <1>4

LEMMA CountStep == FeedInv /\ CountInv /\ [Next]_vars => CountInv'
<1> SUFFICES ASSUME FeedInv, CountInv, [Next]_vars PROVE CountInv'
  OBVIOUS
<1>0. Len(log) \in Nat /\ MaxEvents \in Nat
  BY LenProperties, SizeAssumption DEF FeedInv, JournalOK
<1>1. ASSUME NEW w \in Writers, Command(w) \/ PostMessage(w) PROVE CountInv'
  <2>1. PICK k : writer' = [writer EXCEPT ![w] = k] /\ k.step \in {"changed", "built"}
    <3>1. writer[w] \in WriterJob /\ writer \in [Writers -> WriterJob]
      BY DEF FeedInv, Published
    <3>2. writer' = [writer EXCEPT ![w] = writer'[w]] /\ writer'[w].step \in {"changed", "built"}
      BY <1>1, <3>1 DEF Command, PostMessage, WriterJob
    <3> QED
      BY <3>2
  <2>2. w \notin Coming /\ Len(log) + Cardinality(Coming) < MaxEvents /\ log' = log
    BY <1>1 DEF Command, PostMessage, Coming, Quiet, Rows
  <2>3. /\ IsFiniteSet(Coming') /\ Cardinality(Coming) \in Nat
        /\ Cardinality(Coming') = Cardinality(Coming) + 1
    BY <2>1, <2>2, ComingAfter
  <2> QED
    BY <1>0, <2>2, <2>3 DEF CountInv
<1>2. ASSUME NEW w \in Writers, BuildState(w) PROVE CountInv'
  <2>1. PICK k : writer' = [writer EXCEPT ![w] = k] /\ k.step = "built"
    <3> DEFINE k == [Quiet EXCEPT !.step = "built", !.kind = "state", !.ver = truth]
    <3>1. writer' = [writer EXCEPT ![w] = k]
      BY <1>2 DEF BuildState
    <3>2. k.step = "built"
      BY DEF Quiet
    <3> HIDE DEF k
    <3> QED
      BY <3>1, <3>2
  <2>2. w \in Coming /\ log' = log
    BY <1>2 DEF BuildState, Coming
  <2>3. k.step \in {"changed", "built"}
    BY <2>1
  <2>4. /\ IsFiniteSet(Coming') /\ Cardinality(Coming) \in Nat
        /\ Cardinality(Coming') = Cardinality(Coming) + 0
    BY <2>1, <2>2, <2>3, ComingAfter
  <2> QED
    BY <2>2, <2>4 DEF CountInv
<1>3. ASSUME NEW w \in Writers, AppendEvent(w) PROVE CountInv'
  <2>1. PICK k : writer' = [writer EXCEPT ![w] = k] /\ k.step = "stored"
    <3>1. writer[w] \in WriterJob /\ writer \in [Writers -> WriterJob]
      BY DEF FeedInv, Published
    <3>2. writer' = [writer EXCEPT ![w] = writer'[w]] /\ writer'[w].step = "stored"
      BY <1>3, <3>1 DEF AppendEvent, WriterJob
    <3> QED
      BY <3>2
  <2>2. w \in Coming
    BY <1>3 DEF AppendEvent, Coming
  <2>3. Len(log') = Len(log) + 1
    BY <1>3, JournalGrows DEF AppendEvent, FeedInv, Published, WriterJob
  <2>4. /\ IsFiniteSet(Coming') /\ Cardinality(Coming) \in Nat
        /\ Cardinality(Coming') = Cardinality(Coming) - 1
    BY <2>1, <2>2, ComingAfter
  <2> QED
    BY <1>0, <2>3, <2>4 DEF CountInv
<1>4. ASSUME NEW w \in Writers,
             AppendRefused(w) \/ AppendFails(w) \/ PublishGame(w) \/ PublishFails(w)
      PROVE  CountInv'
  <2>1. writer' = [writer EXCEPT ![w] = Quiet] /\ Quiet.step \notin {"changed", "built"}
    BY <1>4 DEF AppendRefused, AppendFails, PublishGame, PublishFails, Quiet
  <2>2. /\ IsFiniteSet(Coming') /\ Cardinality(Coming) \in Nat
        /\ Cardinality(Coming') \in Nat
        /\ Cardinality(Coming') = Cardinality(Coming) - (IF w \in Coming THEN 1 ELSE 0)
    BY <2>1, ComingAfter
  <2>3. \/ log' = log
        \/ w \in Coming /\ Len(log') = Len(log) + 1
    <3>1. CASE AppendFails(w)
      <4>1. w \in Coming
        BY <3>1 DEF AppendFails, Coming
      <4>2. log' = log \/ Len(log') = Len(log) + 1
        BY <3>1, JournalGrows DEF AppendFails, FeedInv, Published, WriterJob
      <4> QED
        BY <4>1, <4>2
    <3> QED
      BY <1>4, <3>1 DEF AppendRefused, PublishGame, PublishFails
  <2> QED
    BY <1>0, <2>2, <2>3 DEF CountInv
<1>5. ASSUME UNCHANGED <<log, writer>> PROVE CountInv'
  BY <1>5 DEF CountInv, Coming
<1>6. CASE (\E p \in Pods : HandleGameEventNotif(p) \/ WsGet(p)) \/ Socket \/ Drop \/ Reconnect
  BY <1>5, <1>6 DEF HandleGameEventNotif, WsGet, Socket, WsSubscribe, WsSnapshot, WsSend,
                    Drop, Reconnect, serverVars
<1>7. CASE Browser
  BY <1>5, <1>7 DEF Browser, ProcessEvent, Catchup, CatchupFails, Handled, serverVars
<1>8. CASE UNCHANGED vars
  BY <1>5, <1>8 DEF vars
<1> QED
  BY <1>1, <1>2, <1>3, <1>4, <1>6, <1>7, <1>8 DEF Next, Publisher

\* A snapshot is the first thing the browser is sent, and sent once.
SnapshotFirst(ch, c, at) ==
  \A i \in 1 .. Len(ch) :
    ch[i].hello # FALSE => /\ i = 1 /\ ch[i].kind = "state"
                           /\ c.lastSeq = NoSeq /\ at = "open"

\* The inductive invariant behind NothingMissedInSession.
Session == /\ inq = <<>> /\ HeardAll(client, log)
           /\ ws.at # "open" => client.lastSeq = NoSeq
           /\ SnapshotFirst(chan, client, ws.at)
SessionInv == broken \subseteq {"tag"} => Session

LEMMA SessionStarts == Init => SessionInv
<1> SUFFICES ASSUME Init PROVE Session
  BY DEF SessionInv
<1>1. client.lastSeq = NoSeq
  BY DEF Init
<1> QED
  BY <1>1 DEF Init, Session, HeardAll, SnapshotFirst

LEMMA SessionDelivery ==
  ASSUME FeedInv, Session, Grown, UNCHANGED <<ws, inq, client>>,
         \/ chan' = chan
         \/ \E p \in Pods : \E ev \in Sent(log) : ev.hello = FALSE /\ Deliver(p, ev)
  PROVE  Session'
<1>1. SnapshotFirst(chan', client, ws.at)
  <2>1. CASE chan' = chan
    BY <2>1 DEF Session
  <2>2. ASSUME NEW ev \in Sent(log), ev.hello = FALSE, chan' = Append(chan, ev)
        PROVE  SnapshotFirst(chan', client, ws.at)
    <3>1. /\ Len(chan) \in Nat /\ Len(chan') = Len(chan) + 1 /\ chan'[Len(chan) + 1] = ev
          /\ \A i \in 1 .. Len(chan) : chan'[i] = chan[i]
      BY <2>2, AppendMore DEF FeedInv, Channel
    <3>2. ASSUME NEW i \in 1 .. Len(chan'), chan'[i].hello # FALSE
          PROVE  i \in 1 .. Len(chan) /\ chan'[i] = chan[i]
      <4>1. i # Len(chan) + 1
        BY <2>2, <3>1, <3>2
      <4> QED
        BY <3>1, <4>1
    <3> QED
      BY <3>2 DEF Session, SnapshotFirst
  <2> QED
    BY <2>1, <2>2 DEF Deliver
<1>2. Len(log) \in Nat /\ \A s \in 1 .. Len(log) : log'[s] = log[s]
  BY GrownKeeps
<1>3. client.lastSeq \in Nat /\ client.joined \in Nat /\ client.lastSeq <= Len(log)
  BY DEF FeedInv, Reader
<1>4. \A s \in client.joined + 1 .. client.lastSeq : s \in 1 .. Len(log)
  BY <1>2, <1>3
<1>5. HeardAll(client, log')
  BY <1>2, <1>4 DEF Session, HeardAll
<1> QED
  BY <1>1, <1>5 DEF Session

LEMMA SessionPublish ==
  ASSUME FeedInv, Session, NEW w \in Writers, Publisher(w) PROVE Session'
<1>1. CASE Command(w) \/ BuildState(w) \/ PostMessage(w) \/ AppendRefused(w) \/ PublishGame(w)
  BY <1>1 DEF Command, BuildState, PostMessage, AppendRefused, PublishGame, connVars, Session
<1>2. CASE AppendEvent(w)
  <2>1. Grown /\ UNCHANGED <<ws, chan, inq, client>>
    BY <1>2 DEF AppendEvent, connVars, Grown, FeedInv, Published, WriterJob
  <2> QED
    BY <2>1, SessionDelivery
<1>3. CASE AppendFails(w)
  <2>1. Row(NoSeq, writer[w].kind, writer[w].ver) \in Sent(log)
    BY UnnumberedIsSent DEF FeedInv, Published, WriterJob
  <2>2. Row(NoSeq, writer[w].kind, writer[w].ver).hello = FALSE
    BY DEF Row
  <2> QED
    BY <1>3, <2>1, <2>2, FailGrows, HomeAssumption, SessionDelivery DEF AppendFails
<1>4. CASE PublishFails(w)
  <2>1. writer[w].seq \in 1 .. Len(log)
    BY <1>4 DEF PublishFails, FeedInv, Published
  <2>2. log[writer[w].seq] \in Sent(log) /\ log[writer[w].seq].hello = FALSE
    BY <2>1, RowsAreSent DEF FeedInv, JournalOK
  <2> QED
    BY <1>4, <2>2, HomeAssumption, SessionDelivery DEF PublishFails, Grown
<1> QED
  BY <1>1, <1>2, <1>3, <1>4 DEF Publisher

LEMMA SessionNotif ==
  ASSUME FeedInv, Session, NEW p \in Pods, HandleGameEventNotif(p) PROVE Session'
<1>1. bus[p] \in Seq(1 .. Len(log)) /\ bus[p] # <<>>
  BY DEF FeedInv, HandleGameEventNotif
<1>2. Head(bus[p]) \in 1 .. Len(log)
  BY <1>1, HeadTailProperties
<1>3. log[Head(bus[p])] \in Sent(log) /\ log[Head(bus[p])].hello = FALSE
  BY <1>2, RowsAreSent DEF FeedInv, JournalOK
<1> QED
  BY <1>3, SessionDelivery DEF HandleGameEventNotif, Grown

LEMMA SessionSocket ==
  ASSUME FeedInv, Session, (\E p \in Pods : WsGet(p)) \/ Socket \/ Reconnect PROVE Session'
<1>1. CASE (\E p \in Pods : WsGet(p)) \/ WsSubscribe \/ WsSnapshot
  <2>1. UNCHANGED <<log, inq, chan, client>>
    BY <1>1 DEF WsGet, WsSubscribe, WsSnapshot, serverVars
  <2>2. ws.at # "open"
    BY <1>1 DEF WsGet, WsSubscribe, WsSnapshot, Closed
  <2>3. client.lastSeq = NoSeq /\ \A i \in 1 .. Len(chan) : chan[i].hello = FALSE
    BY <2>2 DEF Session, SnapshotFirst
  <2> QED
    BY <2>1, <2>3 DEF Session, SnapshotFirst
<1>2. CASE WsSend
  <2>1. UNCHANGED <<log, inq, client>> /\ ws.at = "built" /\ ws' = [ws EXCEPT !.at = "open"]
    BY <1>2 DEF WsSend, serverVars
  <2>2. ws'.at = "open" /\ ws.at # "open"
    BY <2>1 DEF FeedInv, Socketed
  <2>3. client.lastSeq = NoSeq /\ \A i \in 1 .. Len(chan) : chan[i].hello = FALSE
    BY <2>2 DEF Session, SnapshotFirst
  <2>4. PICK e \in Sent(log) : chan' = <<e>> \o chan /\ e.kind = "state"
    <3>1. /\ Hello(Len(log), ws.ver) \in Sent(log) /\ Hello(NoSeq, ws.ver) \in Sent(log)
          /\ Hello(Len(log), ws.ver).kind = "state" /\ Hello(NoSeq, ws.ver).kind = "state"
      <4>1. ws.ver \in Nat /\ JournalOK(log) /\ Len(log) \in Nat /\ NoSeq \in Nat /\ NoSeq <= Len(log)
        BY LenProperties DEF FeedInv, Socketed, JournalOK, NoSeq
      <4> QED
        BY <4>1, HelloIsSent DEF Hello
    <3> QED
      BY <1>2, <3>1 DEF WsSend
  <2>5. chan \in Seq(Sent(log)) /\ Len(chan) \in Nat
    BY LenProperties DEF FeedInv, Channel
  <2>6. <<e>> \in Seq(Sent(log)) /\ Len(<<e>>) = 1 /\ <<e>>[1] = e
    OBVIOUS
  <2>7. /\ Len(chan') = 1 + Len(chan)
        /\ \A i \in 1 .. (1 + Len(chan)) : chan'[i] = IF i <= 1 THEN <<e>>[i] ELSE chan[i - 1]
    BY <2>4, <2>5, <2>6, ConcatProperties
  <2>8. chan'[1] = e /\ \A i \in 2 .. (1 + Len(chan)) : chan'[i] = chan[i - 1]
    BY <2>5, <2>6, <2>7
  <2>9. ASSUME NEW i \in 1 .. Len(chan'), chan'[i].hello # FALSE
        PROVE  i = 1 /\ chan'[i].kind = "state"
    <3>1. CASE i = 1
      BY <2>4, <2>8, <3>1
    <3>2. CASE i # 1
      <4>1. i \in 2 .. (1 + Len(chan)) /\ i - 1 \in 1 .. Len(chan)
        BY <2>5, <2>7, <3>2
      <4> QED
        BY <2>3, <2>8, <2>9, <4>1
    <3> QED
      BY <3>1, <3>2
  <2> QED
    BY <2>1, <2>2, <2>3, <2>9 DEF Session, SnapshotFirst
<1>3. CASE Reconnect
  BY <1>3 DEF Reconnect, serverVars, Session
<1> QED
  BY <1>1, <1>2, <1>3 DEF Socket

LEMMA SessionBrowser ==
  ASSUME FeedInv, CountInv, Session, MaxEvents <= Limit, ProcessEvent \/ Catchup
  PROVE  Session'
<1> DEFINE e == Head(Arrived)
<1>1. Arrived # <<>> /\ inq = <<>>
  BY DEF ProcessEvent, Catchup, Session
<1>2. /\ e \in Sent(log) /\ ws.at = "open" /\ chan # <<>> /\ e = Head(chan)
      /\ chan \in Seq(Sent(log)) /\ JournalOK(log) /\ Reader(client, log)
      /\ HeardAll(client, log)
  BY <1>1, NextMessage DEF FeedInv, Channel, Session
<1>3. /\ chan' = Tail(chan) /\ UNCHANGED <<log, ws, inq>>
  BY <1>1 DEF ProcessEvent, Catchup, Handled, serverVars
<1>4. Len(chan) \in Nat /\ Len(chan) # 0 /\ e = chan[1]
  BY <1>2, EmptySeq, LenProperties
<1>5. e.hello # FALSE => client.lastSeq = NoSeq /\ e.kind = "state"
  <2>1. 1 \in 1 .. Len(chan)
    BY <1>4
  <2> HIDE DEF e
  <2> QED
    BY <1>4, <2>1 DEF Session, SnapshotFirst
<1>6. SnapshotFirst(chan', client', ws.at)
  <2>1. Len(chan') = Len(chan) - 1 /\ \A i \in 1 .. Len(chan') : chan'[i] = chan[i + 1]
    BY <1>2, <1>3, HeadTailProperties
  <2>2. ASSUME NEW i \in 1 .. Len(chan') PROVE chan'[i].hello = FALSE
    <3>1. i + 1 \in 1 .. Len(chan) /\ i + 1 # 1
      BY <1>4, <2>1
    <3> QED
      BY <2>1, <3>1 DEF Session, SnapshotFirst
  <2> QED
    BY <2>2 DEF SnapshotFirst
<1>7. e.seq \in Nat /\ e.seq <= Len(log) /\ Len(log) \in Nat /\ client.lastSeq \in Nat
  BY <1>2, LenProperties DEF Sent, Event, Reader, JournalOK
<1>8. HeardAll(client', log)
  <2>1. CASE ProcessEvent
    <3>1. ~ Gap(e) /\ client' = IF Old(e) THEN client ELSE Applied(client, e)
      BY <2>1 DEF ProcessEvent, Handled
    <3>2. ~ Old(e) /\ client.lastSeq # NoSeq /\ e.seq # NoSeq => e.seq = client.lastSeq + 1
      BY <1>7, <3>1 DEF Gap, Old, Numbered
    <3> HIDE DEF e
    <3> QED
      BY <1>2, <1>5, <3>1, <3>2, AppliedHeardAll
  <2>2. CASE Catchup
    <3>1. client' = IF e.seq <= Fetched.lastSeq THEN Fetched ELSE Applied(Fetched, e)
      BY <2>2 DEF Catchup, Handled
    <3>2. Len(log) <= MaxEvents
      BY <1>7, SizeAssumption, FS_CardinalityType DEF CountInv
    <3>3. Fetched.lastSeq = Len(log)
      <4>1. ~ (client.lastSeq + Limit < Len(log))
        BY <1>7, <3>2, SizeAssumption
      <4> QED
        BY <4>1, FetchedReader
    <3>4. client' = Fetched
      BY <1>7, <3>1, <3>3
    <3> QED
      BY <1>2, <3>4, FetchedReader
  <2> QED
    BY <2>1, <2>2
<1> QED
  BY <1>1, <1>2, <1>3, <1>6, <1>8 DEF Session

LEMMA SessionStep ==
  ASSUME MaxEvents <= Limit PROVE FeedInv /\ CountInv /\ SessionInv /\ [Next]_vars => SessionInv'
<1> SUFFICES ASSUME FeedInv, CountInv, SessionInv, [Next]_vars, broken' \subseteq {"tag"}
             PROVE  Session'
  BY DEF SessionInv
<1>1. broken \subseteq broken'
  BY DEF Next, Publisher, Command, BuildState, PostMessage, AppendEvent, AppendRefused,
         AppendFails, PublishGame, PublishFails, HandleGameEventNotif, WsGet, Socket,
         WsSubscribe, WsSnapshot, WsSend, Drop, Reconnect, Browser, ProcessEvent, Catchup,
         CatchupFails, vars
<1>2. broken \subseteq {"tag"} /\ Session
  BY <1>1 DEF SessionInv
<1>3. ~ Drop /\ ~ CatchupFails
  BY DEF Drop, CatchupFails
<1>4. ASSUME NEW w \in Writers, Publisher(w) PROVE Session'
  BY <1>2, <1>4, SessionPublish
<1>5. ASSUME NEW p \in Pods, HandleGameEventNotif(p) \/ WsGet(p) PROVE Session'
  BY <1>2, <1>5, SessionNotif, SessionSocket
<1>6. CASE Socket \/ Reconnect
  BY <1>2, <1>6, SessionSocket
<1>7. CASE ProcessEvent \/ Catchup
  BY <1>2, <1>7, SessionBrowser
<1>8. CASE UNCHANGED vars
  BY <1>2, <1>8 DEF vars, Session
<1> QED
  BY <1>3, <1>4, <1>5, <1>6, <1>7, <1>8 DEF Next, Browser

\* HandleGameEventNotif, Deliver, wsGame, processEvent and fetchCatchup: as long
\* as the journal is no longer than one page of /events?since= (catchupLimit),
\* whatever envelopes are lost or overtake each other and whatever a full
\* channel drops, a session leaves out no message.
THEOREM SessionIsComplete ==
  ASSUME MaxEvents <= Limit
  PROVE  Spec => []NothingMissedInSession
<1>1. Init => FeedInv /\ CountInv /\ SessionInv
  BY FeedStarts, CountStarts, SessionStarts
<1>2. FeedInv /\ CountInv /\ SessionInv /\ [Next]_vars => (FeedInv /\ CountInv /\ SessionInv)'
  BY FeedStep, CountStep, SessionStep
<1>3. FeedInv /\ SessionInv => NothingMissedInSession
  <2> SUFFICES ASSUME FeedInv, SessionInv, broken \subseteq {"tag"}, client.lastSeq # NoSeq
               PROVE  Range(client.heard) = Chats(client.joined + 1, client.lastSeq)
    BY DEF NothingMissedInSession
  <2> QED
    BY DEF SessionInv, Session, HeardAll, Chats
<1> QED
  BY <1>1, <1>2, <1>3, PTL DEF Spec
=============================================================================
