---------------------------- MODULE Matchmaking ----------------------------
(***************************************************************************)
(* Public games: the queue, the matcher of the elected process and the     *)
(* search page (internal/server/matcher.go, matchmaking.go, lobby.go;      *)
(* repo_postgres.go: EnqueueMatchmake, MatchmakeTick,                      *)
(* CurrentMatchmadeGame; web/src/api/matchmake.ts).                        *)
(*                                                                         *)
(* A tick is a transaction of its own: it locks the rows it reads, passes  *)
(* over rows that others hold, and makes games and drops the rows in one   *)
(* commit.  Losing the election cancels the context of the tick, which     *)
(* may come too late: for a while two processes match.  A tick that pairs  *)
(* nobody changes nothing, and stutters here.                              *)
(***************************************************************************)
EXTENDS Elector, SequencesExt, Functions

CONSTANTS Users, Rating, Sizes,
          Batch,   \* matchmakeBatchSize
          Step,    \* seconds in one step of waiting
          MaxWait, \* bound: ages are told apart up to so many steps
          MaxAsks  \* bound: requests to enqueue

ASSUME RatingAssumption == Rating \in [Users -> Nat]
ASSUME SizesAssumption == Sizes \subseteq 2 .. 6
ASSUME MatchmakingBounds == {Batch, Step, MaxWait, MaxAsks} \subseteq Nat \ {0}

VARIABLES queue,     \* matchmake_queue by enqueued_at: [user, size, age]
          games,     \* public games by creation: [players, over]
          ticks,     \* transactions under way: [pod, rows, groups, stale]
          searching, \* users whose search page is queued
          pushes,    \* match_found events on their way: <<user, game>>
          asks       \* bound counter

queueVars == <<queue, games, ticks, searching, pushes, asks>>
vars == <<electorVars, queueVars>>

Queued == {queue[i].user : i \in DOMAIN queue}
Locked == UNION {t.rows : t \in ticks}

TypeOK ==
  /\ ElectorTypeOK
  /\ queue \in Seq([user : Users, size : Sizes, age : 0 .. MaxWait])
  /\ Len(queue) = Cardinality(Queued)
  /\ \A g \in DOMAIN games : games[g].players \subseteq Users /\ games[g].over \in BOOLEAN
  /\ \A t \in ticks : t.pod \in Pods /\ t.stale \in BOOLEAN
  /\ \A t, u \in ticks : t # u => t.rows \cap u.rows = {}
  /\ Locked \subseteq Queued
  /\ searching \subseteq Users
  /\ pushes \subseteq Users \X DOMAIN games
  /\ asks \in 0 .. MaxAsks

Init ==
  /\ ElectorInit
  /\ queue = <<>> /\ games = <<>> /\ ticks = {}
  /\ searching = {} /\ pushes = {} /\ asks = 0

-----------------------------------------------------------------------------
(* The players and their search pages.                                     *)

\* How many of these places come before this one, and the entries of a
\* sequence at these places alone, in their order.
Rank(places, k) == Cardinality({j \in places : j < k})
Only(s, places) ==
  [i \in 1 .. Cardinality(places) |-> s[CHOOSE k \in places : Rank(places, k) = i - 1]]

Less(S) == Only(queue, {i \in DOMAIN queue : queue[i].user \notin S})

\* Enqueue, on mounting the page, again from another one, or on a reload: an
\* upsert, which waits for the row lock and goes to the back of the queue.
Ask(u, size) ==
  /\ u \notin Locked /\ asks < MaxAsks /\ asks' = asks + 1
  /\ queue' = Append(Less({u}), [user |-> u, size |-> size, age |-> 0])
  /\ searching' = searching \cup {u}
  /\ UNCHANGED <<electorVars, games, ticks, pushes>>

\* The page is left, for whatever reason, and its DELETE is or is not executed.
Leave(u) ==
  /\ searching' = searching \ {u}
  /\ \/ u \notin Locked /\ queue' = Less({u})
     \/ UNCHANGED queue

\* The button, or another way off the page.
Cancel(u) ==
  /\ u \in searching /\ Leave(u)
  /\ UNCHANGED <<electorVars, games, ticks, pushes, asks>>

\* Mutant of Current: rooms that wait for players are looked up.
CurrentWaiting(u) == {}

\* CurrentMatchmadeGame: unfinished games of the user; the newest is returned.
Current(u) == {g \in DOMAIN games : u \in games[g].players /\ ~games[g].over}

\* The page polls /matchmake/current.
Poll(u) ==
  /\ u \in searching /\ Current(u) # {} /\ Leave(u)
  /\ UNCHANGED <<electorVars, games, ticks, pushes, asks>>

\* match_found reaches the page.
Push(u, g) ==
  /\ u \in searching /\ pushes' = pushes \ {<<u, g>>} /\ Leave(u)
  /\ UNCHANGED <<electorVars, games, ticks, asks>>

\* It is lost, or finds no page.
PushLost(u, g) ==
  /\ pushes' = pushes \ {<<u, g>>}
  /\ UNCHANGED <<electorVars, queue, games, ticks, searching, asks>>

Finish(g) ==
  /\ ~games[g].over /\ games' = [games EXCEPT ![g].over = TRUE]
  /\ UNCHANGED <<electorVars, queue, ticks, searching, pushes, asks>>

\* Time passes for every ticket.
Wait ==
  /\ queue' = [i \in DOMAIN queue |->
                 [queue[i] EXCEPT !.age = IF @ = MaxWait THEN @ ELSE @ + 1]]
  /\ UNCHANGED <<electorVars, games, ticks, searching, pushes, asks>>

-----------------------------------------------------------------------------
(* Pairing.                                                                *)

Delta(u, v) == IF Rating[u] < Rating[v] THEN Rating[v] - Rating[u] ELSE Rating[u] - Rating[v]

\* Mutant of ScoreBandFor: the band does not grow.
ScoreBandFixed(age) == 100

\* scoreBandFor.
ScoreBandFor(age) ==
  LET band == 100 + age * Step * 10
  IN  IF band > 1000 THEN 1000 ELSE band

\* Within the wider of the two bands.
Accepts(qs, i, j) ==
  \E k \in {i, j} : Delta(qs[i].user, qs[j].user) <= ScoreBandFor(qs[k].age)

\* At least as close to i, and the first of equally close ones.
Closer(qs, i, j, k) ==
  LET d == Delta(qs[i].user, qs[j].user)
      e == Delta(qs[i].user, qs[k].user)
  IN  d < e \/ (d = e /\ j <= k)

\* The i-th meets the closest of those behind who are free and accepted.
Meet(qs, groups, i) ==
  LET matched == UNION Range(groups)
      free == {j \in i + 1 .. Len(qs) : qs[j].user \notin matched /\ Accepts(qs, i, j)}
  IN  IF qs[i].user \in matched \/ free = {} THEN groups
      ELSE LET j == CHOOSE j \in free : \A k \in free : Closer(qs, i, j, k)
           IN  Append(groups, {qs[i].user, qs[j].user})

\* pair1v1: everybody in queue order.
Pair1v1(qs) ==
  LET after[i \in 0 .. Len(qs)] == IF i = 0 THEN <<>> ELSE Meet(qs, after[i - 1], i)
  IN  after[Len(qs)]

\* multiWaitThreshold.
MultiWaitThreshold(occupied) ==
  CASE occupied >= 6 -> 0 [] occupied = 5 -> 5 [] occupied = 4 -> 10
    [] occupied = 3 -> 20 [] OTHER -> 24 * 3600

\* Mutant of PairMulti: the threshold of the room, not of those who are there.
PairMultiByRoom(qs, players) ==
  LET n == Len(qs)
      everyone == {qs[i].user : i \in DOMAIN qs}
  IN  IF n < 3 \/ (n < players /\ Step * qs[1].age < MultiWaitThreshold(players))
      THEN <<>>
      ELSE <<everyone>>

\* pairMulti: a full room, or all there are if the first has waited enough.
PairMulti(qs, players) ==
  LET n == Len(qs)
      first == SubSeq(qs, 1, IF n < players THEN n ELSE players)
  IN  IF n < 3 \/ (n < players /\ Step * qs[1].age < MultiWaitThreshold(n))
      THEN <<>>
      ELSE <<{first[i].user : i \in DOMAIN first}>>

-----------------------------------------------------------------------------
(* The matcher.                                                            *)

\* Mutant of Free: the rows are read without SKIP LOCKED and without a lock.
FreeOrNot(q) == TRUE

\* Not locked by another tick.
Free(q) == q.user \notin Locked

\* The select of MatchmakeTick.
Batched(size) ==
  LET rows == {i \in DOMAIN queue : queue[i].size = size /\ Free(queue[i])}
  IN  Only(queue, {i \in rows : Rank(rows, i) < Batch})

\* Mutant of Pairing: nothing is tried before the room is full.
PairingIfFull(qs, size) ==
  IF Len(qs) < size THEN <<>> ELSE IF size = 2 THEN Pair1v1(qs) ELSE PairMulti(qs, size)

Pairing(qs, size) == IF size = 2 THEN Pair1v1(qs) ELSE PairMulti(qs, size)

\* The loop of the leader runs one tick at a time.
TickBegin(p, size) ==
  /\ leads[p] /\ \A t \in ticks : t.pod = p => t.stale
  /\ \E qs \in {Batched(size)} : \E groups \in {Pairing(qs, size)} :
       /\ groups # <<>>
       /\ ticks' = ticks \cup {[pod |-> p, rows |-> {qs[i].user : i \in DOMAIN qs},
                                groups |-> groups, stale |-> FALSE]}
  /\ UNCHANGED <<electorVars, queue, games, searching, pushes, asks>>

\* Mutant of Matched: the DELETE names the last group only.
MatchedLast(groups) == Last(groups)

Matched(groups) == UNION Range(groups)

Commit(t) ==
  /\ games' = games \o [k \in DOMAIN t.groups |-> [players |-> t.groups[k], over |-> FALSE]]
  /\ queue' = Less(Matched(t.groups))
  /\ ticks' = ticks \ {t}

\* The commit succeeds and everybody is told.
TickCommit(t) ==
  /\ Commit(t)
  /\ pushes' = pushes \cup UNION {games'[g].players \X {g} : g \in DOMAIN games' \ DOMAIN games}
  /\ UNCHANGED <<electorVars, searching, asks>>

\* It succeeds and nobody is told: the reply is lost, or the process has died.
TickCommitUnheard(t) ==
  /\ Commit(t)
  /\ IF t.stale THEN UNCHANGED mishaps ELSE Mishap
  /\ UNCHANGED <<row, process, leads, answer, searching, pushes, asks>>

\* A statement fails, or the context was cancelled in time.
TickAbort(t) ==
  /\ ticks' = ticks \ {t}
  /\ IF t.stale THEN UNCHANGED mishaps ELSE Mishap
  /\ UNCHANGED <<row, process, leads, answer, queue, games, searching, pushes, asks>>

\* A deposed leader cancels the context of its matcher.
Deposed ==
  ticks' = {[t EXCEPT !.stale = t.stale \/ ~leads'[t.pod]] : t \in ticks}

Election ==
  /\ \E p \in Pods :
       \/ Start(p) \/ CampaignSQL(p) \/ CampaignFails(p) \/ BecomeLeader(p) \/ StepDown(p)
       \/ Close(p) \/ Resign(p) \/ ResignFails(p) \/ Crash(p)
  /\ Deposed
  /\ UNCHANGED <<queue, games, searching, pushes, asks>>

Lapse == Expire /\ UNCHANGED queueVars

Next ==
  \/ Election \/ Lapse \/ Wait
  \/ \E u \in Users : (\E size \in Sizes : Ask(u, size)) \/ Cancel(u) \/ Poll(u)
  \/ \E push \in pushes : Push(push[1], push[2]) \/ PushLost(push[1], push[2])
  \/ \E g \in DOMAIN games : Finish(g)
  \/ \E p \in Pods, size \in Sizes : TickBegin(p, size)
  \/ \E t \in ticks : TickCommit(t) \/ TickCommitUnheard(t) \/ TickAbort(t)

Spec == Init /\ [][Next]_vars

\* The matcher of a leader ticks, transactions end, time passes and pages
\* poll; nothing is asked of players and pushes.
MatcherFairness ==
  /\ WF_vars(\E p \in Pods, size \in Sizes : TickBegin(p, size))
  /\ WF_vars(\E t \in ticks : TickCommit(t) \/ (t.stale /\ TickAbort(t)))
  /\ WF_vars(Wait) /\ WF_vars(\E u \in Users : Poll(u))

FairSpec == Spec /\ ElectorFairness /\ MatcherFairness

-----------------------------------------------------------------------------
(* Properties.                                                             *)

Row(u) == queue[CHOOSE i \in DOMAIN queue : queue[i].user = u]

Promise == INSTANCE Tickets
  WITH ticket <- [u \in Queued |-> [size |-> Row(u).size, waited |-> Row(u).age]],
       games <- [g \in DOMAIN games |-> games[g].players]

\* The queue and the transactions of several matchers implement the tickets:
\* no player is matched twice with one ticket, none loses the ticket without a
\* game, and no game comes about against the rules, though pairs are chosen
\* before the commit, by processes of which one may have been deposed.
KeepsPromise == Promise!Spec

\* Two duellists within 1000 points, or three who share a room.
Hopeful(S) ==
  /\ S \subseteq Queued
  /\ \/ /\ Cardinality(S) = 2 /\ \A u, v \in S : Row(u).size = 2 /\ Delta(u, v) <= 1000
     \/ Cardinality(S) = 3 /\ \E size \in Sizes \ {2} : \A u \in S : Row(u).size = size

\* Whatever happens to the leader, nobody waits for ever beside somebody they
\* could meet: some process leads at last, reads the rows and lets bands and
\* patience grow.
QueueDrains == []<>(\A S \in SUBSET Users : ~Hopeful(S))

\* web/src/api/matchmake.ts:89: the poll is the "durable fallback".  No player
\* whose game goes on stays on the search page, though match_found may be lost
\* or come while the page asks anew.
PushMadeUpFor ==
  []<>(\A u \in searching : \A g \in DOMAIN games : u \in games[g].players => games[g].over)
=============================================================================
