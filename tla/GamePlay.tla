------------------------------ MODULE GamePlay ------------------------------
(***************************************************************************)
(* One live game: the cached records of internal/server/store.go on every  *)
(* pod, the games row and moves table behind them, and the goroutines that *)
(* change both - players' commands, the flag and disconnect timers, the    *)
(* bot, and LoadGame's replay.                                             *)
(*                                                                         *)
(* A record is an object on the heap: Invalidate drops it from the cache,  *)
(* but a goroutine that already holds the pointer goes on using it.        *)
(* Moves are persisted inside rec.Lock by PlayMove and outside it by the   *)
(* bot; every other write follows the unlock.  task[t].todo is the list of *)
(* database writes a goroutine still has to make, in its program order.    *)
(*                                                                         *)
(* Ownership is taken by its contract here (lessee, believes): GameLease   *)
(* is the module that says how far the contract holds.  Positions are      *)
(* abstracted: a move either wins or it does not.                          *)
(***************************************************************************)
EXTENDS Integers, FiniteSets, Sequences, SequencesExt, Functions

CONSTANTS Pods,        \* process lives
          Tasks,       \* goroutines: bounds how many are in flight
          Objs,        \* heap cells for *GameRecord
          Nil,         \* no pod, task or object
          NumPlayers,  \* seats, and players once the game has started
          Bots,        \* the seats with IsBot
          WinningMoves, QuietMoves,  \* positions that win, that do not
          Timed,       \* ClockEnabled: Config.InitialTimeMs > 0
          Overlap,     \* may several pods serve the game at a time?
          MaxMoves,    \* bound: length of the game
          MaxFaults    \* bound: database statements that fail

ASSUME SeatsAssumption ==
  NumPlayers \in Nat \ {0, 1} /\ Bots \subseteq 0 .. (NumPlayers - 1)
ASSUME NilAssumption == Nil \notin Pods \cup Tasks \cup Objs
ASSUME SwitchAssumption ==
  Timed \in BOOLEAN /\ Overlap \in BOOLEAN
ASSUME LimitAssumption == MaxMoves \in Nat /\ MaxFaults \in Nat

VARIABLES row,       \* games: winner_color, win_kind, draw_offer_by
          moves,     \* moves: a partial function of the ordinal (its key)
          slow,      \* the ordinals whose played_at lies past the flag
          heap,      \* the GameRecord objects
          cache,     \* Store.games of each pod: the object or Nil
          task,      \* the goroutines
          timer,     \* clockManager: the turn the timer is armed for, or -1
          bots,      \* objects with a bot goroutine asleep or waiting
          life,      \* a pod is one process life
          lessee,    \* the pod game_leases names, Nil when there is no row
          believes,  \* the pods with the game in Manager.held
          acked,     \* history: the moves PlayMove answered for with success
          faults     \* history: failed statements so far

dbVars    == <<row, moves, slow>>
leaseVars == <<life, lessee, believes>>
vars == <<row, moves, slow, heap, cache, task, timer, bots, life, lessee, believes,
          acked, faults>>

Seats  == 0 .. (NumPlayers - 1)
NoSeat == -1
NoTimer == -1
Moves  == [seat : Seats, pos : WinningMoves \cup QuietMoves]
Kinds  == {"none", "line", "resign", "timeout", "draw"}
Clocks == {"running", "edge", "flagged"}
Result == [winner : Seats \cup {NoSeat}, kind : Kinds]

InPlay == [winner |-> NoSeat, kind |-> "none"]

\* games.status is 'finished' exactly when win_kind is set, and a record's
\* Status exactly when State.IsOver(): the model keeps the result only.
Over(result) == result.kind # "none"

\* The database writes a goroutine may have in front of it.
Insert(n, m, res, edge) == [write |-> "append", n |-> n, move |-> m,
                            result |-> res, edge |-> edge]
Outcome(res) == [write |-> "outcome", result |-> res]
Offer(s)     == [write |-> "offer", seat |-> s]

Writes == [write : {"append"}, n : Nat, move : Moves, result : Result,
           edge : BOOLEAN]
            \cup [write : {"outcome"}, result : Result]
            \cup [write : {"offer"}, seat : Seats \cup {NoSeat}]

Ops == {"idle", "loading", "ready", "flag",
        "move", "bot", "concede", "timer", "offer"}

Blank == [pod |-> Nil, hist |-> <<>>, result |-> InPlay, offer |-> NoSeat,
          clock |-> "running", lock |-> Nil]
Idle  == [op |-> "idle", pod |-> Nil, obj |-> Nil, todo |-> <<>>,
          row |-> [result |-> InPlay, offer |-> NoSeat]]

TypeOK ==
  /\ row \in [result : Result, offer : Seats \cup {NoSeat}]
  /\ DOMAIN moves \subseteq 0 .. (MaxMoves - 1)
  /\ \A n \in DOMAIN moves : moves[n] \in Moves
  /\ slow \subseteq DOMAIN moves
  /\ heap \in [Objs -> [pod : Pods \cup {Nil}, hist : Seq(Moves),
                        result : Result, offer : Seats \cup {NoSeat},
                        clock : Clocks, lock : Tasks \cup {Nil}]]
  /\ cache \in [Pods -> Objs \cup {Nil}]
  /\ task \in [Tasks -> [op : Ops, pod : Pods \cup {Nil},
                         obj : Objs \cup {Nil}, todo : Seq(Writes),
                         row : [result : Result,
                                offer : Seats \cup {NoSeat}]]]
  /\ timer \in [Pods -> Nat \cup {NoTimer}]
  /\ bots \subseteq Objs /\ believes \subseteq Pods
  /\ life \in [Pods -> {"new", "up", "dead"}]
  /\ lessee \in Pods \cup {Nil}
  /\ acked \subseteq Nat \X Moves
  /\ faults \in Nat

Init ==
  /\ row = [result |-> InPlay, offer |-> NoSeat]
  /\ moves = <<>> /\ slow = {}
  /\ heap = [o \in Objs |-> Blank]
  /\ cache = [p \in Pods |-> Nil]
  /\ task = [t \in Tasks |-> Idle]
  /\ timer = [p \in Pods |-> NoTimer]
  /\ bots = {} /\ believes = {} /\ lessee = Nil
  /\ life = [p \in Pods |-> "new"]
  /\ acked = {} /\ faults = 0

-----------------------------------------------------------------------------
(* The record: internal/game/state.go, reduced to whose turn it is and     *)
(* who has won.                                                            *)

Wins(m) == m.pos \in WinningMoves

\* ApplyMove passes the turn on unless the move ended the game.
Turn(h) == IF h # <<>> /\ Wins(Last(h)) THEN (Len(h) - 1) % NumPlayers
                                        ELSE Len(h) % NumPlayers

\* Mutant of Legal: the wrong-turn check is missing.
LegalAnyTurn(r, m) == ~Over(r.result) /\ r.clock # "flagged"

\* ApplyMove's checks; a move at the last moment ("edge": what is left is less
\* than the database's stamps may lag behind) still counts, an exhausted clock
\* is ErrFlagged.
Legal(r, m) == ~Over(r.result) /\ m.seat = Turn(r.hist) /\ r.clock # "flagged"

Played(r, m) ==
  [r EXCEPT !.hist   = Append(@, m),
            !.clock  = "running",
            !.offer  = NoSeat,
            !.result = IF Wins(m) THEN [winner |-> m.seat, kind |-> "line"]
                                  ELSE @]

\* Mutant of Survivor: the next seat, whoever loses.
NextSeat(loser) == IF NumPlayers = 2 THEN loser + 1 ELSE NoSeat

\* Forfeit and Resign: two players leave a survivor, more leave none.
Survivor(loser) == IF NumPlayers = 2 THEN 1 - loser ELSE NoSeat
Lost(loser, k)  == [winner |-> Survivor(loser), kind |-> k]
Drawn           == [winner |-> NoSeat, kind |-> "draw"]

\* LoadGame feeds the moves, ordered by ordinal, through ApplyMove.
Log == LET n == Cardinality(DOMAIN moves)
           at(i) == CHOOSE k \in DOMAIN moves :
                      Cardinality({j \in DOMAIN moves : j < k}) = i - 1
       IN  [i \in 1 .. n |-> moves[at(i)]]

\* ... which fails on a move out of turn, after the end, or whose stamp
\* exceeds the mover's clock (never the first one: it starts the clock).
Replayable ==
  /\ \A i \in DOMAIN Log : /\ Log[i].seat = (i - 1) % NumPlayers
                           /\ i < Len(Log) => ~Wins(Log[i])
  /\ slow \subseteq {0}

-----------------------------------------------------------------------------
(* Small pieces of Store.                                                  *)

Owns(p) == p \in believes
Free(o) == heap[o].pod = Nil
Unlocked(o) == heap[o].lock = Nil

\* armClock, evaluated on the record r under its lock.
Armed(p, r) == IF Timed /\ Owns(p) /\ ~Over(r.result) THEN Len(r.hist) ELSE NoTimer

\* maybeScheduleBot: owner-gated, one goroutine per call.  Those that find a
\* finished game or a human to move return at once and are left out; should
\* the human move while they sleep, the call at PlayMove's end does the same.
Scheduled(p, o, r) ==
  IF Owns(p) /\ ~Over(r.result) /\ Turn(r.hist) \in Bots THEN bots \cup {o}
                                                          ELSE bots

\* The garbage collector: an object lives while the cache or a goroutine
\* points to it.
Kept(h) == [o \in Objs |-> IF \/ \E p \in Pods : cache'[p] = o
                              \/ \E t \in Tasks : task'[t].obj = o
                              \/ o \in bots'
                           THEN h[o] ELSE Blank]

Ends(t) == task' = [task EXCEPT ![t] = Idle]


-----------------------------------------------------------------------------
(* Processes and the lease.                                                *)

Up == {p \in Pods : life[p] = "up"}

\* Without a lease manager there is a single process and it owns every game
\* (ownsGame, leases == nil); a replica boots owning none.
Boot(p) ==
  /\ life[p] = "new"
  /\ life' = [life EXCEPT ![p] = "up"]
  /\ \/ Overlap /\ UNCHANGED <<lessee, believes>>
     \/ ~Overlap /\ Up = {} /\ lessee' = p /\ believes' = {p}
  /\ UNCHANGED <<dbVars, heap, cache, task, timer, bots, acked, faults>>

\* A crash, or a shutdown that abandons what is in flight.
Crash(p) ==
  /\ p \in Up
  /\ life' = [life EXCEPT ![p] = "dead"]
  /\ heap' = [o \in Objs |-> IF heap[o].pod = p THEN Blank ELSE heap[o]]
  /\ cache' = [cache EXCEPT ![p] = Nil]
  /\ task' = [t \in Tasks |-> IF task[t].pod = p THEN Idle ELSE task[t]]
  /\ timer' = [timer EXCEPT ![p] = NoTimer]
  /\ bots' = {o \in bots : heap[o].pod # p}
  /\ believes' = believes \ {p}
  /\ UNCHANGED <<dbVars, lessee, acked, faults>>

\* The lease is free, or expired under an owner that crashed or froze.
Claim(p) ==
  /\ Overlap /\ p \in Up /\ lessee # p
  /\ lessee' = p /\ believes' = believes \cup {p}
  /\ UNCHANGED <<dbVars, heap, cache, task, timer, bots, life, acked, faults>>

\* The heartbeat of a deposed owner: SetLeaseManager's onLost callback.
StandDown(p) ==
  /\ p \in believes /\ lessee # p
  /\ believes' = believes \ {p}
  /\ timer' = [timer EXCEPT ![p] = NoTimer]
  /\ cache' = [cache EXCEPT ![p] = Nil]
  /\ UNCHANGED <<dbVars, task, bots, life, lessee, acked, faults>>
  /\ heap' = Kept(heap)

\* An event another pod published reaches HandleGameEventNotif.
Invalidate(p) ==
  /\ Overlap /\ p \in Up /\ cache[p] # Nil
  /\ cache' = [cache EXCEPT ![p] = Nil]
  /\ UNCHANGED <<dbVars, task, timer, bots, leaseVars, acked, faults>>
  /\ heap' = Kept(heap)

-----------------------------------------------------------------------------
(* Filling the cache.                                                      *)

\* LoadGame reads the games row first ...
LoadRow(t, p) ==
  /\ p \in Up /\ cache[p] = Nil /\ task[t] = Idle
  /\ task' = [task EXCEPT ![t] = [Idle EXCEPT !.op = "loading", !.pod = p,
                                              !.row = row]]
  /\ UNCHANGED <<dbVars, heap, cache, timer, bots, leaseVars, acked, faults>>

\* Mutant of LoadMoves: the persisted result is not overlaid.
LoadMovesNoOverlay(t) ==
  /\ task[t].op = "loading" /\ Replayable
  /\ Ends(t)
  /\ LET p == task[t].pod IN
     \/ /\ cache[p] # Nil
        /\ UNCHANGED <<heap, cache, timer, bots>>
     \/ \E o \in Objs, c \in Clocks :
        LET r == [pod |-> p, hist |-> Log, result |-> InPlay,
                  offer |-> task[t].row.offer, clock |-> c, lock |-> Nil]
        IN  /\ cache[p] = Nil /\ Free(o)
            /\ moves = <<>> \/ ~Timed => c = "running"
            /\ heap' = [heap EXCEPT ![o] = r]
            /\ cache' = [cache EXCEPT ![p] = o]
            /\ timer' = [timer EXCEPT ![p] = Armed(p, r)]
            /\ bots' = Scheduled(p, o, r)
  /\ UNCHANGED <<dbVars, leaseVars, acked, faults>>

\* ... then the moves, replays them and overlays the row's result; Get keeps
\* a copy that got there first, else publishes its own and arms it.  A game
\* without moves restarts its clock; else the time since the last move counts.
LoadMoves(t) ==
  /\ task[t].op = "loading" /\ Replayable
  /\ Ends(t)
  /\ LET p == task[t].pod IN
     \/ /\ cache[p] # Nil
        /\ UNCHANGED <<heap, cache, timer, bots>>
     \/ \E o \in Objs, c \in Clocks :
        LET r == [pod |-> p, hist |-> Log, result |-> task[t].row.result,
                  offer |-> task[t].row.offer, clock |-> c, lock |-> Nil]
        IN  /\ cache[p] = Nil /\ Free(o)
            /\ moves = <<>> \/ ~Timed => c = "running"
            /\ heap' = [heap EXCEPT ![o] = r]
            /\ cache' = [cache EXCEPT ![p] = o]
            /\ timer' = [timer EXCEPT ![p] = Armed(p, r)]
            /\ bots' = Scheduled(p, o, r)
  /\ UNCHANGED <<dbVars, leaseVars, acked, faults>>

\* A log the engine refuses is an error to every caller.
LoadFails(t) ==
  /\ task[t].op = "loading" /\ ~Replayable
  /\ Ends(t)
  /\ UNCHANGED <<dbVars, heap, cache, timer, bots, leaseVars, acked, faults>>

\* AdoptGame on a cached record: arm the clock, wake the bot.
AdoptGame(p) ==
  /\ p \in Up /\ cache[p] # Nil /\ Unlocked(cache[p])
  /\ timer' = [timer EXCEPT ![p] = Armed(p, heap[cache[p]])]
  /\ bots' = Scheduled(p, cache[p], heap[cache[p]])
  /\ UNCHANGED <<dbVars, heap, cache, task, leaseVars, acked, faults>>

-----------------------------------------------------------------------------
(* Commands.  A handler takes the pointer out of the cache, then the lock. *)

Open(t, p) ==
  /\ p \in Up /\ cache[p] # Nil /\ task[t] = Idle
  /\ task' = [task EXCEPT ![t] = [Idle EXCEPT !.op = "ready", !.pod = p,
                                              !.obj = cache[p]]]
  /\ UNCHANGED <<dbVars, heap, cache, timer, bots, leaseVars, acked, faults>>

\* A command that unlocks before it writes: r is the record as it leaves it,
\* todo the writes, whose values it takes along.
Leaves(t, op, r, todo) ==
  /\ Unlocked(task[t].obj)
  /\ task' = [task EXCEPT ![t].op = op, ![t].obj = Nil, ![t].todo = todo]
  /\ bots' = bots /\ cache' = cache
  /\ heap' = Kept([heap EXCEPT ![task[t].obj] = r])

\* The draw offer is cleared in the database only when one was pending.
Rescind(r) == IF r.offer = NoSeat THEN <<>> ELSE <<Offer(NoSeat)>>

\* The write of a move: its ordinal and result are read under the lock.
Journal(r, m) ==
  <<Insert(Len(r.hist), m, Played(r, m).result, r.clock = "edge")>>

\* PlayMove: the lock stays taken until both writes are done.
PlayMove(t, m) ==
  LET r == heap[task[t].obj] IN
  /\ task[t].op = "ready" /\ m.seat \notin Bots
  /\ Legal(r, m) /\ Len(r.hist) < MaxMoves
  /\ Unlocked(task[t].obj)
  /\ heap' = [heap EXCEPT ![task[t].obj] = [Played(r, m) EXCEPT !.lock = t]]
  /\ task' = [task EXCEPT ![t].op = "move",
                          ![t].todo = Journal(r, m) \o Rescind(r)]
  /\ UNCHANGED <<dbVars, cache, timer, bots, leaseVars, acked, faults>>

\* Mutant of EndGame: the game may be over already.
EndGameAnyway(t, op, res, offer, todo) ==
  LET r == heap[task[t].obj] IN
  /\ Leaves(t, op, [r EXCEPT !.result = res, !.offer = offer],
            <<Outcome(res)>> \o todo)
  /\ timer' = [timer EXCEPT ![task[t].pod] = NoTimer]
  /\ UNCHANGED <<dbVars, leaseVars, acked, faults>>

\* gameEnded: the clock of the pod is cancelled.
EndGame(t, op, res, offer, todo) ==
  LET r == heap[task[t].obj] IN
  /\ ~Over(r.result)
  /\ Leaves(t, op, [r EXCEPT !.result = res, !.offer = offer],
            <<Outcome(res)>> \o todo)
  /\ timer' = [timer EXCEPT ![task[t].pod] = NoTimer]
  /\ UNCHANGED <<dbVars, leaseVars, acked, faults>>

Resign(t, s) ==
  /\ task[t].op = "ready" /\ s \notin Bots
  /\ EndGame(t, "concede", Lost(s, "resign"), NoSeat,
             Rescind(heap[task[t].obj]))

AcceptDraw(t, s) ==
  /\ task[t].op = "ready" /\ s \notin Bots
  /\ heap[task[t].obj].offer \notin {NoSeat, s}
  /\ EndGame(t, "concede", Drawn, NoSeat, <<Offer(NoSeat)>>)

\* handleDisconnectTimeout: the offer is left alone.
DisconnectTimeout(t, s) ==
  /\ task[t].op = "ready"
  /\ EndGame(t, "timer", Lost(s, "timeout"), heap[task[t].obj].offer, <<>>)

OfferDraw(t, s) ==
  LET r == heap[task[t].obj] IN
  /\ task[t].op = "ready" /\ s \notin Bots /\ NumPlayers = 2
  /\ ~Over(r.result) /\ r.offer = NoSeat
  /\ Leaves(t, "offer", [r EXCEPT !.offer = s], <<Offer(s)>>)
  /\ UNCHANGED <<dbVars, timer, leaseVars, acked, faults>>

DeclineDraw(t) ==
  LET r == heap[task[t].obj] IN
  /\ task[t].op = "ready"
  /\ ~Over(r.result) /\ r.offer # NoSeat
  /\ Leaves(t, "offer", [r EXCEPT !.offer = NoSeat], <<Offer(NoSeat)>>)
  /\ UNCHANGED <<dbVars, timer, leaseVars, acked, faults>>

\* Every early return of a command: over, out of turn, flagged, no offer.
Refused(t) ==
  /\ task[t].op = "ready" /\ Unlocked(task[t].obj)
  /\ Ends(t)
  /\ UNCHANGED <<dbVars, cache, timer, bots, leaseVars, acked, faults>>
  /\ heap' = Kept(heap)

-----------------------------------------------------------------------------
(* The clock.                                                              *)

\* Time passes for the player to move.
Tick(o) ==
  /\ Timed /\ heap[o].pod # Nil /\ ~Over(heap[o].result) /\ heap[o].clock # "flagged"
  /\ heap' = [heap EXCEPT ![o].clock =
                IF @ = "running" THEN "edge" ELSE "flagged"]
  /\ UNCHANGED <<dbVars, cache, task, timer, bots, leaseVars, acked, faults>>

\* A timer is due when its turn's time has run out, or when its turn is gone
\* and nothing has cancelled it yet.  handleFlag looks the record up first.
Fire(t, p) ==
  LET o == cache[p] IN
  /\ timer[p] # NoTimer /\ task[t] = Idle
  /\ o # Nil => heap[o].clock # "running" \/ Len(heap[o].hist) # timer[p]
  /\ timer' = [timer EXCEPT ![p] = NoTimer]
  /\ IF o = Nil THEN UNCHANGED task
     ELSE task' = [task EXCEPT ![t] = [Idle EXCEPT !.op = "flag", !.pod = p,
                                                   !.obj = o]]
  /\ UNCHANGED <<dbVars, heap, cache, bots, leaseVars, acked, faults>>

\* Mutant of HandleFlag: no recheck of the clock under the lock.
HandleFlagNoRecheck(t) ==
  LET r == heap[task[t].obj] IN
  /\ task[t].op = "flag"
  /\ EndGame(t, "timer", Lost(Turn(r.hist), "timeout"), r.offer, <<>>)

HandleFlag(t) ==
  LET r == heap[task[t].obj] IN
  /\ task[t].op = "flag" /\ r.clock # "running"
  /\ EndGame(t, "timer", Lost(Turn(r.hist), "timeout"), r.offer, <<>>)

HandleFlagReturns(t) ==
  LET r == heap[task[t].obj] IN
  /\ task[t].op = "flag" /\ Unlocked(task[t].obj)
  /\ Over(r.result) \/ r.clock = "running"
  /\ Ends(t)
  /\ UNCHANGED <<dbVars, cache, timer, bots, leaseVars, acked, faults>>
  /\ heap' = Kept(heap)

-----------------------------------------------------------------------------
(* The bot: the engine's move is applied under the lock, written after it. *)

PlayBotTurn(t, o, m) ==
  LET r == heap[o] IN
  /\ o \in bots /\ task[t] = Idle /\ Unlocked(o)
  /\ m.seat \in Bots /\ Legal(r, m) /\ Len(r.hist) < MaxMoves
  /\ heap' = [heap EXCEPT ![o] = Played(r, m)]
  /\ timer' = [timer EXCEPT ![r.pod] = Armed(r.pod, Played(r, m))]
  /\ task' = [task EXCEPT ![t] =
                [Idle EXCEPT !.op = "bot", !.pod = r.pod, !.obj = o,
                             !.todo = Journal(r, m) \o Rescind(r)]]
  /\ bots' = bots \ {o}
  /\ UNCHANGED <<dbVars, cache, leaseVars, acked, faults>>

BotReturns(o) ==
  /\ o \in bots /\ Unlocked(o)
  /\ \/ Over(heap[o].result) \/ Turn(heap[o].hist) \notin Bots
     \/ heap[o].clock = "flagged" \/ Len(heap[o].hist) >= MaxMoves
  /\ bots' = bots \ {o}
  /\ UNCHANGED <<dbVars, cache, task, timer, leaseVars, acked, faults>>
  /\ heap' = Kept(heap)

-----------------------------------------------------------------------------
(* The writes of repo_postgres.go, each one statement or one transaction.  *)

Writing(t, w) == task[t].todo # <<>> /\ Head(task[t].todo).write = w
Continue(t)   == IF Len(task[t].todo) = 1 /\ task[t].op \notin {"move", "bot"}
                   THEN Ends(t)
                   ELSE task' = [task EXCEPT ![t].todo = Tail(@)]
Unlocks(t)    == [heap EXCEPT ![task[t].obj].lock = Nil]

\* Mutant of AppendMove: a duplicate ordinal is skipped, not an error.
AppendMoveOrSkip(t) ==
  LET w == Head(task[t].todo) IN
  /\ Writing(t, "append")
  /\ moves' = [k \in DOMAIN moves \cup {w.n} |->
                 IF k \in DOMAIN moves THEN moves[k] ELSE w.move]
  /\ slow' = slow
  /\ row' = [row EXCEPT !.result = w.result]
  /\ Continue(t)
  /\ UNCHANGED <<heap, cache, timer, bots, leaseVars, acked, faults>>

\* The moves key refuses a taken ordinal; nothing looks at the lease, and the
\* result is overwritten with the writer's.  played_at is the database's
\* clock: later than the `now' of ApplyMove, past the flag if that was close.
AppendMove(t) ==
  LET w == Head(task[t].todo) IN
  /\ Writing(t, "append") /\ w.n \notin DOMAIN moves
  /\ moves' = [k \in DOMAIN moves \cup {w.n} |->
                 IF k = w.n THEN w.move ELSE moves[k]]
  /\ \/ slow' = slow
     \/ w.edge /\ slow' = slow \cup {w.n}
  /\ row' = [row EXCEPT !.result = w.result]
  /\ Continue(t)
  /\ UNCHANGED <<heap, cache, timer, bots, leaseVars, acked, faults>>

SaveDrawOffer(t) ==
  /\ Writing(t, "offer")
  /\ row' = [row EXCEPT !.offer = Head(task[t].todo).seat]
  /\ Continue(t)
  /\ UNCHANGED <<moves, slow, heap, cache, timer, bots, leaseVars, acked,
                 faults>>

\* UpdateOutcome's WHERE: epoch 0 (no belief) passes, a stale epoch does not.
Fenced(p) == Owns(p) /\ lessee # p

UpdateOutcome(t) ==
  /\ Writing(t, "outcome") /\ ~Fenced(task[t].pod)
  /\ row' = [row EXCEPT !.result = Head(task[t].todo).result]
  /\ Continue(t)
  /\ UNCHANGED <<moves, slow, heap, cache, timer, bots, leaseVars, acked,
                 faults>>

\* ErrStaleLease: a timer drops the cache and stays quiet, a command goes on.
OutcomeFenced(t) ==
  LET p == task[t].pod IN
  /\ Writing(t, "outcome") /\ Fenced(p)
  /\ \/ /\ task[t].op = "timer"
        /\ cache' = [cache EXCEPT ![p] = Nil] /\ Ends(t)
     \/ /\ task[t].op = "concede"
        /\ Continue(t) /\ UNCHANGED cache
  /\ UNCHANGED <<dbVars, timer, bots, leaseVars, acked, faults>>
  /\ heap' = Kept(heap)

\* A failed statement: PlayMove returns at once - the record keeps the move,
\* the clock is not armed - and everyone else shrugs and goes on.
Stumble(t) ==
  /\ bots' = bots /\ cache' = cache
  /\ \/ task[t].op = "move" /\ Ends(t) /\ heap' = Kept(Unlocks(t))
     \/ task[t].op # "move" /\ Continue(t) /\ heap' = heap

AppendConflict(t) ==
  /\ Writing(t, "append") /\ Head(task[t].todo).n \in DOMAIN moves
  /\ Stumble(t)
  /\ UNCHANGED <<dbVars, timer, leaseVars, acked, faults>>

StatementFails(t) ==
  /\ task[t].todo # <<>> /\ faults < MaxFaults
  /\ faults' = faults + 1
  /\ Stumble(t)
  /\ UNCHANGED <<dbVars, timer, leaseVars, acked>>

\* Mutant of MoveReturns: the clock is not armed again.
MoveReturnsUnarmed(t) ==
  LET p == task[t].pod
      o == task[t].obj
      h == heap[o].hist
  IN  /\ task[t].op = "move" /\ task[t].todo = <<>>
      /\ timer' = timer
      /\ bots' = Scheduled(p, o, heap[o])
      /\ acked' = acked \cup {<<Len(h) - 1, Last(h)>>}
      /\ Ends(t)
      /\ UNCHANGED <<dbVars, cache, leaseVars, faults>>
      /\ heap' = Kept(Unlocks(t))

\* PlayMove's tail: arm the clock, wake the bot, unlock, answer.
MoveReturns(t) ==
  LET p == task[t].pod
      o == task[t].obj
      h == heap[o].hist
  IN  /\ task[t].op = "move" /\ task[t].todo = <<>>
      /\ timer' = [timer EXCEPT ![p] = Armed(p, heap[o])]
      /\ bots' = Scheduled(p, o, heap[o])
      /\ acked' = acked \cup {<<Len(h) - 1, Last(h)>>}
      /\ Ends(t)
      /\ UNCHANGED <<dbVars, cache, leaseVars, faults>>
      /\ heap' = Kept(Unlocks(t))

\* The bot's tail schedules the next turn.
BotPlayed(t) ==
  /\ task[t].op = "bot" /\ task[t].todo = <<>>
  /\ bots' = Scheduled(task[t].pod, task[t].obj, heap[task[t].obj])
  /\ Ends(t)
  /\ UNCHANGED <<dbVars, cache, timer, leaseVars, acked, faults>>
  /\ heap' = Kept(heap)

-----------------------------------------------------------------------------
Begin(t) == \E p \in Pods : LoadRow(t, p) \/ Open(t, p)

Handle(t) ==
  \/ LoadMoves(t) \/ LoadFails(t)
  \/ \E m \in Moves : PlayMove(t, m)
  \/ \E s \in Seats :
       Resign(t, s) \/ OfferDraw(t, s) \/ AcceptDraw(t, s)
         \/ DisconnectTimeout(t, s)
  \/ DeclineDraw(t) \/ Refused(t)
  \/ HandleFlag(t) \/ HandleFlagReturns(t)

Write(t) ==
  \/ AppendMove(t) \/ AppendConflict(t) \/ SaveDrawOffer(t)
  \/ UpdateOutcome(t) \/ OutcomeFenced(t)
  \/ MoveReturns(t) \/ BotPlayed(t)

Bot(t) == \E o \in Objs, m \in Moves : PlayBotTurn(t, o, m)

Next ==
  \/ \E p \in Pods : Boot(p) \/ Crash(p) \/ Claim(p) \/ StandDown(p)
                       \/ Invalidate(p) \/ AdoptGame(p)
  \/ \E o \in Objs : Tick(o) \/ BotReturns(o)
  \/ \E t \in Tasks : Begin(t) \/ Handle(t) \/ Write(t) \/ StatementFails(t)
                        \/ Bot(t) \/ \E p \in Pods : Fire(t, p)

Spec == Init /\ [][Next]_vars

-----------------------------------------------------------------------------
(* Properties of every deployment.                                         *)

\* A move PlayMove answered with success is in the journal, at its ordinal
\* and as played, whatever crashes, takeovers, stale records and failed
\* statements follow or went before.
AckedMovesSurvive ==
  \A a \in acked : a[1] \in DOMAIN moves /\ moves[a[1]] = a[2]

\* handleFlag never takes the game from a player who moved in time: the
\* record it ends has spent the clock of the turn it is in.
FlagOnTime ==
  [][\A o \in Objs :
       heap[o].clock = "running" /\ heap'[o].result.kind = "timeout"
         /\ ~Over(heap[o].result) /\ heap'[o].hist = heap[o].hist
         => \A t \in Tasks : task[t].op = "flag" => task'[t] = task[t]]_vars

(* Properties of one process at a time, players only; those that speak of  *)
(* memory and database together as long as no statement has failed.        *)

\* A finished game stays finished in the games row, through crash and reload:
\* nothing a command or a timer still has to write reopens it.
FinishedIsFinal ==
  [][Over(row.result) => row'.result = row.result]_vars

\* The moves table is the log of one legal game: no ordinal is left out, every
\* move is by the player whose turn it was, and a winning move is the last and
\* has finished the games row, whatever commands, timers, crashes and reloads
\* interleave.  All that can stop LoadGame from replaying it is then a stamp.
JournalInOrder ==
  faults = 0 =>
    \A n \in DOMAIN moves :
      /\ n = 0 \/ n - 1 \in DOMAIN moves
      /\ moves[n].seat = n % NumPlayers
      /\ Wins(moves[n]) => (n + 1) \notin DOMAIN moves /\ Over(row.result)

\* repo_postgres.go:135-137, LoadGame replays the moves "so captures, wins, and
\* clock deductions are reproduced by the same engine; played_at is the move's
\* now": what ApplyMove accepted and AppendMove stored, LoadGame can replay.
JournalReplays == faults = 0 => Replayable

Busy(p) == \E t \in Tasks :
             task[t].pod = p /\ task[t].op \notin {"idle", "ready", "flag"}

\* When no goroutine has writes left, the record in memory is what a reload
\* would produce: the result and every move.
MemoryIsJournal ==
  \A p \in Pods : faults = 0 /\ cache[p] # Nil /\ ~Busy(p) =>
     heap[cache[p]].result = row.result /\ heap[cache[p]].hist = Log

\* An owner never leaves a live game without a clock: the timer is armed for
\* the turn that is running, or its handler is on its way.
ClockGuarded ==
  \A p \in believes :
    /\ faults = 0 /\ Timed
    /\ cache[p] # Nil /\ ~Busy(p) /\ ~Over(heap[cache[p]].result)
    => \/ timer[p] = Len(heap[cache[p]].hist)
       \/ \E t \in Tasks : task[t].op = "flag" /\ task[t].pod = p
=============================================================================
