# Gemline: a verification development

Gemline is a multiplayer board game: a Go server (`src/cmd/server`,
`src/internal`) run as one process or as a fleet of pods behind a Service, with
Postgres as the source of truth and Redis as a lossy bus, and a React client
(`src/web`). This directory holds TLA+ models of its core, the TLC
configurations that check them on small instances, an abstract specification that a
detailed one is shown to implement, and TLAPS proofs about all of them. `PROJECT.json` maps every definition to the lines it models.

Contents: [inventory](#inventory), [the modules](#the-modules),
[runs and bounds](#runs-and-bounds), [disagreements](#where-code-and-documents-disagree),
[proofs](#proofs), [what is not modelled](#not-modelled), [plan](#plan).

## Inventory

| Part | State it keeps | Operations | What is hard about it |
|---|---|---|---|
| Game leases (`lease/lease.go`) | row `game_leases(owner_id, epoch, expires_at)`; per pod `Manager.held` | Acquire, EnsureHeld, renew (heartbeat), Close; reads Held, Owner | held and row are never changed in one step; zombies; replies lost; the epoch as a fencing token |
| Journal writes (`server/repo_postgres.go`) | `game_events`, `moves`, `games` | AppendEvent and UpdateOutcome (fenced by epoch), AppendMove and SaveDrawOffer (not fenced), LoadGame | check and commit of one statement under concurrency; two unrelated fencing policies |
| Rules (`game/*.go`) | `GameState`: board, players, turn, clock, result | ApplyMove, Forfeit, Resign, AgreeDraw, StartClock | several captures at once, exact run lengths, precedence, clock boundary |
| Live games (`server/store.go`, `clock.go`, `draw.go`, `bot.go`) | cache of `GameRecord`s, one clock timer per game, bot goroutines | Get, Invalidate, AdoptGame, PlayMove, Resign, draw commands, handleFlag, handleDisconnectTimeout, playBotTurnIfNeeded | memory, database and timers change at different moments; a record outlives its place in the cache |
| Ownership of duties (`store.go`, `forward.go`) | cache, timers, held, per pod | owned, AdoptGame, orphan sweeper, armClock, onLost | a game nobody moves in must still lose on time after its owner died |
| Event stream (`events.go`, `hub.go`, `ws.go`, `bus/redis.go`) | journal seq, interest counts, subscriber channels | Publish, HandleGameEventNotif, Deliver, wsGame | a lossy, reordering path with a durable journal beside it |
| Browser socket (`web/src/api/gameSocket.ts`) | lastSeq, processChain, attempts | processEvent, fetchCatchup, reconnect | deduplication and gap filling around awaits |
| Seats and lobby (`store.go`, `server.go`) | seats, status `waiting` | Create, Join, ResolveSeat, Start, AddBot, RemoveBot, invitations, LeaveSeat, stale cleaner | seat reservations, renumbering at start, memory ahead of the database |
| Presence (`presence.go`, `store.go`, `ws.go`) | connection counts, grace timers | SeatConnected, SeatDisconnected, handleDisconnectTimeout, gameEnded | count and timer change outside one lock, both go by a number that a start changes |
| Matchmaking (`matcher.go`, `matchmaking.go`, `lobby.go`, `web/src/api/matchmake.ts`) | queue rows with locks, ticks, search pages | Enqueue, cancel, MatchmakeTick, pair1v1, pairMulti, match_found, poll | two leaders overlap, a cancellation races with a tick, a lost push |
| Election (`lease/elector.go`) | row `leader_leases`, leadCancel | campaign, becomeLeader, stepDown, Close | the answer is acted on after the row may have changed hands |
| Rematch (`rematch.go`) | offer and link, in the row and on every cached record | OfferRematch, DeclineRematch, Rematch | two pods complete one offer, records of different age |
| Ratings (`elo/elo.go`, `store.go`) | `ratings`, `rating_history`, `games.rated_at` | maybeApplyRating, applyRating1v1, applyRatingMulti, ApplyRatedGame | read outside the transaction, two processes ending one game, integer rounding |
| HTTP surface, auth, rate limit, metrics, tracing, UI, deployment | – | – | no protocol of their own |

How they interact. A command arrives at any pod; `owned` serves it where the
lease is held, claims the lease when it is free or expired, or passes the
command on to the owner. The handler finds the record through `Store.Get` (cache, else
`LoadGame`), changes it under `rec.Lock`, persists, arms the clock, and calls
`EventPublisher.Publish`, which appends to `game_events` and sends the bare seq
over the bus. Pods that hear of it invalidate their copy and hand the journal row
to the subscribers of their hub. The heartbeat extends the leases of its pod and
tells the store of a lease it lost (`onLost`): timer cancelled, copy dropped. A
sweeper on each pod adopts games whose lease is dead.

Before the game: a private room fills by joins, invitations and bots and starts when it
is full or when the host says so; a public game is made by the elected matcher out of
the queue, with its seats reserved by identity. While it is played, sockets are counted per seat and the
last one to go starts a grace timer. After it: whichever process ends the game
starts the rating, and the players may agree on a rematch, which is a new game linked from the old one.

What makes each component correct, and where it is stated:

- leases: an epoch in use names the owner (`EpochNamesOwner`, `OnePodPerReign`);
  a stamped write of a deposed pod does not pass (`FenceKeepsZombiesOut`); zombies stand down.
- journal and record: an acknowledged move survives, the moves are one legal game in order,
  memory is what a reload gives, a result is final.
- duties: an owner is armed, a fallen flag is charged.
- stream: once and in order, nothing missed while connected, at most one message for each connection that breaks.
- room: a token opens the seat it was given for, memory and rows describe one table,
  a game that is played has nobody missing; an absent player is watched, and whoever forfeits by disconnection has no socket.
- matchmaking: a ticket makes one game, games follow the rules of pairing (`KeepsPromise`),
  the queue drains, a lost push is made up for.
- after the game: mark, ratings and history of a game come together and once, points are
  conserved, a rating is its history; one rematch to go to, if all accepted.
- rules: stones are conserved, captures are exactly the flanked pairs, the last
  move is judged exactly.

## The modules

Eight groups, each with an `MC` module that gives the constants their values and
names the instances. They are separate modules, with the contract of a neighbour
taken as an assumption and named, because their interleavings multiply: GamePlay and
OwnerDuties take ownership by its contract, whose limits GameLease establishes;
EventStream takes a game as a version number; GamePlay takes a move as "wins or
does not", which RulesEngine spells out.

**GameLease** – one game, several pods, several goroutines.
`owner, epoch, live` is the row (`live` is `expires_at >= NOW()`, so time is the
single action `Expire`), `held[p]` is `Manager.held`, `task[t]` is what a goroutine
carries between a database round trip and its use. `AcquireFree / AcquireOwn /
AcquireExpired / AcquireDenied` are the cases of `acquireSQL`; `StoreGrant` is the
second half of `Acquire`; `GrantLost` a reply that never came. `RenewSQL` and
`RenewReconcile` are the two halves of `renew`, `CloseSQL` and `CloseClear` those
of `Close`. A fenced write is `LeaseEpoch`, `FenceCheck` (the snapshot of the
statement), `CommitEvent`. A pod is one process life: a restart draws a new owner
id. `gen` is a history variable that counts deletions of the row; it tells apart
two reigns that carry the same epoch.

**GamePlay** – one game, the records of every pod on a heap, the row and the
moves in the database, goroutines with a list `todo` of writes in program order.
`PlayMove` keeps the lock until `MoveReturns`; resignations, draws, timers and the
bot unlock first and write afterwards, as the code does, each write a step that
may fail (`StatementFails`) or be overtaken. `LoadRow` and `LoadMoves` are the two
queries of `LoadGame`; `Replayable` says whether the engine accepts the log, `slow` being the moves whose
`played_at`, set by the database after the move was judged, is past the time of the mover.
Time is one of three values per record: `running`, `edge` (the timer is due, a move still
counts), `flagged`. `Crash` empties a pod; with `Overlap` two pods may serve the game,
and `Claim`, `StandDown`, `Invalidate` are what the lease and the bus do to the
cache.

**OwnerDuties** – the same cache and timers for a game in which nobody moves, with the
steps of `Get`, `EnsureHeld`, `armClock` (check, then schedule), `AdoptGame`,
the sweeper, `owned`, the heartbeat and `onLost` apart; the outcome of a flag may be refused by the fence or fail. Each pod has one slot for such
a goroutine besides its heartbeat and its flag handler: two adoptions of one game
on one pod are not interleaved with each other.

**EventStream** – the path of an event: command, state built by the handler,
row in the journal, envelope, hub, channel, socket, `processChain`. `ws` follows
`wsGame` through Get, Subscribe, snapshot, CurrentEventSeq; `client` is
`GameSocket` (`lastSeq`) with two history fields, `joined` (the first seq it
learnt) and `heard` (the chat messages it dispatched). Catch-up is one step because
`processChain` is held while the fetch is awaited and nothing else writes `lastSeq`.

**RulesEngine** – `internal/game` without time stamps: the board as one set of
cells per colour, `ApplyMove(pos, elapsed)` with captures, maximal runs, precedence
and clock. Reference definitions beside it (`LongSegments`, `Alignments`, `Quads`,
`Judgement`) say the same of lines as sets of cells, without an origin or direction.

**Seats** – one private room on the pod that owns it: `mem` is the `GameRecord`, `db`
the status and the seat rows, `keys` the tokens their holders still count on. A seat is known by its colour;
`index` is what the record calls it and the key of its row. Every command changes memory, then the row
(`Updated` is `UpdateSeat`), under one lock and in one action, in which the
statement may fail before or after it took effect. `Start` lets go of the lock: `StartAuthorised`, `StartTrim` and
`FinalizeStart` are its three parts. Of the game that follows Seats keeps the status: `Move` writes it under the lock, while bots,
resignations, draws and timers change memory (`BotMove`, `Decide`) and owe the row their write (`owed`, `Persist`), which may
fail, come too late, or find the lease gone (`Refused`). `strayed` are the seats whose rows a `ResolveSeat` after a start with a gap has mixed
up. `Load` numbers the seats as the rows do; the
process may restart at any time, the stale cleaner may delete a waiting game.

**Presence** – EXTENDS Seats: `sock` are the WebSockets with the index their seat had at the hello,
`refs` the counts, `timer` the grace timers. `Hello` and `Greeted`, `Close` and `Gone` are the two halves of
SeatConnected and SeatDisconnected; `GraceExpires` is the timer, `TimeoutIgnored` and `TimeoutForfeits`
the outcomes of `handleDisconnectTimeout`, whose game `Finish` may have ended first. After a forfeit or another end come `GameEnded`, which
drops counts and timers, and `Answer`, the write of the outcome. `crossed` are the indices where a hello came between the halves of
a farewell or of a grace timer.

**Ratings** – the games of several players: `ended` are the processes that ended a copy of a
game (the owner, or a deposed one), `jobs` the goroutines that read the ratings one by one
(`ReadRating`) and write them in one transaction (`ApplyRatedGame`). Games of one player may be rated at the same time; the history
variable `met` holds who was. Elo is a table of integers:
`Gain(d)` counts the thresholds up to the difference d; computed by itself, the table
equals `elo.Update` for every difference up to 3000 points.

**Rematch** – EXTENDS Ratings: the records of one finished game on a heap, a cache per pod,
calls with a program counter `at` that is the lock section or statement to come. `GetLinked` is the
second look of `Rematch`, at a follow-up a record names; `CleanStale` is the stale cleaner, which deletes a waiting follow-up and with it the link of the
row, not those of the records. `Index` is where the number of a
seat on a loaded record differs from its position.

**Elector** – `row` is `leader_leases`, `answer[p]` what the campaign statement said and
`campaign` has not yet acted on, `leads[p]` whether `leadCancel` is set.

**Tickets** – the abstract specification: who has a ticket, for what, since when, and which games
were made. `Form` is one round: tickets go in the same step in which the games come.

**Matchmaking** – EXTENDS Elector: the queue in the order of `enqueued_at`, `ticks` the transactions with the
rows they lock, `searching` the search pages, `pushes` the match_found events. `TickBegin` is the
select and the pairing, `Commit` the inserts, deletes and the commit; a tick whose
leader was deposed is `stale` and may still commit. `Promise` maps queue and games
to Tickets; locks, ticks, pages and the election are invisible there.

The theorems ([below](#proofs)) stand in modules of their own: **GameLeaseProofs**, **OwnerDutiesProofs**,
**GamePlayProofs** (first any deployment, then one process at a time without bots), **RulesEngineProofs**,
**MatchmakingProofs** (with Elector and the refinement of Tickets), **RematchProofs** (with Ratings), **EventStreamProofs**
and **PresenceProofs** (with Seats).

Mutants (`...SameEpoch`, `...NoRecheck` and the like, each marked in its comment)
stand before the definition they vary; no specification uses them. Each property
is violated when its mutant replaces the original.

## Runs and bounds

All configurations switch the deadlock check off: every model has bounds at which
a game is over and nothing more happens.

| Run | Instance | Shows |
|---|---|---|
| `GameLease` | 2 pods, a goroutine each, epochs up to 2, 1 journal row | who owns the row and its epoch, that the fence keeps others out, and `ZombieStandsDown` |
| `GamePlaySolo` | 2 process lives one after the other, 2 humans, 2 moves, 2 goroutines, 1 failing statement, clock on | the row, the journal and memory agree; results are final; the clock is guarded; flags fall in time |
| `GamePlayFleet` | 2 pods at once, 3 seats with a bot, 2 records, 2 moves | `AckedMovesSurvive` under stale records and takeovers |
| `OwnerDutiesTraffic` | 2 pods, one freeze, foreign event or failing outcome | `HeldIsArmed`; the flag is charged as long as commands arrive, or the game is over in the memory of a pod whose statement failed |
| `EventStream` | home pod and gateway pod, 3 journal rows (the first at creation), channel of 2, 1 reconnection, a second break before it is done, 1 fault | order, completeness, one message a break; `lastSeq` catches up, or the browser is offline |
| `RulesEngine` | side 4, six cells in a row and four beside, 6 gems each, wins at two pairs, one four, two fives, time budget 1 | conservation through captures, judgement |
| `Room` | a table of two or three with one user and guests, 3 tokens, 1 failing statement, nobody connected; and a table of two with 2 sockets, 2 tokens, no bot | tokens, memory and rows; grace timers |
| `AfterGame` | 2 games side by side of two or four players, with common ones, rated in any overlap; and a rematch of one user, a bot and a guest: 2 pods, 2 calls, 3 clicks, the stale cleaner; 1 fault | rated once, as a whole and in the end; a rating is its history, but for players rated twice at a time; never two follow-ups to go to; an agreed one comes about |
| `Matchmaking` | 3 users, duels and rooms of six, 2 processes, 3 requests, 1 fault, waits of "under 20 s" and "20 s or more" | the refinement of Tickets, progress of the queue, the poll |

Why the bounds suffice. GameLease: two pods with two epochs contain every pair of
one reign overlapping the next, and deletion starts the count again without a bound on
`gen`; the theorems remove the bound. GamePlay: every property relates one
write to one other, so two goroutines and two moves (the second by the other
player) contain each race; three seats are needed for results without a winner.
OwnerDuties: one pod must be able to die after it has interfered with the other, and
one upset is a freeze in the middle of that. EventStream: one reconnection is enough for what a break can cost, and a second break
in the middle of it for the browser to give up; a gap needs a lost event and a
later one after the snapshot; a duplicate needs a catch-up that overtakes a
delivery. RulesEngine: the row holds an alignment of six, runs of four with both
ends, and the cells beside it complete captures along two axes; runs reached
include wins by six, by four and by capture, and double captures. A win by two
fives needs nine stones of one colour and is not reached. Room: the trim of a start needs three seats
and the properties of sockets two sockets on one seat or on two; the two instances keep
lobby and sockets from multiplying. AfterGame: the games side by side share players, in one mode or in two, and the
rated multi-player game has a remainder to share; a lost acceptance needs two calls and a
third click, a dead link one call after the cleaner. Matchmaking: one request may be a repetition; 20 s is the longest patience (a room of
three) and widens the band to 300 points, while the duellists are 250 apart; the third user
wants a room only.

Fairness. `GameLease`: weak fairness of the heartbeat's statement and strong fairness
of its reconciliation – the ticker of `run` fires as long as the process lives,
and a database that answers again and again answers one heartbeat completely
(a failed reply disables the step each time). Nothing is
asked of goroutines. `OwnerDuties`: goroutines run, heartbeats and timers tick, the
lease of a dead owner lapses; strong fairness of `RunKicked` and of
`Sweep` or `Command` because they compete for the one slot of the model, which is not a resource of the code; that players
keep sending commands is the assumption of `TrafficSpec` and is named so. `EventStream`:
the browser processes what it has, reconnect timers fire, a server that is
up completes the handshake; nothing is asked of commands or of the bus. `Room`: goroutines run on and
grace timers fire. `AfterGame`: the rating goroutines run on (`RatingsFairness`). `Matchmaking`: processes start and campaign, the row of a dead process
expires, a leader's matcher ticks (its ticker and the doorbell), transactions end, time passes, pages poll; all of it weak, and
nothing is asked of players or pushes. No fairness is
used by `GamePlay` and `RulesEngine`, which have safety properties only.

## Where code and documents disagree

Three are runs that must find their property violated; the traces are short.

1. `GameLeaseEpochReuse` – `Close` deletes the row, so the epoch starts at 1
   again: a write the leaving pod had stamped passes the fence of the new owner
   (README.md:15, lease.go:4).
2. `GamePlayBot` – the bot persists after the unlock: a resignation between the two
   is overwritten by `playing`.
3. `RoomForfeit` – a start that trims an empty seat renumbers the others, sockets and grace timers
   keep the old number: the timer of one player forfeits another, who was never away (store.go:577-578).

The next six are violated in the instances of the passing runs as they stand: with the name of the property in the
configuration TLC finds the trace. What holds in their place is checked and proved.

4. `JournalReplays` (`GamePlaySolo`) – `played_at` is the time of the insert, not the `now` of
   `ApplyMove`: a move accepted at the last moment makes the game unloadable
   (repo_postgres.go:136-137). In its place: `JournalInOrder`.
5. `ReconnectFetches` (`EventStream`) – nothing is fetched at a reconnect as such: the snapshot carries the current seq, and one
   missed event is no gap. If it was a chat message it is never shown (gameSocket.ts:45-46). In its place: `BreakCostsOneMessage`.
6. `GraceIsAbsence` (`Room`) – the farewell of one tab counts, a second tab says hello and cancels, and only then the farewell sets its
   timer: it expires against a player who is connected, and the handler does not look at the count again (store.go:577-578).
   In its place: `ForfeitedIsGone`, which excepts the seats where handlers crossed.
7. `ResolvesOwnSeat` (`Room` with four seats, four tokens and no fault) – after a start with a gap `ResolveSeat` saves the seat under its new
   number, into the row of another player (store.go:842-843, 871). In its place: `KeyOpensSeat`, which excepts the two.
8. `RatingIsHistory` (`AfterGame`) – two games of one player rated at the same time both start from the old rating: one delta is in the
   history and not in the rating (repo_postgres.go:599-600). In its place: `HistoryAddsUp`, which excepts that player.
9. `DeadLinkIsNoRematch` (`AfterGame`) – the stale cleaner deletes a follow-up nobody came to; the branch of `Rematch` for such links is behind a
   return of `OfferRematch`, which goes on answering with the deleted game (rematch.go:191-194). In its place: `OneFollowUp`.

The others need a constant, a specification or an invariant that no configuration here
sets; with it TLC finds the trace.

10. `FencedAtCommit` (GameLease, three goroutines) – the fence reads the lease row without locking it, and
   `acquireSQL` does not touch the games row: a takeover does commit between check
   and write (repo_postgres.go:856-858).
11. `ClockIsCharged` under `SweptSpec` (OwnerDuties) – the sweeper's `Get` hits the cache and returns before
   `EnsureHeld`: where the survivors have the game cached, nobody adopts it
   (store.go:268-270).
12. `ShownIsCurrent` (EventStream) – the tag of the snapshot is read after the snapshot:
   events in between are discarded by the browser (ws.go:63-66).
13. `AgreedIsLinked` with `Gaps = TRUE` (Rematch) – on a record loaded after a start with a gap, acceptances are
   filed under the seat's number and looked for under its position: a unanimous rematch
   never comes (rematch.go:34-35).
14. "A searching user has a ticket or an unfinished game" (Matchmaking) – a game that ends before the next poll is
   no longer found, and the page searches on without a ticket (lobby.go:181-183 says a dropped
   push "can't leave a matched player stuck searching").
15. `BlipIsRetried` (EventStream) – a catch-up that failed is not retried by the next live event: the event that showed the
   gap is applied, and `lastSeq` moves past the messages that were missed (gameSocket.ts:217-218). An
   overflow of the page of 1000 rows, "picked up by the next fetch" (line 219), is passed over in the same way.

Smaller ones met on the way: the band ends at 1000 points, so an outlier does not
"eventually pair with anyone" (matchmaking.go:7); tickets of users who left are not caught by the
"periodic stale cleaner" (lobby.go, wsLobby), which deletes games only; the follow-up game that lost the race of
two completions is playing, and does not "age out" (rematch.go:269-270), the cleaner deleting waiting
games only; a rating whose transaction failed is not tried again.

The passing runs avoid these by name, not silently, and each property says in its comment what it leaves out: `GamePlaySolo`
has no bots, `OwnerDutiesTraffic` has traffic, `EpochNamesOwner` and `FenceKeepsZombiesOut` speak of one life of the row, `JournalInOrder` of
the order of moves and not of their stamps, `NothingMissedInSession` of chat messages with a seq in one connection whose fetches succeed,
`ForfeitedIsGone` and `AbsenceIsWatched` of games without a gap, the former also not of seats where handlers crossed (`crossed`),
`KeyOpensSeat` and `MemoryIsRows` not of the seats a late `ResolveSeat` has mixed up (`strayed`), `MemoryIsRows` and `PlayingIsSeated` of rooms
without a failed or overtaken write, `HistoryAddsUp` of players not rated twice at a time (`met`), `AgreedIsLinked` of rematches that were not
deleted, `PushMadeUpFor` of games that go on. `strayed`, `crossed` and `met` are history variables: the step of the code is taken, and only the
claim is withdrawn for what it touched.

## Proofs

Every theorem is about all values of the constants – any sets of pods, goroutines, records, players, games,
any bounds – under the named `ASSUME`s of the module, which TLC evaluates in the runs, and the hypotheses the
table gives, which are settings that the runs make too.

| Module | Theorem | States | Hypotheses | Inductive invariant |
|---|---|---|---|---|
| `GameLeaseProofs` | `TypeCorrect` | `TypeOK` | – | itself |
| | `EpochOwnership` | `EpochNamesOwner` | – | `ClaimInv` |
| | `ReignOwnership` | `OnePodPerReign` | – | `ClaimInv` and itself |
| | `ZombiesAreFenced` | `FenceKeepsZombiesOut` (steps) | – | `ClaimInv` |
| `OwnerDutiesProofs` | `TypeCorrect` | `TypeOK` | – | itself |
| | `OwnersAreArmed` | `HeldIsArmed` | – | `ArmedInv` |
| `GamePlayProofs` | `TypeCorrect` | `TypeOK` | – | `Typed` |
| | `TimeoutsAreDue` | `FlagOnTime` (steps) | – | `Typed` |
| | `AckedMovesAreKept` | `AckedMovesSurvive` | – | `AckInv` |
| | `FinishedStaysFinished` | `FinishedIsFinal` (steps) | `Alone` | `SoloInv` |
| | `JournalStaysInOrder` | `JournalInOrder` | `Alone` | `SyncInv` |
| | `MemoryFollowsJournal` | `MemoryIsJournal` | `Alone` | `SyncInv` |
| | `LiveGamesAreTimed` | `ClockGuarded` | `Alone` | `SyncInv` |
| `RulesEngineProofs` | `TypeCorrect` | `TypeOK` | – | itself |
| | `StonesAreAccounted` | `StonesAccounted` | – | `TypeOK` and itself |
| | `MovesCaptureTheFlanked` | `CapturesAreFlanked` (steps) | – | `TypeOK` |
| | `MovesAreJudged` | `LastMoveIsJudged` | – | `TypeOK` and `JudgeInv` |
| `MatchmakingProofs` | `TypeCorrect` | `TypeOK`, Elector's included | – | `MatchInv` |
| | `TicketsAreHonoured` | `KeepsPromise` (refinement) | – | `MatchInv` |
| `RematchProofs` | `RatedTogether` | `RatedAsOne` | – | `RatedInv` |
| | `RatingsFollowHistory` | `HistoryAddsUp` | – | `RatedInv` and `HistoryInv` |
| | `TypeCorrect` | `TypeOK`, Ratings' included | – | `AllInv` |
| | `OneRematch` | `OneFollowUp` | – | `AllInv` |
| | `AcceptancesMeet` | `AgreedIsLinked` | `~Gaps` | `AllInv` and `AgreeInv` |
| `EventStreamProofs` | `TypeCorrect` | `TypeOK` | – | `FeedInv` |
| | `DispatchedInOrder` | `OnceInOrder` | – | `FeedInv` |
| | `SessionIsComplete` | `NothingMissedInSession` | `MaxEvents <= Limit` | `FeedInv`, `CountInv` and `SessionInv` |
| `PresenceProofs` | `PresenceTypeCorrect` | `TypeOK`, that of Seats included | – | `RoomInv` and `PeerInv` |
| | `KeysOpenTheirSeats` | `KeyOpensSeat` | – | `TableInv` |
| | `MemoryMatchesRows` | `MemoryIsRows` | – | `TableInv` |
| | `PlayersAreSeated` | `PlayingIsSeated` | – | `RoomInv` and `SeatedInv` |
| | `AbsentPlayersAreWatched` | `AbsenceIsWatched` | – | `PresenceInv` |
| | `OnlyTheGoneForfeit` | `ForfeitedIsGone` (steps) | – | `PresenceInv` |

`Alone` is `~Overlap /\ Bots = {}`: the server without leases, one process at a time, and a game of humans
(`GamePlaySolo`). It cannot be dropped: with a bot, disagreement 2 breaks `FinishedIsFinal`; with two pods a stale
record need not be what the journal says. `~Gaps` excludes disagreement 13, which refutes the property.
`MaxEvents <= Limit` says that the journal of a game is no longer than one page of the catch-up: 1000 rows, where the code
expects 200 to 400 for a game of six (server.go:871-873). A session with a longer gap does miss messages (disagreement 15).
The other theorems have no hypothesis. Starts with a gap, failed statements, late resolutions, crossing handlers and overlapping ratings do happen in
them; where a property fails under these, the property says so (`Sound`, `~Gapped`, `strayed`, `crossed`, `met`), as it does in the run.

**GameLease.** `EpochNamesOwner` alone is not inductive: it says nothing of a claim
from another life of the row, which a later step could make current. The
invariant `ClaimInv` adds that no claim is from a later life than the present one.
`Claims` collects every epoch in use – beliefs, goroutines, journal. The lemma
`ClaimOrigin` says that a step only moves claims from one holder to another, or
makes one: the grant of an acquisition. So each action needs two facts: what
it does to the row, and that its new claim, if any, is the owner's.
`OnePodPerReign` follows from `ClaimInv` for the acquiring pod (an earlier
claim with the new epoch would be ahead of the row) and is carried along by
`ClaimOrigin` everywhere else. `FenceKeepsZombiesOut` follows from `ClaimInv`: the stamp of a goroutine is a claim, and one that is on the epoch of the row
is the owner's.

**OwnerDuties.** `HeldIsArmed` speaks of pods with an empty slot. A goroutine that finds the record
cached leaves its slot without arming anything, so `ArmedInv` has the clock armed while such a goroutine
is `Passing`; one that loads has found no record, which `ArmedInv` says of its steps `fill` and `fillOver`; and one that has just won the lease
is not yet an owner.

**GamePlay.** `Typed` is stronger than `TypeOK`: it relates a goroutine to the record it uses, and says which writes its list `todo`
can hold. `AckInv` adds `MovesInHand`: while `PlayMove` holds the lock, the last move of its record is the one it
writes, or is in the table already. Rows of `moves` are only added (`Grows`), so an acknowledged move cannot be lost, whatever stale
records, takeovers and crashes do.

For one process, `SoloInv` says that the cached record is the only one in use (`OneProcess`, `Working`), that what is still
to be written carries its result, and that the row never finishes a game the record thinks alive (`RowFollows`):
so no late write can undo a result. `SyncInv` adds, as long as no statement has failed, that the table is dense, in turn and
without a move after a winning one (`Journaled`), that the record holds exactly these moves and the one being written
(`Mirrored`), that its result is the row's or on its way there (`Settled`), and that the timer is armed, or the goroutine that will
arm it is under way (`Guarded`). Each action has its lemma.

**RulesEngine.** Nothing here is bounded by a small board: the theorems hold for every side, two to six players, any stock and any
thresholds. `Captured` is the heart of the first two: a capture is an origin, a direction and two cells, the captures of one
move are disjoint (`TakenTwice`: two pairs that share a cell lie in one direction, and are one), so what leaves the board is twice what
is added to `pairs`. `CapturesClose` and `ClosedAreCaptures` are the two halves of `CapturesAreFlanked`, which is proved and in no configuration (TLC finds no
violation when it is added to `RulesEngine.cfg`). For `LastMoveIsJudged`, `JudgeInv` says that
`CheckWin` of the board gives the outcome of the last move; that `CheckWin` is the reference `Judgement` holds for every typed board
(`JudgementIs`). The code finds a run by its first cell and a direction, the reference takes sets of cells and the larger of two
that contain one another: `LinesAreMaximal` shows the cells of a maximal run to be such a set, `RunsAreLines` that each comes from one run, so that both
count the same number of each length, and `SixAreALine` that a line of six or more may be found by its first six.
A sum over a set is a CHOOSE of a recursive function in the community module; `SumExists` shows that there is one, by induction on cardinality (`Climb`).

**Matchmaking.** `MatchInv` has the queue without repetitions, the rows of ticks in the queue and disjoint, and for each tick
that every group it has planned is one that `Tickets` allows to form: its members wait, for games of that size, within the band
or patience (`Planned`). A plan is made from a snapshot and stays good because other transactions skip locked rows, and because waiting only
widens bands. Then every step is `Ask`, `Withdraw`, `Pass`, `Form` or a stutter (`StepsAreTickets`). That the pairing itself
returns disjoint pairs within their bands is `Pair1v1Groups` and `PairMultiGroups`. `Pair1v1` is a recursive function of
the number of rows looked at: `RoundsExist` shows by induction that there is such a function, `Paired` what one round keeps.

**Ratings.** `RatedAsOne` relates the mark of a game, its history lines and the counts of its players. `RatedInv` adds what a
goroutine read (`JobsAreDue`), that lines come with the mark (`MarkedWhole`), and that the count of a player is the number of lines about
him (`AllCounted`). What Elo itself must satisfy are lemmas: `GainBounds`; `ThresholdMirror`, the table being symmetric about
one half, whence `GainMirror`: in a duel, drawn or won, one player gains what the other loses; `MultiSums`, that the
changes of three to six players, the remainder included, add up to nothing and that the winner does not lose.

`HistoryAddsUp` needs to know what the goroutines under way have read. `HistoryInv` says of every player and mode not in `met` that no two of
his games of that mode are being rated (`JobsApart`), that what was read of him is still so until the game has its mark (`ReadsAreFresh`), and that his
rating is what his lines add up to, 1200 if there is none (`AllWorth`). The rating of another player in the same goroutine may be stale; it changes how much is
won or lost, not that rating and line agree. Two goroutines of one game may have read different ratings, the second after the first has written: the mark stops it.
That a sum does not depend on the order in which it is taken is `AnyOrder`, whence `SumGrows`.

**Rematch.** The link of the row is written once, by the first statement that finds it empty. `AllInv` says that every record on the heap and every
call has that link, none, or one to a deleted game (`Gone`), which is not in the row any more and never comes back. `AgreeInv` follows the last acceptance: as long as nothing failed and no
follow-up was deleted, each
acceptance is in the offer of the row, and when all are there, the link is written or a call is on its way to write it (`Pursues`).

**EventStream.** `FeedInv` says that whatever is on its way to the browser – in the channel, or left behind by a broken
connection – is the row of its seq, a snapshot, or has no seq, and that what the browser has dispatched lies in order below `lastSeq`: no
event can be older than one it follows. `Fetched` is a recursive function of the number of rows (`StepsExist`, `FetchedReader`). For completeness `SessionInv` adds, until a
connection breaks or a fetch fails, that the snapshot comes first and once (`SnapshotFirst`), and that the messages heard are those of the journal from the first
seq learnt to `lastSeq` (`HeardAll`); `CountInv` bounds the journal, so that one fetch closes any gap.

**Seats.** Every command of the lobby rewrites one seat and then its row, or fails to (`Writes`), and hands out or voids at most one
token (`Rekeys`): `LobbyCommands` shows this command by command, and the invariants are then proved once. `RoomInv`
says that seats and rows lie in the order of their colours and that colour, index and position agree in a lobby and after a start without a
gap; a command that saves a seat under its index therefore hits its row. `KeyInv` is stronger than `KeyOpensSeat`: it speaks of every seat
and row, whoever may open it, and bounds the tokens by those minted, so that a new token cannot be an old one. `SoundInv` compares
record and rows by colour (`Mirrors`), with the empty rows a start has trimmed and not yet deleted left over between its halves. A late
`ResolveSeat` writes the row of another seat: both invariants then hold of all seats but these two (`strayed`), whose tokens are no longer `Kept`. `SeatedInv` is what survives: the row of every taken seat is taken
(`RowsTaken`), the statuses keep step outside a start or will when the result that is owed has been written (`InStep`), and whoever plays or has played is complete, in memory and in the rows. A
late resolution saves a taken seat and so can only fill a row; between the halves of a start it may revive an empty row, which
`FinalizeStart` then keeps, as a second row of the same player. That a
load yields the seats in memory in the same order, and not merely the same seats, is `OneOrder`: two ascending lists of
the same numbers are one list, by induction on the first place at which they differ.

**Presence.** `PeerInv` keeps a count at or below the number of sockets that say they are at that index, whatever a start does to the
indices. While all seats have the number of their colour (`Whole`), `WatchInv` makes the counts exact and says of everybody who has been away that
a timer, a socket at his index or a handler about to start the timer stands for him; a start with a gap leaves `Whole` for ever, and a
crash that loses the record closes the sockets with it (`AllGone`). `AbsenceIsWatched` follows. For `ForfeitedIsGone`, `HeedInv` says of the indices
where no hello has crossed a farewell or a grace timer that a farewell or a handler under way means that nobody is there, and that a timer armed against somebody who
is there is about to be cancelled by his hello.

Only model-checked is liveness, which is out of the prover's reach: `ZombieStandsDown`, `ClockIsCharged`, `ReconnectResyncs`, `AbsenteeForfeits`,
`FinishedIsRated`, `QueueDrains`, `PushMadeUpFor`.

Induction over data has no rule the provers can apply. Where a set can state what is inducted upon, the well-foundedness of the naturals takes its
place (`Least` and `Climb` in MatchmakingProofs, EventStreamProofs, RulesEngineProofs and RematchProofs).

## Not modelled

- Proxying between pods (`proxyTo`, gateway mode): a command that is executed
  locally after the owner's answer was late is, in GamePlay, a second command on another pod.
- `Manager.Release` (no caller), `Resolver.Owner` and the replay endpoints (reads).
- The reference counts of the bus: EventStream takes their result and lets every envelope be lost.
- The engine of the bot: any legal move.
- Rendering, authentication, rate limiting, metrics, tracing, migrations,
  deployment: no protocol of their own.
- `queue_update` and the presence events: displays. The doorbell of the matcher: it changes when a tick
  comes, not whether.
- The DELETE a search page sends when it is left is executed at once or never; one that
  overtakes or follows the next POST is not modelled.
- A seat's number on other pods: Seats is the pod that owns the room; that another pod serves a stale
  copy of a lobby is left to GamePlay, where it is a stale record.

## Plan

The components that have a protocol are modelled, and all safety properties of the passing runs are proved; what else could be
modelled is the list above.
