---------------------------- MODULE OwnerDuties ----------------------------
(***************************************************************************)
(* Who runs the clock of a game nobody is moving in: the cache, the flag   *)
(* timer and the lease belief of every gamesvc pod (internal/server/       *)
(* store.go, forward.go, internal/lease/lease.go), the orphan sweeper, and *)
(* what views and commands do to them.  The game itself is one bit: it is  *)
(* over once a flag has fallen and the outcome is in the database.         *)
(*                                                                         *)
(* Each pod has one goroutine slot for a Get or an AdoptGame, besides its  *)
(* heartbeat and its timer handler.  The fence is taken by its contract:   *)
(* a pod that believes writes exactly when the row names it.               *)
(***************************************************************************)
EXTENDS Naturals, FiniteSets

CONSTANTS Pods,      \* gamesvc processes, each one life
          NoPod,     \* owner of an absent row
          MaxUpsets  \* bound: freezes past the TTL, foreign events, failed writes

ASSUME AbsentAssumption == NoPod \notin Pods
ASSUME UpsetAssumption == MaxUpsets \in Nat

VARIABLES finished,  \* games.status = 'finished'
          owner,     \* game_leases.owner_id
          live,      \* game_leases.expires_at >= NOW()
          up,        \* the pods that run
          held,      \* the pods with the game in Manager.held
          cache,     \* Store.games: "none", or the record "playing" / "over"
          timer,     \* the pods whose clockManager has a timer armed
          flag,      \* the pods whose handleFlag has yet to write
          missed,    \* pods whose renew did not get the row back
          job,       \* the goroutine slot of each pod
          kicked,    \* pods with a `go AdoptGame' not yet begun
          upsets     \* bound counter

leaseRow == <<owner, live>>
vars == <<finished, owner, live, up, held, cache, timer, flag, missed, job,
          kicked, upsets>>

\* A slot runs an AdoptGame ("adopt") or a request ("request"): a view, or a
\* command on its way through owned; at is where it stands.
Idle == [why |-> "none", at |-> "idle"]
Jobs == [why : {"none", "adopt", "request"},
         at  : {"idle", "get", "fill", "fillOver", "ensure", "store", "arm",
                "schedule", "claim", "claimed"}]

TypeOK ==
  /\ finished \in BOOLEAN /\ live \in BOOLEAN
  /\ owner \in Pods \cup {NoPod}
  /\ up \subseteq Pods /\ held \subseteq up /\ timer \subseteq up
  /\ flag \subseteq up /\ kicked \subseteq up /\ missed \subseteq up
  /\ cache \in [Pods -> {"none", "playing", "over"}]
  /\ job \in [Pods -> Jobs]
  /\ upsets \in 0 .. MaxUpsets

\* Every pod up, nobody touching the game: its creator is gone.
Init ==
  /\ finished = FALSE
  /\ owner = NoPod /\ live = FALSE
  /\ up = Pods /\ held = {} /\ timer = {} /\ flag = {} /\ kicked = {}
  /\ missed = {}
  /\ cache = [p \in Pods |-> "none"]
  /\ job = [p \in Pods |-> Idle]
  /\ upsets = 0

Goto(p, a) == job' = [job EXCEPT ![p].at = a]
Start(p, w, a) == job' = [job EXCEPT ![p] = [why |-> w, at |-> a]]
Done(p) == job' = [job EXCEPT ![p] = Idle]
At(p, a) == p \in up /\ job[p].at = a
Free(p) == p \in up /\ job[p] = Idle

-----------------------------------------------------------------------------
(* What starts a Get, an AdoptGame or a command.                           *)

\* GET /api/games/{id}, a WebSocket, a forwarded command: Store.Get.
View(p) ==
  /\ Free(p) /\ Start(p, "request", "get")
  /\ UNCHANGED <<finished, leaseRow, up, held, cache, timer, flag, missed,
                 kicked, upsets>>

\* StartOrphanSweeper: a playing game without a live lease is adopted.
Sweep(p) ==
  /\ Free(p) /\ ~finished /\ ~(owner # NoPod /\ live)
  /\ Start(p, "adopt", "get")
  /\ UNCHANGED <<finished, leaseRow, up, held, cache, timer, flag, missed,
                 kicked, upsets>>

\* owned: the holder serves the command, anybody else tries the lease first.
Command(p) ==
  /\ Free(p)
  /\ Start(p, "request", IF p \in held THEN "get" ELSE "claim")
  /\ UNCHANGED <<finished, leaseRow, up, held, cache, timer, flag, missed,
                 kicked, upsets>>

\* The `go AdoptGame' of Invalidate.
RunKicked(p) ==
  /\ Free(p) /\ p \in kicked
  /\ Start(p, "adopt", "get") /\ kicked' = kicked \ {p}
  /\ UNCHANGED <<finished, leaseRow, up, held, cache, timer, flag, missed,
                 upsets>>

-----------------------------------------------------------------------------
(* Get and AdoptGame.                                                      *)

\* Mutant of GetHit: a hit is not handed on to armClock.
GetHitReturns(p) ==
  /\ At(p, "get") /\ cache[p] # "none"
  /\ Done(p)
  /\ UNCHANGED <<finished, leaseRow, up, held, cache, timer, flag, missed,
                 kicked, upsets>>

\* A cache hit returns at once: no ensureLease.  Only AdoptGame arms then.
GetHit(p) ==
  /\ At(p, "get") /\ cache[p] # "none"
  /\ IF job[p].why = "adopt" THEN Goto(p, "arm") ELSE Done(p)
  /\ UNCHANGED <<finished, leaseRow, up, held, cache, timer, flag, missed,
                 kicked, upsets>>

\* A miss loads the game as the database has it ...
GetMiss(p) ==
  /\ At(p, "get") /\ cache[p] = "none"
  /\ Goto(p, IF finished THEN "fillOver" ELSE "fill")
  /\ UNCHANGED <<finished, leaseRow, up, held, cache, timer, flag, missed,
                 kicked, upsets>>

\* ... and publishes the copy unless another one got there first.
Fill(p) ==
  /\ At(p, "fill") \/ At(p, "fillOver")
  /\ \/ /\ cache[p] = "none"
        /\ cache' = [cache EXCEPT ![p] =
                       IF At(p, "fill") THEN "playing" ELSE "over"]
        /\ Goto(p, "ensure")
     \/ /\ cache[p] # "none" /\ UNCHANGED cache
        /\ IF job[p].why = "adopt" THEN Goto(p, "arm") ELSE Done(p)
  /\ UNCHANGED <<finished, leaseRow, up, held, timer, flag, missed, kicked,
                 upsets>>

Acquirable(p) == owner \in {NoPod, p} \/ ~live

\* acquireSQL, from EnsureHeld ("ensure") and from owned ("claim").
Acquire(p) ==
  /\ At(p, "ensure") \/ At(p, "claim")
  /\ p \notin held /\ Acquirable(p)
  /\ owner' = p /\ live' = TRUE
  /\ Goto(p, IF At(p, "ensure") THEN "store" ELSE "claimed")
  /\ UNCHANGED <<finished, up, held, cache, timer, flag, missed, kicked,
                 upsets>>

\* Held already, or held by a live owner: a command is forwarded to it.
NotAcquired(p) ==
  /\ At(p, "ensure") \/ At(p, "claim")
  /\ p \in held \/ ~Acquirable(p)
  /\ IF At(p, "ensure") THEN Goto(p, "arm") ELSE Start(p, "request", "get")
  /\ UNCHANGED <<finished, leaseRow, up, held, cache, timer, flag, missed,
                 kicked, upsets>>

\* Acquire's second half; owned then spawns AdoptGame, Get goes on to arm.
StoreGrant(p) ==
  /\ At(p, "store") \/ At(p, "claimed")
  /\ held' = held \cup {p}
  /\ IF At(p, "store") THEN Goto(p, "arm") ELSE Start(p, "adopt", "get")
  /\ UNCHANGED <<finished, leaseRow, up, cache, timer, flag, missed, kicked,
                 upsets>>

\* armClock, first half: ownsGame and the record's status.  The goroutine
\* has the record in hand even if the cache has dropped it meanwhile ...
ArmClock(p) ==
  /\ At(p, "arm")
  /\ \/ /\ p \in held /\ cache[p] # "over"
        /\ Goto(p, "schedule") /\ UNCHANGED timer
     \/ /\ p \in held => cache[p] = "over"
        /\ Done(p) /\ timer' = timer \ {p}
  /\ UNCHANGED <<finished, leaseRow, up, held, cache, flag, missed, kicked,
                 upsets>>

\* ... second half: clockManager.Schedule.  Nothing stops onLost in between.
Schedule(p) ==
  /\ At(p, "schedule")
  /\ timer' = timer \cup {p} /\ Done(p)
  /\ UNCHANGED <<finished, leaseRow, up, held, cache, flag, missed, kicked,
                 upsets>>

-----------------------------------------------------------------------------
(* The flag.                                                               *)

\* The deadline comes and handleFlag runs: a cache miss or a finished record
\* is a no-op.
HandleFlag(p) ==
  /\ p \in timer
  /\ timer' = timer \ {p}
  /\ \/ /\ cache[p] = "playing" /\ p \notin flag
        /\ cache' = [cache EXCEPT ![p] = "over"] /\ flag' = flag \cup {p}
     \/ cache[p] # "playing" /\ UNCHANGED <<cache, flag>>
  /\ UNCHANGED <<finished, leaseRow, up, held, missed, job, kicked, upsets>>

\* UpdateOutcome passes with epoch 0 or under the row's epoch.
UpdateOutcome(p) ==
  /\ p \in flag /\ (p \in held => owner = p)
  /\ finished' = TRUE /\ flag' = flag \ {p}
  /\ UNCHANGED <<leaseRow, up, held, cache, timer, missed, job, kicked,
                 upsets>>

\* ErrStaleLease: Invalidate, which adopts again if the pod still believes.
OutcomeFenced(p) ==
  /\ p \in flag /\ p \in held /\ owner # p
  /\ flag' = flag \ {p}
  /\ cache' = [cache EXCEPT ![p] = "none"]
  /\ kicked' = kicked \cup {p}
  /\ UNCHANGED <<finished, leaseRow, up, held, timer, missed, job, upsets>>

\* Any other error is swallowed, with no retry: the record says over, the row
\* says playing.  (Committed with the reply lost looks like UpdateOutcome.)
OutcomeFails(p) ==
  /\ p \in flag /\ upsets < MaxUpsets
  /\ upsets' = upsets + 1
  /\ flag' = flag \ {p}
  /\ UNCHANGED <<finished, leaseRow, up, held, cache, timer, missed, job, kicked>>

-----------------------------------------------------------------------------
(* The lease over time.                                                    *)

\* renew's UPDATE extends every row of the owner, believed in or not; a row
\* it returns needs no reconciliation.
Renew(p) ==
  /\ p \in up \ missed
  /\ IF owner = p THEN live' = TRUE /\ UNCHANGED missed
                  ELSE missed' = missed \cup {p} /\ UNCHANGED live
  /\ UNCHANGED <<finished, owner, up, held, cache, timer, flag, job, kicked,
                 upsets>>

\* Reconciliation, and onLost for a lease the UPDATE did not return: cancel
\* the timer, drop the record.
Reconcile(p) ==
  /\ p \in missed
  /\ missed' = missed \ {p}
  /\ IF p \in held
       THEN /\ held' = held \ {p} /\ timer' = timer \ {p}
            /\ cache' = [cache EXCEPT ![p] = "none"]
       ELSE UNCHANGED <<held, timer, cache>>
  /\ UNCHANGED <<finished, leaseRow, up, flag, job, kicked, upsets>>

\* The TTL passes: the owner died, or froze (an upset).
Expire ==
  /\ owner # NoPod /\ live /\ live' = FALSE
  /\ owner \in up => upsets < MaxUpsets
  /\ upsets' = IF owner \in up THEN upsets + 1 ELSE upsets
  /\ UNCHANGED <<finished, owner, up, held, cache, timer, flag, missed, job,
                 kicked>>

\* An event of another pod: HandleGameEventNotif calls Invalidate.
ForeignEvent(p) ==
  /\ p \in up /\ cache[p] # "none" /\ upsets < MaxUpsets
  /\ upsets' = upsets + 1
  /\ cache' = [cache EXCEPT ![p] = "none"]
  /\ kicked' = IF p \in held THEN kicked \cup {p} ELSE kicked
  /\ UNCHANGED <<finished, leaseRow, up, held, timer, flag, missed, job>>

\* Mutant of Gone: Store.Close without clocks.CancelAll.
GoneStillTicking(p) ==
  /\ p \in up /\ up # {p}
  /\ up' = up \ {p} /\ held' = held \ {p}
  /\ flag' = flag \ {p} /\ kicked' = kicked \ {p}
  /\ cache' = [cache EXCEPT ![p] = "none"]
  /\ missed' = missed \ {p}
  /\ Done(p)
  /\ UNCHANGED <<finished, timer, upsets>>

\* What dies with a process.  One pod survives: nothing runs without one.
Gone(p) ==
  /\ p \in up /\ up # {p}
  /\ up' = up \ {p} /\ held' = held \ {p} /\ timer' = timer \ {p}
  /\ flag' = flag \ {p} /\ kicked' = kicked \ {p}
  /\ cache' = [cache EXCEPT ![p] = "none"]
  /\ missed' = missed \ {p}
  /\ Done(p)
  /\ UNCHANGED <<finished, upsets>>

Crash(p) == Gone(p) /\ UNCHANGED leaseRow

\* Manager.Close deletes the rows first: an immediate handover.
Shutdown(p) ==
  /\ Gone(p) /\ owner = p
  /\ owner' = NoPod /\ live' = FALSE

-----------------------------------------------------------------------------
JobStep(p) ==
  \/ GetHit(p) \/ GetMiss(p) \/ Fill(p)
  \/ Acquire(p) \/ NotAcquired(p) \/ StoreGrant(p)
  \/ ArmClock(p) \/ Schedule(p)

FlagStep(p) ==
  HandleFlag(p) \/ UpdateOutcome(p) \/ OutcomeFenced(p) \/ OutcomeFails(p)

BeatStep(p) == Renew(p) \/ Reconcile(p)

Next ==
  \/ Expire
  \/ \E p \in Pods :
       \/ View(p) \/ Sweep(p) \/ Command(p) \/ RunKicked(p)
       \/ JobStep(p) \/ FlagStep(p) \/ BeatStep(p)
       \/ ForeignEvent(p) \/ Crash(p) \/ Shutdown(p)

Spec == Init /\ [][Next]_vars

\* Goroutines run, heartbeats tick, time passes, a dead owner's lease lapses.
\* The slot of a pod is the model's, so whoever wants it repeatedly gets it.
Fairness ==
  /\ WF_vars(Expire /\ owner \notin up)
  /\ \A p \in Pods : /\ WF_vars(JobStep(p)) /\ WF_vars(FlagStep(p))
                     /\ WF_vars(BeatStep(p)) /\ SF_vars(RunKicked(p))

\* The sweeper ticks on every pod, and nobody sends a command.
SweptSpec == Spec /\ Fairness /\ \A p \in Pods : SF_vars(Sweep(p))

\* Players keep sending commands to whichever pods are up.
TrafficSpec == Spec /\ Fairness /\ \A p \in Pods : SF_vars(Command(p))

-----------------------------------------------------------------------------
\* An owner that has the game in its cache has the clock armed, as soon as
\* the goroutines it started are done: no order of views, sweeps, commands,
\* heartbeats and invalidations leaves a held, cached, live game untimed.
HeldIsArmed ==
  \A p \in held : cache[p] = "playing" /\ Free(p) /\ p \notin kicked
                   => p \in timer

\* store.go:653, "In-memory state is the truth; no retry": over on a process
\* whose statement failed, and still playing in the database.
OverInMemoryOnly ==
  ~finished /\ \E p \in up : cache[p] = "over" /\ p \notin flag

\* A flag that has fallen is charged in the end: whatever crashes, handovers,
\* freezes and invalidations there were, some pod comes to own the game, arms
\* its clock and writes the outcome (AdoptGame, armClock, handleFlag); or the
\* process whose statement failed never dies, is never deposed and hears of no
\* foreign event, and keeps the game over in its memory only.  Once it loses
\* that record, somebody charges the flag anew.
ClockIsCharged == <>finished \/ <>[]OverInMemoryOnly
=============================================================================
