----------------------------- MODULE GameLease -----------------------------
(***************************************************************************)
(* Ownership of one game: the lease manager of internal/lease/lease.go on  *)
(* every pod, the game_leases row it fights over, and the fenced journal   *)
(* writes of internal/server/repo_postgres.go that the lease is meant to   *)
(* protect.  One game is enough: every statement treats the rows of        *)
(* different games independently.                                          *)
(*                                                                         *)
(* A pod is one process life (NewOwnerID draws a fresh owner id), so a     *)
(* crashed pod never comes back.  A task is a goroutine of a pod: an HTTP  *)
(* handler, a timer handler or an AdoptGame.  What a goroutine reads       *)
(* before a database round trip and uses after it is kept in task[t].      *)
(*                                                                         *)
(* `gen' (and the gen field of a token) is a history variable: it counts   *)
(* the deletions of the row, because the code forgets the epoch then.      *)
(***************************************************************************)
EXTENDS Naturals, Sequences

CONSTANTS Pods,       \* process lives, each with its own owner_id
          Tasks,      \* goroutines
          Pod,        \* Pod[t]: the process goroutine t runs in
          NoPod,      \* owner of an absent row
          MaxEpoch,   \* bound: the epochs one life of the row may reach
          MaxEvents   \* bound: rows appended to game_events

ASSUME PodAssumption == Pod \in [Tasks -> Pods]
ASSUME NoPodAssumption == NoPod \notin Pods
ASSUME BoundAssumption == MaxEpoch \in Nat /\ MaxEvents \in Nat

VARIABLES owner,   \* game_leases.owner_id, NoPod when there is no row
          epoch,   \* game_leases.epoch
          live,    \* game_leases.expires_at >= NOW()
          gen,     \* history: how often the row was deleted
          held,    \* Manager.held[game] of each pod
          phase,   \* where each pod is in its life
          beat,    \* the heartbeat goroutine of each pod
          task,    \* what each goroutine carries between two steps
          events   \* game_events: seq is the index; by, gen are history

row  == <<owner, epoch, live, gen>>
vars == <<owner, epoch, live, gen, held, phase, beat, task, events>>

\* A token is an epoch in somebody's hands: 0 stands for "no lease", which
\* is also what an unfenced write carries.
NoToken == [epoch |-> 0, gen |-> 0]
Token   == [epoch : Nat, gen : Nat]

Phases == {"up", "releasing", "closed", "down"}
Beats  == {"idle", "renewed", "missed"}
Steps  == {"idle", "acquiring", "granted", "stamped", "checked"}

TypeOK ==
  /\ owner \in Pods \cup {NoPod}
  /\ epoch \in Nat
  /\ live \in BOOLEAN
  /\ gen \in Nat
  /\ held \in [Pods -> Token]
  /\ phase \in [Pods -> Phases]
  /\ beat \in [Pods -> Beats]
  /\ task \in [Tasks -> [step : Steps, tok : Token]]
  /\ events \in Seq([by : Pods, epoch : Nat, gen : Nat])

Idle == [step |-> "idle", tok |-> NoToken]

Init ==
  /\ owner = NoPod /\ epoch = 0 /\ live = FALSE /\ gen = 0
  /\ held = [p \in Pods |-> NoToken]
  /\ phase = [p \in Pods |-> "up"]
  /\ beat = [p \in Pods |-> "idle"]
  /\ task = [t \in Tasks |-> Idle]
  /\ events = <<>>

Holds(p)   == held[p].epoch # 0
Running(p) == phase[p] # "down"
Goto(t, s, k) == task' = [task EXCEPT ![t] = [step |-> s, tok |-> k]]

-----------------------------------------------------------------------------
(* Acquiring.  Both callers (EnsureHeld, Server.owned) look at Held first  *)
(* and only then make the round trip: three separate steps.                *)

\* EnsureHeld and owned: go to the database only when nothing is held.
CheckHeld(t) ==
  /\ Running(Pod[t]) /\ task[t].step = "idle"
  /\ ~Holds(Pod[t])
  /\ Goto(t, "acquiring", NoToken)
  /\ UNCHANGED <<row, held, phase, beat, events>>

\* acquireSQL, the three cases in which the upsert succeeds.  The statement
\* runs in the database whether or not the pod is still there to read the
\* reply.
AcquireFree(t) ==
  /\ task[t].step = "acquiring" /\ owner = NoPod
  /\ owner' = Pod[t] /\ epoch' = 1 /\ live' = TRUE
  /\ Goto(t, "granted", [epoch |-> 1, gen |-> gen])
  /\ UNCHANGED <<gen, held, phase, beat, events>>

AcquireOwn(t) ==
  /\ task[t].step = "acquiring" /\ owner = Pod[t]
  /\ live' = TRUE
  /\ Goto(t, "granted", [epoch |-> epoch, gen |-> gen])
  /\ UNCHANGED <<owner, epoch, gen, held, phase, beat, events>>

\* Mutant of AcquireExpired: a takeover that keeps the epoch.
AcquireExpiredSameEpoch(t) ==
  /\ task[t].step = "acquiring"
  /\ owner \notin {NoPod, Pod[t]} /\ ~live
  /\ owner' = Pod[t] /\ live' = TRUE
  /\ Goto(t, "granted", [epoch |-> epoch, gen |-> gen])
  /\ UNCHANGED <<epoch, gen, held, phase, beat, events>>

AcquireExpired(t) ==
  /\ task[t].step = "acquiring"
  /\ owner \notin {NoPod, Pod[t]} /\ ~live
  /\ epoch < MaxEpoch
  /\ owner' = Pod[t] /\ epoch' = epoch + 1 /\ live' = TRUE
  /\ Goto(t, "granted", [epoch |-> epoch + 1, gen |-> gen])
  /\ UNCHANGED <<gen, held, phase, beat, events>>

\* A live lease of another pod, the zero Grant of two first inserts, or a
\* database error: not acquired, the command goes on without a lease.
AcquireDenied(t) ==
  /\ task[t].step = "acquiring"
  /\ Goto(t, "idle", NoToken)
  /\ UNCHANGED <<row, held, phase, beat, events>>

\* Acquire's second half: m.held[gameID] = g.Epoch under m.mu.
StoreGrant(t) ==
  /\ Running(Pod[t]) /\ task[t].step = "granted"
  /\ held' = [held EXCEPT ![Pod[t]] = task[t].tok]
  /\ Goto(t, "idle", NoToken)
  /\ UNCHANGED <<row, phase, beat, events>>

\* The statement committed but its reply never arrived (the request's
\* context was cancelled, the connection dropped): Acquire returns the error.
GrantLost(t) ==
  /\ task[t].step = "granted"
  /\ Goto(t, "idle", NoToken)
  /\ UNCHANGED <<row, held, phase, beat, events>>

-----------------------------------------------------------------------------
(* The heartbeat.                                                          *)

\* renew's UPDATE: by owner_id alone, so it revives an expired row too.
RenewSQL(p) ==
  /\ phase[p] = "up" /\ beat[p] = "idle"
  /\ beat' = [beat EXCEPT ![p] = IF owner = p THEN "renewed" ELSE "missed"]
  /\ live' = (live \/ owner = p)
  /\ UNCHANGED <<owner, epoch, gen, held, phase, task, events>>

\* Mutant of RenewReconcile: the pod fights for a lease it lost.
RenewReconcileKeeps(p) ==
  /\ Running(p) /\ beat[p] # "idle"
  /\ beat' = [beat EXCEPT ![p] = "idle"]
  /\ UNCHANGED <<row, held, phase, task, events>>

\* renew's reconciliation with the rows the UPDATE returned.
RenewReconcile(p) ==
  /\ Running(p) /\ beat[p] # "idle"
  /\ beat' = [beat EXCEPT ![p] = "idle"]
  /\ held' = [held EXCEPT ![p] = IF beat[p] = "missed" THEN NoToken ELSE @]
  /\ UNCHANGED <<row, phase, task, events>>

\* The reply of the UPDATE is lost or fails to scan: nothing is reconciled.
RenewFails(p) ==
  /\ beat[p] # "idle"
  /\ beat' = [beat EXCEPT ![p] = "idle"]
  /\ UNCHANGED <<row, held, phase, task, events>>

\* The database clock passes expires_at.
Expire ==
  /\ owner # NoPod /\ live
  /\ live' = FALSE
  /\ UNCHANGED <<owner, epoch, gen, held, phase, beat, task, events>>

-----------------------------------------------------------------------------
(* Leaving.  Close waits for the heartbeat, deletes the pod's rows, then   *)
(* empties held.  Goroutines of the pod still run: http Shutdown gives up  *)
(* after 10 s and store.Close, which stops the timers, comes later.        *)

CloseSQL(p) ==
  /\ phase[p] = "up" /\ beat[p] = "idle"
  /\ phase' = [phase EXCEPT ![p] = "releasing"]
  /\ \/ /\ owner = p
        /\ owner' = NoPod /\ epoch' = 0 /\ live' = FALSE /\ gen' = gen + 1
     \/ /\ owner # p
        /\ UNCHANGED row
  /\ UNCHANGED <<held, beat, task, events>>

CloseClear(p) ==
  /\ phase[p] = "releasing"
  /\ phase' = [phase EXCEPT ![p] = "closed"]
  /\ held' = [held EXCEPT ![p] = NoToken]
  /\ UNCHANGED <<row, beat, task, events>>

\* The DELETE failed, or committed with its reply lost: the error return
\* leaves held as it is.
CloseFails(p) ==
  /\ phase[p] = "releasing" \/ (phase[p] = "up" /\ beat[p] = "idle")
  /\ phase' = [phase EXCEPT ![p] = "closed"]
  /\ UNCHANGED <<row, held, beat, task, events>>

\* The process ends: a crash at any time, or the end of a clean shutdown.
Exit(p) ==
  /\ Running(p)
  /\ phase' = [phase EXCEPT ![p] = "down"]
  /\ held' = [held EXCEPT ![p] = NoToken]
  /\ beat' = [beat EXCEPT ![p] = "idle"]
  /\ UNCHANGED <<row, task, events>>

-----------------------------------------------------------------------------
(* Journal writes.  Publish and the timer handlers read LeaseEpoch, then   *)
(* run one statement whose EXISTS sub-select sees the lease row of the     *)
(* statement's snapshot and whose effect commits later: the lease row is   *)
(* read, not locked, and acquireSQL never touches the games row.           *)

\* Mutant of LeaseEpoch: -1 for `no lease'.
LeaseEpochMinusOne(t) ==
  /\ Running(Pod[t]) /\ task[t].step = "idle"
  /\ Goto(t, "stamped", IF Holds(Pod[t]) THEN held[Pod[t]]
                        ELSE [NoToken EXCEPT !.epoch = @ - 1])
  /\ UNCHANGED <<row, held, phase, beat, events>>

\* Store.LeaseEpoch: the held epoch, or 0, an unfenced write.
LeaseEpoch(t) ==
  /\ Running(Pod[t]) /\ task[t].step = "idle"
  /\ Goto(t, "stamped", held[Pod[t]])
  /\ UNCHANGED <<row, held, phase, beat, events>>

\* Mutant of FencePasses: `epoch >= $4', a fence that admits the past.
FencePassesIfReached(t) ==
  \/ task[t].tok.epoch = 0
  \/ owner # NoPod /\ epoch >= task[t].tok.epoch

\* $4 = 0 OR EXISTS (a lease row of this game with epoch = $4).
FencePasses(t) ==
  \/ task[t].tok.epoch = 0
  \/ owner # NoPod /\ epoch = task[t].tok.epoch

\* AppendEvent and UpdateOutcome take their snapshot and the fence passes.
FenceCheck(t) ==
  /\ task[t].step = "stamped"
  /\ FencePasses(t)
  /\ Goto(t, "checked", task[t].tok)
  /\ UNCHANGED <<row, held, phase, beat, events>>

\* No row matches: ErrStaleLease, the write never happens.
FenceRejects(t) ==
  /\ task[t].step = "stamped"
  /\ ~FencePasses(t)
  /\ Goto(t, "idle", NoToken)
  /\ UNCHANGED <<row, held, phase, beat, events>>

\* The statement commits: event_seq + 1 and a game_events row.
CommitEvent(t) ==
  /\ task[t].step = "checked"
  /\ Len(events) < MaxEvents
  /\ events' = Append(events, [by |-> Pod[t], epoch |-> task[t].tok.epoch,
                               gen |-> task[t].tok.gen])
  /\ Goto(t, "idle", NoToken)
  /\ UNCHANGED <<row, held, phase, beat>>

-----------------------------------------------------------------------------
TaskNext(t) ==
  \/ CheckHeld(t)  \/ AcquireFree(t)   \/ AcquireOwn(t)
  \/ AcquireExpired(t) \/ AcquireDenied(t)
  \/ StoreGrant(t) \/ GrantLost(t)
  \/ LeaseEpoch(t) \/ FenceCheck(t) \/ FenceRejects(t) \/ CommitEvent(t)

PodNext(p) ==
  \/ RenewSQL(p) \/ RenewReconcile(p) \/ RenewFails(p)
  \/ CloseSQL(p) \/ CloseClear(p) \/ CloseFails(p) \/ Exit(p)

Next ==
  \/ \E t \in Tasks : TaskNext(t)
  \/ \E p \in Pods : PodNext(p)
  \/ Expire

Spec == Init /\ [][Next]_vars

\* The heartbeat ticker fires as long as the process lives, and a database
\* that answers again and again answers one heartbeat completely.
Heartbeats == \A p \in Pods : WF_vars(RenewSQL(p)) /\ SF_vars(RenewReconcile(p))

FairSpec == Spec /\ Heartbeats

-----------------------------------------------------------------------------
(* Properties.                                                             *)

\* Every epoch in somebody's hands or in the journal, with the pod it is
\* used by.
Claim(p, k) == [pod |-> p, epoch |-> k.epoch, gen |-> k.gen]

Claims ==
  {Claim(p, held[p]) : p \in Pods}
    \cup {Claim(Pod[t], task[t].tok) : t \in Tasks}
    \cup {Claim(events[i].by, events[i]) : i \in DOMAIN events}

\* lease.go:4, "The epoch increments on every change of hands and is the
\* fencing token": for as long as the row exists, no claim is ahead of the
\* row, and a claim on the row's current epoch is the owner's.  This is what
\* makes `epoch = $4' in AppendEvent and UpdateOutcome a test of ownership.
EpochNamesOwner ==
  \A c \in Claims : (c.epoch # 0 /\ c.gen = gen) =>
    /\ owner # NoPod
    /\ c.epoch <= epoch
    /\ (c.epoch = epoch => c.pod = owner)

\* One reign (one epoch of one life of the row) belongs to one pod for ever:
\* whoever has written to the journal under it, or may still do so with a
\* statement in flight, is the pod it was granted to.  The epoch column of
\* game_events tells the pods apart.
OnePodPerReign ==
  \A c, d \in Claims :
    (c.epoch # 0 /\ c.epoch = d.epoch /\ c.gen = d.gen) => c.pod = d.pod

\* lease.go:239-240, a lease found taken over "must be forgotten, not fought
\* for": a pod that believes in a lease it lost stops believing.
Zombie(p) == phase[p] = "up" /\ Holds(p) /\ owner # p
ZombieStandsDown == \A p \in Pods : Zombie(p) ~> ~Zombie(p)

\* README.md:15, "a zombie owner can *believe* it owns a game but can no longer
\* *write*", for as long as the lease row exists: whatever the goroutine saw
\* when it read LeaseEpoch, and whoever took the lease since, a stamped write
\* of this life of the row passes the fence only for the pod that owns the row
\* now.  (ZombieCannotWrite, without the restriction, does not hold.)
FenceKeepsZombiesOut ==
  [][\A t \in Tasks :
        (task[t].step = "stamped" /\ task'[t].step = "checked"
           /\ task[t].tok.epoch # 0 /\ task[t].tok.gen = gen) => owner = Pod[t]]_vars

\* README.md:15, "a zombie owner can *believe* it owns a game but can no
\* longer *write*": a write stamped with an epoch passes the fence only when
\* it comes from the pod that owns the row.
ZombieCannotWrite ==
  [][\A t \in Tasks :
        (task[t].step = "stamped" /\ task'[t].step = "checked"
           /\ task[t].tok.epoch # 0) => owner = Pod[t]]_vars

\* repo_postgres.go:856-858, "matching the epoch and appending are atomic, so
\* a takeover committing between `check' and `write' is impossible": a fenced
\* row enters the journal only while no other pod has taken the lease.
FencedAtCommit ==
  [][\A t \in Tasks :
        (task[t].step = "checked" /\ task'[t].step = "idle"
           /\ task[t].tok.epoch # 0) => owner \in {NoPod, Pod[t]}]_vars
=============================================================================
