------------------------- MODULE OwnerDutiesProofs -------------------------
(***************************************************************************)
(* Theorems about OwnerDuties, for any set of pods: the type invariant,    *)
(* and that an owner with a live game in its cache has the clock armed.    *)
(*                                                                         *)
(* HeldIsArmed is not inductive.  A request that finds the record cached   *)
(* frees the slot of its pod without arming anything, so the clock must    *)
(* have been armed while the request ran; a load that finds a record would *)
(* do the same, so there must be none; and a claim is not yet an owner's.  *)
(***************************************************************************)
EXTENDS OwnerDuties, TLAPS

\* The clock runs, or an adoption that will arm it is due.
Armed(p) == p \in held /\ cache[p] = "playing" /\ p \notin kicked => p \in timer

\* Nothing between the start of the job of p and its end will arm the clock.
Passing(p) == job[p].why # "adopt" /\ job[p].at \in {"idle", "get"}

ArmedInv ==
  \A p \in Pods : /\ Passing(p) => Armed(p)
                  /\ job[p].at \in {"fill", "fillOver"} => cache[p] = "none"
                  /\ job[p].at = "claim" => p \notin held

-----------------------------------------------------------------------------
LEMMA TypeInit == Init => TypeOK
<1> SUFFICES ASSUME Init PROVE TypeOK
  OBVIOUS
<1>1. finished \in BOOLEAN /\ live \in BOOLEAN
  BY Zenon DEF Init
<1>2. /\ owner \in Pods \cup {NoPod}
      /\ up \subseteq Pods /\ held \subseteq up /\ timer \subseteq up
      /\ flag \subseteq up /\ kicked \subseteq up /\ missed \subseteq up
      /\ cache \in [Pods -> {"none", "playing", "over"}]
      /\ job \in [Pods -> Jobs]
      /\ upsets \in 0 .. MaxUpsets
  BY UpsetAssumption DEF Init, Idle, Jobs
<1> QED
  BY <1>1, <1>2 DEF TypeOK

LEMMA TypeStep == TypeOK /\ [Next]_vars => TypeOK'
<1> SUFFICES ASSUME TypeOK, [Next]_vars PROVE TypeOK'
  OBVIOUS
<1> DEFINE Rest == /\ owner \in Pods \cup {NoPod}
                   /\ up \subseteq Pods /\ held \subseteq up /\ timer \subseteq up
                   /\ flag \subseteq up /\ kicked \subseteq up /\ missed \subseteq up
                   /\ cache \in [Pods -> {"none", "playing", "over"}]
                   /\ job \in [Pods -> Jobs]
                   /\ upsets \in 0 .. MaxUpsets
<1>0. finished' \in BOOLEAN /\ live' \in BOOLEAN
  <2>1. finished' = finished \/ finished' = TRUE
    BY DEF Next, Expire, View, Sweep, Command, RunKicked, JobStep, FlagStep, BeatStep,
       ForeignEvent, Crash, Shutdown, Gone, GetHit, GetMiss, Fill, Acquire, NotAcquired,
       StoreGrant, ArmClock, Schedule, HandleFlag, UpdateOutcome, OutcomeFenced,
       OutcomeFails, Renew, Reconcile, vars
  <2>2. live' = live \/ live' = TRUE \/ live' = FALSE
    BY DEF Next, Expire, View, Sweep, Command, RunKicked, JobStep, FlagStep, BeatStep,
       ForeignEvent, Crash, Shutdown, Gone, GetHit, GetMiss, Fill, Acquire, NotAcquired,
       StoreGrant, ArmClock, Schedule, HandleFlag, UpdateOutcome, OutcomeFenced,
       OutcomeFails, Renew, Reconcile, vars, leaseRow
  <2> QED
    BY <2>1, <2>2, Zenon DEF TypeOK
<1> USE AbsentAssumption, UpsetAssumption
    DEF TypeOK, Jobs, Idle, leaseRow, Goto, Start, Done, At, Free
<1>1. ASSUME Expire PROVE Rest'
  BY <1>1 DEF Expire
<1>2. ASSUME NEW p \in Pods, View(p) \/ Sweep(p) \/ Command(p) \/ RunKicked(p)
      PROVE  Rest'
  BY <1>2 DEF View, Sweep, Command, RunKicked
<1>3. ASSUME NEW p \in Pods, JobStep(p) PROVE Rest'
  <2>1. CASE GetHit(p) \/ GetMiss(p)
    BY <2>1 DEF GetHit, GetMiss
  <2>2. CASE Fill(p)
    BY <2>2 DEF Fill
  <2>3. CASE Acquire(p) \/ NotAcquired(p)
    BY <2>3 DEF Acquire, NotAcquired
  <2>4. CASE StoreGrant(p)
    BY <2>4 DEF StoreGrant
  <2>5. CASE ArmClock(p) \/ Schedule(p)
    BY <2>5 DEF ArmClock, Schedule
  <2> QED
    BY <1>3, <2>1, <2>2, <2>3, <2>4, <2>5 DEF JobStep
<1>4. ASSUME NEW p \in Pods, FlagStep(p) PROVE Rest'
  BY <1>4 DEF FlagStep, HandleFlag, UpdateOutcome, OutcomeFenced, OutcomeFails
<1>5. ASSUME NEW p \in Pods, BeatStep(p) PROVE Rest'
  BY <1>5 DEF BeatStep, Renew, Reconcile
<1>6. ASSUME NEW p \in Pods, ForeignEvent(p) PROVE Rest'
  BY <1>6 DEF ForeignEvent
<1>7. ASSUME NEW p \in Pods, Crash(p) \/ Shutdown(p) PROVE Rest'
  BY <1>7 DEF Crash, Shutdown, Gone
<1>8. CASE UNCHANGED vars
  BY <1>8 DEF vars
<1> QED
  BY <1>1, <1>2, <1>3, <1>4, <1>5, <1>6, <1>7, <1>8, <1>0 DEF Next, TypeOK

\* Caches, timers, beliefs and goroutine slots of store.go and lease.go stay
\* well typed, and only a running pod holds, times or flags anything.
THEOREM TypeCorrect == Spec => []TypeOK
BY TypeInit, TypeStep, PTL DEF Spec

-----------------------------------------------------------------------------
LEMMA ArmedInit == Init => ArmedInv
BY DEF Init, ArmedInv, Armed, Idle

LEMMA ArmedStep == TypeOK /\ ArmedInv /\ [Next]_vars => ArmedInv'
<1> SUFFICES ASSUME TypeOK, ArmedInv, [Next]_vars PROVE ArmedInv'
  OBVIOUS
<1> USE DEF TypeOK, Jobs, Idle, leaseRow, Goto, Start, Done, At, Free,
            ArmedInv, Armed, Passing
<1>1. CASE Expire
  BY <1>1 DEF Expire
<1>2. ASSUME NEW p \in Pods, View(p) \/ Sweep(p) \/ Command(p) \/ RunKicked(p)
      PROVE  ArmedInv'
  BY <1>2 DEF View, Sweep, Command, RunKicked
<1>3. ASSUME NEW p \in Pods, JobStep(p) PROVE ArmedInv'
  <2>0. CASE GetMiss(p)
    <3>1. /\ job' = [job EXCEPT ![p].at = "fillOver"]
             \/ job' = [job EXCEPT ![p].at = "fill"]
          /\ cache[p] = "none" /\ UNCHANGED <<held, cache, timer, kicked>>
      BY <2>0, Zenon DEF GetMiss
    <3> QED
      BY <3>1
  <2>1. CASE GetHit(p)
    BY <2>1 DEF GetHit
  <2>2. CASE Fill(p)
    BY <2>2 DEF Fill
  <2>3. CASE Acquire(p) \/ NotAcquired(p)
    BY <2>3 DEF Acquire, NotAcquired
  <2>4. CASE StoreGrant(p)
    BY <2>4 DEF StoreGrant
  <2>5. CASE ArmClock(p) \/ Schedule(p)
    BY <2>5 DEF ArmClock, Schedule
  <2> QED
    BY <1>3, <2>0, <2>1, <2>2, <2>3, <2>4, <2>5 DEF JobStep
<1>4. ASSUME NEW p \in Pods, FlagStep(p) PROVE ArmedInv'
  BY <1>4 DEF FlagStep, HandleFlag, UpdateOutcome, OutcomeFenced, OutcomeFails
<1>5. ASSUME NEW p \in Pods, BeatStep(p) PROVE ArmedInv'
  BY <1>5 DEF BeatStep, Renew, Reconcile
<1>6. ASSUME NEW p \in Pods, ForeignEvent(p) PROVE ArmedInv'
  BY <1>6 DEF ForeignEvent
<1>7. ASSUME NEW p \in Pods, Crash(p) \/ Shutdown(p) PROVE ArmedInv'
  BY <1>7 DEF Crash, Shutdown, Gone
<1>8. CASE UNCHANGED vars
  BY <1>8 DEF vars
<1> QED
  BY <1>1, <1>2, <1>3, <1>4, <1>5, <1>6, <1>7, <1>8 DEF Next

\* No order of views, sweeps, commands, heartbeats, freezes, invalidations and
\* process deaths leaves a held, cached, live game untimed (armClock, onLost,
\* AdoptGame), on any number of pods.
THEOREM OwnersAreArmed == Spec => []HeldIsArmed
<1>1. TypeOK /\ ArmedInv => HeldIsArmed
  BY DEF TypeOK, ArmedInv, Armed, Passing, HeldIsArmed, Free, Idle
<1> QED
  BY <1>1, TypeInit, TypeStep, ArmedInit, ArmedStep, PTL DEF Spec
=============================================================================
