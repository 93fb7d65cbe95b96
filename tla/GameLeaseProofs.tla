-------------------------- MODULE GameLeaseProofs --------------------------
(***************************************************************************)
(* Theorems about GameLease, for any number of pods and goroutines and any *)
(* bounds: the type invariant, that an epoch names its owner, that a reign *)
(* belongs to one pod, and that the fence keeps a deposed pod out.         *)
(*                                                                         *)
(* EpochNamesOwner is not inductive: it says nothing of claims from an     *)
(* earlier life of the row, which a step could bring forward.  ClaimInv    *)
(* adds that no claim comes from a later life than the present one.        *)
(***************************************************************************)
EXTENDS GameLease, SequenceTheorems, TLAPS

ClaimOK(c) ==
  c.epoch # 0 =>
    /\ c.gen <= gen
    /\ c.gen = gen => /\ owner # NoPod
                      /\ c.epoch <= epoch
                      /\ c.epoch = epoch => c.pod = owner

ClaimInv == \A c \in Claims : ClaimOK(c)

IInv == TypeOK /\ ClaimInv /\ OnePodPerReign

-----------------------------------------------------------------------------
LEMMA TypeInit == Init => TypeOK
<1> SUFFICES ASSUME Init PROVE TypeOK
  OBVIOUS
<1>1. live \in BOOLEAN /\ owner \in Pods \cup {NoPod}
  BY Zenon DEF Init
<1>2. NoToken \in Token
  BY DEF NoToken, Token
<1>3. /\ epoch \in Nat /\ gen \in Nat
      /\ held \in [Pods -> Token]
      /\ phase \in [Pods -> Phases]
      /\ beat \in [Pods -> Beats]
  BY <1>2 DEF Init, Phases, Beats
<1>4. task \in [Tasks -> [step : Steps, tok : Token]]
  BY <1>2 DEF Init, Idle, Steps
<1>5. events \in Seq([by : Pods, epoch : Nat, gen : Nat])
  BY DEF Init
<1> QED
  BY <1>1, <1>3, <1>4, <1>5 DEF TypeOK

LEMMA TypeStep == TypeOK /\ [Next]_vars => TypeOK'
<1> SUFFICES ASSUME TypeOK, [Next]_vars PROVE TypeOK'
  OBVIOUS
<1> USE PodAssumption DEF TypeOK, Token, NoToken, Phases, Beats, Steps, row, Goto
<1>1. ASSUME NEW t \in Tasks, TaskNext(t) PROVE TypeOK'
  <2> Pod[t] \in Pods
    OBVIOUS
  <2>1. CASE CheckHeld(t) BY <2>1 DEF CheckHeld
  <2>2. CASE AcquireFree(t) BY <2>2 DEF AcquireFree
  <2>3. CASE AcquireOwn(t) BY <2>3 DEF AcquireOwn
  <2>4. CASE AcquireExpired(t) BY <2>4 DEF AcquireExpired
  <2>5. CASE AcquireDenied(t) BY <2>5 DEF AcquireDenied
  <2>6. CASE StoreGrant(t) BY <2>6 DEF StoreGrant
  <2>7. CASE GrantLost(t) BY <2>7 DEF GrantLost
  <2>8. CASE LeaseEpoch(t) BY <2>8 DEF LeaseEpoch
  <2>9. CASE FenceCheck(t) BY <2>9 DEF FenceCheck
  <2>10. CASE FenceRejects(t) BY <2>10 DEF FenceRejects
  <2>11. CASE CommitEvent(t) BY <2>11 DEF CommitEvent
  <2> QED
    BY <1>1, <2>1, <2>2, <2>3, <2>4, <2>5, <2>6, <2>7, <2>8, <2>9, <2>10, <2>11
    DEF TaskNext
<1>2. ASSUME NEW p \in Pods, PodNext(p) PROVE TypeOK'
  <2>1. CASE RenewSQL(p)
    <3>1. live' \in BOOLEAN
      BY <2>1, Zenon DEF RenewSQL
    <3>2. beat' \in [Pods -> Beats]
      BY <2>1 DEF RenewSQL
    <3>3. UNCHANGED <<owner, epoch, gen, held, phase, task, events>>
      BY <2>1 DEF RenewSQL
    <3> QED
      BY <3>1, <3>2, <3>3, Zenon
  <2>2. CASE RenewReconcile(p) BY <2>2 DEF RenewReconcile
  <2>3. CASE RenewFails(p) BY <2>3 DEF RenewFails
  <2>4. CASE CloseSQL(p)
    <3>1. live' \in BOOLEAN
      BY <2>4, Zenon DEF CloseSQL
    <3>2. /\ owner' \in Pods \cup {NoPod} /\ epoch' \in Nat /\ gen' \in Nat
          /\ phase' \in [Pods -> Phases]
      BY <2>4 DEF CloseSQL
    <3>3. UNCHANGED <<held, beat, task, events>>
      BY <2>4 DEF CloseSQL
    <3> QED
      BY <3>1, <3>2, <3>3, Zenon
  <2>5. CASE CloseClear(p) BY <2>5 DEF CloseClear
  <2>6. CASE CloseFails(p) BY <2>6 DEF CloseFails
  <2>7. CASE Exit(p) BY <2>7 DEF Exit
  <2> QED
    BY <1>2, <2>1, <2>2, <2>3, <2>4, <2>5, <2>6, <2>7 DEF PodNext
<1>3. CASE Expire
  BY <1>3 DEF Expire
<1>4. CASE UNCHANGED vars
  BY <1>4 DEF vars
<1> QED
  BY <1>1, <1>2, <1>3, <1>4 DEF Next

\* The lease row, the belief of every pod, the goroutines and the journal of
\* lease.go and repo_postgres.go stay well typed in every reachable state.
THEOREM TypeCorrect == Spec => []TypeOK
BY TypeInit, TypeStep, PTL DEF Spec

-----------------------------------------------------------------------------
(* Where claims come from: a step keeps a claim, hands one from a goroutine*)
(* to its pod, from a pod to its goroutine or from a goroutine to the      *)
(* journal; only an acquisition makes a new one, (q, k) below.             *)

LEMMA ClaimOrigin ==
  ASSUME TypeOK, TypeOK',
         NEW q \in Pods, NEW k \in Token,
         \A p \in Pods : \/ held'[p] \in {NoToken, held[p]}
                         \/ \E t \in Tasks : Pod[t] = p /\ held'[p] = task[t].tok,
         \A t \in Tasks : \/ task'[t].tok \in {NoToken, task[t].tok, held[Pod[t]]}
                          \/ Pod[t] = q /\ task'[t].tok = k,
         \/ events' = events
         \/ \E t \in Tasks : events' = Append(events,
                [by |-> Pod[t], epoch |-> task[t].tok.epoch, gen |-> task[t].tok.gen])
  PROVE  \A c \in Claims' : c.epoch = 0 \/ c \in Claims \/ c = Claim(q, k)
<1> SUFFICES ASSUME NEW c \in Claims', c.epoch # 0
             PROVE  c \in Claims \/ c = Claim(q, k)
  OBVIOUS
<1> USE PodAssumption
<1>1. CASE \E p \in Pods : c = Claim(p, held'[p])
  <2> PICK p \in Pods : c = Claim(p, held'[p])
    BY <1>1
  <2>1. held'[p] # NoToken
    BY DEF Claim, NoToken
  <2>2. CASE held'[p] = held[p]
    BY <2>2 DEF Claims
  <2>3. CASE \E t \in Tasks : Pod[t] = p /\ held'[p] = task[t].tok
    BY <2>3 DEF Claims
  <2> QED
    BY <2>1, <2>2, <2>3
<1>2. CASE \E t \in Tasks : c = Claim(Pod[t], task'[t].tok)
  <2> PICK t \in Tasks : c = Claim(Pod[t], task'[t].tok)
    BY <1>2
  <2>1. task'[t].tok # NoToken
    BY DEF Claim, NoToken
  <2>2. CASE task'[t].tok = task[t].tok
    BY <2>2 DEF Claims
  <2>3. CASE task'[t].tok = held[Pod[t]]
    BY <2>3 DEF Claims
  <2>4. CASE Pod[t] = q /\ task'[t].tok = k
    BY <2>4
  <2> QED
    BY <2>1, <2>2, <2>3, <2>4
<1>3. CASE \E i \in DOMAIN events' : c = Claim(events'[i].by, events'[i])
  <2> PICK i \in DOMAIN events' : c = Claim(events'[i].by, events'[i])
    BY <1>3
  <2>1. CASE events' = events
    BY <2>1 DEF Claims
  <2>2. ASSUME NEW t \in Tasks,
               events' = Append(events, [by |-> Pod[t], epoch |-> task[t].tok.epoch,
                                         gen |-> task[t].tok.gen])
        PROVE  c \in Claims
    <3>0. [by |-> Pod[t], epoch |-> task[t].tok.epoch, gen |-> task[t].tok.gen]
            \in [by : Pods, epoch : Nat, gen : Nat]
      BY DEF TypeOK, Token
    <3>1. /\ Len(events) \in Nat /\ DOMAIN events = 1..Len(events)
          /\ DOMAIN events' = 1..(Len(events) + 1)
          /\ \A j \in 1..Len(events) : events'[j] = events[j]
          /\ events'[Len(events) + 1] =
               [by |-> Pod[t], epoch |-> task[t].tok.epoch, gen |-> task[t].tok.gen]
      BY <2>2, <3>0, AppendProperties DEF TypeOK
    <3>2. CASE i \in DOMAIN events
      <4>1. events'[i] = events[i]
        BY <3>1, <3>2
      <4> QED
        BY <3>2, <4>1 DEF Claims
    <3>3. CASE i \notin DOMAIN events
      <4>1. i = Len(events) + 1
        BY <3>1, <3>3
      <4>2. events'[i] = [by |-> Pod[t], epoch |-> task[t].tok.epoch,
                          gen |-> task[t].tok.gen]
        BY <3>1, <4>1
      <4>3. c = Claim(Pod[t], task[t].tok)
        BY <4>2 DEF Claim
      <4> QED
        BY <4>3 DEF Claims
    <3> QED
      BY <3>2, <3>3
  <2> QED
    BY <2>1, <2>2
<1> QED
  BY <1>1, <1>2, <1>3 DEF Claims

-----------------------------------------------------------------------------
(* What the row may do while claims move: stay (the new claim, if any, is  *)
(* the owner's own epoch), be inserted, be taken over, or be deleted.      *)

RowStays(q, k) ==
  /\ UNCHANGED <<owner, epoch, gen>>
  /\ k = NoToken \/ (owner = q /\ k = [epoch |-> epoch, gen |-> gen])

RowInserted(q, k) ==
  /\ owner = NoPod /\ owner' = q /\ epoch' = 1 /\ gen' = gen
  /\ k = [epoch |-> 1, gen |-> gen]

RowTaken(q, k) ==
  /\ owner # NoPod /\ owner' = q /\ epoch' = epoch + 1 /\ gen' = gen
  /\ k = [epoch |-> epoch + 1, gen |-> gen]

RowDeleted(k) == gen' = gen + 1 /\ k = NoToken

LEMMA ClaimType == TypeOK => Claims \subseteq [pod : Pods, epoch : Nat, gen : Nat]
<1> SUFFICES ASSUME TypeOK, NEW c \in Claims
             PROVE  c \in [pod : Pods, epoch : Nat, gen : Nat]
  OBVIOUS
<1> USE PodAssumption DEF TypeOK, Token, Claim
<1>1. CASE \E p \in Pods : c = Claim(p, held[p])
  BY <1>1
<1>2. CASE \E t \in Tasks : c = Claim(Pod[t], task[t].tok)
  BY <1>2
<1>3. CASE \E i \in DOMAIN events : c = Claim(events[i].by, events[i])
  <2> PICK i \in DOMAIN events : c = Claim(events[i].by, events[i])
    BY <1>3
  <2>1. i \in 1..Len(events)
    OBVIOUS
  <2>2. events[i] \in [by : Pods, epoch : Nat, gen : Nat]
    BY <2>1, ElementOfSeq
  <2> QED
    BY <2>2
<1> QED
  BY <1>1, <1>2, <1>3 DEF Claims

LEMMA ClaimStep ==
  ASSUME IInv, TypeOK', NEW q \in Pods, NEW k \in Token,
         \A c \in Claims' : c.epoch = 0 \/ c \in Claims \/ c = Claim(q, k),
         RowStays(q, k) \/ RowInserted(q, k) \/ RowTaken(q, k) \/ RowDeleted(k)
  PROVE  ClaimInv' /\ OnePodPerReign'
<1> DEFINE n == Claim(q, k)
<1>1. /\ n.pod = q /\ n.epoch = k.epoch /\ n.gen = k.gen
      /\ n \in [pod : Pods, epoch : Nat, gen : Nat]
  BY DEF Claim, Token
<1>2. \A c \in Claims : c \in [pod : Pods, epoch : Nat, gen : Nat]
  BY ClaimType DEF IInv
<1>3. /\ owner \in Pods \cup {NoPod} /\ epoch \in Nat /\ gen \in Nat
      /\ NoToken.epoch = 0 /\ NoPod \notin Pods
  BY NoPodAssumption DEF IInv, TypeOK, NoToken
<1>4. \A c \in Claims : ClaimOK(c)
  BY DEF IInv, ClaimInv
<1> HIDE DEF n
<1>5. ASSUME NEW c \in Claims, c.epoch # 0 PROVE ClaimOK(c)'
  BY <1>2, <1>3, <1>4, <1>5 DEF ClaimOK, RowStays, RowInserted, RowTaken, RowDeleted
<1>6. ASSUME n.epoch # 0 PROVE ClaimOK(n)'
  BY <1>1, <1>3, <1>6 DEF ClaimOK, RowStays, RowInserted, RowTaken, RowDeleted
<1>7. ClaimInv'
  <2> SUFFICES ASSUME NEW c \in Claims' PROVE ClaimOK(c)'
    BY DEF ClaimInv
  <2>1. CASE c.epoch = 0
    BY <2>1 DEF ClaimOK
  <2> QED
    BY <1>5, <1>6, <2>1 DEF n
<1>8. ASSUME NEW c \in Claims, c.epoch # 0, c.epoch = n.epoch, c.gen = n.gen
      PROVE  c.pod = q
  BY <1>1, <1>2, <1>3, <1>4, <1>8
  DEF ClaimOK, RowStays, RowInserted, RowTaken, RowDeleted
<1>9. OnePodPerReign'
  <2> SUFFICES ASSUME NEW c \in Claims', NEW d \in Claims', c.epoch # 0,
                      c.epoch = d.epoch, c.gen = d.gen
               PROVE  c.pod = d.pod
    BY DEF OnePodPerReign
  <2>1. CASE c \in Claims /\ d \in Claims
    BY <2>1 DEF IInv, OnePodPerReign
  <2> QED
    BY <1>1, <1>8, <2>1 DEF n
<1> QED
  BY <1>7, <1>9

LEMMA ClaimsInit == Init => ClaimInv /\ OnePodPerReign
<1> SUFFICES ASSUME Init PROVE \A c \in Claims : c.epoch = 0
  BY DEF ClaimInv, ClaimOK, OnePodPerReign
<1> USE PodAssumption DEF Init, NoToken, Claim
<1>1. \A p \in Pods : Claim(p, held[p]).epoch = 0
  OBVIOUS
<1>2. \A t \in Tasks : Claim(Pod[t], task[t].tok).epoch = 0
  BY DEF Idle
<1>3. DOMAIN events = {}
  OBVIOUS
<1> QED
  BY <1>1, <1>2, <1>3 DEF Claims

LEMMA Induction == IInv /\ [Next]_vars => IInv'
<1> SUFFICES ASSUME IInv, [Next]_vars PROVE IInv'
  OBVIOUS
<1>0. TypeOK /\ TypeOK'
  BY TypeStep DEF IInv
<1>n. NoToken \in Token
  BY DEF NoToken, Token
<1> DEFINE Origin(q, k) == \A c \in Claims' : c.epoch = 0 \/ c \in Claims \/ c = Claim(q, k)
<1>1. ASSUME NEW t \in Tasks, TaskNext(t) PROVE ClaimInv' /\ OnePodPerReign'
  <2> DEFINE q == Pod[t]
  <2>0. q \in Pods
    BY PodAssumption
  <2> USE <1>0, <2>0 DEF Goto, row
  <2>1. CASE AcquireFree(t)
    <3> DEFINE k == [epoch |-> 1, gen |-> gen]
    <3>1. k \in Token
      BY DEF TypeOK, Token
    <3>2. Origin(q, k)
      BY <2>1, <3>1, ClaimOrigin DEF AcquireFree, TypeOK
    <3> QED
      BY <2>1, <3>1, <3>2, ClaimStep DEF AcquireFree, RowInserted
  <2>2. CASE AcquireOwn(t)
    <3> DEFINE k == [epoch |-> epoch, gen |-> gen]
    <3>1. k \in Token
      BY DEF TypeOK, Token
    <3>2. Origin(q, k)
      BY <2>2, <3>1, ClaimOrigin DEF AcquireOwn, TypeOK
    <3> QED
      BY <2>2, <3>1, <3>2, ClaimStep DEF AcquireOwn, RowStays
  <2>3. CASE AcquireExpired(t)
    <3> DEFINE k == [epoch |-> epoch + 1, gen |-> gen]
    <3>1. k \in Token
      BY DEF TypeOK, Token
    <3>2. Origin(q, k)
      BY <2>3, <3>1, ClaimOrigin DEF AcquireExpired, TypeOK
    <3> QED
      BY <2>3, <3>1, <3>2, ClaimStep DEF AcquireExpired, RowTaken
  <2>4. CASE CheckHeld(t) \/ AcquireDenied(t) \/ GrantLost(t) \/ FenceRejects(t)
    <3>1. /\ \A r \in Tasks : task'[r].tok \in {NoToken, task[r].tok}
          /\ held' = held /\ events' = events
      BY <2>4 DEF CheckHeld, AcquireDenied, GrantLost, FenceRejects, TypeOK
    <3>2. Origin(q, NoToken)
      BY <1>n, <3>1, ClaimOrigin
    <3> QED
      BY <2>4, <1>n, <3>2, ClaimStep
      DEF CheckHeld, AcquireDenied, GrantLost, FenceRejects, RowStays
  <2>5. CASE StoreGrant(t)
    <3>1. \A p \in Pods : \/ held'[p] \in {NoToken, held[p]}
                          \/ Pod[t] = p /\ held'[p] = task[t].tok
      BY <2>5 DEF StoreGrant, TypeOK
    <3>2. /\ \A r \in Tasks : task'[r].tok \in {NoToken, task[r].tok}
          /\ events' = events
      BY <2>5 DEF StoreGrant, TypeOK
    <3>3. Origin(q, NoToken)
      BY <1>n, <3>1, <3>2, ClaimOrigin
    <3> QED
      BY <2>5, <1>n, <3>3, ClaimStep DEF StoreGrant, RowStays
  <2>6. CASE LeaseEpoch(t) \/ FenceCheck(t)
    <3>1. /\ \A r \in Tasks : task'[r].tok \in {task[r].tok, held[Pod[r]]}
          /\ held' = held /\ events' = events
      BY <2>6 DEF LeaseEpoch, FenceCheck, TypeOK
    <3>2. Origin(q, NoToken)
      BY <1>n, <3>1, ClaimOrigin
    <3> QED
      BY <2>6, <1>n, <3>2, ClaimStep DEF LeaseEpoch, FenceCheck, RowStays
  <2>7. CASE CommitEvent(t)
    <3>1. events' = Append(events, [by |-> Pod[t], epoch |-> task[t].tok.epoch,
                                    gen |-> task[t].tok.gen])
      BY <2>7 DEF CommitEvent
    <3>2. /\ \A r \in Tasks : task'[r].tok \in {NoToken, task[r].tok}
          /\ held' = held
      BY <2>7 DEF CommitEvent, TypeOK
    <3>3. Origin(q, NoToken)
      BY <1>n, <3>1, <3>2, ClaimOrigin
    <3> QED
      BY <2>7, <1>n, <3>3, ClaimStep DEF CommitEvent, RowStays
  <2> QED
    BY <1>1, <2>1, <2>2, <2>3, <2>4, <2>5, <2>6, <2>7 DEF TaskNext
<1>2. ASSUME NEW p \in Pods, PodNext(p) PROVE ClaimInv' /\ OnePodPerReign'
  <2> USE <1>0, <1>n DEF row
  <2>1. Origin(p, NoToken)
    <3>1. UNCHANGED <<task, events>>
      BY <1>2 DEF PodNext, RenewSQL, RenewReconcile, RenewFails, CloseSQL,
                  CloseClear, CloseFails, Exit
    <3>2. \A r \in Pods : held'[r] \in {NoToken, held[r]}
      BY <1>2 DEF PodNext, RenewSQL, RenewReconcile, RenewFails, CloseSQL,
                  CloseClear, CloseFails, Exit, TypeOK
    <3> QED
      BY <3>1, <3>2, ClaimOrigin
  <2>2. RowStays(p, NoToken) \/ RowDeleted(NoToken)
    BY <1>2 DEF PodNext, RenewSQL, RenewReconcile, RenewFails, CloseSQL,
                CloseClear, CloseFails, Exit, RowStays, RowDeleted
  <2> QED
    BY <2>1, <2>2, ClaimStep
<1>3. CASE Expire
  <2>1. owner \in Pods
    BY <1>0, <1>3 DEF Expire, TypeOK
  <2>2. Origin(owner, NoToken)
    BY <1>0, <1>n, <1>3, <2>1, ClaimOrigin DEF Expire
  <2> QED
    BY <1>0, <1>n, <1>3, <2>1, <2>2, ClaimStep DEF Expire, RowStays, IInv
<1>4. CASE UNCHANGED vars
  <2>1. Claims' = Claims /\ gen' = gen /\ owner' = owner /\ epoch' = epoch
    BY <1>4 DEF vars, Claims, Claim
  <2> QED
    BY <1>0, <2>1 DEF IInv, ClaimInv, ClaimOK, OnePodPerReign
<1> QED
  BY <1>0, <1>1, <1>2, <1>3, <1>4 DEF Next, IInv

THEOREM InductiveInvariant == Spec => []IInv
<1>1. Init => IInv
  BY TypeInit, ClaimsInit DEF IInv
<1> QED
  BY <1>1, Induction, PTL DEF Spec

\* For as long as its row exists, the epoch of a lease names its owner: the
\* test `epoch = $4' of AppendEvent and UpdateOutcome admits the owner only.
THEOREM EpochOwnership == Spec => []EpochNamesOwner
<1>1. IInv => EpochNamesOwner
  BY DEF IInv, ClaimInv, ClaimOK, EpochNamesOwner
<1> QED
  BY <1>1, InductiveInvariant, PTL

\* Whatever was, or still can be, written under a reign comes from one pod.
THEOREM ReignOwnership == Spec => []OnePodPerReign
<1>1. IInv => OnePodPerReign
  BY DEF IInv
<1> QED
  BY <1>1, InductiveInvariant, PTL

\* A pod that was deposed, whatever it still holds or has stamped, gets no
\* write past the fence of AppendEvent and UpdateOutcome while the row lives:
\* the epoch it carries is a claim, and a claim on the epoch of the row is the
\* owner's.
THEOREM ZombiesAreFenced == Spec => FenceKeepsZombiesOut
<1> DEFINE A == \A t \in Tasks :
                  (task[t].step = "stamped" /\ task'[t].step = "checked"
                     /\ task[t].tok.epoch # 0 /\ task[t].tok.gen = gen) => owner = Pod[t]
<1>1. IInv /\ [Next]_vars => [A]_vars
  <2> SUFFICES ASSUME IInv, Next, NEW t \in Tasks,
                      task[t].step = "stamped", task'[t].step = "checked",
                      task[t].tok.epoch # 0, task[t].tok.gen = gen
               PROVE  owner = Pod[t]
    OBVIOUS
  <2>0. task \in [Tasks -> [step : Steps, tok : Token]]
    BY DEF IInv, TypeOK
  <2>1. epoch = task[t].tok.epoch
    <3>1. ASSUME NEW r \in Tasks, TaskNext(r) PROVE FencePasses(t)
      <4>1. \/ task' = [task EXCEPT ![r] = [step |-> "checked", tok |-> task[r].tok]]
               /\ FencePasses(r)
            \/ \E s \in Steps \ {"checked"}, k \in Token :
                  task' = [task EXCEPT ![r] = [step |-> s, tok |-> k]]
        <5> USE <3>1, <2>0, PodAssumption DEF Goto, Steps, Token, NoToken, IInv, TypeOK
        <5>1. CASE FenceCheck(r)
          BY <5>1 DEF FenceCheck
        <5>2. CASE CheckHeld(r) \/ AcquireFree(r) \/ AcquireOwn(r)
          BY <5>2 DEF CheckHeld, AcquireFree, AcquireOwn
        <5>3. CASE AcquireExpired(r) \/ AcquireDenied(r) \/ StoreGrant(r)
          BY <5>3 DEF AcquireExpired, AcquireDenied, StoreGrant
        <5>4. CASE GrantLost(r) \/ FenceRejects(r) \/ CommitEvent(r)
          BY <5>4 DEF GrantLost, FenceRejects, CommitEvent
        <5>5. CASE LeaseEpoch(r)
          <6>1. held[Pod[r]] \in Token
            OBVIOUS
          <6> QED
            BY <5>5, <6>1 DEF LeaseEpoch
        <5> QED
          BY <3>1, <5>1, <5>2, <5>3, <5>4, <5>5 DEF TaskNext
      <4>2. ASSUME r # t PROVE FALSE
        BY <2>0, <4>1, <4>2
      <4> QED
        BY <2>0, <4>1, <4>2
    <3>2. ASSUME NEW p \in Pods, PodNext(p) PROVE FALSE
      <4>1. UNCHANGED task
        BY <3>2 DEF PodNext, RenewSQL, RenewReconcile, RenewFails, CloseSQL,
                    CloseClear, CloseFails, Exit
      <4> QED
        BY <4>1
    <3>3. CASE Expire
      BY <3>3 DEF Expire
    <3> QED
      BY <3>1, <3>2, <3>3 DEF Next, FencePasses
  <2>2. Claim(Pod[t], task[t].tok) \in Claims
    BY DEF Claims
  <2> QED
    BY <2>1, <2>2 DEF IInv, ClaimInv, ClaimOK, Claim
<1> QED
  BY <1>1, InductiveInvariant, PTL DEF Spec, FenceKeepsZombiesOut
=============================================================================
