---------------------------- MODULE EventStream ----------------------------
(***************************************************************************)
(* The live feed of one game, from the command that changed it to the      *)
(* browser that shows it: EventPublisher (internal/server/events.go), the  *)
(* journal game_events, the lossy bus, the hub and the WebSocket handler   *)
(* of a pod (hub.go, ws.go), and the browser's GameSocket                  *)
(* (web/src/api/gameSocket.ts), which orders, deduplicates and catches up. *)
(*                                                                         *)
(* The game is a version number.  Home is the pod that runs the commands   *)
(* and whose record is always current; the other pods hold copies.  One    *)
(* browser is followed, through all its connections, to whichever pods.    *)
(***************************************************************************)
EXTENDS Naturals, FiniteSets, Sequences, Functions

CONSTANTS Pods, Home,
          Writers,      \* goroutines of Home that publish
          Created,      \* rows a new game starts with: 1, 0 if matchmade
          Buffer,       \* bound: what fits between the hub and the browser
          Limit,        \* catchupLimit
          MaxAttempts,  \* MAX_RECONNECT_ATTEMPTS
          MaxEvents,    \* bound: rows in game_events
          MaxDrops,     \* bound: connections that break or fail
          MaxFaults     \* bound: failing statements and fetches

ASSUME HomeAssumption == Home \in Pods
ASSUME SizeAssumption ==
  /\ Buffer \in Nat \ {0} /\ Limit \in Nat \ {0}
  /\ MaxAttempts \in Nat /\ Created \in 0 .. MaxEvents
  /\ MaxEvents \in Nat /\ MaxDrops \in Nat /\ MaxFaults \in Nat

VARIABLES truth,    \* how often the game has changed
          log,      \* game_events; games.event_seq is its length
          writer,   \* the publishing goroutines
          bus,      \* envelopes on their way to each pod
          ws,       \* the server's side of the browser's connection
          chan,     \* between the hub and applyEvent: the subscriber's
                    \* channel, the socket, and the messages in processChain
          link,     \* the browser's: "up", "waiting" to reconnect, "offline"
          attempt,  \* ConnState.attempt
          inq,      \* left in processChain by a connection that broke
          client,   \* what GameSocket knows; joined and heard are history
          broken,   \* history: "link", a connection broke; "fetch", a
                    \* catch-up failed; "tag", a snapshot went out unnumbered
          drops, faults

serverVars == <<truth, log, writer, bus>>
connVars   == <<ws, chan, link, attempt>>
vars == <<truth, log, writer, bus, ws, chan, link, attempt, inq,
          client, broken, drops, faults>>

\* Seq is `omitempty' on the wire and event_seq starts at 1: 0 is "no seq".
NoSeq == 0
\* Versions start at 1.
None == 0

\* hello marks the snapshot a connection starts with.
Event == [seq : Nat, kind : {"state", "chat"}, ver : Nat, hello : BOOLEAN]
Row(s, k, v) == [seq |-> s, kind |-> k, ver |-> v, hello |-> FALSE]
Hello(s, v)  == [seq |-> s, kind |-> "state", ver |-> v, hello |-> TRUE]

Quiet  == [step |-> "idle", kind |-> "chat", ver |-> None, seq |-> NoSeq]
Closed == [at |-> "closed", pod |-> Home, ver |-> None]

TypeOK ==
  /\ truth \in Nat /\ log \in Seq(Event)
  /\ writer \in [Writers -> [step : {"idle", "changed", "built", "stored"},
                             kind : {"state", "chat"}, ver : Nat, seq : Nat]]
  /\ bus \in [Pods -> Seq(Nat)]
  /\ ws \in [at : {"closed", "got", "subscribed", "built", "open"},
             pod : Pods, ver : Nat]
  /\ chan \in Seq(Event) /\ Len(chan) <= Buffer + 1
  /\ inq \in Seq(Event)
  /\ link \in {"up", "waiting", "offline"}
  /\ attempt \in 0 .. MaxAttempts + 1
  /\ client \in [lastSeq : Nat, view : Nat, joined : Nat, heard : Seq(Nat)]
  /\ broken \subseteq {"link", "fetch", "tag"}
  /\ drops \in 0 .. MaxDrops /\ faults \in 0 .. MaxFaults

Init ==
  /\ truth = 1
  /\ log = [i \in 1 .. Created |-> Row(i, "state", 1)]
  /\ writer = [w \in Writers |-> Quiet]
  /\ bus = [p \in Pods |-> <<>>]
  /\ ws = Closed /\ chan = <<>> /\ link = "up" /\ attempt = 0
  /\ inq = <<>>
  /\ client = [lastSeq |-> NoSeq, view |-> None, joined |-> NoSeq,
               heard |-> <<>>]
  /\ broken = {} /\ drops = 0 /\ faults = 0

Fault == faults < MaxFaults /\ faults' = faults + 1

-----------------------------------------------------------------------------
(* Publishing.                                                             *)

\* Rows that exist or are about to.
Rows == Len(log)
          + Cardinality({w \in Writers : writer[w].step \in {"changed", "built"}})

\* A command changes the record and its rows, then unlocks it.
Command(w) ==
  /\ writer[w] = Quiet /\ Rows < MaxEvents
  /\ truth' = truth + 1
  /\ writer' = [writer EXCEPT ![w].step = "changed"]
  /\ UNCHANGED <<log, bus, connVars, inq, client, broken, drops, faults>>

\* The handler locks the record again for toGameDTO: others may have changed
\* it since, and may publish before this goroutine does.
BuildState(w) ==
  /\ writer[w].step = "changed"
  /\ writer' = [writer EXCEPT ![w] =
                  [Quiet EXCEPT !.step = "built", !.kind = "state",
                                !.ver = truth]]
  /\ UNCHANGED <<truth, log, bus, connVars, inq, client, broken, drops,
                 faults>>

\* postMessage: a chat event, no change to the game.
PostMessage(w) ==
  /\ writer[w] = Quiet /\ Rows < MaxEvents
  /\ writer' = [writer EXCEPT ![w].step = "built", ![w].kind = "chat"]
  /\ UNCHANGED <<truth, log, bus, connVars, inq, client, broken, drops,
                 faults>>

\* The games row lock orders the writers; the row takes the next seq.
AppendEvent(w) ==
  LET s == Len(log) + 1 IN
  /\ writer[w].step = "built"
  /\ log' = Append(log, Row(s, writer[w].kind, writer[w].ver))
  /\ writer' = [writer EXCEPT ![w].step = "stored", ![w].seq = s]
  /\ UNCHANGED <<truth, bus, connVars, inq, client, broken, drops,
                 faults>>

\* The game is gone, or ErrStaleLease: nothing is delivered.
AppendRefused(w) ==
  /\ writer[w].step = "built" /\ Fault
  /\ writer' = [writer EXCEPT ![w] = Quiet]
  /\ UNCHANGED <<truth, log, bus, connVars, inq, client, broken, drops>>

\* hub.Deliver: a full channel drops the event.
Subscribed(p) == ws.pod = p /\ ws.at \in {"subscribed", "built", "open"}

\* Mutant of Deliver: the channel has no capacity.
DeliverAlways(p, ev) ==
  chan' = IF Subscribed(p) THEN Append(chan, ev) ELSE chan

Deliver(p, ev) ==
  chan' = IF Subscribed(p) /\ Len(chan) < Buffer THEN Append(chan, ev) ELSE chan

\* The insert returns an error: Home's own subscribers get the event without a
\* seq, whether the row is missing or was committed and its reply lost.
AppendFails(w) ==
  /\ writer[w].step = "built" /\ Fault
  /\ \/ UNCHANGED log
     \/ log' = Append(log, Row(Len(log) + 1, writer[w].kind, writer[w].ver))
  /\ Deliver(Home, Row(NoSeq, writer[w].kind, writer[w].ver))
  /\ writer' = [writer EXCEPT ![w] = Quiet]
  /\ UNCHANGED <<truth, bus, ws, link, attempt, inq, client, broken, drops>>

\* The pods with a subscriber, and Home.  (A pod that only caches the game
\* is sent the envelope too, and does nothing with it but invalidate.)
Interested == {p \in Pods : p = Home \/ Subscribed(p)}

\* PublishGame: the bus may lose the envelope on its way to any pod.
PublishGame(w) ==
  /\ writer[w].step = "stored"
  /\ \E S \in SUBSET Interested :
       bus' = [p \in Pods |-> IF p \in S THEN Append(bus[p], writer[w].seq)
                                         ELSE bus[p]]
  /\ writer' = [writer EXCEPT ![w] = Quiet]
  /\ UNCHANGED <<truth, log, connVars, inq, client, broken, drops,
                 faults>>

\* The bus is down: only Home's subscribers hear of the event.
PublishFails(w) ==
  /\ writer[w].step = "stored" /\ Fault
  /\ Deliver(Home, log[writer[w].seq])
  /\ writer' = [writer EXCEPT ![w] = Quiet]
  /\ UNCHANGED <<truth, log, bus, ws, link, attempt, inq, client,
                 broken, drops>>

\* LoadEvent and Deliver, for a pod with subscribers.  (Invalidate: WsGet.)
HandleGameEventNotif(p) ==
  /\ bus[p] # <<>>
  /\ bus' = [bus EXCEPT ![p] = Tail(@)]
  /\ \/ Deliver(p, log[Head(bus[p])]) /\ UNCHANGED faults
     \/ Subscribed(p) /\ Fault /\ UNCHANGED chan
  /\ UNCHANGED <<truth, log, writer, ws, link, attempt, inq, client, broken,
                 drops>>

-----------------------------------------------------------------------------
(* wsGame, step by step.                                                   *)

\* Store.Get: Home's record, or the copy of another pod.  The envelope that
\* invalidates a copy may be lost or late, so it may have any age.
WsGet(p) ==
  /\ link = "up" /\ ws = Closed
  /\ \E v \in 1 .. truth :
       /\ p = Home => v = truth
       /\ ws' = [at |-> "got", pod |-> p, ver |-> v]
  /\ UNCHANGED <<serverVars, chan, link, attempt, inq, client, broken, drops,
                 faults>>

\* The upgrade (onopen resets attempt), then hub.Subscribe.
WsSubscribe ==
  /\ ws.at = "got"
  /\ ws' = [ws EXCEPT !.at = "subscribed"]
  /\ attempt' = 0
  /\ UNCHANGED <<serverVars, chan, link, inq, client, broken, drops, faults>>

\* toGameDTO under rec.Lock: Home's record is the live one, a copy is not.
WsSnapshot ==
  /\ ws.at = "subscribed"
  /\ ws' = [ws EXCEPT !.at = "built", !.ver = IF ws.pod = Home THEN truth ELSE @]
  /\ UNCHANGED <<serverVars, chan, link, attempt, inq, client, broken, drops,
                 faults>>

\* Mutant of WsSend: the snapshot is not tagged.
WsSendUntagged ==
  /\ ws.at = "built"
  /\ ws' = [ws EXCEPT !.at = "open"]
  /\ chan' = <<Hello(NoSeq, ws.ver)>> \o chan
  /\ UNCHANGED <<serverVars, link, attempt, inq, client, broken, drops, faults>>

\* CurrentEventSeq comes last, and tags the snapshot; it is sent before
\* anything the channel has collected meanwhile.
WsSend ==
  /\ ws.at = "built"
  /\ ws' = [ws EXCEPT !.at = "open"]
  /\ \/ chan' = <<Hello(Len(log), ws.ver)>> \o chan /\ UNCHANGED <<broken, faults>>
     \/ /\ chan' = <<Hello(NoSeq, ws.ver)>> \o chan
        /\ Fault /\ broken' = broken \cup {"tag"}
  /\ UNCHANGED <<serverVars, link, attempt, inq, client, drops>>

\* The connection breaks or never opens: scheduleReconnect gives up after
\* MaxAttempts in a row.  What processChain has received is still processed.
Drop ==
  /\ link = "up" /\ drops < MaxDrops
  /\ drops' = drops + 1 /\ broken' = broken \cup {"link"}
  /\ ws' = Closed /\ chan' = <<>>
  /\ \E n \in 0 .. Len(chan) :
       /\ ws.at = "open" \/ n = 0
       /\ inq' = inq \o SubSeq(chan, 1, n)
  /\ attempt' = attempt + 1
  /\ link' = IF attempt' > MaxAttempts THEN "offline" ELSE "waiting"
  /\ UNCHANGED <<serverVars, client, faults>>

Reconnect ==
  /\ link = "waiting"
  /\ link' = "up"
  /\ UNCHANGED <<serverVars, ws, chan, attempt, inq, client, broken, drops,
                 faults>>

-----------------------------------------------------------------------------
(* GameSocket.                                                             *)

\* applyEvent, and lastSeq after it.  A chat without a seq is no row of the
\* journal and leaves no trace here.
Applied(c, ev) ==
  [lastSeq |-> IF ev.seq = NoSeq THEN c.lastSeq ELSE ev.seq,
   view    |-> IF ev.kind = "state" THEN ev.ver ELSE c.view,
   joined  |-> IF c.lastSeq # NoSeq \/ ev.seq = NoSeq THEN c.joined
               ELSE IF ev.hello THEN ev.seq ELSE ev.seq - 1,
   heard   |-> IF ev.kind = "chat" /\ ev.seq # NoSeq THEN Append(c.heard, ev.seq)
                                                     ELSE c.heard]

Numbered(ev) == ev.seq # NoSeq /\ client.lastSeq # NoSeq
Old(ev) == Numbered(ev) /\ ev.seq <= client.lastSeq

\* Mutant of Gap: one event too many is tolerated.
GapOfTwo(ev) == Numbered(ev) /\ ev.seq > client.lastSeq + 2

\* Mutant of Gap: a snapshot replaces what came before it.
GapOfRows(ev) == Numbered(ev) /\ ~ev.hello /\ ev.seq > client.lastSeq + 1

Gap(ev) == Numbered(ev) /\ ev.seq > client.lastSeq + 1

\* processChain runs the messages one by one, in the order of arrival.
Arrived == inq \o (IF ws.at = "open" THEN chan ELSE <<>>)
Handled(c) ==
  /\ Arrived # <<>>
  /\ client' = c
  /\ IF inq # <<>> THEN inq' = Tail(inq) /\ UNCHANGED chan
                   ELSE chan' = Tail(chan) /\ UNCHANGED inq
  /\ UNCHANGED <<serverVars, ws, link, attempt, drops>>

\* processEvent, no catch-up needed.
ProcessEvent ==
  LET ev == Head(Arrived) IN
  /\ Arrived # <<>> /\ ~Gap(ev)
  /\ Handled(IF Old(ev) THEN client ELSE Applied(client, ev))
  /\ UNCHANGED <<broken, faults>>

\* fetchCatchup: EventsSince, at most Limit rows, applied in order.
Fetched ==
  LET rows == IF client.lastSeq + Limit < Len(log) THEN Limit
                                                   ELSE Len(log) - client.lastSeq
      after[i \in 0 .. rows] ==
        IF i = 0 THEN client ELSE Applied(after[i - 1], log[client.lastSeq + i])
  IN  after[rows]

\* Mutant of Catchup: no second look at lastSeq after the await.
CatchupNoRecheck ==
  LET ev == Head(Arrived) IN
  /\ Arrived # <<>> /\ Gap(ev)
  /\ Handled(Applied(Fetched, ev))
  /\ UNCHANGED <<broken, faults>>

\* processEvent with a gap.  One step is enough: the chain is held until the
\* fetch is back, and nothing else changes client.
Catchup ==
  LET ev == Head(Arrived) IN
  /\ Arrived # <<>> /\ Gap(ev)
  /\ Handled(IF ev.seq <= Fetched.lastSeq THEN Fetched ELSE Applied(Fetched, ev))
  /\ UNCHANGED <<broken, faults>>

\* The fetch fails: the event is applied all the same, and lastSeq with it.
CatchupFails ==
  LET ev == Head(Arrived) IN
  /\ Arrived # <<>> /\ Gap(ev) /\ Fault
  /\ Handled(Applied(client, ev))
  /\ broken' = broken \cup {"fetch"}

-----------------------------------------------------------------------------
Publisher(w) ==
  \/ Command(w) \/ BuildState(w) \/ PostMessage(w)
  \/ AppendEvent(w) \/ AppendRefused(w) \/ AppendFails(w)
  \/ PublishGame(w) \/ PublishFails(w)

Socket == WsSubscribe \/ WsSnapshot \/ WsSend
Browser == ProcessEvent \/ Catchup \/ CatchupFails

Next ==
  \/ \E w \in Writers : Publisher(w)
  \/ \E p \in Pods : HandleGameEventNotif(p) \/ WsGet(p)
  \/ Socket \/ Drop \/ Reconnect \/ Browser

Spec == Init /\ [][Next]_vars

\* Timers fire, a server that is up answers, and the browser runs the
\* messages it has.  Nothing is asked of the commands or of the bus.
Fairness ==
  /\ WF_vars(Reconnect) /\ WF_vars(\E p \in Pods : WsGet(p)) /\ WF_vars(Socket)
  /\ WF_vars(Browser)

FairSpec == Spec /\ Fairness

-----------------------------------------------------------------------------
\* The messages the journal holds in a range of seqs.
Chats(from, to) == {s \in from .. to : log[s].kind = "chat"}

\* processEvent, "live events with seq <= lastSeq are skipped to avoid
\* double-application" (gameSocket.ts:46): no row of the journal is dispatched
\* twice or after a later one, whatever envelopes are lost or overtaken and
\* whatever a catch-up, a reconnection or a fallback delivery brings a second
\* time.  (An event delivered without a seq is not counted: if its row was
\* committed all the same, the browser shows the message a second time.)
OnceInOrder ==
  \A i, j \in DOMAIN client.heard : i < j => client.heard[i] < client.heard[j]

\* The messages the browser counts as seen and has not dispatched.
Missed == IF client.lastSeq = NoSeq THEN {}
          ELSE Chats(client.joined + 1, client.lastSeq) \ Range(client.heard)

\* As long as one connection lasts and every fetch succeeds, what the journal
\* holds between the first seq the browser learnt and lastSeq has been
\* dispatched completely: losses on the bus, full channels and envelopes out
\* of order are all noticed as gaps and refilled from /events?since=.  (That the
\* messages come in this order, and each once, is OnceInOrder.)
NothingMissedInSession ==
  broken \subseteq {"tag"} /\ client.lastSeq # NoSeq =>
    Range(client.heard) = Chats(client.joined + 1, client.lastSeq)

\* And over any number of connections, while every fetch succeeds: a connection
\* that breaks costs at most one message, the last one in the journal when the
\* snapshot of the next connection was tagged (wsGame); everything before it is
\* a gap for processEvent and is fetched.
BreakCostsOneMessage ==
  "fetch" \notin broken => Cardinality(Missed) <= drops

\* gameSocket.ts:45-46, "On reconnect we fetch /events?since=lastSeq": nothing
\* is missed because a connection broke.
ReconnectFetches == broken \subseteq {"link"} => Missed = {}

\* gameSocket.ts:217-218, of a catch-up that fails: "a blip leaves lastSeq
\* untouched and the next live event retries".  So a connection that lasts
\* leaves out no message, whether its fetches succeed or not.
BlipIsRetried == drops = 0 => Missed = {}

\* A broken connection is not left behind (scheduleReconnect, the tagged
\* snapshot of wsGame, processEvent): lastSeq comes to every event that was in
\* the journal when the connection broke, through the snapshot or a catch-up,
\* or the browser reports itself offline.  An untagged snapshot teaches no seq
\* and is exempt.  This speaks of lastSeq, what the browser counts as seen and
\* will not ask for again; which of it was dispatched is BreakCostsOneMessage.
ReconnectResyncs ==
  \A n \in 1 .. MaxEvents :
    (link = "waiting" /\ Len(log) >= n)
      ~> (client.lastSeq >= n \/ link = "offline" \/ "tag" \in broken)

\* ws.go:63-66: the snapshot is tagged with the current event_seq, so the
\* browser may "dedup any live events that arrive with seq <= this value".
\* For that the snapshot must hold what those events say: as long as one
\* connection lasts, the browser shows no version older than a state event
\* it counts as seen.
ShownIsCurrent ==
  broken = {} =>
    \A i \in 1 .. client.lastSeq :
      log[i].kind = "state" => log[i].ver <= client.view
=============================================================================
