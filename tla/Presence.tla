------------------------------ MODULE Presence ------------------------------
(***************************************************************************)
(* Who is at the table: the WebSockets of a room on the process that       *)
(* serves it, the connection count of each seat, and the grace timers      *)
(* that forfeit a player who stays away (internal/server/ws.go: runReader; *)
(* store.go: SeatConnected, SeatDisconnected, handleDisconnectTimeout,     *)
(* gameEnded; presence.go).                                                *)
(*                                                                         *)
(* A socket counts for the index its seat had when it said hello.  The     *)
(* count changes under Store.mu and the timer after it: each half is a     *)
(* step, and a handler that has begun cannot be cancelled any more.        *)
(***************************************************************************)
EXTENDS Seats

CONSTANT Sockets \* WebSockets clients may open

VARIABLES sock,      \* each WebSocket: [at, index, color]
          refs,      \* Store.seatRefs[game]
          timer,     \* presenceManager.cancels, by index
          firing,    \* handlers that have begun and not got the record lock
          ending,    \* a gameEnded is due
          away,      \* history: colours that once lost their last socket
          crossed    \* history: indices where a hello crossed a farewell or a
                     \* grace timer

peerVars == <<sock, refs, timer, firing, ending, away, crossed>>
vars == <<roomVars, peerVars>>

\* "joining" and "leaving": the count is changed, the timer is not yet.
Closed == [at |-> "closed", index |-> 0, color |-> 0]

\* The sockets that count.
Live == {s \in DOMAIN sock : sock[s].at \in {"joining", "up"}}

\* The entry of a timer that has fired stays in the map: "spent".
NoTimers == [i \in Colors |-> "none"]

TypeOK ==
  /\ SeatsTypeOK
  /\ DOMAIN sock \subseteq Sockets
  /\ sock \in [DOMAIN sock -> [at : {"closed", "joining", "up", "leaving"},
                               index : Colors, color : Colors]]
  /\ \A i \in Colors : refs[i] <= Cardinality({s \in Live : sock[s].index = i})
  /\ DOMAIN refs = Colors
  /\ timer \in [Colors -> {"none", "armed", "spent"}]
  /\ firing \subseteq Colors /\ ending \in BOOLEAN
  /\ away \subseteq Colors /\ crossed \subseteq Colors

Init ==
  /\ SeatsInit
  /\ \E S \in SUBSET Sockets : sock = [s \in S |-> Closed]
  /\ refs = [i \in Colors |-> 0]
  /\ timer = NoTimers /\ firing = {} /\ ending = FALSE
  /\ away = {} /\ crossed = {}

Room == SeatsNext /\ UNCHANGED peerVars

-----------------------------------------------------------------------------
(* Sockets.                                                                *)

Handshake(at) == {sock[s].index : s \in {r \in DOMAIN sock : sock[r].at = at}}

\* A hello for index i crosses a farewell or a handler on its way.
Crossing(i) == {i} \cap (firing \cup Handshake("leaving"))

\* Mutant of Hello: a second hello of the same socket counts again.
HelloAgain(s, key) ==
  \E k \in Positions :
    LET i == mem.seats[k].index
    IN  /\ sock[s].at \in {"closed", "up"} /\ Opens(k, key.tok) /\ refs[i] < 3
        /\ refs' = [refs EXCEPT ![i] = @ + 1]
        /\ sock' = [sock EXCEPT ![s] =
             [at |-> IF refs[i] = 0 THEN "joining" ELSE "up",
              index |-> i, color |-> mem.seats[k].color]]
        /\ crossed' = crossed \cup Crossing(i)
        /\ UNCHANGED <<roomVars, timer, firing, ending, away>>

\* wsGame loads the game, the reader takes a hello: SeatConnected counts.
Hello(s, key) ==
  \E k \in Positions :
    LET i == mem.seats[k].index
    IN  /\ sock[s].at = "closed" /\ Opens(k, key.tok)
        /\ refs' = [refs EXCEPT ![i] = @ + 1]
        /\ sock' = [sock EXCEPT ![s] =
             [at |-> IF refs[i] = 0 THEN "joining" ELSE "up",
              index |-> i, color |-> mem.seats[k].color]]
        /\ crossed' = crossed \cup Crossing(i)
        /\ UNCHANGED <<roomVars, timer, firing, ending, away>>

\* ... and cancels the timer afterwards, if it was the first.
Greeted(s) ==
  /\ sock[s].at = "joining"
  /\ sock' = [sock EXCEPT ![s].at = "up"]
  /\ timer' = [timer EXCEPT ![sock[s].index] = "none"]
  /\ UNCHANGED <<roomVars, refs, firing, ending, away, crossed>>

\* Mutant of LastSocket: any socket that goes starts the timer.
LastSocketOrNot(n) == n >= 1

\* Mutant of LastSocket: the count before, not after.
LastSocketByPrev(n) == n = 0

\* SeatDisconnected: the count falls from one to none.
LastSocket(n) == n = 1

\* The read loop ends: SeatDisconnected counts.  Without a count (gameEnded
\* has dropped it) it returns.
Close(s) ==
  LET i == sock[s].index
      gone == [sock EXCEPT ![s] = Closed]
  IN  /\ sock[s].at = "up"
      /\ refs' = [refs EXCEPT ![i] = IF @ = 0 THEN 0 ELSE @ - 1]
      /\ sock' = IF LastSocket(refs[i]) THEN [sock EXCEPT ![s].at = "leaving"] ELSE gone
      /\ away' = away \cup ({sock[s].color} \ {sock[r].color : r \in Live \ {s}})
      /\ UNCHANGED <<roomVars, timer, firing, ending, crossed>>

\* ... and schedules the timer afterwards, replacing one that runs.
Gone(s) ==
  /\ sock[s].at = "leaving"
  /\ sock' = [sock EXCEPT ![s] = Closed]
  /\ timer' = [timer EXCEPT ![sock[s].index] = "armed"]
  /\ UNCHANGED <<roomVars, refs, firing, ending, away, crossed>>

-----------------------------------------------------------------------------
(* Timers.                                                                 *)

\* Bound: one handler at a time is on its way to the record lock.
GraceExpires(i) ==
  /\ timer[i] = "armed" /\ timer' = [timer EXCEPT ![i] = "spent"]
  /\ firing = {} /\ firing' = {i}
  /\ crossed' = crossed \cup ({i} \cap Handshake("joining"))
  /\ UNCHANGED <<roomVars, sock, refs, ending, away>>

\* Mutant of TimeoutIgnored: the last position is taken to be out of range.
TimeoutIgnoredOffByOne(i) ==
  /\ i \in firing /\ firing' = firing \ {i}
  /\ mem.status # "playing" \/ i + 1 >= Len(mem.seats)
  /\ UNCHANGED <<roomVars, sock, refs, timer, ending, away, crossed>>

\* handleDisconnectTimeout: no live game, or no such position.
TimeoutIgnored(i) ==
  /\ i \in firing /\ firing' = firing \ {i}
  /\ mem.status # "playing" \/ i >= Len(mem.seats)
  /\ UNCHANGED <<roomVars, sock, refs, timer, ending, away, crossed>>

\* handleDisconnectTimeout: the player at that position forfeits.
TimeoutForfeits(i) ==
  /\ i \in firing /\ firing' = firing \ {i}
  /\ i < Len(mem.seats) /\ Decide("timer")
  /\ ending' = TRUE
  /\ UNCHANGED <<sock, refs, timer, away, crossed>>

\* A resignation, a draw, a flag or a move ends the game.  PlayMove returns
\* early if its statement fails, and no gameEnded follows.
Finish ==
  /\ \/ (\E by \in {"call", "timer"} : Decide(by)) /\ ending' = TRUE
     \/ \E ok \in BOOLEAN : Move("finished", ok) /\ ending' = (ending \/ ok)
  /\ UNCHANGED <<sock, refs, timer, firing, away, crossed>>

\* CancelGame, and the counts are dropped; the outcome is written after that.
GameEnded ==
  /\ ending /\ ending' = FALSE
  /\ timer' = NoTimers /\ refs' = [i \in Colors |-> 0]
  /\ UNCHANGED <<roomVars, sock, firing, away, crossed>>

Answer ==
  /\ ~ending /\ \E w \in {"call", "timer"} : Persist(w)
  /\ UNCHANGED peerVars

\* The process dies with its sockets and timers, or another one plays on.
Restart ==
  /\ Crash \/ (~ending /\ Refused)
  /\ sock' = [s \in DOMAIN sock |-> Closed] /\ refs' = [i \in Colors |-> 0]
  /\ timer' = NoTimers /\ firing' = {} /\ ending' = FALSE
  /\ away' = {} /\ crossed' = {}

Timeout(i) == TimeoutIgnored(i) \/ TimeoutForfeits(i)

Next ==
  \/ Room
  \/ \E s \in DOMAIN sock : (\E key \in keys : Hello(s, key)) \/ Greeted(s)
                        \/ Close(s) \/ Gone(s)
  \/ \E i \in Colors : GraceExpires(i) \/ Timeout(i)
  \/ Finish \/ GameEnded \/ Answer \/ Restart

\* Goroutines run and grace timers fire; nothing is asked of commands,
\* sockets or the process.
Fairness ==
  /\ \A s \in Sockets : /\ WF_vars(s \in DOMAIN sock /\ Greeted(s))
                         /\ WF_vars(s \in DOMAIN sock /\ Gone(s))
  /\ \A i \in Colors : WF_vars(GraceExpires(i)) /\ WF_vars(Timeout(i))
  /\ WF_vars(GameEnded) /\ WF_vars(FinalizeStart /\ UNCHANGED peerVars)

Spec == Init /\ [][Next]_vars
FairSpec == Spec /\ Fairness

-----------------------------------------------------------------------------
(* Properties.                                                             *)

Quiet == \A s \in DOMAIN sock : sock[s].at \in {"closed", "up"}

\* The start left a gap: the position of a seat is not the index it is, was or
\* will again be known by.
Gapped == \E k \in Positions : mem.seats[k].color # k - 1

\* A game without gaps is played, and c has no socket left.
Absent(c) ==
  /\ mem.status = "playing" /\ ~Gapped /\ c < Len(mem.seats)
  /\ c \in away /\ \A s \in Live : sock[s].color # c

\* A player whose last socket went is watched: the last word on the grace timer
\* was Schedule, whatever connected and disconnected in between.  A cancel
\* that overtakes the schedule, or a count that goes astray, would leave the
\* game of an absent player hanging.  ("spent" and still playing: the timer
\* fired in the lobby, where the handler ignores it.)
AbsenceIsWatched == Quiet => \A c \in Colors : Absent(c) => timer[c] # "none"

\* Where the start left no gap, a player whom a grace timer forfeits has no
\* socket: closing one of two tabs is not enough, a player who is back is safe,
\* and so is one who sits where another has left.  Excepted are the seats where
\* at some time a hello crossed a farewell or a grace timer, between the
\* halves of either.
ForfeitedIsGone ==
  [][\A i \in Colors :
       TimeoutForfeits(i) /\ ~Gapped /\ i \notin crossed =>
         \A s \in Live : sock[s].color # mem.seats[i + 1].color]_vars

\* The absentee comes back, or the game ends.
AbsenteeForfeits ==
  \A c \in Colors : Absent(c) /\ timer[c] # "spent" ~> ~Absent(c)

\* store.go:577: "handleDisconnectTimeout forfeits a seat whose grace period
\* expired with no live connection": in a game that is played, with every hello
\* and farewell handled, a grace timer that fires finds no socket of its seat.
GraceIsAbsence ==
  [][\A i \in Colors :
       GraceExpires(i) /\ Quiet /\ mem.status = "playing" =>
         \A s \in Live : sock[s].index # i]_vars

\* The same sentence, of the player: who is forfeited has been away.
ForfeitedIsAway ==
  [][\A i \in Colors : TimeoutForfeits(i) => mem.seats[i + 1].color \in away]_vars
=============================================================================
