------------------------------- MODULE Seats -------------------------------
(***************************************************************************)
(* The seats of one private game, from the lobby to the start              *)
(* (internal/server/store.go: Create, Join, AddBot, RemoveBot, InviteSeat, *)
(* CancelSeatInvite, DeclineSeatInvite, LeaveSeat, ResolveSeat, Start,     *)
(* startInternal; repo_postgres.go: UpdateSeat, FinalizeStart, LoadGame,   *)
(* DeleteStaleWaitingGames), on the pod that owns the game.                *)
(*                                                                         *)
(* A seat is known by its colour, which never changes; index is what the   *)
(* record calls it and the key of its row.  Both are 0-based, so that      *)
(* colour c is created at index c.  A key stands for a seat token: the     *)
(* holder has the text, memory and row the hash.  Every command changes    *)
(* memory first and the row second, under the record lock; only Start      *)
(* lets go of the lock on its way.                                         *)
(***************************************************************************)
EXTENDS Naturals, Sequences, FiniteSets

CONSTANTS Users,       \* registered users
          Nobody,      \* the empty user id: a guest, or no reservation
          NSeats,      \* largest table
          MaxKeys,     \* bound: tokens handed out
          MaxMishaps   \* bound: statements that fail or are overtaken (Overtaken)

ASSUME NobodyAssumption == Nobody \notin Users
ASSUME SeatsAssumption == NSeats \in 2 .. 6
ASSUME BoundsAssumption == MaxKeys \in Nat \ {0} /\ MaxMishaps \in Nat

VARIABLES mem,       \* the cached record: [status, seats], or NoRec
          db,        \* games.status and the rows: [status, rows]
          keys,      \* tokens acknowledged and not given back
          minted,    \* number of tokens minted
          starting,  \* the Start goroutine: "no", "authorised", "trimmed"
          owed,      \* results and bot moves in memory, not yet written
          strayed,   \* history: seats a save in the wrong row has touched
          mishaps     \* bound counter

roomVars == <<mem, db, keys, minted, starting, owed, strayed, mishaps>>

Colors == 0 .. NSeats - 1
Ids == Users \cup {Nobody}
NoKey == 0
NoRec == [status |-> "none", seats |-> <<>>]

SeatType == [index : Colors, color : Colors, user : Ids,
             tok : 0 .. MaxKeys, occ : BOOLEAN, bot : BOOLEAN]

SeatsTypeOK ==
  /\ mem.status \in {"none", "waiting", "playing", "finished"}
  /\ \A k \in DOMAIN mem.seats : mem.seats[k] \in SeatType
  /\ db.status \in {"waiting", "playing", "finished", "gone"}
  /\ DOMAIN db.rows \subseteq Colors
  /\ \A i \in DOMAIN db.rows : db.rows[i] \in SeatType /\ db.rows[i].index = i
  /\ keys \subseteq [tok : 1 .. MaxKeys, color : Colors, user : Ids]
  /\ minted \in 0 .. MaxKeys /\ mishaps \in 0 .. MaxMishaps
  /\ starting \in {"no", "authorised", "trimmed"}
  /\ owed \subseteq {"bot", "won", "call", "timer"} /\ strayed \subseteq Colors

Empty(i) == [index |-> i, color |-> i, user |-> Nobody, tok |-> NoKey,
             occ |-> FALSE, bot |-> FALSE]

\* createGame: Create with n empty seats, then Join of the host to seat 0.
SeatsInit ==
  \E host \in Ids, n \in 2 .. NSeats :
    LET rows == [i \in 0 .. n - 1 |-> IF i > 0 THEN Empty(i)
                   ELSE [Empty(0) EXCEPT !.user = host, !.tok = 1, !.occ = TRUE]]
    IN  /\ mem = [status |-> "waiting", seats |-> [k \in 1 .. n |-> rows[k - 1]]]
        /\ db = [status |-> "waiting", rows |-> rows]
        /\ keys = {[tok |-> 1, color |-> 0, user |-> host]}
        /\ minted = 1 /\ starting = "no" /\ mishaps = 0
        /\ owed = {} /\ strayed = {}

-----------------------------------------------------------------------------
(* The two halves of a command.                                            *)

Positions == DOMAIN mem.seats
Free(k) == ~mem.seats[k].occ

\* The k-th smallest member of S; the values of f at S, in that order.
Nth(S, k) == CHOOSE i \in S : Cardinality({j \in S : j < i}) = k - 1
InOrder(f, S) == [k \in 1 .. Cardinality(S) |-> f[Nth(S, k)]]

Occupied(seats) == InOrder(seats, {k \in DOMAIN seats : seats[k].occ})

\* Mutant of AllSeated: an invited seat counts as taken.
AllSeatedOrInvited(seats) ==
  \A k \in DOMAIN seats : seats[k].occ \/ seats[k].user # Nobody

AllSeated(seats) == \A k \in DOMAIN seats : seats[k].occ

\* UpdateSeat: the row with the seat's index, if there is one.  The colour is
\* not among the columns it sets.
Updated(s, st) ==
  IF db.status = "gone" THEN db
  ELSE [status |-> st,
        rows |-> [i \in DOMAIN db.rows |->
                    IF i = s.index THEN [s EXCEPT !.color = db.rows[i].color]
                    ELSE db.rows[i]]]

\* The statement commits and is answered.
Committed(s, st) == db' = Updated(s, st) /\ UNCHANGED mishaps

\* It does not, or its answer is lost; the caller gets an error.
Failed(s, st) ==
  /\ mishaps < MaxMishaps /\ mishaps' = mishaps + 1
  /\ db' \in {db, Updated(s, st)}

\* Memory takes seat s at position k; Join and AddBot may fill the table.
Put(k, s) == mem' = [mem EXCEPT !.seats[k] = s]
Take(k, s) ==
  LET seats == [mem.seats EXCEPT ![k] = s]
  IN  mem' = [status |-> IF AllSeated(seats) THEN "playing" ELSE "waiting",
              seats |-> seats]

\* A command without a token: persist, answer or not.
Save(s, st) ==
  /\ Committed(s, st) \/ Failed(s, st)
  /\ UNCHANGED <<keys, minted, starting, owed, strayed>>

\* A command that hands out token t for seat s, taking back those in old.
SaveWithKey(s, st, t, old) ==
  /\ minted' = t
  /\ \/ /\ Committed(s, st)
        /\ keys' = (keys \ old) \cup {[tok |-> t, color |-> s.color, user |-> s.user]}
     \/ Failed(s, st) /\ keys' = keys \ old
  /\ UNCHANGED <<starting, owed>>

-----------------------------------------------------------------------------
(* The lobby commands.                                                     *)

\* pickSeatForUser: the seat reserved for u, else the first unreserved one.
Pick(u) ==
  LET reserved == {k \in Positions : Free(k) /\ mem.seats[k].user = u}
      open     == {k \in Positions : Free(k) /\ mem.seats[k].user = Nobody}
      first(S) == {k \in S : \A j \in S : k <= j}
  IN  IF u # Nobody /\ reserved # {} THEN first(reserved) ELSE first(open)

\* The seats u may ask for by number.
Askable(u) == {k \in Positions : Free(k) /\ mem.seats[k].user \in {Nobody, u}}

Join(u) ==
  \E k \in Askable(u) \cup Pick(u) :
    LET t == minted + 1
        s == [mem.seats[k] EXCEPT !.user = u, !.tok = t, !.occ = TRUE]
    IN  /\ mem.status = "waiting" /\ minted < MaxKeys
        /\ Take(k, s) /\ SaveWithKey(s, mem'.status, t, {})
        /\ UNCHANGED strayed

\* The token of a bot is thrown away.  A reservation is neither looked at nor
\* removed: the bot seat goes on carrying the id of the invitee.
AddBot(k) ==
  LET s == [mem.seats[k] EXCEPT !.tok = NoKey, !.occ = TRUE, !.bot = TRUE]
  IN  /\ mem.status = "waiting" /\ Free(k)
      /\ Take(k, s) /\ Save(s, mem'.status)

RemoveBot(k) ==
  LET s == [mem.seats[k] EXCEPT !.tok = NoKey, !.occ = FALSE, !.bot = FALSE]
  IN  /\ mem.status = "waiting" /\ ~Free(k) /\ mem.seats[k].bot
      /\ Put(k, s) /\ Save(s, mem.status)

InviteSeat(k, u) ==
  LET s == [mem.seats[k] EXCEPT !.user = u, !.tok = NoKey, !.bot = FALSE]
  IN  /\ mem.status = "waiting" /\ Free(k)
      /\ Put(k, s) /\ Save(s, mem.status)

Uninvited(k) == [mem.seats[k] EXCEPT !.user = Nobody, !.tok = NoKey]
Invited(k) ==
  mem.status = "waiting" /\ Free(k) /\ ~mem.seats[k].bot /\ mem.seats[k].user # Nobody

CancelSeatInvite(k) ==
  Invited(k) /\ Put(k, Uninvited(k)) /\ Save(Uninvited(k), mem.status)

DeclineSeatInvite(k, u) ==
  /\ Invited(k) /\ mem.seats[k].user = u
  /\ Put(k, Uninvited(k)) /\ Save(Uninvited(k), mem.status)

\* The seat a key opens: SeatByToken.
Opens(k, t) == t # NoKey /\ mem.seats[k].tok = t

\* The key is given back even if the statement fails: its holder wanted to go.
LeaveSeat(key) ==
  \E k \in Positions :
    LET s == [Empty(mem.seats[k].index) EXCEPT !.color = mem.seats[k].color]
    IN  /\ Opens(k, key.tok) /\ mem.status = "waiting"
        /\ Put(mem.seats[k].index + 1, s)
        /\ Committed(s, mem.status) \/ Failed(s, mem.status)
        /\ keys' = keys \ {key}
        /\ UNCHANGED <<minted, starting, owed, strayed>>

\* A fresh token for the first seat u occupies, in whatever status.  After a
\* start with a gap the row that has the seat's number is another seat's.
ResolveSeat(u) ==
  \E k \in Positions :
    LET mine(j) == mem.seats[j].occ /\ ~mem.seats[j].bot /\ mem.seats[j].user = u
        t == minted + 1
        s == [mem.seats[k] EXCEPT !.tok = t]
    IN  /\ mine(k) /\ \A j \in Positions : mine(j) => k <= j
        /\ minted < MaxKeys
        /\ Put(k, s)
        /\ strayed' = strayed \cup (IF s.index = s.color THEN {} ELSE {s.index, s.color})
        /\ SaveWithKey(s, mem.status, t, {key \in keys : key.tok = mem.seats[k].tok})

-----------------------------------------------------------------------------
(* Start: authorised under the lock, trimmed under the lock, written after. *)

StartAuthorised(key) ==
  /\ starting = "no" /\ mem.status = "waiting"
  /\ \E k \in Positions : Opens(k, key.tok) /\ mem.seats[k].index = 0
  /\ starting' = "authorised"
  /\ UNCHANGED <<mem, db, keys, minted, owed, strayed, mishaps>>

\* startInternal refuses: somebody filled the table, or left.
StartRefused ==
  /\ starting = "authorised"
  /\ mem.status # "waiting" \/ Len(Occupied(mem.seats)) < 2
  /\ starting' = "no"
  /\ UNCHANGED <<mem, db, keys, minted, owed, strayed, mishaps>>

\* Mutant of StartTrim: an invited seat is kept.
StartTrimKeepsInvited ==
  LET kept == InOrder(mem.seats, {k \in Positions : ~Free(k) \/ mem.seats[k].user # Nobody})
  IN  /\ starting = "authorised" /\ mem.status = "waiting" /\ Len(kept) >= 2
      /\ mem' = [status |-> "playing",
                 seats |-> [k \in DOMAIN kept |-> [kept[k] EXCEPT !.index = k - 1]]]
      /\ starting' = "trimmed"
      /\ UNCHANGED <<db, keys, minted, owed, strayed, mishaps>>

\* startInternal under the lock: empty seats go, the others are renumbered.
StartTrim ==
  LET kept == Occupied(mem.seats)
  IN  /\ starting = "authorised" /\ mem.status = "waiting" /\ Len(kept) >= 2
      /\ mem' = [status |-> "playing",
                 seats |-> [k \in DOMAIN kept |-> [kept[k] EXCEPT !.index = k - 1]]]
      /\ starting' = "trimmed"
      /\ UNCHANGED <<db, keys, minted, owed, strayed, mishaps>>

\* Mutant of Trimmed: the rows are cut at the number of seats in memory.
TrimmedByCount == {i \in DOMAIN db.rows : i < Len(mem.seats)}

\* FinalizeStart keeps the occupied rows, under the index they had.
Trimmed == {i \in DOMAIN db.rows : db.rows[i].occ}

\* A failure is counted and swallowed; status is the one read under the lock.
FinalizeStart ==
  /\ starting = "trimmed" /\ starting' = "no"
  /\ \/ /\ db' = IF db.status = "gone" THEN db
                 ELSE [status |-> "playing",
                       rows |-> [i \in Trimmed |-> db.rows[i]]]
        /\ UNCHANGED mishaps
     \/ mishaps < MaxMishaps /\ mishaps' = mishaps + 1 /\ UNCHANGED db
  /\ UNCHANGED <<mem, keys, minted, owed, strayed>>

-----------------------------------------------------------------------------
(* The game that follows, as far as its status goes.                       *)

\* AppendMove and UpdateOutcome carry a status to the row, if there is one.
Carried(st) == IF db.status = "gone" THEN db ELSE [db EXCEPT !.status = st]

\* Two writes that come too soon or too late, and count as mishaps: a result
\* within a start, whose FinalizeStart then sets the row back to playing, and
\* the move of a bot that is written after the end of the game.
Overtaken(st) == mem'.status # st \/ (st = "finished" /\ starting = "trimmed")

\* The statement commits and is answered (ok); or it does not commit, or its
\* answer is lost.
Carries(st, ok) ==
  IF ok
  THEN /\ db' = Carried(st)
       /\ IF Overtaken(st) THEN mishaps < MaxMishaps /\ mishaps' = mishaps + 1
          ELSE UNCHANGED mishaps
  ELSE /\ mishaps < MaxMishaps /\ mishaps' = mishaps + 1
       /\ db' \in {db, Carried(st)}

\* The game goes on, or ends, under the record lock.
Plays(st) == mem.status = "playing" /\ mem' = [mem EXCEPT !.status = st]

\* PlayMove writes under the lock; after an error memory stays what it is.
Move(st, ok) ==
  /\ \E k \in Positions : ~mem.seats[k].bot
  /\ Plays(st) /\ Carries(st, ok)
  /\ UNCHANGED <<keys, minted, starting, owed, strayed>>

\* The others let go of the lock first: playBotTurnIfNeeded ...
BotMove(st) ==
  /\ \E k \in Positions : mem.seats[k].bot
  /\ Plays(st) /\ owed' = owed \cup {IF st = "playing" THEN "bot" ELSE "won"}
  /\ UNCHANGED <<db, keys, minted, starting, strayed, mishaps>>

\* ... Resign and AcceptDraw ("call"), handleFlag and handleDisconnectTimeout
\* ("timer").
Decide(by) ==
  /\ Plays("finished") /\ owed' = owed \cup {by}
  /\ UNCHANGED <<db, keys, minted, starting, strayed, mishaps>>

\* The write that was due.  A failure is counted and swallowed.
Persist(w) ==
  /\ w \in owed /\ owed' = owed \ {w} /\ UNCHANGED mem
  /\ \E ok \in BOOLEAN : Carries(IF w = "bot" THEN "playing" ELSE "finished", ok)
  /\ UNCHANGED <<keys, minted, starting, strayed>>

-----------------------------------------------------------------------------
(* Loss and return of the record.                                          *)

\* LoadGame: the rows in the order of their index, which they keep.
LoadedSeats == InOrder(db.rows, DOMAIN db.rows)

Load ==
  /\ mem = NoRec /\ db.status # "gone"
  /\ mem' = [status |-> db.status, seats |-> LoadedSeats]
  /\ UNCHANGED <<db, keys, minted, starting, owed, strayed, mishaps>>

\* The record goes, and what was still to be written.  Between the two halves
\* of a start that is a mishap.
Lost ==
  /\ mem' = NoRec /\ starting' = "no" /\ owed' = {}
  /\ IF starting = "trimmed" THEN mishaps < MaxMishaps /\ mishaps' = mishaps + 1
     ELSE UNCHANGED mishaps
  /\ UNCHANGED <<db, keys, minted, strayed>>

\* The process restarts.
Crash == mem # NoRec /\ Lost

\* Another process has the lease: UpdateOutcome answers ErrStaleLease to a
\* timer, which drops the record (Invalidate).  From here on the module
\* follows the game to that process.
Refused == "timer" \in owed /\ Lost

\* The hourly cleaner.  How long ago the lobby was last touched is left open:
\* any waiting game may have been idle for longer than the TTL.
DeleteStaleWaitingGames ==
  /\ db.status = "waiting" /\ db' = [status |-> "gone", rows |-> <<>>]
  /\ UNCHANGED <<mem, keys, minted, starting, owed, strayed, mishaps>>

\* What touches nobody's presence; the other ends of a game are Presence's.
SeatsNext ==
  \/ \E u \in Ids : Join(u)
  \/ \E k \in Positions : AddBot(k) \/ RemoveBot(k) \/ CancelSeatInvite(k)
  \/ \E k \in Positions, u \in Users : InviteSeat(k, u) \/ DeclineSeatInvite(k, u)
  \/ \E key \in keys : LeaveSeat(key) \/ StartAuthorised(key)
  \/ \E u \in Users : ResolveSeat(u)
  \/ StartRefused \/ StartTrim \/ FinalizeStart
  \/ \E ok \in BOOLEAN : Move("playing", ok)
  \/ BotMove("playing") \/ BotMove("finished")
  \/ Persist("bot") \/ Persist("won")
  \/ Load \/ DeleteStaleWaitingGames

-----------------------------------------------------------------------------
(* Properties.                                                             *)

\* Nothing failed or was overtaken, and the game still exists in the database.
Sound == mishaps = 0 /\ db.status # "gone"

Holds(s, key) ==
  s.tok = key.tok /\ s.color = key.color /\ s.user = key.user /\ s.occ /\ ~s.bot

\* The row of a seat's number may be another seat's: no claim for the two.
Kept == {key \in keys : key.color \notin strayed}

\* A token that was acknowledged and not given back opens the same seat in
\* memory and, for whoever loads the game next, in the rows: across bots and
\* invitations around it, the trim of a start, crashes and reloads.  Even
\* where a statement failed it opens no other seat.  Excepted is ResolveSeat
\* after a start with a gap, which saves a seat in the row of another: the
\* tokens of these two seats, but of no third.
KeyOpensSeat ==
  \A key \in Kept :
    /\ \A k \in Positions : Opens(k, key.tok) => Holds(mem.seats[k], key)
    /\ \A i \in DOMAIN db.rows : db.rows[i].tok = key.tok => Holds(db.rows[i], key)
    /\ Sound => \E i \in DOMAIN db.rows : db.rows[i].tok = key.tok
    /\ Sound /\ mem # NoRec => \E k \in Positions : Opens(k, key.tok)

\* Outside a start, and with no result still to be written, the record is what
\* a reload would make of the rows: the same status and, in the same order,
\* the same seats up to the numbers a start gave them.  Failed and overtaken
\* writes apart (Sound), the seats that ResolveSeat saved in the wrong row, and
\* those whose row it was.
MemoryIsRows ==
  Sound /\ mem # NoRec /\ starting # "trimmed" /\ owed \subseteq {"bot"} =>
    /\ mem.status = db.status
    /\ \A j, k \in Positions : j < k => mem.seats[j].color < mem.seats[k].color
    /\ \A c \in Colors \ strayed :
         {[mem.seats[k] EXCEPT !.index = c] : k \in {j \in Positions : mem.seats[j].color = c}}
         = {db.rows[i] : i \in DOMAIN db.rows \cap {c}}

\* store.go:842: "ResolveSeat issues a fresh token for the authed user's own
\* occupied human seat": it leaves the rows of other players alone.
ResolvesOwnSeat ==
  [][\A u \in Users : ResolveSeat(u) =>
       \A i \in DOMAIN db.rows :
         db.rows[i].occ /\ db.rows[i].user # u => db'.rows[i] = db.rows[i]]_roomVars

\* A game that is played has two players at least and nobody missing, for
\* the pod that plays it and for one that loads it: turns would otherwise
\* come round to an empty seat.
PlayingIsSeated ==
  Sound =>
    /\ mem.status = "playing" => AllSeated(mem.seats) /\ Len(mem.seats) >= 2
    /\ db.status = "playing" /\ starting # "trimmed" =>
         \A i \in DOMAIN db.rows : db.rows[i].occ
=============================================================================
