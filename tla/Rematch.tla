------------------------------ MODULE Rematch ------------------------------
(***************************************************************************)
(* The rematch of one finished game (internal/server/rematch.go;           *)
(* repo_postgres.go: MergeRematchAcceptance, SaveRematchOffer,             *)
(* SetRematchLink, SaveNewGame).                                           *)
(*                                                                         *)
(* Calls run on the owner of the game or, when it cannot be reached, on    *)
(* any other pod.  Each holds on to the record it was given, which the     *)
(* cache may have dropped since; each lock section and each statement is a *)
(* step.  An acceptance is filed under the index of the seat and looked    *)
(* for under its position; the two differ on a record that was loaded      *)
(* after a start that left gaps.                                           *)
(***************************************************************************)
EXTENDS Ratings

CONSTANTS Original,  \* the game whose rematch is modelled
          Pods, Owner,
          Calls,     \* requests that run at the same time
          MaxClicks, \* bound: requests made
          Gaps       \* may the seat rows of the original have gaps?

ASSUME OriginalAssumption == Original \in Games
ASSUME RematchPods == Owner \in Pods /\ IsFiniteSet(Pods)
ASSUME RematchCalls == Calls \subseteq Nat /\ IsFiniteSet(Calls)
ASSUME RematchBounds == MaxClicks \in Nat /\ Gaps \in BOOLEAN

VARIABLES offer,     \* games.rematch_offer: the seats that accepted; {} is NULL
          link,      \* games.rematch_game_id, or NoGame
          rowIndex,  \* the index column of the seat rows, by position
          obj,       \* GameRecord objects: [loaded, offer, link]
          cache,     \* Store.games[Original] of each pod, or NoObj
          call,      \* the requests under way
          news,      \* pods for which an event of another pod is on its way
          clicks,    \* bound counter
          will       \* history: the last word of each seat, "yes" or "no"

rematchVars == <<offer, link, rowIndex, obj, cache, call, news, clicks,
                 will>>
vars == <<ratingVars, rematchVars>>

NoGame == 0
NoObj == 0
Objs == 1 .. Cardinality(Pods) + Cardinality(Calls)
Blank == [loaded |-> FALSE, offer |-> {}, link |-> NoGame]
Idle == [at |-> "idle", pod |-> Owner, rec |-> NoObj, orig |-> NoObj, seat |-> 0,
         merged |-> {}, game |-> NoGame]

Seats == DOMAIN table[Original]

\* By position, 0-based, or by row.
SeatNumbers == {k - 1 : k \in Seats} \cup {rowIndex[k] : k \in Seats}

TypeOK ==
  /\ RatingsTypeOK
  /\ rowIndex \in [Seats -> 0 .. 6]
  /\ offer \subseteq SeatNumbers /\ link \in {NoGame} \cup Games
  /\ obj \in [Objs -> [loaded : BOOLEAN, offer : SUBSET SeatNumbers,
                       link : {NoGame} \cup Games]]
  /\ cache \in [Pods -> {NoObj} \cup Objs]
  /\ \A c \in Calls :
       /\ call[c].at \in {"idle", "offer", "merge", "sync", "rematch", "linked", "create",
                          "link", "stampOrig", "stamp", "decline", "clear"}
       /\ call[c].pod \in Pods /\ {call[c].rec, call[c].orig} \subseteq {NoObj} \cup Objs
       /\ call[c].merged \subseteq SeatNumbers /\ call[c].game \in {NoGame} \cup Games
  /\ news \subseteq Pods /\ clicks \in 0 .. MaxClicks
  /\ will \in [Seats -> {"yes", "no"}]

\* The owner still has the record it played the game on, numbered by position.
Init ==
  /\ RatingsInit /\ table[Original] # <<>>
  /\ offer = {} /\ link = NoGame
  /\ \E cut \in 2 .. 7 :
       /\ cut <= Len(table[Original]) => Gaps
       /\ rowIndex = [k \in DOMAIN table[Original] |-> IF k < cut THEN k - 1 ELSE k]
  /\ obj = [o \in Objs |-> Blank]
  /\ cache = [p \in Pods |-> IF p = Owner THEN 1 ELSE NoObj]
  /\ call = [c \in Calls |-> Idle] /\ news = {} /\ clicks = 0
  /\ will = [k \in DOMAIN table[Original] |-> "no"]

-----------------------------------------------------------------------------
(* Records.                                                                *)

Humans == {k \in Seats : table[Original][k] # Bot}

\* The positions of the bots, 0-based.
BotSeats == {k - 1 : k \in Seats \ Humans}

\* Mutant of Index: seats are counted from one.
IndexFromOne(o, k) == k

\* Seat.Index.
Index(o, k) == IF obj[o].loaded THEN rowIndex[k] ELSE k - 1

InUse == {cache[p] : p \in Pods} \cup {call[c].rec : c \in Calls}
           \cup {call[c].orig : c \in Calls}

\* Get by pod p gives the call the record o: the cached one, or a fresh one.
Get(p, o) ==
  \/ o = cache[p] /\ o # NoObj /\ UNCHANGED <<obj, cache>>
  \/ /\ cache[p] = NoObj
     /\ o \in Objs \ InUse /\ \A x \in Objs \ InUse : o <= x
     /\ obj' = [obj EXCEPT ![o] = [loaded |-> TRUE, offer |-> offer, link |-> link]]
     /\ cache' = [cache EXCEPT ![p] = o]

\* A call goes on, gives up with an error, or returns and publishes the record.
Goto(c, at) == call' = [call EXCEPT ![c].at = at] /\ UNCHANGED news
Refuse(c) == call' = [call EXCEPT ![c] = Idle] /\ UNCHANGED news
Return(c) == call' = [call EXCEPT ![c] = Idle] /\ news' = news \cup (Pods \ {call[c].pod})

\* The heap without the records nobody holds any more.
Reachable(heap) == [o \in Objs |-> IF o \in InUse' THEN heap[o] ELSE Blank]

\* Seat k presses a button: its token opens it on every pod.  Before the end
\* of the game both commands are refused.  (A request takes the first free
\* name.)
Click(c, at, k) ==
  \E p \in Pods, o \in Objs :
    /\ call[c] = Idle /\ \A d \in Calls : call[d] = Idle => c <= d
    /\ clicks < MaxClicks /\ clicks' = clicks + 1
    /\ status[Original] = "finished" /\ Get(p, o)
    /\ call' = [call EXCEPT ![c] = [Idle EXCEPT !.at = at, !.pod = p, !.rec = o,
                                                !.seat = k]]
    /\ UNCHANGED <<ratingVars, offer, link, rowIndex, news, will>>

\* An event of another pod arrives.  (One that never does is lost.)
Invalidate(p) ==
  /\ p \in news /\ news' = news \ {p}
  /\ cache' = [cache EXCEPT ![p] = NoObj]
  /\ UNCHANGED <<ratingVars, offer, link, rowIndex, call, clicks, will>>
  /\ obj' = Reachable(obj)

\* The process restarts; its calls are lost.
Restart(p) ==
  /\ mishaps < MaxMishaps /\ mishaps' = mishaps + 1
  /\ cache' = [cache EXCEPT ![p] = NoObj]
  /\ call' = [c \in Calls |-> IF call[c].pod = p THEN Idle ELSE call[c]]
  /\ obj' = Reachable(obj)
  /\ UNCHANGED <<status, result, table, public, rated, ratings, history, ended, jobs, met>>
  /\ UNCHANGED <<offer, link, rowIndex, news, clicks, will>>

-----------------------------------------------------------------------------
(* OfferRematch.                                                           *)

CheckOffer(c) ==
  /\ call[c].at = "offer"
  /\ IF obj[call[c].rec].link # NoGame THEN Return(c) ELSE Goto(c, "merge")
  /\ UNCHANGED <<ratingVars, offer, link, rowIndex, cache, clicks, will>>
  /\ obj' = Reachable(obj)

\* Mutant of Merged: the offer this pod remembers is written back.
MergedInMemory(c) ==
  LET rec == call[c].rec
      had == IF obj[rec].offer = {} THEN BotSeats ELSE obj[rec].offer
  IN  had \cup {Index(rec, call[c].seat)}

\* The row's offer with the caller's seat, or a new one with the bots.
Merged(c) ==
  LET had == IF offer = {} THEN BotSeats ELSE offer
  IN  had \cup {Index(call[c].rec, call[c].seat)}

\* MergeRematchAcceptance, in one transaction.
MergeRematchAcceptance(c) ==
  /\ call[c].at = "merge" /\ offer' = Merged(c)
  /\ will' = [will EXCEPT ![call[c].seat] = "yes"]
  /\ call' = [call EXCEPT ![c].at = "sync", ![c].merged = Merged(c)]
  /\ UNCHANGED <<ratingVars, link, rowIndex, news, obj, cache, clicks>>

\* rematchOfferComplete looks for the positions of the human seats.
Complete(accepted) == {k - 1 : k \in Humans} \subseteq accepted

Sync(c) ==
  /\ call[c].at = "sync"
  /\ IF Complete(call[c].merged) THEN Goto(c, "rematch") ELSE Return(c)
  /\ UNCHANGED <<ratingVars, offer, link, rowIndex, cache, clicks, will>>
  /\ obj' = Reachable([obj EXCEPT ![call[c].rec].offer = call[c].merged])

-----------------------------------------------------------------------------
(* Rematch.                                                                *)

\* Another record perhaps than the one the call began with.
GetOriginal(c) ==
  \E o \in Objs :
    /\ call[c].at = "rematch" /\ Get(call[c].pod, o)
    /\ call' = [call EXCEPT ![c].at = IF obj'[o].link = NoGame THEN "create" ELSE "linked",
                            ![c].orig = o, ![c].game = obj'[o].link]
    /\ UNCHANGED <<ratingVars, offer, link, rowIndex, news, clicks, will>>

\* The game of its link: found, in the rows or, though its rows are gone, in
\* the memory of the pod; or not, and then a new one is made.
GetLinked(c) ==
  /\ call[c].at = "linked"
  /\ Goto(c, "stamp") \/ (status[call[c].game] = "gone" /\ Goto(c, "create"))
  /\ UNCHANGED <<ratingVars, offer, link, rowIndex, obj, cache, clicks, will>>

\* The seats of the new game: guests are not pre-seated.
FollowUp == [k \in Seats |-> IF table[Original][k] = Guest THEN Open ELSE table[Original][k]]

\* The rows of a new game g.
SaveNewGame(g) ==
  /\ status[g] = "none" /\ \A h \in Games : status[h] = "none" => g <= h
  /\ table' = [table EXCEPT ![g] = FollowUp]
  /\ status' = [status EXCEPT ![g] = IF \E k \in Seats : FollowUp[k] = Open
                                     THEN "waiting" ELSE "playing"]
  /\ public' = IF Original \in public THEN public \cup {g} ELSE public \ {g}
  /\ UNCHANGED <<result, rated, ratings, history, ended, jobs, met>>

Create(c) ==
  \E g \in Games :
    /\ call[c].at = "create" /\ SaveNewGame(g)
    /\ call' = [call EXCEPT ![c].at = "link", ![c].game = g]
    /\ UNCHANGED <<mishaps, offer, link, rowIndex, news, obj, cache, clicks, will>>

\* Mutant of SetRematchLink: no COALESCE.
SetRematchLinkAnyway(g) == g

\* The link that stands after writing g.
SetRematchLink(g) == IF link = NoGame THEN g ELSE link

Link(c) ==
  /\ call[c].at = "link" /\ link' = SetRematchLink(call[c].game)
  /\ call' = [call EXCEPT ![c].at = "stampOrig", ![c].game = link']
  /\ UNCHANGED <<ratingVars, offer, rowIndex, news, obj, cache, clicks, will>>

StampOriginal(c) ==
  /\ call[c].at = "stampOrig" /\ Goto(c, "stamp")
  /\ obj' = [obj EXCEPT ![call[c].orig].link = call[c].game]
  /\ UNCHANGED <<ratingVars, offer, link, rowIndex, cache, clicks, will>>

\* Back in OfferRematch: the record that is answered.
Stamp(c) ==
  /\ call[c].at = "stamp" /\ Goto(c, "clear")
  /\ obj' = [obj EXCEPT ![call[c].rec].link = call[c].game, ![call[c].rec].offer = {}]
  /\ UNCHANGED <<ratingVars, offer, link, rowIndex, cache, clicks, will>>

-----------------------------------------------------------------------------
(* DeclineRematch, of any seat, and what both end with.                    *)

CheckDecline(c) ==
  LET rec == call[c].rec
  IN  /\ call[c].at = "decline"
      /\ IF obj[rec].offer = {} THEN Refuse(c) ELSE Goto(c, "clear")
      /\ UNCHANGED <<ratingVars, offer, link, rowIndex, cache, clicks, will>>
      /\ obj' = Reachable([obj EXCEPT ![rec].offer = {}])

\* SaveRematchOffer(nil).  (A call that declines has no seat.)
Clear(c) ==
  /\ call[c].at = "clear" /\ offer' = {} /\ Return(c)
  /\ will' = IF call[c].seat = 0 THEN [k \in Seats |-> "no"] ELSE will
  /\ UNCHANGED <<ratingVars, link, rowIndex, cache, clicks>>
  /\ obj' = Reachable(obj)

\* A statement of the call fails, before or after it has taken effect.  The
\* call returns the error; that of the last statement it swallows.
StatementFails(c) ==
  /\ mishaps < MaxMishaps /\ mishaps' = mishaps + 1
  /\ IF call[c].at = "clear" THEN Return(c) ELSE Refuse(c)
  /\ \/ call[c].at \in {"merge", "rematch", "linked", "create", "link", "clear"}
        /\ UNCHANGED <<status, table, public, offer, link>>
     \/ call[c].at = "merge" /\ offer' = Merged(c) /\ UNCHANGED <<status, table, public, link>>
     \/ call[c].at = "create" /\ (\E g \in Games : SaveNewGame(g)) /\ UNCHANGED <<offer, link>>
     \/ /\ call[c].at = "link" /\ link' = SetRematchLink(call[c].game)
        /\ UNCHANGED <<status, table, public, offer>>
  /\ UNCHANGED <<result, rated, ratings, history, ended, jobs, met>>
  /\ UNCHANGED <<rowIndex, cache, clicks, will>>
  /\ obj' = Reachable(obj)

\* DeleteStaleWaitingGames: a follow-up that nobody came to is deleted a week
\* after its last change, and the link to it with it (ON DELETE SET NULL); no
\* record is told.  A request that made the game, or found it, is over by then.
CleanStale(g) ==
  /\ status[g] = "waiting"
  /\ \A c \in Calls : call[c].game = g => call[c].at = "linked"
  /\ status' = [status EXCEPT ![g] = "gone"]
  /\ link' = IF link = g THEN NoGame ELSE link
  /\ UNCHANGED <<result, table, public, rated, ratings, history, ended, jobs, met, mishaps>>
  /\ UNCHANGED <<offer, rowIndex, obj, cache, call, news, clicks, will>>

\* The rating goroutines of RatingsNext do not touch the original's offer.
Rating == RatingsNext /\ UNCHANGED rematchVars

Next ==
  \/ Rating
  \/ \E c \in Calls : \/ (\E k \in Humans : Click(c, "offer", k)) \/ Click(c, "decline", 0)
                      \/ CheckOffer(c) \/ MergeRematchAcceptance(c) \/ Sync(c)
                      \/ GetOriginal(c) \/ GetLinked(c) \/ Create(c) \/ Link(c)
                      \/ StampOriginal(c) \/ Stamp(c)
                      \/ CheckDecline(c) \/ Clear(c) \/ StatementFails(c)
  \/ \E p \in Pods : Invalidate(p) \/ Restart(p)
  \/ \E g \in Games : CleanStale(g)

Spec == Init /\ [][Next]_vars
FairSpec == Spec /\ RatingsFairness

-----------------------------------------------------------------------------
(* Properties.                                                             *)

Gone == {g \in Games : status[g] = "gone"}

\* However many calls complete the offer at the same time, on however many
\* pods: every record and every call that names a rematch names the one of the
\* row, or one that was deleted because nobody came to it.  So there are never
\* two to go to.
OneFollowUp ==
  /\ \A o \in Objs : obj[o].link \in {NoGame, link} \cup Gone
  /\ \A c \in Calls : call[c].at \in {"stampOrig", "stamp"} => call[c].game \in {link} \cup Gone

\* rematch.go:191, of a link whose game is gone: "the in-memory copy could still
\* hold a stale ID. Treat as "no rematch yet" and create a new one": no offer is
\* answered with such a link.
DeadLinkIsNoRematch ==
  [][\A c \in Calls : CheckOffer(c) /\ obj[call[c].rec].link \in Gone => call'[c] # Idle]_vars

\* When no call is under way, none failed and no follow-up was deleted, a game
\* whose human players (one at least) have all accepted, nobody having declined
\* since, has its rematch: no acceptance is lost between the pods.  rematch.go:34: "rematchOfferComplete reports
\* whether every needed (human-occupied) seat has accepted the current offer".
AgreedIsLinked ==
  /\ mishaps = 0 /\ Gone = {}
  /\ \A c \in Calls : call[c] = Idle
  /\ Humans # {} /\ \A k \in Humans : will[k] = "yes"
  => link # NoGame
=============================================================================
