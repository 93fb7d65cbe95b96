------------------------------ MODULE Ratings ------------------------------
(***************************************************************************)
(* Elo ratings of finished games (internal/elo; internal/server/store.go:  *)
(* maybeApplyRating, applyRating1v1, applyRatingMulti; repo_postgres.go:   *)
(* RatingsFor, ApplyRatedGame).                                            *)
(*                                                                         *)
(* The process that ends a game starts a goroutine which reads the ratings *)
(* one by one, outside any transaction, and then writes absolute values    *)
(* and the history in one.  A process that has lost the lease without      *)
(* knowing (the "zombie") may end its own copy of the game: the outcome is *)
(* fenced off, the goroutine runs all the same.                            *)
(***************************************************************************)
EXTENDS Integers, Sequences, FiniteSets, FiniteSetsExt

CONSTANTS Games,      \* games, those to come included
          Players,    \* registered users
          Guest, Bot, \* the occupants of a seat that have no rating
          Open,       \* an empty seat
          Tables,     \* the seatings of games already under way
          MaxMishaps  \* bound: failed statements, lost leases

Ids == Players \cup {Guest, Bot, Open}

ASSUME GamesAssumption == Games \subseteq Nat \ {0}
ASSUME IdsAssumption == /\ {Guest, Bot, Open} \cap Players = {}
                        /\ Cardinality({Guest, Bot, Open}) = 3
ASSUME TablesAssumption ==
  \A t \in Tables : /\ t \in Seq(Ids) /\ Len(t) \in 2 .. 6
                    /\ \A j, k \in DOMAIN t : t[j] = t[k] /\ t[j] \in Players => j = k
ASSUME RatingBounds == MaxMishaps \in Nat

VARIABLES status,   \* games.status
          result,   \* games.winner_color: a position, or 0
          table,    \* game_players: the user ids in the order of the seats
          public,   \* the games made by matchmaking, or rematches of such
          rated,    \* games.rated_at is set
          ratings,  \* the ratings rows, by mode and user
          history,  \* the rating_history rows of a game, by seat
          ended,    \* the processes that ended a copy of the game
          jobs,     \* rating goroutines
          met,      \* history: <<user, mode>> of two games that were rated at once
          mishaps   \* bound counter

ratingVars == <<status, result, table, public, rated, ratings, history, ended,
                jobs, met, mishaps>>

Modes == {"1v1", "multi"}
Writers == {"owner", "zombie"}
DefaultRating == 1200

\* RatingFor answers this for a player without a row.
NoRow == [rating |-> 0, games |-> 0, wins |-> 0, losses |-> 0, draws |-> 0]

Mode(g) == IF Len(table[g]) = 2 THEN "1v1" ELSE "multi"

RatingsTypeOK ==
  /\ status \in [Games -> {"none", "waiting", "playing", "finished", "gone"}]
  /\ result \in [Games -> 0 .. 6]
  /\ \A g \in Games : table[g] \in Seq(Ids)
  /\ public \subseteq Games /\ rated \in [Games -> BOOLEAN]
  /\ ratings \in [Modes -> [Players -> [rating : Int, games : Nat, wins : Nat,
                                        losses : Nat, draws : Nat]]]
  /\ \A g \in Games : history[g] \in
       Seq([user : Players, old : Int, new : Int, result : {"W", "L", "D"}])
  /\ ended \in [Games -> SUBSET Writers]
  /\ \A job \in jobs : /\ job.game \in Games /\ job.won \in 0 .. 6
                       /\ job.old \in Seq(Int)
  /\ met \subseteq Players \X Modes /\ mishaps \in 0 .. MaxMishaps

RatingsInit ==
  /\ table \in [Games -> Tables \cup {<<>>}] /\ public \in SUBSET Games
  /\ status = [g \in Games |-> IF table[g] = <<>> THEN "none" ELSE "playing"]
  /\ result = [g \in Games |-> 0] /\ rated = [g \in Games |-> FALSE]
  /\ ratings = [m \in Modes |-> [u \in Players |-> NoRow]]
  /\ history = [g \in Games |-> <<>>]
  /\ ended = [g \in Games |-> {}] /\ jobs = {} /\ met = {} /\ mishaps = 0

-----------------------------------------------------------------------------
(* Package elo, in integers.  Threshold[k] is the smallest advantage of the *)
(* opponent, in points, at which K * (1 - Expected) rounds to k or more;    *)
(* K = 32.                                                                  *)

Threshold == <<-719, -523, -428, -364, -314, -273, -237, -205, -176, -149, -124,
               -100, -77, -54, -32, -10, 11, 33, 55, 78, 101, 125, 150, 177,
               206, 238, 274, 315, 365, 429, 524, 720>>

\* What beating an opponent who is d points ahead earns.
Gain(d) == Cardinality({k \in DOMAIN Threshold : Threshold[k] <= d})

\* Update: the change of a rating r against an opponent at o.
Change(r, o, res) == CASE res = "W" -> Gain(o - r)
                       [] res = "L" -> - Gain(r - o)
                       [] res = "D" -> Gain(o - r) - 16

\* Mutant of LoserShare: what the division leaves over is forgotten.
LoserShareEven(gain, n, first) == gain \div n

\* UpdateMulti: the losers share the gain, the first bears the remainder.
LoserShare(gain, n, first) == gain \div n + IF first THEN gain % n ELSE 0

Total(s) ==
  LET upTo[k \in 0 .. Len(s)] == IF k = 0 THEN 0 ELSE upTo[k - 1] + s[k]
  IN  upTo[Len(s)]

\* Division of Go, towards zero.
Quotient(a, n) == IF a >= 0 THEN a \div n ELSE - ((- a) \div n)

\* UpdateMulti: winner w against the average of the others.
MultiChange(old, w) ==
  LET losers == DOMAIN old \ {w}
      n    == Cardinality(losers)
      by(gain) == [k \in DOMAIN old |->
                     IF k = w THEN gain
                     ELSE - LoserShare(gain, n, \A j \in losers : k <= j)]
  IN  by(Change(old[w], Quotient(Total(old) - old[w], n), "W"))

-----------------------------------------------------------------------------
(* The end of a game.                                                      *)

\* Mutant of RatingDue: no rating without a winner.
RatingDueIfWon(g, won) ==
  /\ g \in public /\ Len(table[g]) >= 2
  /\ \A k \in DOMAIN table[g] : table[g][k] \in Players
  /\ won # 0

\* maybeApplyRating: public, registered players only, and a winner if more
\* than two play.
RatingDue(g, won) ==
  /\ g \in public /\ Len(table[g]) >= 2
  /\ \A k \in DOMAIN table[g] : table[g][k] \in Players
  /\ Len(table[g]) = 2 \/ won # 0

Plays(u, g) == \E k \in DOMAIN table[g] : table[g][k] = u

\* Who plays both in g and in another game of its mode that is being rated.
RatedElsewhere(g) ==
  {um \in Players \X Modes :
     \E job \in jobs : /\ job.game # g
                      /\ \A x \in {g, job.game} : Mode(x) = um[2] /\ Plays(um[1], x)}

\* The goroutine that the process w starts, if any.
StartRating(g, w, won) ==
  \/ /\ RatingDue(g, won) /\ met' = met \cup RatedElsewhere(g)
     /\ jobs' = jobs \cup {[game |-> g, writer |-> w, won |-> won, old |-> <<>>]}
  \/ ~RatingDue(g, won) /\ UNCHANGED <<jobs, met>>

\* The owner ends the game: a move, a resignation, a draw, a flag, a forfeit.
\* An error of UpdateOutcome is only logged.
Finish(g, won) ==
  /\ status[g] = "playing" /\ "owner" \notin ended[g]
  /\ ended' = [ended EXCEPT ![g] = @ \cup {"owner"}]
  /\ StartRating(g, "owner", won)
  /\ \/ /\ status' = [status EXCEPT ![g] = "finished"]
        /\ result' = [result EXCEPT ![g] = won]
        /\ UNCHANGED mishaps
     \/ /\ mishaps < MaxMishaps /\ mishaps' = mishaps + 1
        /\ UNCHANGED <<status, result>>
  /\ UNCHANGED <<table, public, rated, ratings, history>>

\* Resign or AcceptDraw by a process whose lease is gone: UpdateOutcome is
\* fenced, which is logged like any error.
ZombieFinish(g, won) ==
  /\ status[g] \in {"playing", "finished"} /\ "zombie" \notin ended[g]
  /\ mishaps < MaxMishaps /\ mishaps' = mishaps + 1
  /\ ended' = [ended EXCEPT ![g] = @ \cup {"zombie"}]
  /\ StartRating(g, "zombie", won)
  /\ UNCHANGED <<status, result, table, public, rated, ratings, history>>

-----------------------------------------------------------------------------
(* The goroutine.                                                          *)

\* Mutant of RatingOrDefault: a player without games is taken to have none.
RatingAsRead(row) == row.rating

RatingOrDefault(row) == IF row.games = 0 THEN DefaultRating ELSE row.rating

\* RatingsFor: the next player's row.
ReadRating(job) ==
  LET k == Len(job.old) + 1
      row == ratings[Mode(job.game)][table[job.game][k]]
  IN  /\ k <= Len(table[job.game])
      /\ jobs' = (jobs \ {job})
                   \cup {[job EXCEPT !.old = Append(@, RatingOrDefault(row))]}
      /\ UNCHANGED <<status, result, table, public, rated, ratings, history,
                     ended, met, mishaps>>

\* How seat k did.
Result(won, k) == IF won = 0 THEN "D" ELSE IF won = k THEN "W" ELSE "L"

\* applyRating1v1 and applyRatingMulti: the rows to be written.
Updates(job) ==
  LET old == job.old
      by  == IF Len(old) > 2 THEN MultiChange(old, job.won)
             ELSE [k \in 1 .. 2 |-> Change(old[k], old[3 - k], Result(job.won, k))]
  IN  [k \in DOMAIN old |-> [user |-> table[job.game][k], old |-> old[k],
                             new |-> old[k] + by[k], result |-> Result(job.won, k)]]

\* The upsert: the rating is set to the value computed, the counts go up.
Credited(row, up) ==
  LET one(res) == IF up.result = res THEN 1 ELSE 0
  IN  [rating |-> up.new, games |-> row.games + 1, wins |-> row.wins + one("W"),
       losses |-> row.losses + one("L"), draws |-> row.draws + one("D")]

AllCredited(rows, ups) ==
  [u \in Players |-> IF \E k \in DOMAIN ups : ups[k].user = u
                     THEN Credited(rows[u], ups[CHOOSE k \in DOMAIN ups : ups[k].user = u])
                     ELSE rows[u]]

\* Mutant of ApplyFailed: rated_at was set outside the transaction.
ApplyFailedMarked(job) == rated' = [rated EXCEPT ![job.game] = TRUE]

\* The transaction is rolled back.
ApplyFailed(job) == UNCHANGED rated

\* ApplyRatedGame: by whoever sets rated_at, and for the others nothing.
ApplyRatedGame(job) ==
  LET g == job.game
  IN  /\ Len(job.old) = Len(table[g]) /\ jobs' = jobs \ {job}
      /\ \/ rated[g] /\ UNCHANGED <<rated, ratings, history>>
         \/ /\ ~rated[g] /\ rated' = [rated EXCEPT ![g] = TRUE]
            /\ \E ups \in {Updates(job)} :
                 /\ ratings' = [ratings EXCEPT ![Mode(g)] = AllCredited(@, ups)]
                 /\ history' = [history EXCEPT ![g] = ups]
      /\ UNCHANGED <<status, result, table, public, ended, met, mishaps>>

\* A statement of it fails: nobody tries again.
RatingFails(job) ==
  /\ mishaps < MaxMishaps /\ mishaps' = mishaps + 1
  /\ jobs' = jobs \ {job} /\ ApplyFailed(job)
  /\ UNCHANGED <<status, result, table, public, ratings, history, ended, met>>

Rate(job) == ReadRating(job) \/ ApplyRatedGame(job)

RatingsNext ==
  \/ \E g \in Games : \E won \in 0 .. Len(table[g]) : Finish(g, won) \/ ZombieFinish(g, won)
  \/ \E job \in jobs : Rate(job) \/ RatingFails(job)

\* Goroutines run.
RatingsFairness ==
  \A g \in Games : WF_ratingVars(\E job \in jobs : job.game = g /\ Rate(job))

-----------------------------------------------------------------------------
(* Properties.                                                             *)

\* The places in the history: all, and those of u's rated games in mode m.
Places == UNION {{g} \X DOMAIN history[g] : g \in Games}
Entry(at) == history[at[1]][at[2]]
Of(u, m) == {at \in Places : Entry(at).user = u /\ Mode(at[1]) = m}

\* What each line gave or took, and the sum over some lines.
Deltas == [at \in Places |-> Entry(at).new - Entry(at).old]
SumOver(by, S) == MapThenSumSet(LAMBDA at : by[at], S)

\* The mark, the rows and the counts of a rated game come together or not at
\* all, and once, whoever rated it and whatever failed on the way; and they
\* move points from loser to winner without making or losing one.
RatedAsOne ==
  /\ \A g \in Games :
       LET won == [k \in DOMAIN history[g] |-> history[g][k].new - history[g][k].old]
       IN  /\ Len(history[g]) = IF rated[g] THEN Len(table[g]) ELSE 0
           /\ rated[g] => g \in public /\ ended[g] # {}
           /\ Total(won) = 0
           /\ \A k \in DOMAIN won : /\ history[g][k].result = "W" => won[k] >= 0
                                    /\ history[g][k].result = "L" => won[k] <= 0
  /\ \A u \in Players, m \in Modes :
       LET row == ratings[m][u]
           had(res) == Cardinality({at \in Of(u, m) : Entry(at).result = res})
       IN  /\ row.games = Cardinality(Of(u, m))
           /\ row.wins = had("W") /\ row.losses = had("L") /\ row.draws = had("D")

\* A rating is 1200 and the deltas of its games.
AddsUp(u, m) ==
  ratings[m][u].games > 0 =>
    ratings[m][u].rating = DefaultRating + SumOver(Deltas, Of(u, m))

\* The ratings are read outside the transaction that writes them.  Whichever
\* processes end a game, whatever fails and whoever else is being rated: the
\* rating of a player is what the history says, unless two of the player's own
\* games of that mode were being rated at the same time.
HistoryAddsUp == \A u \in Players, m \in Modes : <<u, m>> \notin met => AddsUp(u, m)

\* repo_postgres.go:599: the history is written "in the same tx as the ratings
\* update so they can't desync".
RatingIsHistory == \A u \in Players, m \in Modes : AddsUp(u, m)

\* 00008_ratings.sql:24: "so the rating math runs exactly once per game": unless
\* something fails, a finished game that counts is rated in the end, a drawn
\* one as well.
FinishedIsRated ==
  \A g \in Games :
    (/\ status[g] = "finished" /\ g \in public
     /\ \A k \in DOMAIN table[g] : table[g][k] \in Players
     /\ Len(table[g]) = 2 \/ result[g] # 0)
      ~> rated[g] \/ mishaps > 0
=============================================================================
