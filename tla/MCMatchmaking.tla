--------------------------- MODULE MCMatchmaking ---------------------------
(* Three players.  Two are 250 points apart and want a duel or a room, the *)
(* third wants a room.                                                     *)
EXTENDS Matchmaking

CONSTANTS ann, bob, cat

MCRating == ann :> 1200 @@ bob :> 1450 @@ cat :> 1300

CatWantsARoom == \A i \in DOMAIN queue : queue[i].user = cat => queue[i].size # 2

MCNext == Next /\ CatWantsARoom'

MCSpec == Init /\ [][MCNext]_vars /\ ElectorFairness /\ MatcherFairness
=============================================================================
