------------------------------ MODULE Tickets ------------------------------
(***************************************************************************)
(* What matchmaking promises.  A player holds one ticket at most.  A game  *)
(* takes the tickets of its players in the same instant in which it comes  *)
(* into being, each ticket for one game; and who meets whom follows the    *)
(* rules: for a duel, ratings within the band of whoever has waited        *)
(* longer; for more, a full room or enough of the room for the time the    *)
(* first in line has waited.                                               *)
(***************************************************************************)
EXTENDS Integers, FiniteSets

CONSTANTS Users, Rating,
          Sizes,   \* the room sizes on offer
          Step,    \* seconds in one step of waiting
          MaxWait  \* bound: waits are told apart up to so many steps

VARIABLES ticket, \* the tickets of those who have one: [size, waited]
          games   \* the players of each game made

vars == <<ticket, games>>

\* The widest gap a duellist accepts: 100 points, 10 more per second, 1000 at most.
Band(waited) == IF 100 + 10 * Step * waited > 1000 THEN 1000 ELSE 100 + 10 * Step * waited

\* The seconds after which a room with so many players starts short of them.
Patience == [n \in 3 .. 6 |-> CASE n = 3 -> 20 [] n = 4 -> 10 [] n = 5 -> 5 [] n = 6 -> 0]

Gap(u, v) == IF Rating[u] > Rating[v] THEN Rating[u] - Rating[v] ELSE Rating[v] - Rating[u]

Allowed(group, size) ==
  /\ \A u \in group : ticket[u].size = size
  /\ IF size = 2
     THEN /\ Cardinality(group) = 2
          /\ \A u, v \in group :
               \E w \in group : Gap(u, v) <= Band(ticket[w].waited)
     ELSE /\ Cardinality(group) \in 3 .. size
          /\ \/ Cardinality(group) = size
             \/ \E u \in group : Step * ticket[u].waited >= Patience[Cardinality(group)]

Init == ticket = <<>> /\ games = <<>>

Without(S) == [u \in DOMAIN ticket \ S |-> ticket[u]]

Ask(u, size) ==
  /\ ticket' = [v \in DOMAIN ticket \cup {u} |->
                  IF v = u THEN [size |-> size, waited |-> 0] ELSE ticket[v]]
  /\ UNCHANGED games

Withdraw(u) == ticket' = Without({u}) /\ UNCHANGED games

Pass ==
  /\ ticket' = [u \in DOMAIN ticket |->
                  [ticket[u] EXCEPT !.waited = IF @ = MaxWait THEN @ ELSE @ + 1]]
  /\ UNCHANGED games

\* One round of a matcher: the new games, with nobody in two of them.
Form(size) ==
  LET new == DOMAIN games' \ DOMAIN games
  IN  /\ \A g \in DOMAIN games : g \in DOMAIN games' /\ games'[g] = games[g]
      /\ new # {} /\ \A g \in new : games'[g] \subseteq DOMAIN ticket
      /\ \A g \in new : Allowed(games'[g], size)
      /\ \A g, h \in new : g # h => games'[g] \cap games'[h] = {}
      /\ ticket' = Without(UNION {games'[g] : g \in new})

Next ==
  \/ \E u \in Users : (\E size \in Sizes : Ask(u, size)) \/ Withdraw(u)
  \/ Pass
  \/ \E size \in Sizes : Form(size)

Spec == Init /\ [][Next]_vars
=============================================================================
