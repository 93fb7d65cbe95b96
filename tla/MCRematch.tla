----------------------------- MODULE MCRematch -----------------------------
(* Instances of what follows a game: two games that are rated at the same  *)
(* time, of which nobody wants a rematch, and the rematch of a game.       *)
EXTENDS Rematch

CONSTANTS ann, bob, cat, dan

FourPlayers == {ann, bob, cat, dan}

MCTables == {<<ann, bob>>, <<bob, cat>>, <<ann, bob, cat, dan>>, <<ann, Bot, Guest>>}

\* Two games that count and share players are under way.
SideBySide ==
  /\ public = {g \in Games : table[g] # <<>>}
  /\ table[1] = <<ann, bob>> /\ table[2] = <<>>
  /\ table[3] \in {<<bob, cat>>, <<ann, bob, cat, dan>>}

\* One game, that of the rematch; those that follow it are not played.
ByItself ==
  /\ \A g \in Games \ {Original} : table[g] = <<>>
  /\ table[Original] = <<ann, Bot, Guest>> /\ public = {}

MCInit == Init /\ (SideBySide \/ ByItself)

\* Side by side nobody wants a rematch; by itself somebody wins before.
MCNext ==
  /\ Next
  /\ public # {} => clicks' = 0
  /\ public = {} /\ ended' # ended => /\ status'[Original] # status[Original]
                                     /\ result'[Original] = 1

MCSpec == MCInit /\ [][MCNext]_vars /\ RatingsFairness
=============================================================================
