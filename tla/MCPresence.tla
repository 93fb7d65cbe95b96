----------------------------- MODULE MCPresence -----------------------------
(* Instances of a room: the lobby of a table of two or three with nobody   *)
(* connected, and two sockets at a table of two guests, where two tokens,  *)
(* no bots, no invitations and no failing statement suffice.               *)
EXTENDS Presence

Connected == DOMAIN sock # {}

RoomInit ==
  /\ Init
  /\ Connected => /\ DOMAIN sock = Sockets /\ Len(mem.seats) = 2
                  /\ mem.seats[1].user = Nobody

RoomNext ==
  /\ Next
  /\ Connected => /\ minted' <= 2 /\ mishaps' = 0
                  /\ \A k \in DOMAIN mem'.seats : ~mem'.seats[k].bot /\ mem'.seats[k].user = Nobody

RoomSpec == RoomInit /\ [][RoomNext]_vars /\ Fairness
=============================================================================
