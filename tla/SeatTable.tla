----------------------------- MODULE SeatTable -----------------------------
(***************************************************************************)
(* What the seats of a game room promise, whatever the threads of the      *)
(* server do: a room is opened with its creator on the first seat, a seat  *)
(* is taken only when it is free and by a user who holds no other seat of  *)
(* the room, and a seat is given up one at a time.                         *)
(***************************************************************************)
EXTENDS Naturals

CONSTANTS User, Seat, Lobby, None

VARIABLE occupant   \* occupant[l][s]: the user on seat s of room l

Free == [s \in Seat |-> None]

Init == occupant = [l \in Lobby |-> Free]

Open(l, u) == /\ occupant[l] = Free
              /\ \E s \in Seat : occupant' = [occupant EXCEPT ![l][s] = u]

Take(l, s, u) == /\ occupant[l][s] = None
                 /\ \A t \in Seat : occupant[l][t] # u
                 /\ occupant' = [occupant EXCEPT ![l][s] = u]

Vacate(l, s) == /\ occupant[l][s] # None
                /\ occupant' = [occupant EXCEPT ![l][s] = None]

Next == \E l \in Lobby :
          \/ \E u \in User : Open(l, u)
          \/ \E s \in Seat, u \in User : Take(l, s, u)
          \/ \E s \in Seat : Vacate(l, s)

Spec == Init /\ [][Next]_occupant
=============================================================================
