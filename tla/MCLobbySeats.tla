---------------------------- MODULE MCLobbySeats ----------------------------
(***************************************************************************)
(* Instances of LobbySeats: alice with one or two connections (two tabs),  *)
(* bob with one.                                                           *)
(***************************************************************************)
EXTENDS LobbySeats

CONSTANTS a1, a2, b1, alice, bob

MCUserOf == [c \in Conn |-> IF c = b1 THEN bob ELSE alice]
=============================================================================
