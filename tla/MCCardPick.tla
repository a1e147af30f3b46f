----------------------------- MODULE MCCardPick -----------------------------
(***************************************************************************)
(* Two users with a connection each in a room of two seats and no further  *)
(* places: a deck as small as the players make it.                         *)
(***************************************************************************)
EXTENDS CardPick

CONSTANTS a1, b1, alice, bob

MCUserOf == [c \in Conn |-> IF c = b1 THEN bob ELSE alice]
=============================================================================
