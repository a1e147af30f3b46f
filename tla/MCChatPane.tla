---------------------------- MODULE MCChatPane ----------------------------
(***************************************************************************)
(* An instance of ChatPane: a group whose last page is short, one whose    *)
(* last page is full, and a user.                                          *)
(***************************************************************************)
EXTENDS ChatPane

CONSTANTS g1, g2, u1

MCStored == [c \in Group \cup User |-> IF c = g1 THEN 3 ELSE 2]
=============================================================================
