---------------------------- MODULE MCImSession ----------------------------
(***************************************************************************)
(* Instances of ImSession: alice has two connections (two tabs, or an old  *)
(* one that the server still holds), bob one. g1 exists when the server    *)
(* starts; the other ids are for created groups.                           *)
(***************************************************************************)
EXTENDS ImSession, TLC

CONSTANTS a1, a2, b1, alice, bob, g1, g2, g3

MCUserOf == [c \in Channel |-> IF c = b1 THEN bob ELSE alice]
MCNumeric == User
MCBobNumeric == {bob}
MCInitialMember == [g \in Group |-> IF g = g1 THEN User ELSE {}]
\* The two connections of alice are alike.
Tabs == Permutations({a1, a2})
=============================================================================
