----------------------------- MODULE MCChatLists -----------------------------
(* ChatLists on two groups.                                                *)
EXTENDS ChatLists
CONSTANTS g1, g2
MCGroup == {g1, g2}
=============================================================================
