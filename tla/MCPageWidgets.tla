---------------------------- MODULE MCPageWidgets ----------------------------
(***************************************************************************)
(* Two dialogs and one message.                                            *)
(***************************************************************************)
EXTENDS PageWidgets

CONSTANTS d1, d2, m1
=============================================================================
