---------------------------- MODULE MCSnowUtils ----------------------------
(***************************************************************************)
(* Three threads, two ids to a millisecond: the sequence wraps on the      *)
(* third call of a millisecond.                                            *)
(***************************************************************************)
EXTENDS SnowUtils

CONSTANTS t1, t2, t3
=============================================================================
