----------------------------- MODULE MCCountdown -----------------------------
(* Small instances of Countdown. *)
EXTENDS Countdown

CONSTANTS t1, t2, g1, g2
=============================================================================
