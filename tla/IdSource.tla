------------------------------ MODULE IdSource ------------------------------
(***************************************************************************)
(* What the callers of an id generator rely on: every id handed out is     *)
(* greater than all before it, so none is handed out twice.                *)
(***************************************************************************)
EXTENDS Integers

VARIABLE last   \* the last id handed out, -1 before the first

Init == last = -1

HandOut == /\ last' \in Nat
           /\ last' > last

Spec == Init /\ [][HandOut]_last
=============================================================================
