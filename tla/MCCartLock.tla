----------------------------- MODULE MCCartLock -----------------------------
(* A small instance of CartLock for TLC.                                   *)
EXTENDS CartLock

CONSTANTS v1, v2, p1, p2

(* One line each: of the same variant, so that merging them fits into one  *)
(* line, or of different ones, so that it does not                         *)
MCInitialItems ==
    {[k \in Keys |-> [v \in Variants |-> IF v = v1 THEN 1 ELSE 0]],
     [k \in Keys |-> [v \in Variants |-> IF (k = Guest) = (v = v1) THEN 1 ELSE 0]]}
=============================================================================
