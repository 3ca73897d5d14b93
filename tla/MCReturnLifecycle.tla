-------------------------- MODULE MCReturnLifecycle --------------------------
(* Small instances of ReturnLifecycle for TLC.                             *)
EXTENDS ReturnLifecycle

CONSTANTS i1, i2

(* Two units at 2 and one at 3                                             *)
MCBought == [i \in Items |-> IF i = i1 THEN 2 ELSE 1]
MCPrice == [i \in Items |-> IF i = i1 THEN 2 ELSE 3]

(* An order paid online may be refunded by several ways at once; one paid  *)
(* by hand is returned in every split and with every discount              *)
MCComboItems == [b \in BOOLEAN |-> IF b THEN {i2} ELSE {}]
MCDiscounts == [b \in BOOLEAN |-> IF b THEN {0, 5} ELSE 0..7]
MCMaxRequests == [b \in BOOLEAN |-> IF b THEN 2 ELSE 3]
=============================================================================
