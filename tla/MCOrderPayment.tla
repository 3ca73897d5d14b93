--------------------------- MODULE MCOrderPayment ---------------------------
(* Small instances of OrderPayment for TLC.                                *)
EXTENDS OrderPayment

CONSTANTS o1, o2, v1

(* Both orders of one user, so that the per-user quota is at stake too     *)
MCUserOf == [o \in Orders |-> "u1"]
MCQty == [o \in Orders |-> [v \in Variants |-> IF o = o1 THEN 2 ELSE 1]]
(* One unit short of both orders, so that they compete for the last one    *)
MCInitStock == [v \in Variants |-> 2]
=============================================================================
