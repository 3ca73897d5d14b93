--------------------------- MODULE MCRefundLedger ---------------------------
(* Small instances of RefundLedger for TLC.                                *)
EXTENDS RefundLedger

CONSTANTS k1, k2, k3

(* Any two of the first two refunds exceed the payment of 3, the third     *)
(* (of a return) fits beside one of them                                   *)
MCRequested == [k \in Keys |-> IF k = k3 THEN 1 ELSE 2]
=============================================================================
