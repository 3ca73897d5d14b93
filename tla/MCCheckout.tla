----------------------------- MODULE MCCheckout -----------------------------
(* A small instance of Checkout for TLC.                                   *)
EXTENDS Checkout

CONSTANTS r1, r2, u1, u2, k1, k2, v1, v2

MCUserOf == [k \in Keys |-> IF k = k1 THEN u1 ELSE u2]
(* One visit that sends two requests, the second without the voucher; two  *)
(* customers who compete for the voucher; two who compete for stock        *)
Asks(k, voucher) == [key |-> k, voucher |-> voucher]
MCScenarios == {[r \in Requests |-> IF r = r1 THEN Asks(k1, TRUE) ELSE Asks(k1, FALSE)],
                [r \in Requests |-> IF r = r1 THEN Asks(k1, TRUE) ELSE Asks(k2, TRUE)],
                [r \in Requests |-> IF r = r1 THEN Asks(k1, FALSE) ELSE Asks(k2, TRUE)]}
(* The variants in both orders.  There is enough for both customers until  *)
(* the administrator lowers the stock of v2                                *)
MCCart1 == <<[variant |-> v1, quantity |-> 2], [variant |-> v2, quantity |-> 1]>>
MCCart2 == <<[variant |-> v2, quantity |-> 1], [variant |-> v1, quantity |-> 1]>>
MCInitCart == [u \in Users |-> IF u = u1 THEN MCCart1 ELSE MCCart2]
MCCarts == {MCCart2}
MCInitStock == [v \in Variants |-> IF v = v1 THEN 3 ELSE 2]
MCEdits == [v \in Variants |-> IF v = v2 THEN {[stock |-> 1, active |-> TRUE]} ELSE {}]
(* u1 may change the cart after a snapshot; v1 may be removed              *)
MCEditAt == [u \in Users |-> IF u = u1 THEN {2} ELSE {}]
MCMaxRemovals == [v \in Variants |-> IF v = v1 THEN 1 ELSE 0]
=============================================================================
