-------------------------- MODULE MCPaymentOutbox --------------------------
(* Small instances of PaymentOutbox for TLC.                               *)
EXTENDS PaymentOutbox

CONSTANTS p1, p2
=============================================================================
