---------------------------- MODULE MCTryOnMedia ----------------------------
(* A small instance of TryOnMedia for TLC.                                 *)
EXTENDS TryOnMedia

CONSTANTS j1, d1, u1, p1, p2
=============================================================================
