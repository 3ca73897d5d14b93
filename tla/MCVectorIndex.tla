---------------------------- MODULE MCVectorIndex ----------------------------
(* A small instance of VectorIndex for TLC.                                *)
EXTENDS VectorIndex

CONSTANTS d1, d2

MCInitCorpus == [d \in Docs |-> "a"]
=============================================================================
