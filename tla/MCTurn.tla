------------------------------- MODULE MCTurn -------------------------------
(* Instances of Turn for TLC.                                              *)
EXTENDS Turn, TLC
=============================================================================
