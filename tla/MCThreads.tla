----------------------------- MODULE MCThreads ------------------------------
(* Instances of Threads for TLC.                                           *)
EXTENDS Threads

CONSTANTS p1, p2, t1, e1, e2
=============================================================================
