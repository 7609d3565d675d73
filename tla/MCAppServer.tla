---------------------------- MODULE MCAppServer -----------------------------
(* Instances of AppServer for TLC.                                         *)
EXTENDS AppServer

CONSTANTS a, b, w1, w2
=============================================================================
