----------------------------- MODULE MCRequests -----------------------------
(* An instance of Requests for TLC: q3's message does not fit in a line.   *)
EXTENDS Requests

CONSTANTS q1, q2, q3
=============================================================================
