----------------------------- MODULE MCSession -----------------------------
(***************************************************************************)
(* Session with two goroutines and two logins, one wait each, and the      *)
(* attempts and the jitter of DefaultRetryOptions with delays that meet    *)
(* their maximum at the second pause, in tenths of a second.               *)
(***************************************************************************)
EXTENDS Session

\* What the transport calls retryable, MapRPCError does; the other way round a
\* retry-limit error whose data does not say server_overloaded is the exception.
ASSUME \A e \in RPCErrors :
    IsRetryable(translateAppServerError(e))
        <=> IsRetryable(MapRPCError(e)) /\ ~(e.server /\ e.retryLimit /\ ~e.overloaded)
=============================================================================
