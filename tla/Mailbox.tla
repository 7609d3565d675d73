------------------------------- MODULE Mailbox -------------------------------
(***************************************************************************)
(* What the notification router promises: one bounded FIFO mailbox per     *)
(* route, and one for the notifications without a route.  A notification   *)
(* is accepted at the tail whether or not its route is registered yet, and *)
(* leaves from the head.  Closing a route discards its mail and refuses    *)
(* more.  After the transport has failed nothing is accepted any more, and *)
(* the mailboxes someone listens to get the terminal error as last item.   *)
(***************************************************************************)
EXTENDS Integers, Sequences

CONSTANTS Boxes, Mail, End, Cap(_)

VARIABLES
    box,        \* the mail of each mailbox
    dismissed,  \* closed mailboxes
    failed,     \* the transport has failed
    owed        \* mailboxes that are still to get the terminal error

vars == <<box, dismissed, failed, owed>>

Init ==
    /\ box = [b \in Boxes |-> <<>>]
    /\ dismissed = {} /\ owed = {}
    /\ failed = FALSE

Accept(b, m) ==
    /\ ~failed /\ b \notin dismissed
    /\ Len(box[b]) < Cap(b)
    /\ box' = [box EXCEPT ![b] = Append(@, m)]
    /\ UNCHANGED <<dismissed, failed, owed>>

Take(b) ==
    /\ box[b] # <<>>
    /\ box' = [box EXCEPT ![b] = Tail(@)]
    /\ UNCHANGED <<dismissed, failed, owed>>

Open(b) ==
    /\ ~failed
    /\ dismissed' = dismissed \ {b}
    /\ UNCHANGED <<box, failed, owed>>

Close(b) ==
    /\ box' = [box EXCEPT ![b] = <<>>]
    /\ dismissed' = dismissed \cup {b}
    /\ owed' = owed \ {b}
    /\ UNCHANGED failed

Fail ==
    /\ ~failed
    /\ failed' = TRUE
    /\ owed' \in SUBSET Boxes
    /\ UNCHANGED <<box, dismissed>>

\* The terminal error comes once to each mailbox that is owed it; one that is
\* full does not need it, since whoever empties it then sees the failure.
Notice(b) ==
    /\ b \in owed
    /\ box' = IF Len(box[b]) < Cap(b) THEN [box EXCEPT ![b] = Append(@, End)]
              ELSE box
    /\ owed' = owed \ {b}
    /\ UNCHANGED <<dismissed, failed>>

Next ==
    \/ \E b \in Boxes : \/ \E m \in Mail : Accept(b, m)
                        \/ Take(b) \/ Open(b) \/ Close(b) \/ Notice(b)
    \/ Fail

Spec == Init /\ [][Next]_vars
==============================================================================
