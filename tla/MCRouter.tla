------------------------------ MODULE MCRouter ------------------------------
(* An instance of Router for TLC: one turn and the global queue.           *)
EXTENDS Router

CONSTANTS t1, c1, c2

MCNote(m, turn, size) ==
    [method |-> m, login |-> None, turn |-> turn, thread |-> None,
     size |-> size]

MCKeys == {<<"turn", t1>>}

\* Two events of the turn, which together meet the limit of its route, and one
\* without any id, which goes to the global queue.
MCNotifications == {MCNote("item/started", t1, 1),
                    MCNote("item/completed", t1, 2),
                    MCNote("account/updated", None, 2)}

\* c1 streams the turn, and both read the global queue.
MCServes(c) == IF c = c1 THEN MCKeys \cup {Global} ELSE {Global}

\* The turn alone; the global queue alone; a notification for each.
MCAnyNotifications == {MCNote("item/started", t1, 1), MCNote("account/updated", None, 1)}
MCServesTurn(c)    == MCKeys
MCServesGlobal(c)  == {Global}
=============================================================================
