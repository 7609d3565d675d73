------------------------------- MODULE MCGoal -------------------------------
(* Scripts of servers for Goal.  The first turn is announced with the goal's *)
(* update, as the fake servers of the tests do.                              *)
EXTENDS Goal, TLC

CONSTANTS t1, t2, t3

N(m, t) == [m |-> m, t |-> t, s |-> "none"]
U(t, s) == [m |-> "updated", t |-> t, s |-> s]
Old     == [m |-> "cleared", t |-> NoTurn, s |-> "old"]
One(t)  == <<N("started", t), N("item", t), N("completed", t)>>
Done    == <<U(NoTurn, "complete"), N("cleared", NoTurn)>>

MCLong == {
    <<U(NoTurn, "active")>> \o One(t1) \o <<U(NoTurn, "active")>> \o One(t2) \o Done,
    <<N("started", t1), U(t1, "active"), N("completed", t1)>> \o One(t2) \o One(t3)
       \o <<U(NoTurn, "complete")>> }

\* Those with which any goroutine may cancel or close the goal.
MCShared == {
    <<N("started", t1), N("completed", t1), N("started", t2), N("completed", t2),
      N("cleared", NoTurn)>>,
    <<Old, U(t1, "active"), N("started", t1), U(t1, "complete"), N("completed", t1)>>,
    <<U(t1, "active"), N("started", t1), N("failed", t1), N("cleared", NoTurn)>>,
    <<U(NoTurn, "active")>>, <<Old, U(NoTurn, "active"), N("cleared", NoTurn)>>,
    <<U(t1, "active"), N("started", t1), U(NoTurn, "invalid"), N("completed", t1)>> }

MCScripts == MCLong \cup MCShared

\* Every server announces its turns before it ends the goal, and has one at a time.
ASSUME MCAnnounces == \A s \in MCScripts : AnnouncesFirst(s) /\ Orderly(s)

\* Continuations are announced with the goal's update, too.
MCAnnounced == {
    <<U(t1, "active")>> \o One(t1) \o <<U(t2, "active")>> \o One(t2) \o Done }

\* A goal of one turn that is announced by its beginning.
MCStarted == {<<U(NoTurn, "active")>> \o One(t1) \o Done}
=============================================================================
