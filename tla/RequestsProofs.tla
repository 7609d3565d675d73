--------------------------- MODULE RequestsProofs ---------------------------
(***************************************************************************)
(* The safety invariants of Requests for any set of calls, any limit on    *)
(* waiters and any number of answers.                                      *)
(***************************************************************************)
EXTENDS Requests, TLAPS

\* Somebody may still send to the channel of q: it is in the map, or the read
\* loop or FailAll has taken it out and not sent yet.
Owner(q) == q \in waiters \/ q = sending \/ q \in failing

\* The three owners exclude one another, FailAll's only exists after a failure,
\* a call that somebody will send to has an empty channel, and a call has neither
\* owner nor response before it has created its waiter.
OwnersOK ==
    /\ waiters \cap failing = {}
    /\ ~failed => failing = {}
    /\ sending \notin waiters /\ sending \notin failing
    /\ \A q \in Calls : Owner(q) => chan[q] = <<>>
    /\ \A q \in Calls : cpc[q] \in {"start", "create"} =>
                           ~Owner(q) /\ chan[q] = <<>>

Rest == OwnersOK /\ NoWaiterLeaks /\ CallsReachable

\* The inductive invariant.
IInv == TypeOK /\ Rest

\* A send to an empty channel leaves one item in it.
LEMMA SendType ==
    ASSUME TypeOK, NEW q \in Calls, NEW v \in {"answer", "error"}, Send(q, v)
    PROVE  /\ chan' \in [Calls -> Seq({"answer", "error"})]
           /\ chan'[q] # <<>>
           /\ \A p \in Calls : p # q => chan'[p] = chan[p]
BY DEF TypeOK, Send

\* Init establishes the invariant: no call has begun.
LEMMA InitOK == ASSUME Init PROVE IInv
<1>1. TypeOK
  <2>1. chan \in [Calls -> Seq({"answer", "error"})]
    BY DEF Init
  <2> QED
    BY <2>1, CallsAssumption DEF Init, TypeOK
<1>2. OwnersOK
  BY CallsAssumption DEF Init, OwnersOK, Owner
<1> QED
  BY <1>1, <1>2 DEF Init, IInv, Rest, NoWaiterLeaks, CallsReachable

\* Every step keeps the types.
LEMMA TypeStep == ASSUME TypeOK, [Next]_vars PROVE TypeOK'
<1> USE CallsAssumption DEF procVars, writeVars, wireVars, callVars
<1>1. ASSUME NEW q \in Calls, Caller(q) PROVE TypeOK'
  <2>1. CASE EnsureUsable(q) \/ CreateResponseWaiter(q)
    BY <2>1 DEF EnsureUsable, CreateResponseWaiter, Goto, Return, TypeOK
  <2>2. CASE LockWrite(q) \/ Write(q) \/ DiscardResponseWaiter(q)
    BY <2>2 DEF LockWrite, Write, DiscardResponseWaiter, Goto, Return, TypeOK
  <2>3. CASE TakeResponse(q)
    <3>1. /\ Head(chan[q]) \in {"answer", "error"}
          /\ Tail(chan[q]) \in Seq({"answer", "error"})
      BY <2>3 DEF TakeResponse, TypeOK
    <3> QED
      BY <2>3, <3>1 DEF TakeResponse, Return, TypeOK
  <2> QED
    BY <1>1, <2>1, <2>2, <2>3 DEF Caller
<1>2. ASSUME NEW q \in Calls, ContextDone(q) PROVE TypeOK'
  BY <1>2 DEF ContextDone, Goto, TypeOK
<1>3. ASSUME NEW q \in Calls, Answer(q) \/ RouteResponse(q) PROVE TypeOK'
  <2>1. answers' \in [Calls -> Nat] /\ answered' \in [Calls -> Nat]
    <3>1. answers[q] \in Nat /\ answered[q] \in Nat
      BY DEF TypeOK
    <3>2. CASE Answer(q)
      BY <3>1, <3>2 DEF Answer, TypeOK
    <3>3. CASE RouteResponse(q)
      <4>1. answers[q] - 1 \in Nat
        BY <3>1, <3>3 DEF RouteResponse
      <4> QED
        BY <4>1, <3>3 DEF RouteResponse, TypeOK
    <3> QED
      BY <1>3, <3>2, <3>3
  <2> QED
    BY <1>3, <2>1 DEF Answer, RouteResponse, TypeOK
<1>4. ASSUME NEW q \in Calls, SendFailure(q) PROVE TypeOK'
  BY <1>4, SendType DEF SendFailure, TypeOK
<1>5. CASE SendResponse
  <2>1. sending \in Calls
    BY <1>5 DEF SendResponse, TypeOK
  <2> QED
    BY <1>5, <2>1, SendType DEF SendResponse, TypeOK
<1>6. CASE FailAll \/ Exit \/ Close \/ \E q \in pipe : Read(q)
  BY <1>6 DEF FailAll, Exit, Close, Read, TypeOK
<1>7. CASE UNCHANGED vars
  BY <1>7 DEF vars, TypeOK
<1> QED
  BY <1>1, <1>2, <1>3, <1>4, <1>5, <1>6, <1>7 DEF Next

\* What a step of a caller, of the read loop and of FailAll does to the rest.
LEMMA RestStep == ASSUME IInv, [Next]_vars
                  PROVE  Rest'
<1>0. TypeOK /\ TypeOK'
  BY TypeStep DEF IInv
<1> USE CallsAssumption, <1>0
    DEF procVars, writeVars, wireVars, callVars, IInv, OwnersOK, Owner, NoWaiterLeaks,
        CallsReachable, Rest, TypeOK
<1>1. ASSUME NEW q \in Calls, EnsureUsable(q) PROVE Rest'
  BY <1>1 DEF EnsureUsable, Goto, Return
<1>2. ASSUME NEW q \in Calls, CreateResponseWaiter(q) PROVE Rest'
  <2>1. CASE UNCHANGED waiters
    BY <1>2, <2>1 DEF CreateResponseWaiter, Goto, Return
  <2>2. CASE waiters' = waiters \cup {q} /\ Goto(q, "write")
    BY <1>2, <2>2 DEF CreateResponseWaiter, Goto
  <2> QED
    BY <1>2, <2>1, <2>2 DEF CreateResponseWaiter
<1>3. ASSUME NEW q \in Calls, LockWrite(q) \/ Write(q) PROVE Rest'
  <2>1. UNCHANGED <<failed, waiters, chan, sending, failing>>
    BY <1>3 DEF LockWrite, Write
  <2>2. /\ cpc[q] \in {"write", "writing"}
        /\ \E label \in {"writing", "wait", "discardWrite"} : cpc' = [cpc EXCEPT ![q] = label]
    BY <1>3 DEF LockWrite, Write, Goto
  <2> QED
    BY <2>1, <2>2
<1>4. ASSUME NEW q \in Calls, TakeResponse(q) PROVE Rest'
  BY <1>4 DEF TakeResponse, Return
<1>5. ASSUME NEW q \in Calls, ContextDone(q) \/ DiscardResponseWaiter(q)
      PROVE  Rest'
  BY <1>5 DEF ContextDone, DiscardResponseWaiter, Goto, Return
<1>6. ASSUME NEW q \in Calls, Answer(q) \/ RouteResponse(q) PROVE Rest'
  <2>1. UNCHANGED <<failed, chan, cpc, failing>>
    BY <1>6 DEF Answer, RouteResponse
  <2>2. CASE UNCHANGED <<waiters, sending>>
    BY <2>1, <2>2
  <2>3. CASE /\ sending = Nobody /\ sending' = IF q \in waiters THEN q ELSE Nobody
             /\ waiters' = waiters \ {q}
    BY <2>1, <2>3
  <2> QED
    BY <1>6, <2>2, <2>3 DEF Answer, RouteResponse
<1>7. ASSUME NEW q \in Calls, SendFailure(q) PROVE Rest'
  <2>1. chan'[q] # <<>> /\ \A p \in Calls : p # q => chan'[p] = chan[p]
    BY <1>7, SendType DEF SendFailure
  <2>2. /\ UNCHANGED <<failed, waiters, cpc, sending>>
        /\ q \in failing /\ failing' = failing \ {q}
    BY <1>7 DEF SendFailure
  <2>3. OwnersOK'
    <3>1. q \notin waiters /\ q # sending /\ ~(cpc[q] \in {"start", "create"})
      BY <2>2
    <3>2. \A p \in Calls : Owner(p)' => Owner(p) /\ p # q
      BY <2>2, <3>1
    <3>3. \A p \in Calls : Owner(p)' => chan'[p] = <<>>
      BY <2>1, <3>2
    <3>4. \A p \in Calls : cpc'[p] \in {"start", "create"} => ~Owner(p)' /\ chan'[p] = <<>>
      BY <2>1, <2>2, <3>1, <3>2
    <3> QED
      BY <2>2, <3>3, <3>4
  <2>4. NoWaiterLeaks'
    BY <2>2
  <2>5. CallsReachable'
    BY <2>1, <2>2
  <2> QED
    BY <2>3, <2>4, <2>5
<1>8. CASE SendResponse
  <2>1. sending \in Calls
    BY <1>8 DEF SendResponse
  <2>2. chan'[sending] # <<>> /\ \A p \in Calls : p # sending => chan'[p] = chan[p]
    BY <1>8, <2>1, SendType DEF SendResponse
  <2> QED
    BY <1>8, <2>1, <2>2 DEF SendResponse
<1>9. CASE FailAll \/ Exit \/ Close \/ \E q \in pipe : Read(q)
  BY <1>9 DEF FailAll, Exit, Close, Read
<1>10. CASE UNCHANGED vars
  BY <1>10 DEF vars
<1> HIDE <1>0 DEF IInv, OwnersOK, Owner, NoWaiterLeaks, CallsReachable, Rest,
                  TypeOK
<1> QED
  BY <1>1, <1>2, <1>3, <1>4, <1>5, <1>6, <1>7, <1>8, <1>9, <1>10
  DEF Next, Caller

\* The invariant holds of every behaviour.
LEMMA Inductive == Spec => []IInv
<1>1. ASSUME IInv, [Next]_vars PROVE IInv'
  BY <1>1, TypeStep, RestStep DEF IInv
<1> QED
  BY InitOK, <1>1, PTL DEF Spec

\* Request, RouteResponse and FailAll keep the types of their state.
THEOREM TypeCorrect == Spec => []TypeOK
BY Inductive, PTL DEF IInv, Rest

\* RouteResponse and FailAll never block on a waiter and never both send to it.
THEOREM SendsAlwaysFindRoom == Spec => []SendsFindRoom
<1>1. ASSUME IInv PROVE SendsFindRoom
  BY <1>1 DEF IInv, Rest, TypeOK, OwnersOK, Owner, SendsFindRoom
<1> QED
  BY Inductive, <1>1, PTL

\* A Request that has returned has left no waiter in the map.
THEOREM WaitersNeverLeak == Spec => []NoWaiterLeaks
BY Inductive, PTL DEF IInv, Rest

\* A Request in progress is never forgotten by RouteResponse or FailAll.
THEOREM CallsStayReachable == Spec => []CallsReachable
BY Inductive, PTL DEF IInv, Rest

=============================================================================
