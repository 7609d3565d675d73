---------------------------- MODULE RouterProofs ----------------------------
(* Theorems about Router, for every value of its constants.                *)
EXTENDS Router, FiniteSetTheorems, SequenceTheorems, WellFoundedInduction, TLAPS

StateRec == [queue : Seq(Item), open : BOOLEAN, pending : Seq(Item),
             events : Int, bytes : Int]

\* What the data operators return.
LEMMA DataTypes ==
    /\ NoItem \in Item /\ ErrItem \in Item /\ NewState \in StateRec
    /\ \A r : MaxEvents(r) \in Nat /\ MaxEvents(r) > 0
BY LimitsAssumption DEF NoItem, ErrItem, NewState, Item, StateRec, MaxEvents

LEMMA StateTypes ==
    ASSUME TypeOK, NEW k \in Keys
    PROVE  /\ StateOf(k) \in StateRec
           /\ RefsOf(k) \subseteq Refs
           /\ \A r \in RefsOf(k) : routes[k] # NoState => r = routes[k]
           /\ \A r \in RefsOf(k) : routes[k] = NoState => r \in Unreachable
<1>1. \A r \in Refs : heap[r] \in StateRec
  BY DEF TypeOK, StateRec, States
<1>2. StateOf(k) \in StateRec
  BY <1>1, DataTypes DEF StateOf, TypeOK
<1>3. Unreachable # {} => (CHOOSE r \in Unreachable : TRUE) \in Unreachable
  OBVIOUS
<1> QED BY <1>2, <1>3 DEF RefsOf, TypeOK, Unreachable

-----------------------------------------------------------------------------
LEMMA InitType == Init => TypeOK
<1> SUFFICES ASSUME Init PROVE TypeOK OBVIOUS
<1> USE DataTypes
<1>1. heap \in [States -> StateRec]
  <2>1. \A r \in States : [NewState EXCEPT !.open = (r = Global)] \in StateRec
    BY DEF NewState, StateRec
  <2> QED BY <2>1 DEF Init
<1> QED BY <1>1 DEF Init, TypeOK, StateRec

LEMMA EnqueuedType ==
    ASSUME TypeOK, NEW s \in StateRec
    PROVE  Enqueued(s) \in StateRec
<1>0. ritem \in Item /\ ritem.size \in Nat BY DEF TypeOK, Item
<1>1. Append(s.queue, ritem) \in Seq(Item) /\ Append(s.pending, ritem) \in Seq(Item)
  BY <1>0 DEF StateRec
<1>2. Counted(s) \in StateRec /\ Counted(s).queue = s.queue /\ Counted(s).pending = s.pending
  <2>1. s.events + 1 \in Int /\ s.bytes + ritem.size \in Int
    BY <1>0 DEF StateRec
  <2>2. \A e, b \in Int :
           LET t == [s EXCEPT !.events = e, !.bytes = b]
           IN t \in StateRec /\ t.queue = s.queue /\ t.pending = s.pending
    BY DEF StateRec
  <2> QED BY <2>1, <2>2 DEF Counted
<1> QED BY <1>1, <1>2 DEF Enqueued, StateRec

LEMMA DeliverType ==
    ASSUME TypeOK, NEW r \in States, NEW s \in StateRec, todo # <<>>,
           Deliver(s, r) \/ Overflow(s, r)
    PROVE  /\ heap' \in [States -> StateRec]
           /\ totalEvents' \in Int /\ totalBytes' \in Int
           /\ todo' \in Seq(Keys \cup {Global}) /\ ritem' \in Item
           /\ readErr' \in {"none", "route", "global", "total", "failed"}
           /\ failed' = failed /\ closed' = closed
<1>0. ritem \in Item /\ ritem.size \in Nat BY DEF TypeOK, Item
<1>1. Tail(todo) \in Seq(Keys \cup {Global}) BY DEF TypeOK
<1>a. totalEvents \in Int /\ totalBytes \in Int /\ heap \in [States -> StateRec]
  BY DEF TypeOK, StateRec
<1>2. CASE Deliver(s, r)
  <2>1. Enqueued(s) \in StateRec BY EnqueuedType
  <2>2. heap' \in [States -> StateRec]
    BY <1>2, <1>a, <2>1 DEF Deliver
  <2> QED BY <1>0, <1>1, <1>a, <1>2, <2>2, DataTypes DEF Deliver, Advance, TypeOK
<1>3. CASE Overflow(s, r)
  <2>1. readErr' \in {"none", "route", "global", "total", "failed"}
    BY <1>3 DEF Overflow, LimitHit
  <2>2. heap' \in [States -> StateRec]
    BY <1>3, <1>a DEF Overflow
  <2> QED BY <1>1, <1>a, <1>3, <2>1, <2>2, DataTypes DEF Overflow
<1> QED BY <1>2, <1>3

LEMMA ReceiveType ==
    ASSUME TypeOK, NEW c \in Consumers, cref[c] \in States, Receive(c)
    PROVE  /\ heap' \in [States -> StateRec]
           /\ pc' \in [Consumers -> {"idle", "try", "check", "select", "release"}]
           /\ citem' \in [Consumers -> Item]
           /\ ended' \in SUBSET States
<1>1. heap[cref[c]] \in StateRec /\ heap \in [States -> StateRec]
  BY DEF TypeOK, StateRec
<1>2. Head(heap[cref[c]].queue) \in Item /\ Tail(heap[cref[c]].queue) \in Seq(Item)
  BY <1>1 DEF Receive, StateRec
<1>3. [heap[cref[c]] EXCEPT !.queue = Tail(heap[cref[c]].queue)] \in StateRec
  BY <1>1, <1>2 DEF StateRec
<1>4. heap' \in [States -> StateRec]
  BY <1>1, <1>3 DEF Receive
<1> QED BY <1>2, <1>4 DEF Receive, TypeOK

LEMMA ReleasedType ==
    ASSUME NEW s \in StateRec, NEW z \in Nat
    PROVE  /\ Released(s, z) \in StateRec
           /\ Released(s, z).queue = s.queue /\ Released(s, z).open = s.open
           /\ Released(s, z).pending = s.pending
           /\ Released(s, z).events = s.events - 1
<1>1. s.events - 1 \in Int /\ s.bytes - z \in Int BY DEF StateRec
<1>2. \A e, b \in Int : LET t == [s EXCEPT !.events = e, !.bytes = b]
                         IN  /\ t \in StateRec /\ t.queue = s.queue
                             /\ t.open = s.open /\ t.pending = s.pending
                             /\ t.events = e
  BY DEF StateRec
<1> QED BY <1>1, <1>2 DEF Released

\* A consumer inside Next* holds a state.
PointerOK == \A c \in Consumers : pc[c] # "idle" => cref[c] \in States

LEMMA NextType == TypeOK /\ PointerOK /\ [Next]_vars => TypeOK' /\ PointerOK'
<1> SUFFICES ASSUME TypeOK, PointerOK, [Next]_vars PROVE TypeOK' /\ PointerOK'
  OBVIOUS
<1> USE DataTypes, RefsAssumption DEF consumerVars, readerVars, routerVars
<1>h. heap \in [States -> StateRec] BY DEF TypeOK, StateRec
<1>1. ASSUME NEW n \in Notifications, Read(n) PROVE TypeOK' /\ PointerOK'
  <2>1. ritem' \in Item
    BY <1>1, NotificationsAssumption DEF Read, TypeOK, Item
  <2>2. todo' \in Seq(Keys \cup {Global}) /\ nread' \in Nat
    BY <1>1, NotificationsAssumption DEF Read, TypeOK
  <2> QED BY <1>1, <2>1, <2>2 DEF Read, TypeOK, PointerOK
<1>2. ASSUME RouteAfterFailure PROVE TypeOK' /\ PointerOK'
  BY <1>2 DEF RouteAfterFailure, TypeOK, PointerOK
<1>3. ASSUME RouteDismissed PROVE TypeOK' /\ PointerOK'
  BY <1>3 DEF RouteDismissed, Advance, TypeOK, PointerOK
<1>4. ASSUME RouteScoped PROVE TypeOK' /\ PointerOK'
  <2> DEFINE k == Head(todo)
  <2>1. k \in Keys BY <1>4 DEF RouteScoped, TypeOK
  <2>2. PICK r \in RefsOf(k) :
           /\ routes' = [routes EXCEPT ![k] = r]
           /\ ended' = IF routes[k] = NoState THEN ended \ {r} ELSE ended
           /\ Deliver(StateOf(k), r) \/ Overflow(StateOf(k), r)
    BY <1>4 DEF RouteScoped
  <2>3. r \in Refs /\ r \in States /\ StateOf(k) \in StateRec
    BY <2>1, StateTypes DEF States
  <2>4. todo # <<>> BY <1>4 DEF RouteScoped
  <2> HIDE DEF k
  <2>5. /\ heap' \in [States -> StateRec]
        /\ totalEvents' \in Int /\ totalBytes' \in Int
        /\ todo' \in Seq(Keys \cup {Global}) /\ ritem' \in Item
        /\ readErr' \in {"none", "route", "global", "total", "failed"}
        /\ failed' = failed /\ closed' = closed
    BY <2>2, <2>3, <2>4, DeliverType
  <2>6. routes' \in [Keys -> Refs \cup {NoState}] /\ ended' \in SUBSET States
    BY <2>1, <2>2, <2>3 DEF TypeOK
  <2>7. UNCHANGED <<nread, wake, consumerVars>> BY <1>4 DEF RouteScoped
  <2> QED BY <2>5, <2>6, <2>7 DEF TypeOK, PointerOK, StateRec
<1>5. ASSUME RouteGlobal PROVE TypeOK' /\ PointerOK'
  <2>1. Global \in States /\ heap[Global] \in StateRec /\ todo # <<>>
    BY <1>h, <1>5 DEF States, RouteGlobal
  <2>2. Deliver(heap[Global], Global) \/ Overflow(heap[Global], Global)
    BY <1>5 DEF RouteGlobal
  <2>5. /\ heap' \in [States -> StateRec]
        /\ totalEvents' \in Int /\ totalBytes' \in Int
        /\ todo' \in Seq(Keys \cup {Global}) /\ ritem' \in Item
        /\ readErr' \in {"none", "route", "global", "total", "failed"}
        /\ failed' = failed /\ closed' = closed
    BY <2>1, <2>2, DeliverType
  <2>7. UNCHANGED <<routes, nread, wake, consumerVars, ended>>
    BY <1>5 DEF RouteGlobal
  <2> QED BY <2>5, <2>7 DEF TypeOK, PointerOK, StateRec
<1>6. ASSUME ReadLoopFails \/ TransportFails PROVE TypeOK' /\ PointerOK'
  <2>1. failed' \in {"none", "exit", "route", "global", "total", "failed"}
    BY <1>6 DEF ReadLoopFails, TransportFails, FailAll, TypeOK
  <2>2. wake' \in SUBSET States
    BY <1>6 DEF ReadLoopFails, TransportFails, FailAll
  <2>3. UNCHANGED <<routes, closed, heap, totalEvents, totalBytes, readerVars,
                    consumerVars, ended>>
    BY <1>6 DEF ReadLoopFails, TransportFails, FailAll
  <2> QED BY <2>1, <2>2, <2>3 DEF TypeOK, PointerOK
<1>7. ASSUME NEW r \in States, WakeOne(r) PROVE TypeOK' /\ PointerOK'
  <2>1. Append(heap[r].queue, ErrItem) \in Seq(Item)
    BY <1>h DEF StateRec
  <2>2. [heap[r] EXCEPT !.queue = Append(heap[r].queue, ErrItem)] \in StateRec
    BY <1>h, <2>1 DEF StateRec
  <2>3. heap' \in [States -> StateRec]
    BY <1>7, <1>h, <2>2 DEF WakeOne
  <2> QED BY <1>7, <2>3 DEF WakeOne, TypeOK, PointerOK, StateRec
<1>8. ASSUME NEW k \in Keys, Register(k) PROVE TypeOK' /\ PointerOK'
  <2>1. PICK r \in RefsOf(k) :
         /\ routes' = [routes EXCEPT ![k] = r]
         /\ ended' = IF routes[k] = NoState THEN ended \ {r} ELSE ended
         /\ heap' = IF StateOf(k).open THEN heap
                    ELSE [heap EXCEPT ![r] = [StateOf(k) EXCEPT !.open = TRUE,
                                                       !.queue = StateOf(k).pending,
                                                       !.pending = <<>>]]
    BY <1>8 DEF Register
  <2>2. r \in Refs /\ r \in States /\ StateOf(k) \in StateRec
    BY <2>1, StateTypes DEF States
  <2>3. \A s \in StateRec :
          [s EXCEPT !.open = TRUE, !.queue = s.pending, !.pending = <<>>] \in StateRec
    <3> SUFFICES ASSUME NEW s \in StateRec
                 PROVE [s EXCEPT !.open = TRUE, !.queue = s.pending,
                                 !.pending = <<>>] \in StateRec
      OBVIOUS
    <3>1. s.pending \in Seq(Item) /\ <<>> \in Seq(Item) BY DEF StateRec
    <3>2. \A q, p \in Seq(Item) :
            [s EXCEPT !.open = TRUE, !.queue = q, !.pending = p] \in StateRec
      BY DEF StateRec
    <3> QED BY <3>1, <3>2
  <2>4. heap' \in [States -> StateRec]
    BY <1>h, <2>1, <2>2, <2>3
  <2> QED BY <1>8, <2>1, <2>2, <2>4 DEF Register, TypeOK, PointerOK, StateRec
<1>9. ASSUME NEW k \in Keys, Unregister(k) PROVE TypeOK' /\ PointerOK'
  <2>1. StateOf(k).events \in Int /\ StateOf(k).bytes \in Int
    BY StateTypes DEF StateRec
  <2> QED BY <1>9, <2>1 DEF Unregister, TypeOK, PointerOK
<1>10. ASSUME NEW c \in Consumers, NEW k \in Keys, NextRoute(c, k)
       PROVE TypeOK' /\ PointerOK'
  BY <1>10 DEF NextRoute, Begin, TypeOK, PointerOK, States
<1>11. ASSUME NEW c \in Consumers, NextGlobal(c) PROVE TypeOK' /\ PointerOK'
  BY <1>11 DEF NextGlobal, Begin, TypeOK, PointerOK, States
<1>12. ASSUME NEW c \in Consumers, Try(c) PROVE TypeOK' /\ PointerOK'
  <2>1. cref[c] \in States BY <1>12 DEF Try, PointerOK
  <2>2. UNCHANGED <<failed, routes, closed, totalEvents, totalBytes, readerVars,
                    wake>>
    BY <1>12 DEF Try
  <2>3. CASE Receive(c)
    <3>1. UNCHANGED <<ckey, cref, sawFailed>> BY <2>3 DEF Receive
    <3>2. PointerOK' BY <2>1, <2>3, <3>1 DEF Receive, PointerOK, TypeOK
    <3> QED BY <2>1, <2>2, <2>3, <3>1, <3>2, ReceiveType DEF TypeOK, StateRec
  <2>4. CASE Return(c) /\ heap' = heap /\ (ended' = ended \/ ended' = ended \cup {cref[c]})
    <3>1. ended' \in SUBSET States BY <2>1, <2>4 DEF TypeOK
    <3> QED BY <2>2, <2>4, <3>1 DEF Return, TypeOK, PointerOK
  <2>5. CASE /\ Goto(c, IF cref[c] = Global THEN "check" ELSE "select")
             /\ UNCHANGED <<heap, ended>>
    BY <2>1, <2>2, <2>5 DEF Goto, TypeOK, PointerOK
  <2>6. \/ Receive(c)
        \/ Return(c) /\ heap' = heap /\ (ended' = ended \/ ended' = ended \cup {cref[c]})
        \/ /\ Goto(c, IF cref[c] = Global THEN "check" ELSE "select")
           /\ UNCHANGED <<heap, ended>>
    BY <1>12 DEF Try
  <2> QED BY <2>3, <2>4, <2>5, <2>6
<1>13. ASSUME NEW c \in Consumers, CheckFailed(c) PROVE TypeOK' /\ PointerOK'
  <2>1. cref[c] \in States BY <1>13 DEF CheckFailed, PointerOK
  <2>2. UNCHANGED <<routerVars, readerVars, wake, ended>>
    BY <1>13 DEF CheckFailed
  <2>3. Return(c) \/ Goto(c, "select") BY <1>13 DEF CheckFailed
  <2>4. CASE Return(c) BY <2>2, <2>4 DEF Return, TypeOK, PointerOK
  <2>5. CASE Goto(c, "select")
    BY <2>1, <2>2, <2>5 DEF Goto, TypeOK, PointerOK
  <2> QED BY <2>3, <2>4, <2>5
<1>14. ASSUME NEW c \in Consumers, Select(c) PROVE TypeOK' /\ PointerOK'
  <2>1. cref[c] \in States BY <1>14 DEF Select, PointerOK
  <2>2. UNCHANGED <<failed, routes, closed, totalEvents, totalBytes, readerVars,
                    wake, ckey, cref, sawFailed>>
    BY <1>14 DEF Select, Receive
  <2>3. Receive(c) BY <1>14 DEF Select
  <2>4. PointerOK' BY <2>1, <2>2, <2>3 DEF Receive, PointerOK, TypeOK
  <2> QED BY <2>1, <2>2, <2>3, <2>4, ReceiveType DEF TypeOK, StateRec
<1>15. ASSUME NEW c \in Consumers, SelectDone(c) PROVE TypeOK' /\ PointerOK'
  BY <1>15 DEF SelectDone, Return, TypeOK, PointerOK
<1>16. ASSUME NEW c \in Consumers, Release(c) PROVE TypeOK' /\ PointerOK'
  <2>1. cref[c] \in States /\ citem[c].size \in Nat
    BY <1>16 DEF Release, PointerOK, TypeOK, Item
  <2>2. Released(heap[cref[c]], citem[c].size) \in StateRec
    BY <1>h, <2>1, ReleasedType
  <2>3. heap' \in [States -> StateRec]
    BY <1>h, <1>16, <2>1, <2>2 DEF Release
  <2>4. totalEvents' \in Int /\ totalBytes' \in Int
    BY <1>16, <2>1 DEF Release, TypeOK
  <2> QED BY <1>16, <2>3, <2>4 DEF Release, Return, TypeOK, PointerOK, StateRec
<1>17. CASE UNCHANGED vars
  BY <1>17 DEF vars, TypeOK, PointerOK
<1> QED
  BY <1>1, <1>2, <1>3, <1>4, <1>5, <1>6, <1>7, <1>8, <1>9, <1>10, <1>11,
     <1>12, <1>13, <1>14, <1>15, <1>16, <1>17
  DEF Next, Reader, Consumer

\* Type correctness: the state of the router, its reader and its consumers has
\* the shape the code gives it, whatever the limits, ids and interleaving.
THEOREM TypeCorrect == Spec => []TypeOK
<1>1. Init => TypeOK /\ PointerOK
  BY InitType DEF Init, PointerOK
<1> QED BY <1>1, NextType, PTL DEF Spec

-----------------------------------------------------------------------------
(* The counters bound the channels.                                        *)

\* No two routes share a state.
RoutesDistinct ==
    \A k1, k2 \in Keys :
        routes[k1] = routes[k2] /\ routes[k1] # NoState => k1 = k2

\* If the state a consumer holds is still a route's, it is the route the
\* consumer was called for: an object is not reused while someone holds it.
CallsMatch ==
    \A c \in Consumers : pc[c] # "idle" =>
        /\ cref[c] # Global => ckey[c] \in Keys
        /\ \A k \in Keys : routes[k] = cref[c] => ckey[c] = k

\* A state has early items or a channel, never both.
ShapeOK ==
    \A r \in States : Live(r) =>
        /\ heap[r].open => heap[r].pending = <<>>
        /\ ~heap[r].open => heap[r].queue = <<>>

\* Until the failure the event counters are exact and within their limit.
EventsOK ==
    ~Failed => \A r \in States : Live(r) =>
        /\ heap[r].events = Held(heap[r]) + Cardinality(InFlight(r))
        /\ heap[r].events <= MaxEvents(r)

\* FailAll pushes only after it has set r.failed, and only on channels.
WakeOK == \A r \in wake : Failed /\ heap[r].open

CountRest == RoutesDistinct /\ CallsMatch /\ ShapeOK /\ EventsOK /\ WakeOK

CountInv == TypeOK /\ PointerOK /\ CountRest

LEMMA InFlightFinite ==
    \A r : IsFiniteSet(InFlight(r)) /\ Cardinality(InFlight(r)) \in Nat
<1> SUFFICES ASSUME NEW r
             PROVE IsFiniteSet(InFlight(r)) /\ Cardinality(InFlight(r)) \in Nat
  OBVIOUS
<1>1. InFlight(r) \subseteq Consumers BY DEF InFlight
<1>2. IsFiniteSet(InFlight(r)) BY <1>1, RefsAssumption, FS_Subset
<1> QED BY <1>2, FS_CardinalityType

\* Storing in the map what registerRoute and routeScoped look up or allocate.
LEMMA AllocPreserves ==
    ASSUME CountInv, NEW k \in Keys, NEW r \in RefsOf(k),
           routes' = [routes EXCEPT ![k] = r], UNCHANGED consumerVars
    PROVE  /\ RoutesDistinct' /\ CallsMatch'
           /\ r \in Refs /\ r # Global
           /\ \A q \in States : q # r /\ Live(q)' => Live(q)
           /\ routes[k] = NoState => InFlight(r) = {}
           /\ routes[k] # NoState => Live(r) /\ StateOf(k) = heap[r]
<1>t. TypeOK BY DEF CountInv
<1>1. r \in Refs /\ r # Global /\ r # NoState /\ r \in States
  BY <1>t, StateTypes, RefsAssumption DEF States
<1>2. /\ routes[k] # NoState => r = routes[k]
      /\ routes[k] = NoState => r \in Unreachable
  BY <1>t, StateTypes
<1>3. \A j \in Keys : routes'[j] = IF j = k THEN r ELSE routes[j]
  BY <1>t DEF TypeOK
<1>4. \A j \in Keys : j # k => routes[j] # r
  BY <1>1, <1>2 DEF CountInv, CountRest, RoutesDistinct, Unreachable, Live
<1>5. RoutesDistinct'
  BY <1>3, <1>4 DEF CountInv, CountRest, RoutesDistinct
<1>6. CallsMatch'
  <2> SUFFICES ASSUME NEW c \in Consumers, pc[c] # "idle"
               PROVE  /\ cref[c] # Global => ckey[c] \in Keys
                      /\ \A j \in Keys : routes'[j] = cref[c] => ckey[c] = j
    BY DEF CallsMatch, consumerVars
  <2>1. routes[k] = NoState => cref[c] # r
    BY <1>2 DEF Unreachable
  <2> QED BY <1>2, <1>3, <2>1 DEF CountInv, CountRest, CallsMatch
<1>7. \A q \in States : q # r /\ Live(q)' => Live(q)
  BY <1>3 DEF Live
<1>8. routes[k] = NoState => InFlight(r) = {}
  BY <1>2 DEF Unreachable, InFlight
<1>9. routes[k] # NoState => Live(r) /\ StateOf(k) = heap[r]
  BY <1>2 DEF Live, StateOf
<1> QED BY <1>1, <1>5, <1>6, <1>7, <1>8, <1>9

LEMMA AddOne ==
    \A q, p \in Nat : (q + 1) + p = q + p + 1 /\ q + (p + 1) = q + p + 1
OBVIOUS

\* What a delivery does to the state it goes to.
LEMMA EnqueuedFacts ==
    ASSUME TypeOK, NEW s \in StateRec
    PROVE  /\ Enqueued(s).open = s.open
           /\ Enqueued(s).events = s.events + 1
           /\ Held(Enqueued(s)) = Held(s) + 1
           /\ s.open => Enqueued(s).pending = s.pending
           /\ ~s.open => Enqueued(s).queue = s.queue
<1>0. ritem \in Item /\ ritem.size \in Nat BY DEF TypeOK, Item
<1>1. s.queue \in Seq(Item) /\ s.pending \in Seq(Item) /\ s.open \in BOOLEAN
      /\ s.events + 1 \in Int /\ s.bytes + ritem.size \in Int
  BY <1>0 DEF StateRec
<1>l. Len(s.queue) \in Nat /\ Len(s.pending) \in Nat BY <1>1
<1>2. \A e, b \in Int : LET t == [s EXCEPT !.events = e, !.bytes = b]
                        IN  /\ t \in StateRec /\ t.queue = s.queue
                            /\ t.open = s.open /\ t.pending = s.pending
                            /\ t.events = e
  BY DEF StateRec
<1>3. /\ Counted(s) \in StateRec /\ Counted(s).queue = s.queue
      /\ Counted(s).open = s.open /\ Counted(s).pending = s.pending
      /\ Counted(s).events = s.events + 1
  BY <1>1, <1>2 DEF Counted
<1>4. CASE s.open
  <2>1. Enqueued(s) = [Counted(s) EXCEPT !.queue = Append(s.queue, ritem)]
    BY <1>3, <1>4 DEF Enqueued
  <2>2. /\ Enqueued(s).queue = Append(s.queue, ritem)
        /\ Enqueued(s).pending = s.pending /\ Enqueued(s).open = s.open
        /\ Enqueued(s).events = s.events + 1
    BY <1>3, <2>1 DEF StateRec
  <2>3. Len(Append(s.queue, ritem)) = Len(s.queue) + 1 BY <1>0, <1>1
  <2>4. Held(Enqueued(s)) = Held(s) + 1
    <3>1. Len(Enqueued(s).queue) = Len(s.queue) + 1 BY <2>2, <2>3, Zenon
    <3>2. Len(Enqueued(s).pending) = Len(s.pending) BY <2>2, Zenon
    <3> QED BY <1>l, <3>1, <3>2, AddOne, Zenon DEF Held
  <2> QED BY <1>4, <2>2, <2>4, Zenon
<1>5. CASE ~s.open
  <2>1. Enqueued(s) = [Counted(s) EXCEPT !.pending = Append(s.pending, ritem)]
    BY <1>3, <1>5 DEF Enqueued
  <2>2. /\ Enqueued(s).pending = Append(s.pending, ritem)
        /\ Enqueued(s).queue = s.queue /\ Enqueued(s).open = s.open
        /\ Enqueued(s).events = s.events + 1
    BY <1>3, <2>1 DEF StateRec
  <2>3. Len(Append(s.pending, ritem)) = Len(s.pending) + 1 BY <1>0, <1>1
  <2>4. Held(Enqueued(s)) = Held(s) + 1
    <3>1. Len(Enqueued(s).pending) = Len(s.pending) + 1 BY <2>2, <2>3, Zenon
    <3>2. Len(Enqueued(s).queue) = Len(s.queue) BY <2>2, Zenon
    <3> QED BY <1>l, <3>1, <3>2, AddOne, Zenon DEF Held
  <2> QED BY <1>5, <2>2, <2>4, Zenon
<1> QED BY <1>1, <1>4, <1>5

LEMMA HeldFacts ==
    /\ \A s \in StateRec : Held(s) \in Nat
    /\ \A s \in StateRec : Len(s.queue) <= Held(s) /\ Len(s.pending) <= Held(s)
    /\ Held(NewState) = 0
<1>1. ASSUME NEW s \in StateRec
      PROVE  /\ Held(s) \in Nat
             /\ Len(s.queue) <= Held(s) /\ Len(s.pending) <= Held(s)
  <2>1. s.queue \in Seq(Item) /\ s.pending \in Seq(Item) BY DEF StateRec
  <2>2. Len(s.queue) \in Nat /\ Len(s.pending) \in Nat BY <2>1
  <2>3. \A q, p \in Nat : q + p \in Nat /\ q <= q + p /\ p <= q + p OBVIOUS
  <2> QED BY <2>2, <2>3, Zenon DEF Held
<1>2. Held(NewState) = 0 BY DEF Held, NewState
<1> QED BY <1>1, <1>2

\* Registration moves the early items to the channel.
Registered(s) == [s EXCEPT !.open = TRUE, !.queue = s.pending, !.pending = <<>>]

LEMMA RegisteredFacts ==
    ASSUME NEW s \in StateRec, s.queue = <<>>
    PROVE  /\ Registered(s) \in StateRec
           /\ Registered(s).open = TRUE /\ Registered(s).pending = <<>>
           /\ Registered(s).events = s.events
           /\ Held(Registered(s)) = Held(s)
<1>1. s.pending \in Seq(Item) /\ <<>> \in Seq(Item) BY DEF StateRec
<1>2. \A q, p \in Seq(Item) :
        LET t == [s EXCEPT !.open = TRUE, !.queue = q, !.pending = p]
        IN  /\ t \in StateRec /\ t.open = TRUE /\ t.queue = q /\ t.pending = p
            /\ t.events = s.events
  BY DEF StateRec
<1>3. /\ Registered(s) \in StateRec /\ Registered(s).open = TRUE
      /\ Registered(s).queue = s.pending /\ Registered(s).pending = <<>>
      /\ Registered(s).events = s.events
  BY <1>1, <1>2 DEF Registered
<1>4. Len(<<>>) = 0 /\ Len(s.pending) \in Nat BY <1>1
<1>5. \A n \in Nat : n + 0 = n /\ 0 + n = n OBVIOUS
<1>6. Held(Registered(s)) = Held(s)
  BY <1>3, <1>4, <1>5, Zenon DEF Held
<1> QED BY <1>3, <1>6

\* A receive takes one item out of the channel.
Popped(s) == [s EXCEPT !.queue = Tail(@)]

LEMMA PoppedFacts ==
    ASSUME NEW s \in StateRec, s.queue # <<>>
    PROVE  /\ Popped(s) \in StateRec
           /\ Popped(s).open = s.open /\ Popped(s).pending = s.pending
           /\ Popped(s).events = s.events
           /\ Held(s) = Held(Popped(s)) + 1
<1>1. s.queue \in Seq(Item) /\ Tail(s.queue) \in Seq(Item)
      /\ s.pending \in Seq(Item)
  BY DEF StateRec
<1>2. /\ Popped(s) \in StateRec /\ Popped(s).open = s.open
      /\ Popped(s).pending = s.pending /\ Popped(s).events = s.events
      /\ Popped(s).queue = Tail(s.queue)
  BY <1>1 DEF Popped, StateRec
<1>3. Len(s.queue) = Len(Tail(s.queue)) + 1 /\ Len(Tail(s.queue)) \in Nat
      /\ Len(s.pending) \in Nat
  BY <1>1
<1>4. Held(s) = Held(Popped(s)) + 1
  BY <1>2, <1>3, AddOne, Zenon DEF Held
<1> QED BY <1>2, <1>4

\* Steps that touch neither the routes nor the consumers' calls.
LEMMA QuietCount ==
    ASSUME CountInv, UNCHANGED <<failed, routes, heap, wake, pc, ckey, cref>>
    PROVE  CountRest'
<1>1. \A r : InFlight(r)' = InFlight(r) /\ (Live(r)' <=> Live(r))
  BY DEF InFlight, Live
<1> QED
  BY <1>1 DEF CountInv, CountRest, RoutesDistinct, CallsMatch, ShapeOK, EventsOK,
              WakeOK, Failed

\* Steps of the reader and of registration: state t is stored at r.
LEMMA StoreCount ==
    ASSUME CountInv, NEW r \in States, NEW t \in StateRec, ~Failed,
           RoutesDistinct', CallsMatch',
           \A q \in States : q # r /\ Live(q)' => Live(q),
           heap' = [heap EXCEPT ![r] = t],
           UNCHANGED <<failed, wake, pc, cref>>,
           t.open => t.pending = <<>>, ~t.open => t.queue = <<>>,
           t.events = Held(t) + Cardinality(InFlight(r)),
           t.events <= MaxEvents(r)
    PROVE  CountRest'
<1>1. \A q : InFlight(q)' = InFlight(q)
  BY DEF InFlight
<1>2. \A q \in States : heap'[q] = IF q = r THEN t ELSE heap[q]
  BY DEF CountInv, TypeOK
<1>3. ShapeOK'
  BY <1>2 DEF CountInv, CountRest, ShapeOK
<1>4. EventsOK'
  <2> SUFFICES ASSUME NEW q \in States, Live(q)'
               PROVE  /\ heap'[q].events = Held(heap'[q]) + Cardinality(InFlight(q)')
                      /\ heap'[q].events <= MaxEvents(q)
    BY DEF EventsOK, Held
  <2>1. CASE q = r BY <1>1, <1>2, <2>1
  <2>2. CASE q # r BY <1>1, <1>2, <2>2 DEF CountInv, CountRest, EventsOK
  <2> QED BY <2>1, <2>2
<1>5. WakeOK'
  BY DEF CountInv, CountRest, WakeOK
<1> QED BY <1>3, <1>4, <1>5 DEF CountRest

\* A channel receive: one item moves from the queue to the consumer's hands.
LEMMA ReceiveCount ==
    ASSUME CountInv, NEW c \in Consumers, Receive(c), pc[c] \in {"try", "select"},
           UNCHANGED <<failed, routes, wake>>
    PROVE  CountRest'
<1>0. PICK r : r = cref[c] OBVIOUS
<1> USE <1>0
<1>1. r \in States /\ heap[r] \in StateRec /\ heap[r].queue # <<>>
  BY DEF CountInv, PointerOK, TypeOK, Receive, StateRec
<1>2. \A q \in States : heap'[q] = IF q = r THEN Popped(heap[r]) ELSE heap[q]
  BY <1>1 DEF Receive, Popped, CountInv, TypeOK
<1>3. /\ \A d \in Consumers : pc'[d] = IF d = c THEN "release" ELSE pc[d]
      /\ cref' = cref /\ ckey' = ckey
  BY DEF Receive, CountInv, TypeOK
<1>4. \A q : Live(q)' <=> Live(q) BY DEF Live
<1>5. RoutesDistinct' /\ CallsMatch'
  BY <1>3 DEF CountInv, CountRest, RoutesDistinct, CallsMatch
<1>6. ShapeOK'
  <2> SUFFICES ASSUME NEW q \in States, Live(q)
               PROVE  /\ heap'[q].open => heap'[q].pending = <<>>
                      /\ ~heap'[q].open => heap'[q].queue = <<>>
    BY <1>4 DEF ShapeOK
  <2>1. CASE q # r BY <1>2, <2>1 DEF CountInv, CountRest, ShapeOK
  <2>2. CASE q = r
    <3>1. heap[q].open /\ heap[q].pending = <<>>
      BY <1>1, <2>2 DEF CountInv, CountRest, ShapeOK
    <3>2. heap'[q].open = heap[q].open /\ heap'[q].pending = heap[q].pending
      BY <1>1, <1>2, <2>2, PoppedFacts
    <3> QED BY <3>1, <3>2
  <2> QED BY <2>1, <2>2
<1>7. InFlight(r)' = InFlight(r) \cup {c} /\ c \notin InFlight(r)
  BY <1>3 DEF InFlight
<1>8. \A q : q # r => InFlight(q)' = InFlight(q)
  BY <1>3 DEF InFlight
<1>9. Cardinality(InFlight(r)') = Cardinality(InFlight(r)) + 1
  BY <1>7, InFlightFinite, FS_AddElement
<1>10. EventsOK'
  <2> SUFFICES ASSUME ~Failed, NEW q \in States, Live(q)
               PROVE  /\ heap'[q].events = Held(heap'[q]) + Cardinality(InFlight(q)')
                      /\ heap'[q].events <= MaxEvents(q)
    BY <1>4 DEF EventsOK, Held, Failed
  <2>0. /\ heap[q].events = Held(heap[q]) + Cardinality(InFlight(q))
        /\ heap[q].events <= MaxEvents(q)
    BY DEF CountInv, CountRest, EventsOK
  <2>1. CASE q # r BY <1>2, <1>8, <2>0, <2>1
  <2>2. CASE q = r
    <3>1. /\ heap'[q].events = heap[q].events
          /\ Held(heap[q]) = Held(heap'[q]) + 1 /\ Held(heap'[q]) \in Nat
      BY <1>1, <1>2, <2>2, PoppedFacts, HeldFacts
    <3>2. Cardinality(InFlight(q)) \in Nat BY InFlightFinite
    <3>3. \A a, b \in Nat : (a + 1) + b = a + (b + 1) OBVIOUS
    <3>4. Cardinality(InFlight(q)') = Cardinality(InFlight(q)) + 1
      BY <1>9, <2>2
    <3>5. heap'[q].events = Held(heap'[q]) + Cardinality(InFlight(q)')
      BY <2>0, <3>1, <3>2, <3>3, <3>4, Zenon
    <3> QED BY <2>0, <3>1, <3>5, Zenon
  <2> QED BY <2>1, <2>2
<1>11. WakeOK'
  <2> SUFFICES ASSUME NEW q \in wake PROVE Failed /\ heap'[q].open
    BY DEF WakeOK, Failed
  <2>1. q \in States /\ heap[q].open /\ Failed
    BY DEF CountInv, CountRest, WakeOK, TypeOK
  <2> QED BY <1>1, <1>2, <2>1, PoppedFacts
<1> QED BY <1>5, <1>6, <1>10, <1>11 DEF CountRest

\* The second critical section of Next*: the item leaves the counters, if the
\* state is still the route's.
LEMMA ReleaseCount ==
    ASSUME CountInv, NEW c \in Consumers, Release(c)
    PROVE  CountRest'
<1>0. PICK r : r = cref[c] OBVIOUS
<1> USE <1>0
<1>1. r \in States /\ heap[r] \in StateRec /\ citem[c].size \in Nat /\ r # NoState
  BY RefsAssumption DEF CountInv, PointerOK, TypeOK, Release, StateRec, Item
<1>2. /\ \A d \in Consumers : pc'[d] = IF d = c THEN "idle" ELSE pc[d]
      /\ \A d \in Consumers : d # c => cref'[d] = cref[d] /\ ckey'[d] = ckey[d]
      /\ UNCHANGED <<failed, routes, wake>>
  BY DEF Release, Return, CountInv, TypeOK
<1>3. \A q : Live(q)' <=> Live(q) BY <1>2 DEF Live
<1>4. RoutesDistinct' /\ CallsMatch'
  BY <1>2 DEF CountInv, CountRest, RoutesDistinct, CallsMatch
<1>5. \A q : q # r => InFlight(q)' = InFlight(q)
  BY <1>2 DEF InFlight
<1>6. c \in InFlight(r) /\ InFlight(r)' = InFlight(r) \ {c}
  BY <1>2 DEF InFlight, Release
<1>7. Cardinality(InFlight(r)') = Cardinality(InFlight(r)) - 1
  BY <1>6, InFlightFinite, FS_RemoveElement
<1>8. Live(r) => Owns(c)
  BY <1>1 DEF Live, Owns, CountInv, CountRest, CallsMatch, Release
<1>9. \A q \in States :
        heap'[q] = IF q = r /\ Owns(c) THEN Released(heap[r], citem[c].size)
                   ELSE heap[q]
  BY <1>1 DEF Release, CountInv, TypeOK
<1>10. \A q \in States : /\ heap'[q].queue = heap[q].queue
                          /\ heap'[q].open = heap[q].open
                          /\ heap'[q].pending = heap[q].pending
  BY <1>1, <1>9, ReleasedType
<1>11. ShapeOK' /\ WakeOK'
  <2>1. ShapeOK' BY <1>3, <1>10 DEF CountInv, CountRest, ShapeOK
  <2>2. \A q \in wake : Failed /\ heap'[q].open
    BY <1>10 DEF CountInv, CountRest, WakeOK, TypeOK
  <2>3. WakeOK' BY <1>2, <2>2 DEF WakeOK, Failed
  <2> QED BY <2>1, <2>3
<1>12. EventsOK'
  <2> SUFFICES ASSUME ~Failed, NEW q \in States, Live(q)
               PROVE  /\ heap'[q].events = Held(heap'[q]) + Cardinality(InFlight(q)')
                      /\ heap'[q].events <= MaxEvents(q)
    BY <1>2, <1>3 DEF EventsOK, Held, Failed
  <2>0. /\ heap[q].events = Held(heap[q]) + Cardinality(InFlight(q))
        /\ heap[q].events <= MaxEvents(q)
    BY DEF CountInv, CountRest, EventsOK
  <2>1. CASE q # r BY <1>5, <1>9, <2>0, <2>1
  <2>2. CASE q = r
    <3>1. heap'[q].events = heap[q].events - 1
      <4>1. heap'[q] = Released(heap[q], citem[c].size) BY <1>8, <1>9, <2>2
      <4>2. heap[q] \in StateRec BY <1>1, <2>2
      <4>3. Released(heap[q], citem[c].size).events = heap[q].events - 1
        BY <1>1, <4>2, ReleasedType, Zenon
      <4> QED BY <4>1, <4>3, Zenon
    <3>2. Held(heap'[q]) = Held(heap[q]) BY <1>10, Zenon DEF Held
    <3>3. Held(heap[q]) \in Nat /\ Cardinality(InFlight(q)) \in Nat
          /\ MaxEvents(q) \in Nat
      BY <1>1, <2>2, HeldFacts, InFlightFinite, DataTypes
    <3>4. Cardinality(InFlight(q)') = Cardinality(InFlight(q)) - 1
      BY <1>7, <2>2
    <3>5. \A h, n, m \in Nat : /\ (h + n) - 1 = h + (n - 1)
                               /\ h + n <= m => (h + n) - 1 <= m
      OBVIOUS
    <3>6. heap'[q].events = Held(heap'[q]) + Cardinality(InFlight(q)')
      BY <2>0, <3>1, <3>2, <3>3, <3>4, <3>5, Zenon
    <3>7. heap'[q].events <= MaxEvents(q)
      <4>1. Held(heap[q]) + Cardinality(InFlight(q)) <= MaxEvents(q)
        BY <2>0, Zenon
      <4>2. (Held(heap[q]) + Cardinality(InFlight(q))) - 1 <= MaxEvents(q)
        BY <3>3, <3>5, <4>1, Zenon
      <4> QED BY <2>0, <3>1, <4>2, Zenon
    <3> QED BY <3>6, <3>7
  <2> QED BY <2>1, <2>2
<1> QED BY <1>4, <1>11, <1>12 DEF CountRest

LEMMA DeliverCount ==
    ASSUME CountInv, NEW r \in States, NEW s \in StateRec, ~Failed,
           RoutesDistinct', CallsMatch',
           \A q \in States : q # r /\ Live(q)' => Live(q),
           UNCHANGED <<wake, pc, cref>>,
           Deliver(s, r) \/ Overflow(s, r),
           s.open => s.pending = <<>>, ~s.open => s.queue = <<>>,
           s.events = Held(s) + Cardinality(InFlight(r)),
           s.events <= MaxEvents(r)
    PROVE  CountRest'
<1>1. CASE Overflow(s, r)
  BY <1>1, StoreCount DEF Overflow
<1>2. CASE Deliver(s, r)
  <2>0. PICK t : t = Enqueued(s) OBVIOUS
  <2>1. t \in StateRec
    BY <2>0, EnqueuedType DEF CountInv
  <2>2. t.open = s.open /\ t.events = s.events + 1 /\ Held(t) = Held(s) + 1
    BY <2>0, EnqueuedFacts, Zenon DEF CountInv
  <2>3. (t.open => t.pending = <<>>) /\ (~t.open => t.queue = <<>>)
    BY <2>0, EnqueuedFacts, Zenon DEF CountInv
  <2>4. Held(s) \in Nat /\ Cardinality(InFlight(r)) \in Nat
        /\ MaxEvents(r) \in Nat
    BY HeldFacts, InFlightFinite, DataTypes
  <2>5. s.events + 1 <= MaxEvents(r)
    <3>1. ~(s.events + 1 > MaxEvents(r)) BY <1>2 DEF Deliver, LimitHit
    <3>2. \A a, b \in Int : ~(a > b) => a <= b OBVIOUS
    <3>3. s.events + 1 \in Int BY DEF StateRec
    <3> QED BY <2>4, <3>1, <3>2, <3>3
  <2>6. \A a, b \in Nat : (a + b) + 1 = (a + 1) + b OBVIOUS
  <2>7. t.events = Held(t) + Cardinality(InFlight(r))
    BY <2>2, <2>4, <2>6, Zenon
  <2>8. t.events <= MaxEvents(r) BY <2>2, <2>5, Zenon
  <2>9. heap' = [heap EXCEPT ![r] = t] /\ failed' = failed
    BY <1>2, <2>0 DEF Deliver
  <2> QED BY <2>1, <2>3, <2>7, <2>8, <2>9, StoreCount
<1> QED BY <1>1, <1>2

\* What an allocated or looked-up state satisfies, whichever it is.
LEMMA StateOfFacts ==
    ASSUME CountInv, ~Failed, NEW k \in Keys, NEW r \in RefsOf(k),
           routes' = [routes EXCEPT ![k] = r], UNCHANGED consumerVars
    PROVE  /\ StateOf(k) \in StateRec
           /\ StateOf(k).open => StateOf(k).pending = <<>>
           /\ ~StateOf(k).open => StateOf(k).queue = <<>>
           /\ StateOf(k).events = Held(StateOf(k)) + Cardinality(InFlight(r))
           /\ StateOf(k).events <= MaxEvents(r)
<1>1. StateOf(k) \in StateRec BY StateTypes DEF CountInv
<1>2. CASE routes[k] = NoState
  <2>1. StateOf(k) = NewState /\ InFlight(r) = {}
    BY <1>2, AllocPreserves DEF StateOf
  <2>2. Cardinality({}) = 0 BY FS_EmptySet
  <2>3. NewState.events = Held(NewState) + Cardinality({})
    BY <2>2, HeldFacts DEF NewState
  <2>4. NewState.events <= MaxEvents(r) BY DataTypes DEF NewState
  <2>5. NewState.pending = <<>> /\ NewState.queue = <<>> BY DEF NewState
  <2> QED BY <1>1, <2>1, <2>3, <2>4, <2>5, Zenon
<1>3. CASE routes[k] # NoState
  <2>1. Live(r) /\ StateOf(k) = heap[r] /\ r \in States
    BY <1>3, AllocPreserves DEF States
  <2>2. /\ heap[r].open => heap[r].pending = <<>>
        /\ ~heap[r].open => heap[r].queue = <<>>
        /\ heap[r].events = Held(heap[r]) + Cardinality(InFlight(r))
        /\ heap[r].events <= MaxEvents(r)
    BY <2>1 DEF CountInv, CountRest, ShapeOK, EventsOK
  <2> QED BY <1>1, <2>1, <2>2, Zenon
<1> QED BY <1>2, <1>3

\* Steps of a call other than the receive and the release.
LEMMA MoveCount ==
    ASSUME CountInv, NEW c \in Consumers, CallsMatch',
           UNCHANGED <<failed, routes, heap, wake>>,
           pc[c] # "release", pc'[c] # "release",
           \A d \in Consumers : d # c => pc'[d] = pc[d] /\ cref'[d] = cref[d]
    PROVE  CountRest'
<1>1. \A r : InFlight(r)' = InFlight(r) /\ (Live(r)' <=> Live(r))
  BY DEF InFlight, Live
<1> QED
  BY <1>1 DEF CountInv, CountRest, RoutesDistinct, ShapeOK, EventsOK, WakeOK, Failed

LEMMA ReturnCount ==
    ASSUME CountInv, NEW c \in Consumers, pc[c] # "release", Return(c),
           UNCHANGED <<failed, routes, heap, wake>>
    PROVE  CountRest'
<1>1. /\ pc'[c] = "idle"
      /\ \A d \in Consumers : d # c => /\ pc'[d] = pc[d] /\ cref'[d] = cref[d]
                                        /\ ckey'[d] = ckey[d]
  BY DEF Return, CountInv, TypeOK
<1>2. CallsMatch' BY <1>1 DEF CallsMatch, CountInv, CountRest
<1> QED BY <1>1, <1>2, MoveCount

LEMMA GotoCount ==
    ASSUME CountInv, NEW c \in Consumers, pc[c] \notin {"idle", "release"},
           NEW label, label # "release", Goto(c, label),
           UNCHANGED <<failed, routes, heap, wake>>
    PROVE  CountRest'
<1>1. /\ pc'[c] = label /\ cref' = cref /\ ckey' = ckey
      /\ \A d \in Consumers : d # c => pc'[d] = pc[d]
  BY DEF Goto, CountInv, TypeOK
<1>2. CallsMatch' BY <1>1 DEF CallsMatch, CountInv, CountRest
<1> QED BY <1>1, <1>2, MoveCount

LEMMA NextCount == CountInv /\ [Next]_vars => CountInv'
<1> SUFFICES ASSUME CountInv, [Next]_vars PROVE CountInv'
  OBVIOUS
<1>t. TypeOK' /\ PointerOK' BY NextType DEF CountInv
<1> SUFFICES CountRest' BY <1>t DEF CountInv
<1> USE DEF consumerVars, readerVars, routerVars
<1>1. ASSUME NEW n \in Notifications, Read(n) PROVE CountRest'
  BY <1>1, QuietCount DEF Read
<1>2. ASSUME RouteAfterFailure PROVE CountRest'
  BY <1>2, QuietCount DEF RouteAfterFailure
<1>3. ASSUME RouteDismissed PROVE CountRest'
  BY <1>3, QuietCount DEF RouteDismissed
<1>4. ASSUME RouteScoped PROVE CountRest'
  <2>0. PICK k : k = Head(todo) OBVIOUS
  <2>1. k \in Keys /\ ~Failed
    BY <1>4, <2>0 DEF RouteScoped, CountInv, TypeOK
  <2>2. PICK r \in RefsOf(k) :
           /\ routes' = [routes EXCEPT ![k] = r]
           /\ Deliver(StateOf(k), r) \/ Overflow(StateOf(k), r)
    BY <1>4, <2>0 DEF RouteScoped
  <2>3. UNCHANGED <<wake, consumerVars>> BY <1>4 DEF RouteScoped
  <2>4. /\ RoutesDistinct' /\ CallsMatch' /\ r \in States
        /\ \A q \in States : q # r /\ Live(q)' => Live(q)
    BY <2>1, <2>2, <2>3, AllocPreserves DEF States
  <2>5. PICK s : s = StateOf(k) OBVIOUS
  <2>6. /\ s \in StateRec
        /\ s.open => s.pending = <<>>
        /\ ~s.open => s.queue = <<>>
        /\ s.events = Held(s) + Cardinality(InFlight(r))
        /\ s.events <= MaxEvents(r)
    BY <2>1, <2>2, <2>3, <2>5, StateOfFacts
  <2>7. Deliver(s, r) \/ Overflow(s, r) BY <2>2, <2>5
  <2> QED BY <2>1, <2>3, <2>4, <2>6, <2>7, DeliverCount
<1>5. ASSUME RouteGlobal PROVE CountRest'
  <2>1. UNCHANGED <<routes, wake, consumerVars>> /\ ~Failed
    BY <1>5 DEF RouteGlobal
  <2>2. RoutesDistinct' /\ CallsMatch' /\ \A q : Live(q)' <=> Live(q)
    BY <2>1 DEF RoutesDistinct, CallsMatch, CountInv, CountRest, Live
  <2>3. PICK s : s = heap[Global] OBVIOUS
  <2>4. Global \in States /\ Live(Global) /\ s \in StateRec
    BY <2>3 DEF States, Live, CountInv, TypeOK, StateRec
  <2>5. /\ s.open => s.pending = <<>>
        /\ ~s.open => s.queue = <<>>
        /\ s.events = Held(s) + Cardinality(InFlight(Global))
        /\ s.events <= MaxEvents(Global)
    BY <2>1, <2>3, <2>4 DEF CountInv, CountRest, ShapeOK, EventsOK
  <2>6. Deliver(s, Global) \/ Overflow(s, Global)
    BY <1>5, <2>3 DEF RouteGlobal
  <2> QED BY <2>1, <2>2, <2>4, <2>5, <2>6, DeliverCount
<1>6. ASSUME ReadLoopFails \/ TransportFails PROVE CountRest'
  <2>1. PICK cause : FailAll(cause) /\ cause # "none"
    BY <1>6 DEF ReadLoopFails, TransportFails
  <2>2. Failed' /\ UNCHANGED <<routes, heap, pc, ckey, cref>>
    BY <2>1 DEF FailAll, Failed
  <2>3. \A r : Live(r)' <=> Live(r) BY <2>2 DEF Live
  <2>4. WakeOK' BY <2>1, <2>2 DEF WakeOK, FailAll
  <2>5. EventsOK' BY <2>2 DEF EventsOK
  <2> QED BY <2>2, <2>3, <2>4, <2>5
          DEF CountInv, CountRest, RoutesDistinct, CallsMatch, ShapeOK
<1>7. ASSUME NEW r \in States, WakeOne(r) PROVE CountRest'
  <2>1. Failed /\ heap[r].open /\ heap \in [States -> StateRec]
    BY <1>7 DEF WakeOne, CountInv, CountRest, WakeOK, TypeOK, StateRec
  <2>2. UNCHANGED <<failed, routes, pc, ckey, cref>> /\ wake' \subseteq wake
    BY <1>7 DEF WakeOne
  <2>3. \A q : Live(q)' <=> Live(q) BY <2>2 DEF Live
  <2>4. \A q \in States : /\ heap'[q].open = heap[q].open
                          /\ heap'[q].pending = heap[q].pending
                          /\ q # r => heap'[q] = heap[q]
    BY <1>7, <2>1 DEF WakeOne, StateRec
  <2>5. ShapeOK' BY <2>1, <2>3, <2>4 DEF CountInv, CountRest, ShapeOK
  <2>6. WakeOK'
    <3>1. \A q \in wake' : Failed /\ heap'[q].open
      BY <2>2, <2>4 DEF CountInv, CountRest, WakeOK, TypeOK
    <3> QED BY <2>2, <3>1 DEF WakeOK, Failed
  <2>7. EventsOK' BY <2>1, <2>2 DEF EventsOK, Failed
  <2>8. RoutesDistinct' /\ CallsMatch'
    BY <2>2 DEF CountInv, CountRest, RoutesDistinct, CallsMatch
  <2> QED BY <2>5, <2>6, <2>7, <2>8 DEF CountRest
<1>8. ASSUME NEW k \in Keys, Register(k) PROVE CountRest'
  <2>1. PICK r \in RefsOf(k) :
         /\ routes' = [routes EXCEPT ![k] = r]
         /\ heap' = IF StateOf(k).open THEN heap
                    ELSE [heap EXCEPT ![r] = Registered(StateOf(k))]
    BY <1>8 DEF Register, Registered
  <2>2. UNCHANGED <<failed, wake, consumerVars>> /\ ~Failed
    BY <1>8 DEF Register
  <2>3. /\ RoutesDistinct' /\ CallsMatch' /\ r \in States
        /\ \A q \in States : q # r /\ Live(q)' => Live(q)
        /\ routes[k] # NoState => StateOf(k) = heap[r]
    BY <2>1, <2>2, AllocPreserves DEF States
  <2>4. PICK s : s = StateOf(k) OBVIOUS
  <2>5. /\ s \in StateRec
        /\ s.open => s.pending = <<>>
        /\ ~s.open => s.queue = <<>>
        /\ s.events = Held(s) + Cardinality(InFlight(r))
        /\ s.events <= MaxEvents(r)
    BY <2>1, <2>2, <2>4, StateOfFacts
  <2>6. CASE s.open
    <3>1. routes[k] # NoState BY <2>4, <2>6 DEF StateOf, NewState
    <3>2. heap \in [States -> StateRec] BY DEF CountInv, TypeOK, StateRec
    <3>3. s = heap[r] /\ heap' = heap BY <2>1, <2>3, <2>4, <2>6, <3>1
    <3>4. heap' = [heap EXCEPT ![r] = s] BY <2>3, <3>2, <3>3
    <3> QED BY <2>2, <2>3, <2>5, <3>4, StoreCount
  <2>7. CASE ~s.open
    <3>0. PICK t : t = Registered(s) OBVIOUS
    <3>1. /\ t \in StateRec /\ t.open = TRUE /\ t.pending = <<>>
          /\ t.events = s.events /\ Held(t) = Held(s)
      BY <2>5, <2>7, <3>0, RegisteredFacts
    <3>2. heap' = [heap EXCEPT ![r] = t] BY <2>1, <2>4, <2>7, <3>0
    <3>3. t.events = Held(t) + Cardinality(InFlight(r)) /\ t.events <= MaxEvents(r)
      BY <2>5, <3>1, Zenon
    <3>4. (t.open => t.pending = <<>>) /\ (~t.open => t.queue = <<>>)
      BY <3>1
    <3> QED BY <2>2, <2>3, <3>1, <3>2, <3>3, <3>4, StoreCount
  <2> QED BY <2>6, <2>7
<1>9. ASSUME NEW k \in Keys, Unregister(k) PROVE CountRest'
  <2>1. UNCHANGED <<failed, heap, wake, pc, ckey, cref>>
    BY <1>9 DEF Unregister
  <2>2. \A j \in Keys : routes'[j] = IF j = k THEN NoState ELSE routes[j]
    BY <1>9 DEF Unregister, CountInv, TypeOK
  <2>3. \A q \in States : Live(q)' => Live(q)
    BY <2>2, RefsAssumption DEF Live
  <2>4. \A q : InFlight(q)' = InFlight(q) BY <2>1 DEF InFlight
  <2>5. RoutesDistinct' BY <2>2 DEF CountInv, CountRest, RoutesDistinct
  <2>6. CallsMatch'
    BY <2>1, <2>2, RefsAssumption DEF CountInv, CountRest, CallsMatch, PointerOK
  <2>7. ShapeOK' BY <2>1, <2>3 DEF CountInv, CountRest, ShapeOK
  <2>8. EventsOK' BY <2>1, <2>3, <2>4 DEF CountInv, CountRest, EventsOK, Failed
  <2>9. WakeOK' BY <2>1 DEF CountInv, CountRest, WakeOK, Failed
  <2> QED BY <2>5, <2>6, <2>7, <2>8, <2>9 DEF CountRest
<1>10. ASSUME NEW c \in Consumers, NEW k \in Keys, NextRoute(c, k)
       PROVE CountRest'
  <2>1. /\ pc[c] = "idle" /\ pc'[c] = "try" /\ ckey'[c] = k
        /\ cref'[c] = routes[k] /\ routes[k] # NoState
        /\ \A d \in Consumers : d # c => /\ pc'[d] = pc[d] /\ cref'[d] = cref[d]
                                          /\ ckey'[d] = ckey[d]
        /\ UNCHANGED <<failed, routes, heap, wake>>
    BY <1>10 DEF NextRoute, Begin, CountInv, TypeOK
  <2>2. CallsMatch'
    BY <2>1 DEF CallsMatch, RoutesDistinct, CountInv, CountRest
  <2> QED BY <2>1, <2>2, MoveCount
<1>11. ASSUME NEW c \in Consumers, NextGlobal(c) PROVE CountRest'
  <2>1. /\ pc[c] = "idle" /\ pc'[c] = "try" /\ cref'[c] = Global
        /\ \A d \in Consumers : d # c => /\ pc'[d] = pc[d] /\ cref'[d] = cref[d]
                                          /\ ckey'[d] = ckey[d]
        /\ UNCHANGED <<failed, routes, heap, wake>>
    BY <1>11 DEF NextGlobal, Begin, CountInv, TypeOK
  <2>2. \A k \in Keys : routes[k] # Global
    BY RefsAssumption DEF CountInv, TypeOK, States
  <2>3. CallsMatch'
    BY <2>1, <2>2 DEF CallsMatch, CountInv, CountRest
  <2> QED BY <2>1, <2>3, MoveCount
<1>12. ASSUME NEW c \in Consumers, Try(c) PROVE CountRest'
  <2>1. pc[c] = "try" /\ UNCHANGED <<failed, routes, wake>>
    BY <1>12 DEF Try
  <2>2. CASE Receive(c) BY <2>1, <2>2, ReceiveCount
  <2>3. CASE Return(c) /\ UNCHANGED heap BY <2>1, <2>3, ReturnCount
  <2>4. CASE \/ Goto(c, "check") /\ UNCHANGED heap
             \/ Goto(c, "select") /\ UNCHANGED heap
    BY <2>1, <2>4, GotoCount
  <2> QED BY <1>12, <2>2, <2>3, <2>4 DEF Try
<1>13. ASSUME NEW c \in Consumers, CheckFailed(c) PROVE CountRest'
  <2>1. pc[c] = "check" /\ UNCHANGED <<failed, routes, heap, wake>>
    BY <1>13 DEF CheckFailed
  <2>2. Return(c) \/ Goto(c, "select") BY <1>13 DEF CheckFailed
  <2> QED BY <2>1, <2>2, ReturnCount, GotoCount
<1>14. ASSUME NEW c \in Consumers, Select(c) PROVE CountRest'
  BY <1>14, ReceiveCount DEF Select
<1>15. ASSUME NEW c \in Consumers, SelectDone(c) PROVE CountRest'
  BY <1>15, ReturnCount DEF SelectDone
<1>16. ASSUME NEW c \in Consumers, Release(c) PROVE CountRest'
  BY <1>16, ReleaseCount
<1>17. CASE UNCHANGED vars
  BY <1>17, QuietCount DEF vars
<1> QED
  BY <1>1, <1>2, <1>3, <1>4, <1>5, <1>6, <1>7, <1>8, <1>9, <1>10, <1>11,
     <1>12, <1>13, <1>14, <1>15, <1>16, <1>17
  DEF Next, Reader, Consumer

LEMMA InitCount == Init => CountInv
<1> SUFFICES ASSUME Init PROVE CountInv OBVIOUS
<1>1. TypeOK /\ PointerOK BY InitType DEF Init, PointerOK
<1>2. RoutesDistinct /\ CallsMatch /\ WakeOK
  BY DEF Init, RoutesDistinct, CallsMatch, WakeOK
<1>3. \A r : InFlight(r) = {} BY DEF Init, InFlight
<1>4. \A r \in States : Live(r) => r = Global
  BY RefsAssumption DEF Init, Live
<1>5. /\ heap[Global].open = TRUE /\ heap[Global].pending = <<>>
      /\ heap[Global].queue = <<>> /\ heap[Global].events = 0
  BY DEF Init, NewState, States
<1>6. ShapeOK BY <1>4, <1>5 DEF ShapeOK
<1>7. EventsOK
  <2>1. Held(heap[Global]) = 0
    <3>1. Len(<<>>) = 0 /\ 0 + 0 = 0 OBVIOUS
    <3> QED BY <1>5, <3>1, Zenon DEF Held
  <2>2. Cardinality({}) = 0 /\ 0 = 0 + 0 BY FS_EmptySet
  <2>3. 0 <= MaxEvents(Global) BY DataTypes
  <2> QED BY <1>3, <1>4, <1>5, <2>1, <2>2, <2>3, Zenon DEF EventsOK
<1> QED BY <1>1, <1>2, <1>6, <1>7 DEF CountInv, CountRest

\* The inductive invariant behind the bounded channels holds throughout.
THEOREM CountCorrect == Spec => []CountInv
BY InitCount, NextCount, PTL DEF Spec

\* No channel send made with r.mu held can block (routeScoped,
\* RouteNotification, registerRoute): the router cannot deadlock on its own
\* bounded queues, for any limits, any number of consumers of a route and
\* any unregistration in the middle of a Next*.
THEOREM SendsNeverBlock == Spec => []SendNeverBlocks
<1>1. CountInv => SendNeverBlocks
  <2> SUFFICES ASSUME CountInv, ~Failed, NEW r \in States, Live(r)
               PROVE  /\ heap[r].events < MaxEvents(r) =>
                            Len(heap[r].queue) < MaxEvents(r)
                      /\ Len(heap[r].pending) <= MaxEvents(r)
    BY DEF SendNeverBlocks
  <2>1. heap[r] \in StateRec BY DEF CountInv, TypeOK, StateRec
  <2>2. /\ heap[r].events = Held(heap[r]) + Cardinality(InFlight(r))
        /\ heap[r].events <= MaxEvents(r)
    BY DEF CountInv, CountRest, EventsOK
  <2>3. /\ Held(heap[r]) \in Nat /\ Cardinality(InFlight(r)) \in Nat
        /\ MaxEvents(r) \in Nat
        /\ Len(heap[r].queue) \in Nat /\ Len(heap[r].pending) \in Nat
        /\ Len(heap[r].queue) <= Held(heap[r])
        /\ Len(heap[r].pending) <= Held(heap[r])
    BY <2>1, HeldFacts, InFlightFinite, DataTypes DEF StateRec
  <2>4. \A l, h, n, m \in Nat :
           /\ l <= h /\ h + n < m => l < m
           /\ l <= h /\ h + n <= m => l <= m
    OBVIOUS
  <2>5. /\ Held(heap[r]) + Cardinality(InFlight(r)) < MaxEvents(r) =>
              Len(heap[r].queue) < MaxEvents(r)
        /\ Held(heap[r]) + Cardinality(InFlight(r)) <= MaxEvents(r) =>
              Len(heap[r].pending) <= MaxEvents(r)
    BY <2>3, <2>4, Zenon
  <2> QED BY <2>2, <2>5, Zenon
<1> QED BY <1>1, CountCorrect, PTL

-----------------------------------------------------------------------------
(* The failure is the last thing a route's consumer sees.                  *)

NoErr(q)  == \A i \in DOMAIN q : ~q[i].err
AllErr(q) == \A i \in DOMAIN q : q[i].err
\* No item follows an error in a queue.
ErrLast(q) == \A i, j \in DOMAIN q : i <= j /\ q[i].err => q[j].err

LEMMA NoErrFacts ==
    ASSUME NEW q \in Seq(Item), NoErr(q)
    PROVE  /\ ErrLast(q)
           /\ \A x \in Item : ~x.err => NoErr(Append(q, x))
           /\ q # <<>> => NoErr(Tail(q)) /\ ~Head(q).err
<1>1. ErrLast(q) BY DEF NoErr, ErrLast
<1>2. ASSUME NEW x \in Item, ~x.err PROVE NoErr(Append(q, x))
  BY <1>2 DEF NoErr
<1>3. ASSUME q # <<>> PROVE NoErr(Tail(q)) /\ ~Head(q).err
  BY <1>3 DEF NoErr
<1> QED BY <1>1, <1>2, <1>3

LEMMA ErrLastFacts ==
    ASSUME NEW q \in Seq(Item), ErrLast(q)
    PROVE  /\ ErrLast(Append(q, ErrItem))
           /\ q # <<>> => ErrLast(Tail(q))
           /\ q # <<>> /\ Head(q).err => AllErr(Tail(q))
<1>0. ErrItem \in Item /\ ErrItem.err = TRUE BY DataTypes DEF ErrItem
<1>1. ErrLast(Append(q, ErrItem)) BY <1>0 DEF ErrLast
<1>2. ASSUME q # <<>> PROVE ErrLast(Tail(q))
  BY <1>2 DEF ErrLast
<1>3. ASSUME q # <<>>, Head(q).err PROVE AllErr(Tail(q))
  BY <1>3 DEF ErrLast, AllErr
<1> QED BY <1>1, <1>2, <1>3

LEMMA AllErrFacts ==
    ASSUME NEW q \in Seq(Item), AllErr(q)
    PROVE  /\ AllErr(Append(q, ErrItem))
           /\ q # <<>> => AllErr(Tail(q))
<1>0. ErrItem \in Item /\ ErrItem.err = TRUE BY DataTypes DEF ErrItem
<1>1. AllErr(Append(q, ErrItem)) BY <1>0 DEF AllErr
<1>2. ASSUME q # <<>> PROVE AllErr(Tail(q))
  BY <1>2 DEF AllErr
<1> QED BY <1>1, <1>2

\* Before the failure there is no error anywhere and nobody was told of one;
\* after it errors are only appended.
EndInv ==
    /\ ritem.err = FALSE
    /\ ~Failed => /\ ended = {}
                  /\ \A c \in Consumers : ~sawFailed[c]
                  /\ \A r \in States : NoErr(heap[r].queue) /\ NoErr(heap[r].pending)
    /\ \A r \in States : ErrLast(heap[r].queue)
    /\ \A r \in ended \ {Global} : AllErr(heap[r].queue)

LEMMA StateOfNoErr ==
    ASSUME TypeOK, EndInv, ~Failed, NEW k \in Keys
    PROVE  NoErr(StateOf(k).queue) /\ NoErr(StateOf(k).pending)
<1>1. NoErr(NewState.queue) /\ NoErr(NewState.pending) BY DEF NewState, NoErr
<1> QED BY <1>1 DEF EndInv, StateOf, TypeOK, States

\* A step of the reader or of registration, which stores t at r.
LEMMA StoreEnd ==
    ASSUME TypeOK, EndInv, ~Failed, NEW r \in States, NEW t \in StateRec,
           heap' = [heap EXCEPT ![r] = t], NoErr(t.queue), NoErr(t.pending),
           ended' \subseteq ended, ritem'.err = FALSE,
           UNCHANGED <<failed, sawFailed>>
    PROVE  EndInv'
<1>1. \A q \in States : heap'[q] = IF q = r THEN t ELSE heap[q]
  BY DEF TypeOK
<1>2. \A q \in States : NoErr(heap'[q].queue) /\ NoErr(heap'[q].pending)
  BY <1>1 DEF EndInv
<1>3. \A q \in States : heap'[q] \in StateRec
  BY <1>1 DEF TypeOK, StateRec
<1>4. \A q \in States : ErrLast(heap'[q].queue)
  BY <1>2, <1>3, NoErrFacts DEF StateRec
<1>5. ended' = {} BY DEF EndInv
<1> QED BY <1>2, <1>4, <1>5 DEF EndInv, Failed

LEMMA DeliverEnd ==
    ASSUME TypeOK, EndInv, ~Failed, NEW r \in States, NEW s \in StateRec,
           Deliver(s, r) \/ Overflow(s, r), NoErr(s.queue), NoErr(s.pending),
           ended' \subseteq ended, sawFailed' = sawFailed
    PROVE  EndInv'
<1>0. NoItem.err = FALSE BY DEF NoItem
<1>1. CASE Overflow(s, r)
  BY <1>0, <1>1, StoreEnd DEF Overflow
<1>2. CASE Deliver(s, r)
  <2>0. PICK t : t = Enqueued(s) OBVIOUS
  <2>1. t \in StateRec BY <2>0, EnqueuedType
  <2>2. ritem \in Item /\ ~ritem.err /\ s.queue \in Seq(Item) /\ s.pending \in Seq(Item)
    BY DEF EndInv, TypeOK, StateRec
  <2>3. /\ t.queue = s.queue \/ t.queue = Append(s.queue, ritem)
        /\ t.pending = s.pending \/ t.pending = Append(s.pending, ritem)
    <3>1. /\ Counted(s).queue = s.queue /\ Counted(s).pending = s.pending
          /\ DOMAIN Counted(s) = {"queue", "open", "pending", "events", "bytes"}
      BY DEF Counted, StateRec
    <3> QED BY <2>0, <3>1 DEF Enqueued
  <2>4. NoErr(t.queue) /\ NoErr(t.pending)
    BY <2>2, <2>3, NoErrFacts
  <2>5. ritem'.err = FALSE /\ heap' = [heap EXCEPT ![r] = t] /\ failed' = failed
    BY <1>0, <1>2, <2>0, <2>2 DEF Deliver, Advance
  <2> QED BY <2>1, <2>4, <2>5, StoreEnd
<1> QED BY <1>1, <1>2

LEMMA ReceiveEnd ==
    ASSUME TypeOK, EndInv, NEW c \in Consumers, cref[c] \in States, Receive(c),
           UNCHANGED <<failed, ritem>>
    PROVE  EndInv'
<1>0. PICK r : r = cref[c] OBVIOUS
<1>1. r \in States /\ heap[r] \in StateRec /\ heap[r].queue # <<>>
      /\ heap[r].queue \in Seq(Item)
  BY <1>0 DEF TypeOK, StateRec, Receive
<1>2. /\ \A q \in States : q # r => heap'[q] = heap[q]
      /\ heap'[r].queue = Tail(heap[r].queue)
      /\ heap'[r].pending = heap[r].pending
  BY <1>0, <1>1 DEF Receive, TypeOK, StateRec
<1>3. ended' = IF Head(heap[r].queue).err THEN ended \cup {r} ELSE ended
  BY <1>0 DEF Receive
<1>4. ErrLast(heap'[r].queue)
  BY <1>1, <1>2, ErrLastFacts DEF EndInv
<1>5. ASSUME ~Failed
      PROVE /\ ended' = {} /\ NoErr(heap'[r].queue) /\ NoErr(heap'[r].pending)
  BY <1>1, <1>2, <1>3, <1>5, NoErrFacts DEF EndInv
<1>6. ASSUME NEW q \in ended' \ {Global} PROVE AllErr(heap'[q].queue)
  <2>1. q \in States BY <1>1, <1>3 DEF TypeOK
  <2>2. CASE q # r BY <1>2, <1>3, <2>1, <2>2 DEF EndInv
  <2>3. CASE q = r /\ q \in ended
    BY <1>1, <1>2, <2>3, AllErrFacts DEF EndInv
  <2>4. CASE q = r /\ Head(heap[r].queue).err
    BY <1>1, <1>2, <2>4, ErrLastFacts DEF EndInv
  <2> QED BY <1>3, <2>2, <2>3, <2>4
<1>7. sawFailed' = sawFailed BY DEF Receive
<1>8. \A q \in States : ErrLast(heap'[q].queue)
  BY <1>2, <1>4 DEF EndInv
<1>9. ~Failed => \A q \in States : NoErr(heap'[q].queue) /\ NoErr(heap'[q].pending)
  BY <1>2, <1>5 DEF EndInv
<1> QED BY <1>5, <1>6, <1>7, <1>8, <1>9 DEF EndInv, Failed

\* Steps that leave the queues, the flag and the history alone.
LEMMA QuietEnd ==
    ASSUME TypeOK, EndInv, UNCHANGED <<failed, ended>>, ritem'.err = FALSE,
           \A r \in States : /\ heap'[r].queue = heap[r].queue
                             /\ heap'[r].pending = heap[r].pending,
           \A c \in Consumers : sawFailed'[c] => sawFailed[c] \/ Failed
    PROVE  EndInv'
<1>1. /\ \A r \in States : ErrLast(heap'[r].queue)
      /\ ~Failed => \A r \in States : NoErr(heap'[r].queue) /\ NoErr(heap'[r].pending)
  BY DEF EndInv
<1>2. \A r \in ended' \ {Global} : AllErr(heap'[r].queue)
  BY DEF EndInv, TypeOK
<1> QED BY <1>1, <1>2 DEF EndInv, Failed

LEMMA RegisteredShape ==
    ASSUME NEW s \in StateRec
    PROVE  /\ Registered(s) \in StateRec /\ Registered(s).open = TRUE
           /\ Registered(s).queue = s.pending /\ Registered(s).pending = <<>>
<1>1. s.pending \in Seq(Item) /\ <<>> \in Seq(Item) BY DEF StateRec
<1>2. \A q, p \in Seq(Item) :
        LET t == [s EXCEPT !.open = TRUE, !.queue = q, !.pending = p]
        IN  t \in StateRec /\ t.open = TRUE /\ t.queue = q /\ t.pending = p
  BY DEF StateRec
<1> QED BY <1>1, <1>2 DEF Registered

LEMMA NextEnd == CountInv /\ EndInv /\ [Next]_vars => EndInv'
<1> SUFFICES ASSUME CountInv, EndInv, [Next]_vars PROVE EndInv'
  OBVIOUS
<1>t. TypeOK /\ PointerOK /\ heap \in [States -> StateRec]
  BY DEF CountInv, TypeOK, StateRec
<1>e. ritem.err = FALSE /\ NoItem.err = FALSE BY DEF EndInv, NoItem
<1> USE DEF consumerVars, readerVars, routerVars
<1>1. ASSUME NEW n \in Notifications, Read(n) PROVE EndInv'
  <2>1. ritem'.err = FALSE BY <1>1 DEF Read
  <2> QED BY <1>1, <1>t, <2>1, QuietEnd DEF Read
<1>2. ASSUME RouteAfterFailure PROVE EndInv'
  BY <1>2, <1>t, <1>e, QuietEnd DEF RouteAfterFailure
<1>3. ASSUME RouteDismissed PROVE EndInv'
  BY <1>3, <1>t, <1>e, QuietEnd DEF RouteDismissed, Advance
<1>4. ASSUME RouteScoped PROVE EndInv'
  <2>0. PICK k : k = Head(todo) OBVIOUS
  <2>1. k \in Keys /\ ~Failed
    BY <1>4, <1>t, <2>0 DEF RouteScoped, TypeOK
  <2>2. PICK r \in RefsOf(k) :
           /\ ended' \subseteq ended
           /\ Deliver(StateOf(k), r) \/ Overflow(StateOf(k), r)
    BY <1>4, <2>0 DEF RouteScoped
  <2>3. r \in States /\ StateOf(k) \in StateRec /\ sawFailed' = sawFailed
    BY <1>4, <1>t, <2>1, StateTypes DEF States, RouteScoped
  <2>4. NoErr(StateOf(k).queue) /\ NoErr(StateOf(k).pending)
    BY <1>t, <2>1, StateOfNoErr
  <2> QED BY <1>t, <2>1, <2>2, <2>3, <2>4, DeliverEnd
<1>5. ASSUME RouteGlobal PROVE EndInv'
  <2>1. Global \in States /\ ~Failed /\ UNCHANGED <<ended, sawFailed>>
    BY <1>5 DEF RouteGlobal, States
  <2>2. NoErr(heap[Global].queue) /\ NoErr(heap[Global].pending)
    BY <2>1 DEF EndInv
  <2>3. Deliver(heap[Global], Global) \/ Overflow(heap[Global], Global)
    BY <1>5 DEF RouteGlobal
  <2> QED BY <1>t, <2>1, <2>2, <2>3, DeliverEnd
<1>6. ASSUME ReadLoopFails \/ TransportFails PROVE EndInv'
  <2>1. PICK cause : FailAll(cause) /\ cause # "none"
    BY <1>6 DEF ReadLoopFails, TransportFails
  <2>2. Failed' /\ UNCHANGED <<heap, ritem, ended>>
    BY <2>1 DEF FailAll, Failed
  <2> QED BY <2>2 DEF EndInv
<1>7. ASSUME NEW r \in States, WakeOne(r) PROVE EndInv'
  <2>1. Failed /\ UNCHANGED <<failed, ritem, ended>>
    BY <1>7 DEF WakeOne, CountInv, CountRest, WakeOK
  <2>2. /\ \A q \in States : q # r => heap'[q] = heap[q]
        /\ \/ heap'[r].queue = heap[r].queue
           \/ heap'[r].queue = Append(heap[r].queue, ErrItem)
    BY <1>7, <1>t DEF WakeOne, StateRec
  <2>3. heap[r].queue \in Seq(Item) BY <1>t DEF StateRec
  <2>4. ErrLast(heap'[r].queue) BY <2>2, <2>3, ErrLastFacts DEF EndInv
  <2>5. r \in ended \ {Global} => AllErr(heap'[r].queue)
    BY <2>2, <2>3, AllErrFacts DEF EndInv
  <2>6. ended \subseteq States BY <1>t DEF TypeOK
  <2>7. \A q \in States : ErrLast(heap'[q].queue) BY <2>2, <2>4 DEF EndInv
  <2>8. \A q \in ended \ {Global} : AllErr(heap'[q].queue)
    BY <2>2, <2>5, <2>6 DEF EndInv
  <2> QED BY <2>1, <2>7, <2>8 DEF EndInv, Failed
<1>8. ASSUME NEW k \in Keys, Register(k) PROVE EndInv'
  <2>1. PICK r \in RefsOf(k) :
         /\ ended' \subseteq ended
         /\ heap' = IF StateOf(k).open THEN heap
                    ELSE [heap EXCEPT ![r] = Registered(StateOf(k))]
    BY <1>8 DEF Register, Registered
  <2>2. ~Failed /\ UNCHANGED <<failed, sawFailed, ritem>>
    BY <1>8 DEF Register
  <2>3. r \in States /\ StateOf(k) \in StateRec
    BY <1>t, <2>1, StateTypes DEF States
  <2>4. NoErr(StateOf(k).queue) /\ NoErr(StateOf(k).pending)
    BY <1>t, <2>2, StateOfNoErr
  <2>5. CASE StateOf(k).open
    <3>1. ended' = ended BY <2>1, <2>2 DEF EndInv
    <3> QED BY <1>e, <2>1, <2>2, <2>5, <3>1, <1>t, QuietEnd
  <2>6. CASE ~StateOf(k).open
    <3>0. PICK t : t = Registered(StateOf(k)) OBVIOUS
    <3>1. t \in StateRec /\ t.queue = StateOf(k).pending /\ t.pending = <<>>
      BY <2>3, <3>0, RegisteredShape
    <3>2. NoErr(<<>>) BY DEF NoErr
    <3>3. heap' = [heap EXCEPT ![r] = t] BY <2>1, <2>6, <3>0
    <3> QED BY <1>t, <1>e, <2>1, <2>2, <2>3, <2>4, <3>1, <3>2, <3>3, StoreEnd
  <2> QED BY <2>5, <2>6
<1>9. ASSUME NEW k \in Keys, Unregister(k) PROVE EndInv'
  BY <1>9, <1>e, <1>t, QuietEnd DEF Unregister
<1>10. ASSUME NEW c \in Consumers, NEW k, NEW r, Begin(c, k, r) PROVE EndInv'
  <2>1. \A d \in Consumers : sawFailed'[d] => sawFailed[d] \/ Failed
    BY <1>10, <1>t DEF Begin, TypeOK
  <2> QED BY <1>10, <1>e, <2>1, <1>t, QuietEnd DEF Begin
<1>11. ASSUME NEW c \in Consumers, Return(c), UNCHANGED <<failed, ended, ritem, heap>>
       PROVE EndInv'
  <2>1. \A d \in Consumers : sawFailed'[d] => sawFailed[d]
    BY <1>11, <1>t DEF Return, TypeOK
  <2> QED BY <1>11, <1>e, <2>1, <1>t, QuietEnd
<1>12. ASSUME NEW c \in Consumers, NEW label, Goto(c, label),
              UNCHANGED <<failed, ended, ritem, heap>>
       PROVE EndInv'
  BY <1>12, <1>e, <1>t, QuietEnd DEF Goto
<1>13. ASSUME NEW c \in Consumers, Try(c) PROVE EndInv'
  <2>1. cref[c] \in States /\ UNCHANGED <<failed, ritem>>
    BY <1>13, <1>t DEF Try, PointerOK
  <2>2. CASE Receive(c) BY <1>t, <2>1, <2>2, ReceiveEnd
  <2>3. CASE Return(c) /\ UNCHANGED <<heap, ended>> BY <1>11, <2>1, <2>3
  <2>4. CASE \E label : Goto(c, label) /\ UNCHANGED <<heap, ended>>
    BY <1>12, <2>1, <2>4
  <2>5. CASE /\ heap[cref[c]].queue = <<>> /\ sawFailed[c] /\ Return(c)
             /\ ended' = ended \cup {cref[c]} /\ UNCHANGED heap
    <3>1. Failed BY <2>5 DEF EndInv
    <3>2. \A q \in ended' \ {Global} : AllErr(heap[q].queue)
      BY <2>5 DEF EndInv, AllErr
    <3> QED BY <2>1, <2>5, <3>1, <3>2 DEF EndInv, Failed
  <2> QED BY <1>13, <2>2, <2>3, <2>4, <2>5 DEF Try
<1>14. ASSUME NEW c \in Consumers, CheckFailed(c) PROVE EndInv'
  BY <1>14, <1>11, <1>12 DEF CheckFailed
<1>15. ASSUME NEW c \in Consumers, Select(c) PROVE EndInv'
  BY <1>15, <1>t, ReceiveEnd DEF Select, PointerOK
<1>16. ASSUME NEW c \in Consumers, SelectDone(c) PROVE EndInv'
  BY <1>16, <1>11 DEF SelectDone
<1>17. ASSUME NEW c \in Consumers, Release(c) PROVE EndInv'
  <2>1. cref[c] \in States /\ citem[c].size \in Nat
    BY <1>17, <1>t DEF Release, PointerOK, TypeOK, Item
  <2>2. \A q \in States : /\ heap'[q].queue = heap[q].queue
                          /\ heap'[q].pending = heap[q].pending
    <3>1. \A q \in States :
            heap'[q] = heap[q] \/ heap'[q] = Released(heap[q], citem[c].size)
      BY <1>17, <1>t, <2>1 DEF Release
    <3> QED BY <1>t, <2>1, <3>1, ReleasedType
  <2>3. \A d \in Consumers : sawFailed'[d] => sawFailed[d]
    BY <1>17, <1>t DEF Release, Return, TypeOK
  <2>4. UNCHANGED <<failed, ended, ritem>> BY <1>17 DEF Release
  <2> QED BY <1>e, <2>2, <2>3, <2>4, <1>t, QuietEnd
<1>18. CASE UNCHANGED vars
  BY <1>18, <1>e, <1>t, QuietEnd DEF vars
<1> QED
  BY <1>1, <1>2, <1>3, <1>4, <1>5, <1>6, <1>7, <1>8, <1>9, <1>10,
     <1>13, <1>14, <1>15, <1>16, <1>17, <1>18
  DEF Next, Reader, Consumer, NextRoute, NextGlobal

\* The end of a route is its end: whoever is told of the failure, by the item
\* FailAll pushes or by the flag, has received every notification that was
\* accepted for the route, for every number of routes, consumers and failures.
THEOREM FailuresComeLast == Spec => []FailureComesLast
<1>1. Init => EndInv
  <2> SUFFICES ASSUME Init PROVE EndInv OBVIOUS
  <2>1. \A r \in States : heap[r].queue = <<>> /\ heap[r].pending = <<>>
    BY DEF Init, NewState
  <2>2. ritem.err = FALSE /\ ended = {} /\ \A c \in Consumers : sawFailed[c] = FALSE
    BY DEF Init, NoItem
  <2> QED BY <2>1, <2>2 DEF EndInv, NoErr, ErrLast
<1>2. EndInv => FailureComesLast
  BY DEF EndInv, FailureComesLast, AllErr
<1> QED BY <1>1, <1>2, InitCount, NextCount, NextEnd, PTL DEF Spec

-----------------------------------------------------------------------------
(* The router implements its mailboxes.                                    *)

Boxes == Keys \cup {Global}

\* The state behind a mailbox, in the route map rt.
RefIn(rt, b) == IF b = Global THEN Global ELSE rt[b]

\* What a state shows: its channel, or what waits for one.
Shown(s) == IF s.open THEN s.queue ELSE s.pending

\* A mailbox is what its state shows.
BoxesOK == \A b \in Boxes :
    /\ BoxOf(b) = IF RefIn(routes, b) = NoState THEN <<>>
                  ELSE Shown(heap[RefIn(routes, b)])
    /\ RefIn(routes, b) # NoState =>
          RefIn(routes, b) \in States /\ Live(RefIn(routes, b))
    /\ \A a \in Boxes : RefIn(routes, a) = RefIn(routes, b)
                        /\ RefIn(routes, b) # NoState => a = b

\* The reader carries a notification; New makes the global queue's channel.
MapRest == /\ todo # <<>> => ritem \in Mail
           /\ heap[Global].open

MapInv == CountInv /\ MapRest

LEMMA BoxesShown == MapInv => BoxesOK
<1> SUFFICES ASSUME MapInv, NEW b \in Boxes
             PROVE  /\ BoxOf(b) = IF RefIn(routes, b) = NoState THEN <<>>
                                  ELSE Shown(heap[RefIn(routes, b)])
                    /\ RefIn(routes, b) # NoState =>
                          RefIn(routes, b) \in States /\ Live(RefIn(routes, b))
                    /\ \A a \in Boxes : RefIn(routes, a) = RefIn(routes, b)
                                        /\ RefIn(routes, b) # NoState => a = b
  BY DEF BoxesOK
<1>t. /\ heap \in [States -> StateRec] /\ routes \in [Keys -> Refs \cup {NoState}]
      /\ CountInv /\ heap[Global].open
  BY DEF MapInv, MapRest, CountInv, TypeOK, StateRec
<1>0. PICK r : r = RefIn(routes, b) OBVIOUS
<1>1. r # NoState => r \in States /\ Live(r)
  BY <1>0, <1>t DEF RefIn, States, Live, Boxes
<1>6. \A a \in Boxes : RefIn(routes, a) = r /\ r # NoState => a = b
  BY <1>0, <1>t, RefsAssumption DEF RefIn, Boxes, CountInv, CountRest, RoutesDistinct
<1>2. ASSUME NEW s \in StateRec, s.open => s.pending = <<>>, ~s.open => s.queue = <<>>
      PROVE  s.queue \o s.pending = Shown(s)
  <2>1. s.queue \in Seq(Item) /\ s.pending \in Seq(Item) BY DEF StateRec
  <2> QED BY <1>2, <2>1, ConcatEmptySeq DEF Shown
<1>3. CASE b = Global
  <2>1. r = Global /\ Global # NoState /\ Global \in States
    BY <1>0, <1>3, RefsAssumption DEF RefIn, States
  <2> QED BY <1>0, <1>1, <1>6, <1>t, <1>3, <2>1 DEF BoxOf, Shown
<1>4. CASE b # Global /\ routes[b] = NoState
  <2>1. BoxOf(b) = NewState.queue \o NewState.pending /\ r = NoState
    BY <1>0, <1>4 DEF BoxOf, StateOf, RefIn
  <2>2. NewState.queue \o NewState.pending = <<>> BY DEF NewState
  <2> QED BY <1>0, <2>1, <2>2
<1>5. CASE b # Global /\ routes[b] # NoState
  <2>1. /\ r = routes[b] /\ r # NoState
        /\ BoxOf(b) = heap[r].queue \o heap[r].pending
    BY <1>0, <1>5 DEF BoxOf, StateOf, RefIn
  <2>2. /\ heap[r] \in StateRec
        /\ heap[r].open => heap[r].pending = <<>>
        /\ ~heap[r].open => heap[r].queue = <<>>
    BY <1>1, <1>t, <2>1 DEF CountInv, CountRest, ShapeOK
  <2> QED BY <1>0, <1>1, <1>2, <1>6, <2>1, <2>2
<1> QED BY <1>3, <1>4, <1>5

LEMMA BoxesShownNext == MapInv' => BoxesOK'
BY BoxesShown, PTL

\* Steps that leave what every state shows.
LEMMA KeepBoxes ==
    ASSUME BoxesOK, BoxesOK', routes' = routes,
           \A q \in States : Shown(heap'[q]) = Shown(heap[q])
    PROVE  \A b \in Boxes : BoxOf(b)' = BoxOf(b)
BY DEF BoxesOK

\* Steps that change one state, the one of mailbox b or none's.
LEMMA PutBox ==
    ASSUME BoxesOK, BoxesOK', NEW b \in Boxes, NEW r \in States,
           RefIn(routes', b) = r, r # NoState,
           \A x \in Boxes : x # b => RefIn(routes', x) = RefIn(routes, x),
           \A q \in States : q # r => heap'[q] = heap[q]
    PROVE  \A x \in Boxes :
             BoxOf(x)' = IF x = b THEN Shown(heap'[r]) ELSE BoxOf(x)
BY DEF BoxesOK

\* The mapped variables, written out.
LEMMA MapStutter ==
    ASSUME \A b \in Boxes : BoxOf(b)' = BoxOf(b),
           UNCHANGED <<failed, closed>>, Owed' = Owed
    PROVE  UNCHANGED M!vars
<1>1. [b \in Boxes |-> BoxOf(b)]' = [b \in Boxes |-> BoxOf(b)] OBVIOUS
<1> QED BY <1>1 DEF M!vars, Boxes, Failed

LEMMA MapAccept ==
    ASSUME NEW b \in Boxes, NEW m \in Mail, ~Failed, b \notin closed,
           Len(BoxOf(b)) < MaxEvents(b),
           \A x \in Boxes : BoxOf(x)' = IF x = b THEN Append(BoxOf(b), m) ELSE BoxOf(x),
           UNCHANGED <<failed, closed>>, Owed' = Owed
    PROVE  M!Next
<1>1. [x \in Boxes |-> BoxOf(x)]'
        = [[x \in Boxes |-> BoxOf(x)] EXCEPT ![b] = Append(@, m)]
  OBVIOUS
<1>2. M!Accept(b, m) BY <1>1 DEF M!Accept, Boxes, Failed
<1> QED BY <1>2 DEF M!Next, Boxes

LEMMA MapTake ==
    ASSUME NEW b \in Boxes, BoxOf(b) # <<>>,
           \A x \in Boxes : BoxOf(x)' = IF x = b THEN Tail(BoxOf(b)) ELSE BoxOf(x),
           UNCHANGED <<failed, closed>>, Owed' = Owed
    PROVE  M!Next
<1>1. [x \in Boxes |-> BoxOf(x)]'
        = [[x \in Boxes |-> BoxOf(x)] EXCEPT ![b] = Tail(@)]
  OBVIOUS
<1>2. M!Take(b) BY <1>1 DEF M!Take, Boxes, Failed
<1> QED BY <1>2 DEF M!Next, Boxes

LEMMA MapOpen ==
    ASSUME NEW b \in Boxes, ~Failed, \A x \in Boxes : BoxOf(x)' = BoxOf(x),
           closed' = closed \ {b}, failed' = failed, Owed' = Owed
    PROVE  M!Next
<1>1. [x \in Boxes |-> BoxOf(x)]' = [x \in Boxes |-> BoxOf(x)] OBVIOUS
<1>2. M!Open(b) BY <1>1 DEF M!Open, Boxes, Failed
<1> QED BY <1>2 DEF M!Next, Boxes

LEMMA MapClose ==
    ASSUME NEW b \in Boxes,
           \A x \in Boxes : BoxOf(x)' = IF x = b THEN <<>> ELSE BoxOf(x),
           closed' = closed \cup {b}, failed' = failed, Owed' = Owed \ {b}
    PROVE  M!Next
<1>1. [x \in Boxes |-> BoxOf(x)]' = [[x \in Boxes |-> BoxOf(x)] EXCEPT ![b] = <<>>]
  OBVIOUS
<1>2. M!Close(b) BY <1>1 DEF M!Close, Boxes, Failed
<1> QED BY <1>2 DEF M!Next, Boxes

LEMMA MapFail ==
    ASSUME ~Failed, Failed', \A x \in Boxes : BoxOf(x)' = BoxOf(x), closed' = closed
    PROVE  M!Next
<1>1. [x \in Boxes |-> BoxOf(x)]' = [x \in Boxes |-> BoxOf(x)] OBVIOUS
<1>2. Owed' \in SUBSET Boxes BY DEF Owed, Boxes
<1>3. M!Fail BY <1>1, <1>2 DEF M!Fail, Boxes, Failed
<1> QED BY <1>3 DEF M!Next

LEMMA MapNotice ==
    ASSUME NEW b \in Boxes, b \in Owed, Owed' = Owed \ {b},
           \A x \in Boxes : BoxOf(x)' =
               IF x = b /\ Len(BoxOf(b)) < MaxEvents(b) THEN Append(BoxOf(b), ErrItem)
               ELSE BoxOf(x),
           UNCHANGED <<failed, closed>>
    PROVE  M!Next
<1>1. [x \in Boxes |-> BoxOf(x)]'
        = IF Len(BoxOf(b)) < MaxEvents(b)
          THEN [[x \in Boxes |-> BoxOf(x)] EXCEPT ![b] = Append(@, ErrItem)]
          ELSE [x \in Boxes |-> BoxOf(x)]
  OBVIOUS
<1>2. M!Notice(b) BY <1>1 DEF M!Notice, Boxes, Failed
<1> QED BY <1>2 DEF M!Next, Boxes

LEMMA DeliverRest ==
    ASSUME MapInv, NEW r \in States, NEW s \in StateRec, todo # <<>>,
           Deliver(s, r) \/ Overflow(s, r), r = Global => s = heap[Global]
    PROVE  MapRest'
<1>1. Global \in States /\ heap[Global].open /\ ritem \in Mail
  BY DEF MapInv, MapRest, States
<1>2. todo' # <<>> => ritem' \in Mail
  BY <1>1 DEF Deliver, Overflow, Advance
<1>3. heap'[Global].open
  <2>1. CASE r # Global
    BY <1>1, <2>1 DEF Deliver, Overflow, MapInv, CountInv, TypeOK
  <2>2. CASE r = Global /\ Overflow(s, r)
    BY <1>1, <2>2 DEF Overflow, MapInv, CountInv, TypeOK
  <2>3. CASE r = Global /\ Deliver(s, r)
    <3>1. heap'[r] = Enqueued(s)
      BY <2>3 DEF Deliver, MapInv, CountInv, TypeOK
    <3>2. Enqueued(s).open = s.open BY EnqueuedFacts DEF MapInv, CountInv
    <3> QED BY <1>1, <2>3, <3>1, <3>2
  <2> QED BY <2>1, <2>2, <2>3
<1> QED BY <1>2, <1>3 DEF MapRest

LEMMA NextMapRest == MapInv /\ [Next]_vars => MapRest'
<1> SUFFICES ASSUME MapInv, [Next]_vars PROVE MapRest'
  OBVIOUS
<1>t. /\ TypeOK /\ PointerOK /\ CountInv /\ heap \in [States -> StateRec]
      /\ Global \in States /\ heap[Global].open
      /\ todo # <<>> => ritem \in Mail
  BY DEF MapInv, MapRest, CountInv, TypeOK, StateRec, States
<1> USE DEF consumerVars, readerVars, routerVars
<1>q. ASSUME UNCHANGED <<todo, ritem>>, heap'[Global].open PROVE MapRest'
  BY <1>q, <1>t DEF MapRest
<1>1. ASSUME NEW n \in Notifications, Read(n) PROVE MapRest'
  <2>1. ritem' \in Mail
    <3>1. nread \in Nat /\ nread < MaxRead /\ MaxRead \in Nat
      BY <1>1, <1>t, LimitsAssumption DEF Read, TypeOK
    <3>2. nread + 1 \in 1..MaxRead BY <3>1
    <3> QED BY <1>1, <3>2 DEF Read, Mail
  <2> QED BY <1>1, <1>t, <2>1 DEF Read, MapRest
<1>2. ASSUME RouteAfterFailure PROVE MapRest'
  BY <1>2, <1>t DEF RouteAfterFailure, MapRest
<1>3. ASSUME RouteDismissed PROVE MapRest'
  BY <1>3, <1>t DEF RouteDismissed, Advance, MapRest
<1>4. ASSUME RouteScoped PROVE MapRest'
  <2>0. PICK k : k = Head(todo) OBVIOUS
  <2>1. k \in Keys /\ todo # <<>>
    BY <1>4, <1>t, <2>0 DEF RouteScoped, TypeOK
  <2>2. PICK r \in RefsOf(k) : Deliver(StateOf(k), r) \/ Overflow(StateOf(k), r)
    BY <1>4, <2>0 DEF RouteScoped
  <2>3. r \in States /\ r # Global /\ StateOf(k) \in StateRec
    BY <1>t, <2>1, StateTypes, RefsAssumption DEF States
  <2> QED BY <2>1, <2>2, <2>3, DeliverRest
<1>5. ASSUME RouteGlobal PROVE MapRest'
  BY <1>5, <1>t, DeliverRest DEF RouteGlobal
<1>6. ASSUME ReadLoopFails \/ TransportFails PROVE MapRest'
  BY <1>6, <1>t, <1>q DEF ReadLoopFails, TransportFails, FailAll
<1>7. ASSUME NEW r \in States, WakeOne(r) PROVE MapRest'
  <2>1. heap'[Global].open = heap[Global].open
    BY <1>7, <1>t DEF WakeOne, StateRec
  <2> QED BY <1>7, <1>t, <1>q, <2>1 DEF WakeOne
<1>8. ASSUME NEW k \in Keys, Register(k) PROVE MapRest'
  <2>1. PICK r \in RefsOf(k) :
          heap' = heap \/ heap' = [heap EXCEPT ![r] = Registered(StateOf(k))]
    BY <1>8 DEF Register, Registered
  <2>2. r # Global BY <1>t, StateTypes, RefsAssumption
  <2>3. heap'[Global] = heap[Global] BY <1>t, <2>1, <2>2
  <2> QED BY <1>8, <1>t, <1>q, <2>3 DEF Register
<1>9. ASSUME NEW k \in Keys, Unregister(k) PROVE MapRest'
  BY <1>9, <1>t, <1>q DEF Unregister
<1>10. ASSUME NEW c \in Consumers, NEW k, NEW r, Begin(c, k, r) PROVE MapRest'
  BY <1>10, <1>t, <1>q DEF Begin
<1>11. ASSUME NEW c \in Consumers, Receive(c), UNCHANGED <<todo, ritem>>
       PROVE MapRest'
  <2>1. heap'[Global].open = heap[Global].open
    BY <1>11, <1>t DEF Receive, StateRec
  <2> QED BY <1>11, <1>t, <1>q, <2>1
<1>12. ASSUME NEW c \in Consumers, Try(c) \/ Select(c) PROVE MapRest'
  BY <1>11, <1>12, <1>t, <1>q DEF Try, Select
<1>13. ASSUME NEW c \in Consumers, CheckFailed(c) \/ SelectDone(c) PROVE MapRest'
  BY <1>13, <1>t, <1>q DEF CheckFailed, SelectDone
<1>14. ASSUME NEW c \in Consumers, Release(c) PROVE MapRest'
  <2>1. heap'[Global] = heap[Global]
        \/ heap'[Global] = Released(heap[Global], citem[c].size)
    BY <1>14, <1>t DEF Release
  <2>2. Released(heap[Global], citem[c].size).open = heap[Global].open
    BY <1>t DEF Released, StateRec
  <2> QED BY <1>14, <1>t, <1>q, <2>1, <2>2 DEF Release
<1>15. CASE UNCHANGED vars
  BY <1>15, <1>t, <1>q DEF vars
<1> QED
  BY <1>1, <1>2, <1>3, <1>4, <1>5, <1>6, <1>7, <1>8, <1>9, <1>10, <1>12, <1>13,
     <1>14, <1>15
  DEF Next, Reader, Consumer, NextRoute, NextGlobal

LEMMA EnqueuedShown ==
    ASSUME NEW s \in StateRec, ritem \in Item
    PROVE  Shown(Enqueued(s)) = Append(Shown(s), ritem)
<1>1. s.queue \in Seq(Item) /\ s.pending \in Seq(Item) /\ s.open \in BOOLEAN
  BY DEF StateRec
<1>2. /\ Counted(s).queue = s.queue /\ Counted(s).pending = s.pending
      /\ Counted(s).open = s.open
      /\ DOMAIN Counted(s) = {"queue", "open", "pending", "events", "bytes"}
  BY DEF Counted, StateRec
<1>3. /\ Enqueued(s).open = s.open
      /\ s.open => Enqueued(s).queue = Append(s.queue, ritem)
      /\ ~s.open => Enqueued(s).pending = Append(s.pending, ritem)
  BY <1>2 DEF Enqueued
<1> QED BY <1>3, Zenon DEF Shown

\* FailAll's list is empty until the failure.
LEMMA NothingOwed == CountInv /\ ~Failed => wake = {} /\ Owed = {}
BY DEF CountInv, CountRest, WakeOK, Owed

\* A delivery is an Accept; a delivery that meets a limit is none.
LEMMA DeliverMap ==
    ASSUME MapInv, BoxesOK, BoxesOK', ~Failed, wake' = wake, todo # <<>>,
           NEW b \in Boxes, b \notin closed, NEW r \in States, NEW s \in StateRec,
           RefIn(routes', b) = r, MaxEvents(r) = MaxEvents(b),
           \/ RefIn(routes, b) = r /\ s = heap[r]
           \/ RefIn(routes, b) = NoState /\ s = NewState,
           \A x \in Boxes : x # b => RefIn(routes', x) = RefIn(routes, x),
           s.events = Held(s) + Cardinality(InFlight(r)),
           Deliver(s, r) \/ Overflow(s, r)
    PROVE  M!Next \/ UNCHANGED M!vars
<1>0. /\ r # NoState /\ heap \in [States -> StateRec] /\ CountInv
      /\ ritem \in Mail /\ ritem \in Item /\ UNCHANGED <<failed, closed>>
  BY RefsAssumption DEF MapInv, MapRest, CountInv, TypeOK, StateRec, Deliver, Overflow
<1>1. BoxOf(b) = Shown(s)
  <2>1. Shown(NewState) = <<>> BY DEF Shown, NewState
  <2> QED BY <1>0, <2>1 DEF BoxesOK
<1>2. Owed' = Owed
  <2>1. wake = {} /\ Owed = {} BY <1>0, NothingOwed
  <2> QED BY <2>1 DEF Owed
<1>3. \A q \in States : q # r => heap'[q] = heap[q]
  BY <1>0 DEF Deliver, Overflow
<1>4. \A x \in Boxes : BoxOf(x)' = IF x = b THEN Shown(heap'[r]) ELSE BoxOf(x)
  BY <1>0, <1>3, PutBox
<1>5. CASE Overflow(s, r)
  <2>1. heap'[r] = s BY <1>0, <1>5 DEF Overflow
  <2>2. \A x \in Boxes : BoxOf(x)' = BoxOf(x) BY <1>1, <1>4, <2>1
  <2> QED BY <1>0, <1>2, <2>2, MapStutter
<1>6. CASE Deliver(s, r)
  <2>1. heap'[r] = Enqueued(s) BY <1>0, <1>6 DEF Deliver
  <2>2. Shown(heap'[r]) = Append(BoxOf(b), ritem)
    BY <1>0, <1>1, <2>1, EnqueuedShown
  <2>3. Len(BoxOf(b)) < MaxEvents(b)
    <3>1. /\ Held(s) \in Nat /\ Cardinality(InFlight(r)) \in Nat
          /\ MaxEvents(r) \in Nat
          /\ Len(s.queue) <= Held(s) /\ Len(s.pending) <= Held(s)
      BY HeldFacts, InFlightFinite, DataTypes
    <3>2. Len(Shown(s)) <= Held(s) /\ Len(Shown(s)) \in Nat
      BY <3>1 DEF Shown, StateRec
    <3>3. ~(s.events + 1 > MaxEvents(r)) BY <1>6 DEF Deliver, LimitHit
    <3>4. \A l, h, n, m \in Nat : l <= h /\ ~((h + n) + 1 > m) => l < m
      OBVIOUS
    <3>5. Len(Shown(s)) < MaxEvents(r) BY <3>1, <3>2, <3>3, <3>4, Zenon
    <3> QED BY <1>1, <3>5
  <2>4. \A x \in Boxes :
          BoxOf(x)' = IF x = b THEN Append(BoxOf(b), ritem) ELSE BoxOf(x)
    BY <1>4, <2>2, Zenon
  <2> QED BY <1>0, <1>2, <2>3, <2>4, MapAccept
<1> QED BY <1>5, <1>6

\* Steps that leave the routes, the queues and the failure alone.
LEMMA QuietMap ==
    ASSUME BoxesOK, BoxesOK', UNCHANGED <<routes, failed, closed, wake>>,
           \A q \in States : Shown(heap'[q]) = Shown(heap[q])
    PROVE  UNCHANGED M!vars
<1>1. \A b \in Boxes : BoxOf(b)' = BoxOf(b) BY KeepBoxes
<1>2. Owed' = Owed BY DEF Owed
<1> QED BY <1>1, <1>2, MapStutter

LEMMA WakeMap ==
    ASSUME MapInv, BoxesOK, BoxesOK', NEW r \in States, WakeOne(r)
    PROVE  M!Next \/ UNCHANGED M!vars
<1>1. /\ CountInv /\ heap \in [States -> StateRec] /\ heap[r].open /\ r # NoState
      /\ r \in wake /\ wake' = wake \ {r} /\ UNCHANGED <<failed, closed, routes>>
  BY RefsAssumption DEF MapInv, CountInv, TypeOK, StateRec, WakeOne, CountRest, WakeOK
<1>2. /\ heap'[r].open = heap[r].open
      /\ heap'[r].queue = IF Len(heap[r].queue) < MaxEvents(r)
                          THEN Append(heap[r].queue, ErrItem) ELSE heap[r].queue
      /\ \A q \in States : q # r => heap'[q] = heap[q]
  BY <1>1 DEF WakeOne, StateRec
<1>3. CASE \E b \in Boxes : RefIn(routes, b) = r
  <2>1. PICK b \in Boxes : RefIn(routes, b) = r BY <1>3
  <2>2. MaxEvents(b) = MaxEvents(r)
    BY <1>1, <2>1, RefsAssumption
       DEF RefIn, MaxEvents, Boxes, CountInv, TypeOK, States
  <2>3. BoxOf(b) = heap[r].queue
    BY <1>1, <2>1 DEF BoxesOK, Shown
  <2>4. \A x \in Boxes : BoxOf(x)' = IF x = b THEN Shown(heap'[r]) ELSE BoxOf(x)
    BY <1>1, <1>2, <2>1, PutBox
  <2>5. Shown(heap'[r]) = IF Len(BoxOf(b)) < MaxEvents(b)
                          THEN Append(BoxOf(b), ErrItem) ELSE BoxOf(b)
    BY <1>1, <1>2, <2>2, <2>3 DEF Shown
  <2>6. b \in Owed /\ Owed' = Owed \ {b}
    <3>1. Owed = {x \in Boxes : RefIn(routes, x) \in wake}
      BY DEF Owed, RefIn, Boxes
    <3>2. Owed' = {x \in Boxes : RefIn(routes', x) \in wake'}
      BY DEF Owed, RefIn, Boxes
    <3>3. \A x \in Boxes : x # b => RefIn(routes, x) # r
      BY <1>1, <2>1 DEF BoxesOK
    <3> QED BY <1>1, <2>1, <3>1, <3>2, <3>3
  <2>7. \A x \in Boxes : BoxOf(x)' =
               IF x = b /\ Len(BoxOf(b)) < MaxEvents(b) THEN Append(BoxOf(b), ErrItem)
               ELSE BoxOf(x)
    BY <2>4, <2>5, Zenon
  <2> QED BY <1>1, <2>6, <2>7, MapNotice
<1>4. CASE \A b \in Boxes : RefIn(routes, b) # r
  <2>1. \A b \in Boxes : BoxOf(b)' = BoxOf(b)
    BY <1>1, <1>2, <1>4 DEF BoxesOK
  <2>2. Owed' = Owed BY <1>1, <1>4 DEF Owed, RefIn, Boxes
  <2> QED BY <1>1, <2>1, <2>2, MapStutter
<1> QED BY <1>3, <1>4

LEMMA ReceiveMap ==
    ASSUME MapInv, BoxesOK, BoxesOK', NEW c \in Consumers, cref[c] \in States,
           Receive(c), UNCHANGED <<routes, failed, closed, wake>>
    PROVE  M!Next \/ UNCHANGED M!vars
<1>0. PICK r : r = cref[c] OBVIOUS
<1>1. /\ r \in States /\ heap \in [States -> StateRec] /\ r # NoState
      /\ heap[r].queue # <<>>
  BY <1>0, RefsAssumption DEF MapInv, CountInv, TypeOK, StateRec, Receive
<1>2. /\ heap'[r].open = heap[r].open
      /\ heap'[r].queue = Tail(heap[r].queue)
      /\ \A q \in States : q # r => heap'[q] = heap[q]
  BY <1>0, <1>1 DEF Receive, StateRec
<1>3. Owed' = Owed BY DEF Owed
<1>4. CASE \E b \in Boxes : RefIn(routes, b) = r
  <2>1. PICK b \in Boxes : RefIn(routes, b) = r BY <1>4
  <2>0. heap[r].open
    BY <1>1, <2>1 DEF BoxesOK, MapInv, CountInv, CountRest, ShapeOK
  <2>2. BoxOf(b) = heap[r].queue
    BY <1>1, <2>0, <2>1 DEF BoxesOK, Shown
  <2>3. \A x \in Boxes : BoxOf(x)' = IF x = b THEN Shown(heap'[r]) ELSE BoxOf(x)
    BY <1>1, <1>2, <2>1, PutBox
  <2>4. Shown(heap'[r]) = Tail(BoxOf(b)) BY <1>2, <2>0, <2>2 DEF Shown
  <2>5. \A x \in Boxes : BoxOf(x)' = IF x = b THEN Tail(BoxOf(b)) ELSE BoxOf(x)
    BY <2>3, <2>4, Zenon
  <2> QED BY <1>1, <1>3, <2>2, <2>5, MapTake
<1>5. CASE \A b \in Boxes : RefIn(routes, b) # r
  <2>1. \A b \in Boxes : BoxOf(b)' = BoxOf(b)
    BY <1>1, <1>2, <1>5 DEF BoxesOK
  <2> QED BY <1>3, <2>1, MapStutter
<1> QED BY <1>4, <1>5

LEMMA RegisterMap ==
    ASSUME MapInv, BoxesOK, BoxesOK', NEW k \in Keys, Register(k)
    PROVE  M!Next
<1>1. /\ CountInv /\ heap \in [States -> StateRec]
      /\ ~Failed /\ closed' = closed \ {k} /\ UNCHANGED <<failed, wake, consumerVars>>
      /\ k \in Boxes /\ k # Global
  BY RefsAssumption DEF MapInv, CountInv, TypeOK, StateRec, Register, Boxes, consumerVars
<1>2. PICK r \in RefsOf(k) :
         /\ routes' = [routes EXCEPT ![k] = r]
         /\ heap' = IF StateOf(k).open THEN heap
                    ELSE [heap EXCEPT ![r] = Registered(StateOf(k))]
  BY DEF Register, Registered
<1>3. /\ r \in States /\ r # NoState /\ r \in Refs
      /\ routes[k] # NoState => r = routes[k] /\ StateOf(k) = heap[r]
      /\ StateOf(k) \in StateRec
  BY <1>1, <1>2, StateTypes, RefsAssumption DEF States, StateOf, CountInv
<1>4. \A x \in Boxes : RefIn(routes', x) = IF x = k THEN r ELSE RefIn(routes, x)
  BY <1>1, <1>2 DEF RefIn, Boxes, CountInv, TypeOK
<1>5. \A q \in States : q # r => heap'[q] = heap[q]
  BY <1>1, <1>2
<1>6. \A x \in Boxes : BoxOf(x)' = IF x = k THEN Shown(heap'[r]) ELSE BoxOf(x)
  BY <1>1, <1>3, <1>4, <1>5, PutBox
<1>7. Shown(heap'[r]) = Shown(StateOf(k))
  <2>1. CASE StateOf(k).open
    <3>1. routes[k] # NoState BY <2>1 DEF StateOf, NewState
    <3> QED BY <1>2, <1>3, <2>1, <3>1
  <2>2. CASE ~StateOf(k).open
    <3>1. heap'[r] = Registered(StateOf(k)) BY <1>1, <1>2, <1>3, <2>2
    <3>2. heap'[r].open = TRUE /\ heap'[r].queue = StateOf(k).pending
      BY <1>3, <3>1, RegisteredShape
    <3> QED BY <2>2, <3>2, Zenon DEF Shown
  <2> QED BY <2>1, <2>2
<1>8. BoxOf(k) = Shown(StateOf(k))
  <2>1. Shown(NewState) = <<>> BY DEF Shown, NewState
  <2>2. RefIn(routes, k) = routes[k] BY <1>1 DEF RefIn
  <2> QED BY <1>1, <1>3, <2>1, <2>2 DEF BoxesOK, StateOf
<1>9. \A x \in Boxes : BoxOf(x)' = BoxOf(x) BY <1>6, <1>7, <1>8
<1>10. Owed' = Owed
  <2>1. wake = {} /\ Owed = {} BY <1>1, NothingOwed
  <2> QED BY <1>1, <2>1 DEF Owed
<1> QED BY <1>1, <1>9, <1>10, MapOpen

LEMMA UnregisterMap ==
    ASSUME MapInv, BoxesOK, BoxesOK', NEW k \in Keys, Unregister(k)
    PROVE  M!Next
<1>1. /\ closed' = closed \cup {k} /\ UNCHANGED <<failed, wake, heap>>
      /\ k \in Boxes /\ k # Global
  BY RefsAssumption DEF Unregister, Boxes
<1>2. \A x \in Boxes : RefIn(routes', x) = IF x = k THEN NoState ELSE RefIn(routes, x)
  BY <1>1 DEF RefIn, Boxes, MapInv, CountInv, TypeOK, Unregister
<1>3. \A x \in Boxes : BoxOf(x)' = IF x = k THEN <<>> ELSE BoxOf(x)
  BY <1>1, <1>2 DEF BoxesOK
<1>4. Owed' = Owed \ {k}
  <2>1. Owed = {x \in Boxes : RefIn(routes, x) \in wake}
    BY DEF Owed, RefIn, Boxes
  <2>2. Owed' = {x \in Boxes : RefIn(routes', x) \in wake'}
    BY DEF Owed, RefIn, Boxes
  <2>3. NoState \notin wake
    BY RefsAssumption DEF MapInv, CountInv, TypeOK
  <2> QED BY <1>1, <1>2, <2>1, <2>2, <2>3
<1> QED BY <1>1, <1>3, <1>4, MapClose

\* Every step of the router is a step of the mailboxes or leaves them alone.
LEMMA NextMap == MapInv /\ BoxesOK /\ BoxesOK' /\ [Next]_vars => [M!Next]_(M!vars)
<1> SUFFICES ASSUME MapInv, BoxesOK, BoxesOK', [Next]_vars
             PROVE M!Next \/ UNCHANGED M!vars
  OBVIOUS
<1>t. /\ TypeOK /\ PointerOK /\ CountInv /\ heap \in [States -> StateRec]
  BY DEF MapInv, CountInv, TypeOK, StateRec
<1>q. ASSUME UNCHANGED <<routes, failed, closed, wake, heap>>
      PROVE UNCHANGED M!vars
  BY <1>q, QuietMap
<1> USE DEF consumerVars, readerVars, routerVars
<1>1. ASSUME NEW n \in Notifications, Read(n) PROVE UNCHANGED M!vars
  BY <1>1, <1>q DEF Read
<1>2. ASSUME RouteAfterFailure PROVE UNCHANGED M!vars
  BY <1>2, <1>q DEF RouteAfterFailure
<1>3. ASSUME RouteDismissed PROVE UNCHANGED M!vars
  BY <1>3, <1>q DEF RouteDismissed
<1>4. ASSUME RouteScoped PROVE M!Next \/ UNCHANGED M!vars
  <2>0. PICK k : k = Head(todo) OBVIOUS
  <2>1. /\ k \in Keys /\ ~Failed /\ todo # <<>> /\ k \in Boxes /\ k # Global
        /\ k \notin closed
    BY <1>4, <1>t, <2>0, RefsAssumption DEF RouteScoped, TypeOK, Boxes, Dismissed
  <2>2. PICK r \in RefsOf(k) :
           /\ routes' = [routes EXCEPT ![k] = r]
           /\ Deliver(StateOf(k), r) \/ Overflow(StateOf(k), r)
    BY <1>4, <2>0 DEF RouteScoped
  <2>3. UNCHANGED <<wake, consumerVars>> BY <1>4 DEF RouteScoped
  <2>4. PICK s : s = StateOf(k) OBVIOUS
  <2>5. s \in StateRec /\ s.events = Held(s) + Cardinality(InFlight(r))
    BY <1>t, <2>1, <2>2, <2>3, <2>4, StateOfFacts
  <2>6. /\ r \in States /\ r # Global /\ r # NoState
        /\ routes[k] # NoState => r = routes[k]
    BY <1>t, <2>1, <2>2, StateTypes, RefsAssumption DEF States
  <2>7. /\ RefIn(routes', k) = r
        /\ \A x \in Boxes : x # k => RefIn(routes', x) = RefIn(routes, x)
        /\ \/ RefIn(routes, k) = r /\ s = heap[r]
           \/ RefIn(routes, k) = NoState /\ s = NewState
    BY <1>t, <2>1, <2>2, <2>4, <2>6 DEF RefIn, Boxes, TypeOK, StateOf
  <2>8. MaxEvents(r) = MaxEvents(k) BY <2>1, <2>6 DEF MaxEvents
  <2>9. Deliver(s, r) \/ Overflow(s, r) BY <2>2, <2>4
  <2> QED BY <2>1, <2>3, <2>5, <2>6, <2>7, <2>8, <2>9, DeliverMap
<1>5. ASSUME RouteGlobal PROVE M!Next \/ UNCHANGED M!vars
  <2>1. UNCHANGED <<routes, wake>> /\ ~Failed /\ todo # <<>>
    BY <1>5 DEF RouteGlobal
  <2>2. PICK s : s = heap[Global] OBVIOUS
  <2>3. /\ Global \in States /\ Live(Global) /\ s \in StateRec
        /\ Global \in Boxes /\ Global \notin closed /\ RefIn(routes, Global) = Global
    BY <1>t, <2>2, RefsAssumption DEF States, Live, Boxes, TypeOK, RefIn
  <2>4. s.events = Held(s) + Cardinality(InFlight(Global))
    BY <1>t, <2>1, <2>2, <2>3 DEF CountInv, CountRest, EventsOK
  <2>5. Deliver(s, Global) \/ Overflow(s, Global)
    BY <1>5, <2>2 DEF RouteGlobal
  <2> QED BY <2>1, <2>2, <2>3, <2>4, <2>5, DeliverMap
<1>6. ASSUME ReadLoopFails \/ TransportFails PROVE M!Next
  <2>1. PICK cause : FailAll(cause) /\ cause # "none"
    BY <1>6 DEF ReadLoopFails, TransportFails
  <2>2. ~Failed /\ Failed' /\ UNCHANGED <<routes, heap, closed>>
    BY <2>1 DEF FailAll, Failed
  <2>3. \A b \in Boxes : BoxOf(b)' = BoxOf(b) BY <2>2, KeepBoxes
  <2> QED BY <2>2, <2>3, MapFail
<1>7. ASSUME NEW r \in States, WakeOne(r) PROVE M!Next \/ UNCHANGED M!vars
  BY <1>7, WakeMap
<1>8. ASSUME NEW k \in Keys, Register(k) PROVE M!Next
  BY <1>8, RegisterMap
<1>9. ASSUME NEW k \in Keys, Unregister(k) PROVE M!Next
  BY <1>9, UnregisterMap
<1>10. ASSUME NEW c \in Consumers, NEW k, NEW r, Begin(c, k, r)
       PROVE UNCHANGED M!vars
  BY <1>10, <1>q DEF Begin
<1>11. ASSUME NEW c \in Consumers, Try(c) \/ Select(c)
       PROVE M!Next \/ UNCHANGED M!vars
  <2>1. cref[c] \in States /\ UNCHANGED <<routes, failed, closed, wake>>
    BY <1>11, <1>t DEF Try, Select, PointerOK
  <2>2. CASE Receive(c) BY <2>1, <2>2, ReceiveMap
  <2>3. CASE UNCHANGED heap BY <2>1, <2>3, <1>q
  <2> QED BY <1>11, <2>2, <2>3 DEF Try, Select
<1>12. ASSUME NEW c \in Consumers, CheckFailed(c) \/ SelectDone(c)
       PROVE UNCHANGED M!vars
  BY <1>12, <1>q DEF CheckFailed, SelectDone
<1>13. ASSUME NEW c \in Consumers, Release(c) PROVE UNCHANGED M!vars
  <2>1. cref[c] \in States /\ citem[c].size \in Nat
    BY <1>13, <1>t DEF Release, PointerOK, TypeOK, Item
  <2>2. \A q \in States :
          heap'[q] = heap[q] \/ heap'[q] = Released(heap[q], citem[c].size)
    BY <1>13, <1>t, <2>1 DEF Release
  <2>3. \A s \in StateRec : Shown(Released(s, citem[c].size)) = Shown(s)
    BY <2>1, ReleasedType DEF Shown
  <2>4. \A q \in States : Shown(heap'[q]) = Shown(heap[q])
    BY <1>t, <2>2, <2>3
  <2> QED BY <1>13, <2>4, QuietMap DEF Release
<1>14. CASE UNCHANGED vars
  BY <1>14, <1>q DEF vars
<1> QED
  BY <1>1, <1>2, <1>3, <1>4, <1>5, <1>6, <1>7, <1>8, <1>9, <1>10, <1>11, <1>12,
     <1>13, <1>14
  DEF Next, Reader, Consumer, NextRoute, NextGlobal

\* The router implements its mailboxes (Mailbox.tla): per route and in order,
\* nothing is lost, duplicated, reordered by the replay at registration or
\* accepted after the failure, and no mailbox outgrows its limit, for every set
\* of routes, notifications and consumers and for all limits.
THEOREM RouterImplementsMailbox == Spec => ImplementsMailbox
<1>1. Init => MapInv
  <2> SUFFICES ASSUME Init PROVE MapInv OBVIOUS
  <2>1. heap[Global].open /\ todo = <<>> BY DEF Init, NewState, States
  <2> QED BY <2>1, InitCount DEF MapInv, MapRest
<1>2. MapInv /\ [Next]_vars => MapInv'
  BY NextCount, NextMapRest DEF MapInv
<1>3. Init => M!Init
  <2> SUFFICES ASSUME Init PROVE M!Init OBVIOUS
  <2>1. /\ BoxesOK /\ \A k \in Keys : routes[k] = NoState
        /\ heap[Global].queue = <<>> /\ heap[Global].open
        /\ closed = {} /\ ~Failed
    BY <1>1, BoxesShown DEF Init, NewState, States, Failed
  <2>2. \A b \in Boxes : BoxOf(b) = <<>>
    BY <2>1 DEF BoxesOK, RefIn, Boxes, Shown
  <2>3. Owed = {} BY DEF Init, Owed
  <2>4. [b \in Boxes |-> BoxOf(b)] = [b \in Boxes |-> <<>>] BY <2>2
  <2> QED BY <2>1, <2>3, <2>4 DEF M!Init, Boxes
<1>4. MapInv /\ MapInv' /\ [Next]_vars => [M!Next]_(M!vars)
  BY BoxesShown, BoxesShownNext, NextMap
<1> QED BY <1>1, <1>2, <1>3, <1>4, PTL DEF Spec, ImplementsMailbox, M!Spec

-----------------------------------------------------------------------------
(* Sums over finite sets.  MapThenSumSet chooses a function that is defined *)
(* by recursion on sets: it exists, and what it computes does not depend on *)
(* the order in which the elements are taken.                               *)

LEMMA Induct ==
    ASSUME NEW S, 0 \in S, \A n \in Nat : n \in S => n + 1 \in S
    PROVE  \A n \in Nat : n \in S
<1> DEFINE T == Nat \ S
<1> SUFFICES ASSUME T # {} PROVE FALSE
  OBVIOUS
<1>1. T \subseteq Nat
  OBVIOUS
<1>2. PICK i \in T : \A k \in T : ~(<<k, i>> \in OpToRel(<, Nat))
  <2> HIDE DEF T
  <2> QED BY <1>1, NatLessThanWellFounded, WFMin, Zenon
<1>3. \A k \in T : ~(k < i)
  BY <1>2 DEF OpToRel
<1>4. i \in Nat /\ i # 0
  OBVIOUS
<1>5. i - 1 \in Nat /\ i - 1 < i /\ (i - 1) + 1 = i
  BY <1>4
<1>6. i - 1 \in S
  BY <1>3, <1>5
<1> QED BY <1>5, <1>6

\* The element the fold takes from a set, and what is left.
Pick(s) == CHOOSE x \in s : TRUE
Left(s) == s \ {Pick(s)}

\* f is the fold of w on the subsets of S with at most n elements.
FoldOf(f, w, S, n) ==
    /\ f \in [SUBSET S -> Int]
    /\ \A s \in SUBSET S : Cardinality(s) <= n =>
          f[s] = IF s = {} THEN 0 ELSE w[Pick(s)] + f[Left(s)]

LEMMA LeftIs ==
    ASSUME NEW S, IsFiniteSet(S), NEW s \in SUBSET S
    PROVE  /\ IsFiniteSet(s) /\ Cardinality(s) \in Nat /\ (Cardinality(s) = 0 <=> s = {})
           /\ s # {} => /\ Pick(s) \in s /\ Left(s) \in SUBSET S
                        /\ Cardinality(Left(s)) = Cardinality(s) - 1
           /\ \A x \in s : /\ s \ {x} \in SUBSET S
                           /\ Cardinality(s \ {x}) = Cardinality(s) - 1
<1>1. IsFiniteSet(s)
  BY FS_Subset
<1>2. Cardinality(s) \in Nat /\ (Cardinality(s) = 0 <=> s = {})
  BY <1>1, FS_CardinalityType, FS_EmptySet
<1>3. \A x \in s : s \ {x} \in SUBSET S /\ Cardinality(s \ {x}) = Cardinality(s) - 1
  BY <1>1, FS_RemoveElement
<1>4. s # {} => Pick(s) \in s
  BY DEF Pick
<1> QED BY <1>1, <1>2, <1>3, <1>4 DEF Left

LEMMA FoldExists ==
    ASSUME NEW S, IsFiniteSet(S), NEW w, \A x \in S : w[x] \in Int
    PROVE  \E f : FoldOf(f, w, S, Cardinality(S))
<1> DEFINE N == {n \in Nat : \E f : FoldOf(f, w, S, n)}
<1>1. 0 \in N
  <2> DEFINE g == [s \in SUBSET S |-> 0]
  <2>1. \A s \in SUBSET S : Cardinality(s) <= 0 => s = {}
    BY LeftIs
  <2>2. FoldOf(g, w, S, 0)
    BY <2>1 DEF FoldOf
  <2> QED BY <2>2
<1>2. ASSUME NEW n \in Nat, n \in N PROVE n + 1 \in N
  <2> PICK g : FoldOf(g, w, S, n)
    BY <1>2
  <2> DEFINE f == [s \in SUBSET S |-> IF Cardinality(s) = n + 1 THEN w[Pick(s)] + g[Left(s)]
                                      ELSE g[s]]
  <2>1. ASSUME NEW s \in SUBSET S, Cardinality(s) = n + 1
        PROVE  /\ s # {} /\ Left(s) \in SUBSET S /\ Cardinality(Left(s)) = n
               /\ w[Pick(s)] \in Int /\ g[Left(s)] \in Int
    BY <2>1, LeftIs DEF FoldOf
  <2>2. f \in [SUBSET S -> Int]
    BY <2>1 DEF FoldOf
  <2>3. ASSUME NEW s \in SUBSET S, Cardinality(s) <= n + 1
        PROVE  f[s] = IF s = {} THEN 0 ELSE w[Pick(s)] + f[Left(s)]
    <3>1. CASE Cardinality(s) = n + 1
      <4>1. f[s] = w[Pick(s)] + g[Left(s)]
        BY <3>1
      <4>2. f[Left(s)] = g[Left(s)]
        BY <2>1, <3>1
      <4> QED BY <2>1, <3>1, <4>1, <4>2
    <3>2. CASE Cardinality(s) # n + 1
      <4>0. Cardinality(s) \in Nat
        BY LeftIs
      <4>1. Cardinality(s) <= n /\ f[s] = g[s]
        BY <2>3, <3>2, <4>0
      <4>2. s # {} => f[Left(s)] = g[Left(s)]
        BY <4>1, LeftIs
      <4> QED BY <4>1, <4>2 DEF FoldOf
    <3> QED BY <3>1, <3>2
  <2> HIDE DEF f
  <2>4. FoldOf(f, w, S, n + 1)
    BY <2>2, <2>3 DEF FoldOf
  <2> QED BY <2>4
<1> HIDE DEF N
<1>3. \A n \in Nat : n \in N
  BY <1>1, <1>2, Induct
<1>4. Cardinality(S) \in Nat
  BY FS_CardinalityType
<1> QED BY <1>3, <1>4 DEF N

\* What two folds make of the same elements is the same.
Adds(f, w, S) ==
    \A s \in SUBSET S : f[s] = IF s = {} THEN 0 ELSE w[Pick(s)] + f[Left(s)]

LEMMA FoldsAgree ==
    ASSUME NEW S, IsFiniteSet(S), NEW T, NEW f, NEW g, NEW w, NEW v,
           Adds(f, w, S), Adds(g, v, T)
    PROVE  \A s \in SUBSET S : (s \subseteq T /\ \A x \in s : w[x] = v[x]) => f[s] = g[s]
<1> DEFINE Same(s) == s \subseteq T /\ \A x \in s : w[x] = v[x]
<1> DEFINE N == {n \in Nat : \A s \in SUBSET S : Cardinality(s) = n /\ Same(s) => f[s] = g[s]}
<1>1. 0 \in N
  <2> SUFFICES ASSUME NEW s \in SUBSET S, Cardinality(s) = 0, Same(s) PROVE f[s] = g[s]
    OBVIOUS
  <2>1. s = {}
    BY LeftIs
  <2> QED BY <2>1 DEF Adds
<1>2. ASSUME NEW n \in Nat, n \in N PROVE n + 1 \in N
  <2> SUFFICES ASSUME NEW s \in SUBSET S, Cardinality(s) = n + 1, Same(s) PROVE f[s] = g[s]
    OBVIOUS
  <2>1. s # {} /\ Pick(s) \in s /\ Left(s) \in SUBSET S /\ Cardinality(Left(s)) = n
    BY LeftIs
  <2>2. f[Left(s)] = g[Left(s)]
    BY <1>2, <2>1 DEF Left
  <2>3. f[s] = w[Pick(s)] + f[Left(s)]
    BY <2>1 DEF Adds
  <2>4. g[s] = v[Pick(s)] + g[Left(s)]
    BY <2>1 DEF Adds
  <2> QED BY <2>1, <2>2, <2>3, <2>4
<1> HIDE DEF N
<1>3. \A n \in Nat : n \in N
  BY <1>1, <1>2, Induct
<1>4. \A s \in SUBSET S : Cardinality(s) \in Nat
  BY LeftIs
<1> QED BY <1>3, <1>4 DEF N

\* The fold that SumOver chooses.
LEMMA SumFolds ==
    ASSUME NEW S, IsFiniteSet(S), NEW w, \A x \in S : w[x] \in Int
    PROVE  \E f \in [SUBSET S -> Int] : Adds(f, w, S) /\ SumOver(w, S) = f[S]
<1> DEFINE Is(f) == f = [s \in SUBSET S |->
                            IF s = {} THEN 0
                            ELSE w[CHOOSE x \in s : TRUE] + f[s \ {CHOOSE x \in s : TRUE}]]
<1> DEFINE g == CHOOSE f : Is(f)
<1>1. SumOver(w, S) = g[S]
  BY Zenon DEF SumOver, MapThenSumSet, MapThenFoldSet
<1>2. PICK f : FoldOf(f, w, S, Cardinality(S))
  BY FoldExists
<1>3. \A s \in SUBSET S : Cardinality(s) <= Cardinality(S)
  BY FS_Subset
<1>4. Is(f) /\ Adds(f, w, S)
  BY <1>2, <1>3 DEF FoldOf, Adds, Pick, Left
<1>5. Is(g)
  <2> HIDE DEF Is
  <2> QED BY <1>4, Zenon
<1> HIDE DEF g
<1>6. Adds(g, w, S)
  BY <1>5 DEF Adds, Pick, Left
<1>7. f[S] = g[S]
  BY <1>4, <1>6, FoldsAgree
<1> QED BY <1>1, <1>2, <1>4, <1>7 DEF FoldOf

\* Sums of integers over finite sets: what the proofs use of them.
LEMMA SumSame ==
    ASSUME NEW S, IsFiniteSet(S), NEW w, NEW v, \A x \in S : w[x] \in Int /\ v[x] = w[x]
    PROVE  SumOver(v, S) = SumOver(w, S)
<1>1. PICK f \in [SUBSET S -> Int] : Adds(f, w, S) /\ SumOver(w, S) = f[S]
  BY SumFolds
<1>2. PICK g \in [SUBSET S -> Int] : Adds(g, v, S) /\ SumOver(v, S) = g[S]
  BY SumFolds
<1> QED BY <1>1, <1>2, FoldsAgree

LEMMA SumEmpty == ASSUME NEW w PROVE SumOver(w, {}) = 0
<1>1. PICK f \in [SUBSET {} -> Int] : Adds(f, w, {}) /\ SumOver(w, {}) = f[{}]
  BY SumFolds, FS_EmptySet
<1> QED BY <1>1 DEF Adds

\* An element can be taken from a sum, whichever it is.
LEMMA SumTake ==
    ASSUME NEW S, IsFiniteSet(S), NEW w, \A x \in S : w[x] \in Int
    PROVE  /\ SumOver(w, S) \in Int
           /\ \A x \in S : SumOver(w, S) = w[x] + SumOver(w, S \ {x})
<1>1. PICK f \in [SUBSET S -> Int] : Adds(f, w, S) /\ SumOver(w, S) = f[S]
  BY SumFolds
<1> DEFINE N == {n \in Nat : \A s \in SUBSET S : Cardinality(s) = n =>
                               \A x \in s : f[s] = w[x] + f[s \ {x}]}
<1>2. 0 \in N
  BY LeftIs
<1>3. ASSUME NEW n \in Nat, n \in N PROVE n + 1 \in N
  <2> SUFFICES ASSUME NEW s \in SUBSET S, Cardinality(s) = n + 1, NEW x \in s
               PROVE  f[s] = w[x] + f[s \ {x}]
    OBVIOUS
  <2> PICK y : y = Pick(s)
    OBVIOUS
  <2>1. y \in s /\ f[s] = w[y] + f[s \ {y}]
    BY <1>1, LeftIs DEF Adds, Left
  <2>2. CASE x = y
    BY <2>1, <2>2
  <2>3. CASE x # y
    <3>1. /\ s \ {x} \in SUBSET S /\ Cardinality(s \ {x}) = n
          /\ s \ {y} \in SUBSET S /\ Cardinality(s \ {y}) = n
      <4>1. \A z \in s : s \ {z} \in SUBSET S /\ Cardinality(s \ {z}) = Cardinality(s) - 1
        BY LeftIs
      <4> QED BY <2>1, <4>1
    <3>2. PICK r \in SUBSET S : r = s \ {x, y}
      OBVIOUS
    <3>3. r = (s \ {x}) \ {y} /\ r = (s \ {y}) \ {x}
      BY <3>2
    <3>4. f[s \ {y}] = w[x] + f[r]
      BY <1>3, <2>3, <3>1, <3>3
    <3>5. f[s \ {x}] = w[y] + f[r]
      <4>1. y \in s \ {x}
        BY <2>1, <2>3
      <4>2. \A z \in s \ {x} : f[s \ {x}] = w[z] + f[(s \ {x}) \ {z}]
        BY <1>3, <3>1
      <4> QED BY <3>3, <4>1, <4>2
    <3>6. w[x] \in Int /\ w[y] \in Int /\ f[r] \in Int
      BY <2>1
    <3> QED BY <2>1, <3>4, <3>5, <3>6
  <2> QED BY <2>2, <2>3
<1> HIDE DEF N
<1>4. \A n \in Nat : n \in N
  BY <1>2, <1>3, Induct
<1>5. Cardinality(S) \in Nat
  BY FS_CardinalityType
<1>6. ASSUME NEW x \in S PROVE SumOver(w, S) = w[x] + SumOver(w, S \ {x})
  <2>1. f[S] = w[x] + f[S \ {x}]
    BY <1>4, <1>5 DEF N
  <2>2. IsFiniteSet(S \ {x})
    BY FS_RemoveElement
  <2>3. PICK g \in [SUBSET (S \ {x}) -> Int] :
            Adds(g, w, S \ {x}) /\ SumOver(w, S \ {x}) = g[S \ {x}]
    BY <2>2, SumFolds
  <2>4. g[S \ {x}] = f[S \ {x}]
    BY <1>1, <2>2, <2>3, FoldsAgree
  <2> QED BY <1>1, <2>1, <2>3, <2>4
<1> QED BY <1>1, <1>6

\* v is w with the value a at x, which is 0 if x is not summed, d more.
Raises(S, x, w, v, a, d) ==
    /\ a \in Int /\ d \in Int /\ IsFiniteSet(S)
    /\ \A y \in S : w[y] \in Int
    /\ \A y \in S : y # x => v[y] = w[y]
    /\ v[x] = a + d
    /\ x \in S => w[x] = a
    /\ x \notin S => a = 0

LEMMA SumStore ==
    ASSUME NEW S, NEW x, NEW w, NEW v, NEW a, NEW d, Raises(S, x, w, v, a, d)
    PROVE  SumOver(v, S \cup {x}) = SumOver(w, S) + d
<1> USE DEF Raises
<1> PICK T, U : T = S \cup {x} /\ U = S \ {x}
  OBVIOUS
<1>1. x \in T /\ IsFiniteSet(T) /\ IsFiniteSet(U) /\ T \ {x} = U /\ \A y \in T : v[y] \in Int
  BY FS_AddElement, FS_RemoveElement
<1>2. SumOver(v, T) = v[x] + SumOver(v, U)
  <2>1. SumOver(v, T) = v[x] + SumOver(v, T \ {x})
    BY ONLY <1>1, SumTake
  <2> QED BY <1>1, <2>1
<1>3. SumOver(v, U) = SumOver(w, U) /\ SumOver(w, U) \in Int
  <2>1. \A y \in U : w[y] \in Int
    OBVIOUS
  <2>2. \A y \in U : v[y] = w[y]
    OBVIOUS
  <2> QED BY ONLY <1>1, <2>1, <2>2, SumSame, SumTake
<1>4. SumOver(w, S) = a + SumOver(w, U)
  <2>1. CASE x \in S
    <3>1. SumOver(w, S) = w[x] + SumOver(w, S \ {x})
      BY <2>1, SumTake
    <3> QED BY <2>1, <3>1
  <2>2. CASE x \notin S
    <3>1. U = S /\ a = 0
      BY <2>2
    <3>2. \A n \in Int : n = 0 + n
      OBVIOUS
    <3> QED BY <1>3, <3>1, <3>2, Zenon
  <2> QED BY <2>1, <2>2
<1>5. \A n \in Int : (a + d) + n = (a + n) + d
  OBVIOUS
<1>6. SumOver(v, T) = (a + d) + SumOver(w, U)
  BY <1>2, <1>3, Zenon
<1>7. SumOver(v, T) = SumOver(w, S) + d
  BY <1>3, <1>4, <1>5, <1>6, Zenon
<1> QED BY <1>7, Zenon

LEMMA SumAdd ==
    ASSUME NEW S, NEW x, NEW w, NEW v, IsFiniteSet(S), x \notin S, v[x] \in Int,
           \A y \in S : w[y] \in Int, \A y \in S : v[y] = w[y]
    PROVE  SumOver(v, S \cup {x}) = SumOver(w, S) + v[x]
<1> PICK T : T = S \cup {x}
  OBVIOUS
<1>1. x \in T /\ IsFiniteSet(T) /\ T \ {x} = S /\ \A y \in T : v[y] \in Int
  BY FS_AddElement
<1>2. SumOver(v, T) = v[x] + SumOver(v, T \ {x})
  BY ONLY <1>1, SumTake
<1>3. SumOver(v, S) = SumOver(w, S) /\ SumOver(w, S) \in Int
  BY SumSame, SumTake
<1>4. \A a, b \in Int : b + a = a + b
  OBVIOUS
<1>5. SumOver(v, T \ {x}) = SumOver(w, S)
  BY <1>1, <1>3, Zenon
<1> QED BY <1>2, <1>3, <1>4, <1>5, Zenon

LEMMA SumShift ==
    ASSUME NEW n \in Nat, NEW w, NEW v, \A i \in 1 .. n : w[i + 1] \in Int /\ v[i] = w[i + 1]
    PROVE  SumOver(w, 2 .. n + 1) = SumOver(v, 1 .. n)
<1> DEFINE N == {m \in Nat : m <= n => SumOver(w, 2 .. m + 1) = SumOver(v, 1 .. m)}
<1>1. 0 \in N
  <2>1. 2 .. 0 + 1 = {} /\ 1 .. 0 = {}
    OBVIOUS
  <2> QED BY <2>1, SumEmpty
<1>2. ASSUME NEW m \in Nat, m \in N PROVE m + 1 \in N
  <2> SUFFICES ASSUME m + 1 <= n PROVE SumOver(w, 2 .. (m + 1) + 1) = SumOver(v, 1 .. m + 1)
    OBVIOUS
  <2>1. SumOver(w, 2 .. m + 1) = SumOver(v, 1 .. m)
    BY <1>2
  <2>2. IsFiniteSet(2 .. (m + 1) + 1) /\ IsFiniteSet(1 .. m + 1)
    BY FS_Interval
  <2>3. (2 .. (m + 1) + 1) \ {(m + 1) + 1} = 2 .. m + 1 /\ (1 .. m + 1) \ {m + 1} = 1 .. m
    OBVIOUS
  <2>4. /\ \A i \in 2 .. (m + 1) + 1 : w[i] \in Int
        /\ \A i \in 1 .. m + 1 : v[i] \in Int
    <3>1. ASSUME NEW i \in 2 .. (m + 1) + 1 PROVE w[i] \in Int
      <4>1. i - 1 \in 1 .. n /\ (i - 1) + 1 = i
        OBVIOUS
      <4> QED BY <4>1
    <3>2. ASSUME NEW i \in 1 .. m + 1 PROVE v[i] \in Int
      <4>1. i \in 1 .. n
        OBVIOUS
      <4> QED BY <4>1
    <3> QED BY <3>1, <3>2
  <2>5. SumOver(w, 2 .. (m + 1) + 1) = w[(m + 1) + 1] + SumOver(w, 2 .. m + 1)
    <3> PICK S, x : S = 2 .. (m + 1) + 1 /\ x = (m + 1) + 1
      OBVIOUS
    <3>1. x \in S /\ IsFiniteSet(S) /\ S \ {x} = 2 .. m + 1 /\ \A i \in S : w[i] \in Int
      BY <2>2, <2>3, <2>4
    <3>2. SumOver(w, S) = w[x] + SumOver(w, S \ {x})
      BY ONLY <3>1, SumTake
    <3> QED BY <3>1, <3>2
  <2>6. SumOver(v, 1 .. m + 1) = v[m + 1] + SumOver(v, 1 .. m)
    <3> PICK S, x : S = 1 .. m + 1 /\ x = m + 1
      OBVIOUS
    <3>1. x \in S /\ IsFiniteSet(S) /\ S \ {x} = 1 .. m /\ \A i \in S : v[i] \in Int
      BY <2>2, <2>3, <2>4
    <3>2. SumOver(v, S) = v[x] + SumOver(v, S \ {x})
      BY ONLY <3>1, SumTake
    <3> QED BY <3>1, <3>2
  <2>7. v[m + 1] = w[(m + 1) + 1]
    <3>1. m + 1 \in 1 .. n
      OBVIOUS
    <3> QED BY <3>1
  <2> QED BY <2>1, <2>5, <2>6, <2>7
<1> HIDE DEF N
<1>3. \A m \in Nat : m \in N
  BY <1>1, <1>2, Induct
<1> QED BY <1>3 DEF N

-----------------------------------------------------------------------------
(* The sizes of what a queue holds *)

Sizes(s) == [i \in DOMAIN s |-> s[i].size]

LEMMA SizesType ==
    ASSUME NEW s \in Seq(Item)
    PROVE  /\ DOMAIN s = 1 .. Len(s) /\ IsFiniteSet(DOMAIN s) /\ SumSizes(s) = SumOver(Sizes(s), DOMAIN s)
           /\ \A i \in DOMAIN s : Sizes(s)[i] = s[i].size /\ Sizes(s)[i] \in Int
           /\ SumSizes(s) \in Int
<1>1. DOMAIN s = 1 .. Len(s) /\ Len(s) \in Nat
  OBVIOUS
<1>2. IsFiniteSet(DOMAIN s)
  BY <1>1, FS_Interval
<1>3. SumSizes(s) = SumOver(Sizes(s), DOMAIN s)
  BY DEF SumSizes, Sizes
<1>4. \A i \in DOMAIN s : Sizes(s)[i] = s[i].size /\ Sizes(s)[i] \in Int
  <2>1. \A i \in DOMAIN s : s[i] \in Item
    BY <1>1
  <2>2. \A x \in Item : x.size \in Int
    BY DEF Item
  <2> QED BY <2>1, <2>2 DEF Sizes
<1>5. SumOver(Sizes(s), DOMAIN s) \in Int
  BY <1>2, <1>4, SumTake
<1> QED BY <1>1, <1>2, <1>3, <1>4, <1>5

LEMMA SizesEmpty == SumSizes(<<>>) = 0
<1>1. DOMAIN <<>> = {}
  OBVIOUS
<1>2. SumSizes(<<>>) = SumOver(Sizes(<<>>), DOMAIN <<>>)
  BY DEF SumSizes, Sizes
<1> QED BY <1>1, <1>2, SumEmpty

LEMMA SizesAppend ==
    ASSUME NEW s \in Seq(Item), NEW x \in Item
    PROVE  SumSizes(Append(s, x)) = SumSizes(s) + x.size
<1> PICK n \in Nat : n = Len(s)
  OBVIOUS
<1> PICK t : t = Append(s, x)
  OBVIOUS
<1>0. t \in Seq(Item)
  OBVIOUS
<1>1. /\ DOMAIN t = (DOMAIN s) \cup {n + 1} /\ n + 1 \notin DOMAIN s
      /\ \A i \in DOMAIN s : t[i] = s[i] /\ i # n + 1
      /\ t[n + 1] = x
  OBVIOUS
<1>2. /\ IsFiniteSet(DOMAIN s) /\ Sizes(t)[n + 1] = x.size /\ x.size \in Int
      /\ \A i \in DOMAIN s : Sizes(s)[i] \in Int /\ Sizes(t)[i] = Sizes(s)[i]
  <2>1. IsFiniteSet(DOMAIN s) /\ x.size \in Int /\ \A i \in DOMAIN s : Sizes(s)[i] \in Int
    BY SizesType DEF Item
  <2> QED BY <1>1, <2>1 DEF Sizes
<1>3. SumOver(Sizes(t), (DOMAIN s) \cup {n + 1}) = SumOver(Sizes(s), DOMAIN s) + Sizes(t)[n + 1]
  <2> PICK S, w, v, y : S = DOMAIN s /\ w = Sizes(s) /\ v = Sizes(t) /\ y = n + 1
    OBVIOUS
  <2>1. IsFiniteSet(S)
    BY <1>2
  <2>2. y \notin S
    BY <1>1
  <2>3. v[y] \in Int
    BY <1>2
  <2>4. \A i \in S : w[i] \in Int
    BY <1>2
  <2>5. \A i \in S : v[i] = w[i]
    BY <1>2
  <2>6. SumOver(v, S \cup {y}) = SumOver(w, S) + v[y]
    BY ONLY <2>1, <2>2, <2>3, <2>4, <2>5, SumAdd
  <2> QED BY <2>6
<1>4. SumSizes(t) = SumOver(Sizes(t), DOMAIN t) /\ SumSizes(s) = SumOver(Sizes(s), DOMAIN s)
  BY <1>0, SizesType
<1> QED BY <1>1, <1>2, <1>3, <1>4

LEMMA SizesTail ==
    ASSUME NEW s \in Seq(Item), s # <<>>
    PROVE  /\ SumSizes(s) = Head(s).size + SumSizes(Tail(s)) /\ Head(s) \in Item
           /\ Tail(s) \in Seq(Item)
<1> PICK t : t = Tail(s)
  OBVIOUS
<1>0. t \in Seq(Item)
  OBVIOUS
<1> PICK n \in Nat : n = Len(t)
  BY <1>0
<1>1. /\ DOMAIN s = 1 .. n + 1 /\ DOMAIN t = 1 .. n /\ Head(s) = s[1] /\ s[1] \in Item
      /\ \A i \in 1 .. n : t[i] = s[i + 1] /\ i + 1 \in 1 .. n + 1
  BY <1>0
<1>2. SumOver(Sizes(s), DOMAIN s) = Sizes(s)[1] + SumOver(Sizes(s), (DOMAIN s) \ {1})
  <2>1. 1 \in DOMAIN s
    BY <1>1
  <2> QED BY <2>1, SizesType, SumTake
<1>3. (DOMAIN s) \ {1} = 2 .. n + 1
  BY <1>1
<1>4. \A i \in 1 .. n : Sizes(s)[i + 1] \in Int /\ Sizes(t)[i] = Sizes(s)[i + 1]
  <2>1. \A i \in DOMAIN s : Sizes(s)[i] \in Int
    BY SizesType
  <2> QED BY <1>1, <2>1 DEF Sizes
<1>5. SumOver(Sizes(s), 2 .. n + 1) = SumOver(Sizes(t), 1 .. n)
  BY <1>4, SumShift
<1>6. Sizes(s)[1] = s[1].size
  BY <1>1, SizesType
<1>7. SumSizes(s) = s[1].size + SumSizes(t)
  <2>1. SumSizes(t) = SumOver(Sizes(t), DOMAIN t) /\ SumSizes(s) = SumOver(Sizes(s), DOMAIN s)
    BY <1>0, SizesType
  <2> QED BY <1>1, <1>2, <1>3, <1>5, <1>6, <2>1
<1> QED BY <1>0, <1>1, <1>7
-----------------------------------------------------------------------------
(* The counters are exact *)

HeldBytes(s) == SumSizes(s.queue) + SumSizes(s.pending)
Weights      == [c \in Consumers |-> citem[c].size]
Flying(r)    == SumOver(Weights, InFlight(r))
LiveSet      == {r \in States : Live(r)}
EventsOf     == [r \in States |-> heap[r].events]
BytesOf      == [r \in States |-> heap[r].bytes]

\* Until the failure the byte counters are exact.
BytesOK ==
    ~Failed => \A r \in States : Live(r) =>
        heap[r].bytes = HeldBytes(heap[r]) + Flying(r)

\* Until the failure the totals are the sums of the counters.
TotalsOK ==
    ~Failed => /\ IsFiniteSet(LiveSet)
               /\ totalEvents = SumOver(EventsOf, LiveSet)
               /\ totalBytes = SumOver(BytesOf, LiveSet)

AccRest == BytesOK /\ TotalsOK

LEMMA WeightsType ==
    ASSUME TypeOK
    PROVE  /\ \A c \in Consumers : Weights[c] = citem[c].size /\ Weights[c] \in Int
           /\ \A r : Flying(r) \in Int
<1>1. \A x \in Item : x.size \in Int
  BY DEF Item
<1>2. \A c \in Consumers : citem[c] \in Item
  BY DEF TypeOK
<1>3. \A c \in Consumers : Weights[c] = citem[c].size /\ Weights[c] \in Int
  BY <1>1, <1>2 DEF Weights
<1>4. ASSUME NEW r PROVE Flying(r) \in Int
  <2>1. IsFiniteSet(InFlight(r))
    BY InFlightFinite
  <2>2. \A c \in InFlight(r) : Weights[c] \in Int
    BY <1>3 DEF InFlight
  <2> QED BY ONLY <2>1, <2>2, SumTake DEF Flying
<1> QED BY <1>3, <1>4

\* What is in flight weighs the same when the same consumers hold the same.
LEMMA FlyingSame ==
    ASSUME TypeOK, NEW r, InFlight(r)' = InFlight(r),
           \A c \in InFlight(r) : citem'[c] = citem[c]
    PROVE  Flying(r)' = Flying(r)
<1> PICK S, w, v : S = InFlight(r) /\ w = Weights /\ v = Weights'
  OBVIOUS
<1>1. IsFiniteSet(S)
  BY InFlightFinite
<1>2. \A c \in S : w[c] \in Int
  BY WeightsType DEF InFlight
<1>3. \A c \in S : v[c] = w[c]
  BY DEF InFlight, Weights
<1>4. SumOver(v, S) = SumOver(w, S)
  BY ONLY <1>1, <1>2, <1>3, SumSame
<1> QED BY <1>4 DEF Flying

LEMMA CountersType ==
    ASSUME TypeOK
    PROVE  /\ heap \in [States -> StateRec]
           /\ \A r \in States : /\ EventsOf[r] = heap[r].events /\ EventsOf[r] \in Int
                                /\ BytesOf[r] = heap[r].bytes /\ BytesOf[r] \in Int
           /\ totalEvents \in Int /\ totalBytes \in Int
<1>1. heap \in [States -> StateRec] /\ totalEvents \in Int /\ totalBytes \in Int
  BY DEF TypeOK, StateRec
<1>2. \A s \in StateRec : s.events \in Int /\ s.bytes \in Int
  BY DEF StateRec
<1> QED BY <1>1, <1>2 DEF EventsOf, BytesOf

\* Steps that leave the counters and the items in flight alone.
LEMMA QuietAcc ==
    ASSUME CountInv, AccRest, UNCHANGED <<failed, routes, heap, totalEvents, totalBytes>>,
           \A r : InFlight(r)' = InFlight(r),
           \A r : \A c \in InFlight(r) : citem'[c] = citem[c]
    PROVE  AccRest'
<1>1. \A r : Flying(r)' = Flying(r)
  BY FlyingSame DEF CountInv
<1>2. \A r : Live(r)' <=> Live(r)
  BY DEF Live
<1>3. BytesOK'
  BY <1>1, <1>2 DEF AccRest, BytesOK, Failed, HeldBytes
<1>4. LiveSet' = LiveSet /\ EventsOf' = EventsOf /\ BytesOf' = BytesOf
  BY <1>2 DEF LiveSet, EventsOf, BytesOf
<1>5. TotalsOK'
  BY <1>4 DEF AccRest, TotalsOK, Failed
<1> QED BY <1>3, <1>5 DEF AccRest

\* State t, with e events and b bytes more than s, is stored at r, where s was
\* or nothing was.
Stores(r, s, t, e, b) ==
    /\ r \in States /\ s \in StateRec /\ t \in StateRec /\ e \in Int /\ b \in Int
    /\ Live(r) => s = heap[r]
    /\ ~Live(r) => s.events = 0 /\ s.bytes = 0
    /\ t.events = s.events + e /\ t.bytes = s.bytes + b
    /\ t.bytes = HeldBytes(t) + Flying(r)
    /\ heap' = [heap EXCEPT ![r] = t] /\ LiveSet' = LiveSet \cup {r}
    /\ totalEvents' = totalEvents + e /\ totalBytes' = totalBytes + b
    /\ UNCHANGED <<failed, pc, cref, citem>>

LEMMA StoreAcc ==
    ASSUME CountInv, AccRest, ~Failed, NEW r, NEW s, NEW t, NEW e, NEW b,
           Stores(r, s, t, e, b)
    PROVE  AccRest'
<1> USE DEF Stores
<1>t. TypeOK
  BY DEF CountInv
<1>1. \A q : Flying(q)' = Flying(q)
  BY <1>t, FlyingSame DEF InFlight
<1>2. \A q \in States : heap'[q] = IF q = r THEN t ELSE heap[q]
  BY <1>t, CountersType
<1>3. BytesOK'
  <2> SUFFICES ASSUME NEW q \in States, Live(q)'
               PROVE  heap'[q].bytes = HeldBytes(heap'[q]) + Flying(q)
    BY <1>1 DEF BytesOK, HeldBytes
  <2>1. CASE q = r
    BY <1>2, <2>1
  <2>2. CASE q # r
    <3>1. Live(q)
      BY <2>2 DEF LiveSet
    <3> QED BY <1>2, <2>2, <3>1 DEF AccRest, BytesOK
  <2> QED BY <2>1, <2>2
<1>4. /\ IsFiniteSet(LiveSet) /\ totalEvents = SumOver(EventsOf, LiveSet)
      /\ totalBytes = SumOver(BytesOf, LiveSet)
  BY DEF AccRest, TotalsOK
<1>5. /\ s.events \in Int /\ s.bytes \in Int /\ t.events \in Int /\ t.bytes \in Int
      /\ totalEvents \in Int /\ totalBytes \in Int
  BY <1>t, CountersType DEF StateRec
<1>6. /\ EventsOf'[r] = t.events /\ BytesOf'[r] = t.bytes
      /\ \A q \in LiveSet : /\ EventsOf[q] \in Int /\ BytesOf[q] \in Int
                            /\ q # r => EventsOf'[q] = EventsOf[q] /\ BytesOf'[q] = BytesOf[q]
  BY <1>2, <1>t, CountersType DEF EventsOf, BytesOf, LiveSet
<1>7. r \in LiveSet => EventsOf[r] = s.events /\ BytesOf[r] = s.bytes
  BY DEF LiveSet, EventsOf, BytesOf
<1>8. r \notin LiveSet => s.events = 0 /\ s.bytes = 0
  BY DEF LiveSet
<1>9. totalEvents' = SumOver(EventsOf', LiveSet')
  <2> PICK S, w, v, a : S = LiveSet /\ w = EventsOf /\ v = EventsOf' /\ a = s.events
    OBVIOUS
  <2>1. Raises(S, r, w, v, a, e)
    BY <1>4, <1>5, <1>6, <1>7, <1>8 DEF Raises
  <2>2. SumOver(v, S \cup {r}) = SumOver(w, S) + e
    BY ONLY <2>1, SumStore
  <2> QED BY <1>4, <2>2
<1>10. totalBytes' = SumOver(BytesOf', LiveSet')
  <2> PICK S, w, v, a : S = LiveSet /\ w = BytesOf /\ v = BytesOf' /\ a = s.bytes
    OBVIOUS
  <2>1. Raises(S, r, w, v, a, b)
    BY <1>4, <1>5, <1>6, <1>7, <1>8 DEF Raises
  <2>2. SumOver(v, S \cup {r}) = SumOver(w, S) + b
    BY ONLY <2>1, SumStore
  <2> QED BY <1>4, <2>2
<1>11. TotalsOK'
  <2>1. IsFiniteSet(LiveSet')
    BY <1>4, FS_AddElement
  <2> QED BY <1>9, <1>10, <2>1 DEF TotalsOK
<1> QED BY <1>3, <1>11 DEF AccRest
LEMMA HeldBytesType ==
    ASSUME NEW s \in StateRec
    PROVE  /\ s.queue \in Seq(Item) /\ s.pending \in Seq(Item)
           /\ SumSizes(s.queue) \in Int /\ SumSizes(s.pending) \in Int /\ HeldBytes(s) \in Int
<1>1. s.queue \in Seq(Item) /\ s.pending \in Seq(Item)
  BY DEF StateRec
<1>2. SumSizes(s.queue) \in Int /\ SumSizes(s.pending) \in Int
  BY <1>1, SizesType
<1> QED BY <1>1, <1>2 DEF HeldBytes

LEMMA EnqueuedBytes ==
    ASSUME TypeOK, NEW s \in StateRec
    PROVE  /\ ritem.size \in Int
           /\ Enqueued(s).bytes = s.bytes + ritem.size
           /\ HeldBytes(Enqueued(s)) = HeldBytes(s) + ritem.size
<1>0. ritem \in Item /\ ritem.size \in Int
  BY DEF TypeOK, Item
<1>1. s.events + 1 \in Int /\ s.bytes + ritem.size \in Int
  BY <1>0 DEF StateRec
<1>2. PICK q, p, n : q = SumSizes(s.queue) /\ p = SumSizes(s.pending) /\ n = ritem.size
  OBVIOUS
<1>3. q \in Int /\ p \in Int /\ n \in Int /\ HeldBytes(s) = q + p
  BY <1>0, <1>2, HeldBytesType DEF HeldBytes
<1>4. \A e, b \in Int : LET t == [s EXCEPT !.events = e, !.bytes = b]
                        IN  /\ t \in StateRec /\ t.queue = s.queue
                            /\ t.pending = s.pending /\ t.bytes = b
  BY DEF StateRec
<1>5. /\ Counted(s) \in StateRec /\ Counted(s).queue = s.queue
      /\ Counted(s).pending = s.pending /\ Counted(s).bytes = s.bytes + ritem.size
  BY <1>1, <1>4 DEF Counted
<1>6. CASE s.open
  <2>1. Enqueued(s) = [Counted(s) EXCEPT !.queue = Append(s.queue, ritem)]
    BY <1>5, <1>6 DEF Enqueued
  <2>2. /\ Enqueued(s).queue = Append(s.queue, ritem) /\ Enqueued(s).pending = s.pending
        /\ Enqueued(s).bytes = s.bytes + ritem.size
    BY <1>5, <2>1 DEF StateRec
  <2>3. SumSizes(Append(s.queue, ritem)) = q + n
    BY <1>0, <1>2, HeldBytesType, SizesAppend
  <2>4. HeldBytes(Enqueued(s)) = (q + n) + p
    BY <1>2, <2>2, <2>3, Zenon DEF HeldBytes
  <2>5. (q + n) + p = (q + p) + n
    BY <1>3
  <2> QED BY <1>0, <1>2, <1>3, <2>2, <2>4, <2>5, Zenon
<1>7. CASE ~s.open
  <2>1. Enqueued(s) = [Counted(s) EXCEPT !.pending = Append(s.pending, ritem)]
    BY <1>5, <1>7 DEF Enqueued
  <2>2. /\ Enqueued(s).pending = Append(s.pending, ritem) /\ Enqueued(s).queue = s.queue
        /\ Enqueued(s).bytes = s.bytes + ritem.size
    BY <1>5, <2>1 DEF StateRec
  <2>3. SumSizes(Append(s.pending, ritem)) = p + n
    BY <1>0, <1>2, HeldBytesType, SizesAppend
  <2>4. HeldBytes(Enqueued(s)) = q + (p + n)
    BY <1>2, <2>2, <2>3, Zenon DEF HeldBytes
  <2>5. q + (p + n) = (q + p) + n
    BY <1>3
  <2> QED BY <1>0, <1>2, <1>3, <2>2, <2>4, <2>5, Zenon
<1> QED BY <1>6, <1>7

LEMMA RegisteredBytes ==
    ASSUME NEW s \in StateRec, s.queue = <<>>
    PROVE  Registered(s).bytes = s.bytes /\ HeldBytes(Registered(s)) = HeldBytes(s)
<1>1. s.pending \in Seq(Item) /\ <<>> \in Seq(Item)
  BY DEF StateRec
<1>2. \A q, p \in Seq(Item) :
        LET t == [s EXCEPT !.open = TRUE, !.queue = q, !.pending = p]
        IN  t.queue = q /\ t.pending = p /\ t.bytes = s.bytes
  BY DEF StateRec
<1>3. /\ Registered(s).queue = s.pending /\ Registered(s).pending = <<>>
      /\ Registered(s).bytes = s.bytes
  BY <1>1, <1>2 DEF Registered
<1>4. \A n \in Int : n + 0 = 0 + n
  OBVIOUS
<1>5. SumSizes(s.pending) + SumSizes(<<>>) = SumSizes(<<>>) + SumSizes(s.pending)
  BY <1>4, SizesEmpty, HeldBytesType, Zenon
<1> QED BY <1>3, <1>5, Zenon DEF HeldBytes

LEMMA PoppedBytes ==
    ASSUME NEW s \in StateRec, s.queue # <<>>
    PROVE  /\ Popped(s).bytes = s.bytes /\ Head(s.queue).size \in Int /\ HeldBytes(Popped(s)) \in Int
           /\ HeldBytes(s) = HeldBytes(Popped(s)) + Head(s.queue).size
<1>1. s.queue \in Seq(Item) /\ s.pending \in Seq(Item)
  BY HeldBytesType
<1>2. /\ Popped(s).pending = s.pending /\ Popped(s).queue = Tail(s.queue)
      /\ Popped(s).bytes = s.bytes /\ Popped(s) \in StateRec
  BY <1>1, PoppedFacts DEF Popped, StateRec
<1>3. SumSizes(s.queue) = Head(s.queue).size + SumSizes(Tail(s.queue)) /\ Head(s.queue) \in Item
  BY <1>1, SizesTail
<1>4. Head(s.queue).size \in Int
  BY <1>3 DEF Item
<1>5. SumSizes(Tail(s.queue)) \in Int /\ SumSizes(s.pending) \in Int /\ HeldBytes(Popped(s)) \in Int
  BY <1>2, HeldBytesType
<1>6. PICK a, b, n \in Int : a = SumSizes(Tail(s.queue)) /\ b = SumSizes(s.pending) /\ n = Head(s.queue).size
  BY <1>4, <1>5
<1>7. HeldBytes(s) = HeldBytes(Popped(s)) + Head(s.queue).size
  <2>1. HeldBytes(s) = (n + a) + b
    BY <1>3, <1>6, Zenon DEF HeldBytes
  <2>2. HeldBytes(Popped(s)) = a + b
    BY <1>2, <1>6, Zenon DEF HeldBytes
  <2>3. (n + a) + b = (a + b) + n
    OBVIOUS
  <2> QED BY <1>6, <2>1, <2>2, <2>3, Zenon
<1> QED BY <1>2, <1>4, <1>5, <1>7

\* What an allocated or looked-up state holds, whichever it is.
LEMMA StateOfBytes ==
    ASSUME CountInv, AccRest, ~Failed, NEW k \in Keys, NEW r \in RefsOf(k),
           routes' = [routes EXCEPT ![k] = r], UNCHANGED consumerVars
    PROVE  /\ r \in States /\ LiveSet' = LiveSet \cup {r}
           /\ Live(r) => StateOf(k) = heap[r]
           /\ ~Live(r) => StateOf(k).events = 0 /\ StateOf(k).bytes = 0
           /\ StateOf(k).bytes = HeldBytes(StateOf(k)) + Flying(r)
<1>t. TypeOK
  BY DEF CountInv
<1>1. r \in Refs /\ r \in States /\ r # Global
  BY AllocPreserves DEF States
<1>2. \A j \in Keys : routes'[j] = IF j = k THEN r ELSE routes[j]
  BY <1>t DEF TypeOK
<1>3. /\ routes[k] # NoState => r = routes[k]
      /\ routes[k] = NoState => r \in Unreachable
  BY <1>t, StateTypes
<1>4. LiveSet' = LiveSet \cup {r}
  <2>1. ASSUME NEW q \in States PROVE Live(q)' <=> (Live(q) \/ q = r)
    <3>1. NoState \notin States
      BY RefsAssumption
    <3> QED BY <1>2, <1>3, <3>1 DEF Live
  <2> QED BY <1>1, <2>1 DEF LiveSet
<1>5. CASE routes[k] = NoState
  <2>1. ~Live(r) /\ StateOf(k) = NewState /\ InFlight(r) = {}
    BY <1>3, <1>5, AllocPreserves DEF StateOf, Unreachable
  <2>2. /\ NewState.queue = <<>> /\ NewState.pending = <<>>
        /\ NewState.events = 0 /\ NewState.bytes = 0
    BY DEF NewState
  <2>3. Flying(r) = 0
    BY <2>1, SumEmpty DEF Flying
  <2>4. 0 = (0 + 0) + 0
    OBVIOUS
  <2>5. HeldBytes(NewState) = 0 + 0
    BY <2>2, SizesEmpty, Zenon DEF HeldBytes
  <2> QED BY <1>1, <1>4, <2>1, <2>2, <2>3, <2>4, <2>5, Zenon
<1>6. CASE routes[k] # NoState
  <2>1. Live(r) /\ StateOf(k) = heap[r]
    BY <1>6, AllocPreserves
  <2>2. heap[r].bytes = HeldBytes(heap[r]) + Flying(r)
    BY <1>1, <2>1 DEF AccRest, BytesOK
  <2> QED BY <1>1, <1>4, <2>1, <2>2, Zenon
<1> QED BY <1>5, <1>6

LEMMA DeliverAcc ==
    ASSUME CountInv, AccRest, ~Failed, NEW r \in States, NEW s \in StateRec,
           Deliver(s, r) \/ Overflow(s, r),
           Live(r) => s = heap[r],
           ~Live(r) => s.events = 0 /\ s.bytes = 0,
           s.bytes = HeldBytes(s) + Flying(r), LiveSet' = LiveSet \cup {r},
           UNCHANGED <<pc, cref, citem>>
    PROVE  AccRest'
<1>t. TypeOK
  BY DEF CountInv
<1>0. s.events \in Int /\ s.bytes \in Int /\ totalEvents \in Int /\ totalBytes \in Int
  BY <1>t, CountersType DEF StateRec
<1>1. CASE Overflow(s, r)
  <2>1. /\ s.events = s.events + 0 /\ s.bytes = s.bytes + 0
        /\ totalEvents' = totalEvents + 0 /\ totalBytes' = totalBytes + 0
    BY <1>0, <1>1 DEF Overflow
  <2>2. heap' = [heap EXCEPT ![r] = s] /\ failed' = failed
    BY <1>1 DEF Overflow
  <2>3. Stores(r, s, s, 0, 0)
    BY <2>1, <2>2 DEF Stores
  <2> QED BY <2>3, StoreAcc
<1>2. CASE Deliver(s, r)
  <2>0. PICK t, n : t = Enqueued(s) /\ n = ritem.size
    OBVIOUS
  <2>1. t \in StateRec /\ t.events = s.events + 1
    BY <1>t, <2>0, EnqueuedType, EnqueuedFacts
  <2>2. n \in Int /\ t.bytes = s.bytes + n /\ HeldBytes(t) = HeldBytes(s) + n
    BY <1>t, <2>0, EnqueuedBytes
  <2>3. t.bytes = HeldBytes(t) + Flying(r)
    <3>1. \A a, b \in Int : (a + b) + n = (a + n) + b
      BY <2>2
    <3>2. HeldBytes(s) \in Int /\ Flying(r) \in Int
      BY <1>t, HeldBytesType, WeightsType
    <3> QED BY <2>2, <3>1, <3>2, Zenon
  <2>4. /\ heap' = [heap EXCEPT ![r] = t] /\ failed' = failed
        /\ totalEvents' = totalEvents + 1 /\ totalBytes' = totalBytes + n
    BY <1>2, <2>0 DEF Deliver
  <2>5. Stores(r, s, t, 1, n)
    BY <2>1, <2>2, <2>3, <2>4 DEF Stores
  <2> QED BY <2>5, StoreAcc
<1> QED BY <1>1, <1>2

\* A received item leaves the queue and is in flight: the counters keep it.
LEMMA ReceiveAcc ==
    ASSUME CountInv, AccRest, NEW c \in Consumers, Receive(c), pc[c] \in {"try", "select"},
           UNCHANGED <<failed, routes, totalEvents, totalBytes>>
    PROVE  AccRest'
<1>t. TypeOK
  BY DEF CountInv
<1>0. PICK r, n : r = cref[c] /\ n = Head(heap[cref[c]].queue).size
  OBVIOUS
<1>1. r \in States /\ heap[r] \in StateRec /\ heap[r].queue # <<>>
  BY <1>0 DEF CountInv, PointerOK, TypeOK, Receive, StateRec
<1>2. \A q \in States : heap'[q] = IF q = r THEN Popped(heap[r]) ELSE heap[q]
  BY <1>0, <1>1, <1>t DEF Receive, Popped, TypeOK
<1>3. /\ \A d \in Consumers : pc'[d] = IF d = c THEN "release" ELSE pc[d]
      /\ \A d \in Consumers : d # c => citem'[d] = citem[d]
      /\ citem'[c].size = n /\ cref' = cref
  BY <1>0, <1>t DEF Receive, TypeOK
<1>4. \A q : Live(q)' <=> Live(q)
  BY DEF Live
<1>5. InFlight(r)' = InFlight(r) \cup {c} /\ c \notin InFlight(r)
  BY <1>0, <1>3 DEF InFlight
<1>6. \A q : q # r => InFlight(q)' = InFlight(q) /\ \A d \in InFlight(q) : citem'[d] = citem[d]
  BY <1>0, <1>3 DEF InFlight
<1>7. \A q : q # r => Flying(q)' = Flying(q)
  BY <1>6, <1>t, FlyingSame
<1>8. /\ Popped(heap[r]).bytes = heap[r].bytes /\ n \in Int /\ HeldBytes(Popped(heap[r])) \in Int
      /\ HeldBytes(heap[r]) = HeldBytes(Popped(heap[r])) + n
  BY <1>0, <1>1, PoppedBytes
<1>9. Flying(r)' = Flying(r) + n
  <2> PICK S, w, v : S = InFlight(r) /\ w = Weights /\ v = Weights'
    OBVIOUS
  <2>1. IsFiniteSet(S)
    BY InFlightFinite
  <2>2. c \notin S
    BY <1>5
  <2>3. v[c] \in Int /\ v[c] = n
    BY <1>3, <1>8 DEF Weights
  <2>4. \A d \in S : w[d] \in Int
    BY <1>t, WeightsType DEF InFlight
  <2>5. \A d \in S : v[d] = w[d]
    BY <1>3, <1>5 DEF InFlight, Weights
  <2>6. SumOver(v, S \cup {c}) = SumOver(w, S) + v[c]
    BY ONLY <2>1, <2>2, <2>3, <2>4, <2>5, SumAdd
  <2> QED BY <1>5, <2>3, <2>6 DEF Flying
<1>10. BytesOK'
  <2> SUFFICES ASSUME ~Failed, NEW q \in States, Live(q)
               PROVE  heap'[q].bytes = HeldBytes(heap'[q]) + Flying(q)'
    BY <1>4 DEF BytesOK, Failed, HeldBytes
  <2>0. heap[q].bytes = HeldBytes(heap[q]) + Flying(q)
    BY DEF AccRest, BytesOK
  <2>1. CASE q # r
    BY <1>2, <1>7, <2>0, <2>1
  <2>2. CASE q = r
    <3> PICK h, f : h = HeldBytes(Popped(heap[r])) /\ f = Flying(r)
      OBVIOUS
    <3>1. h \in Int /\ f \in Int /\ n \in Int
      BY <1>8, <1>t, WeightsType
    <3>2. heap[q].bytes = (h + n) + f
      BY <1>8, <2>0, <2>2, Zenon
    <3>3. heap'[q] = Popped(heap[r])
      BY <1>2, <2>2
    <3>4. heap'[q].bytes = heap[q].bytes
      BY <1>8, <2>2, <3>3, Zenon
    <3>5. (h + n) + f = h + (f + n)
      BY <3>1
    <3> QED BY <1>9, <2>2, <3>2, <3>3, <3>4, <3>5, Zenon
  <2> QED BY <2>1, <2>2
<1>11. TotalsOK'
  <2>1. \A q \in States : heap'[q].events = heap[q].events /\ heap'[q].bytes = heap[q].bytes
    BY <1>1, <1>2, <1>8, PoppedFacts
  <2>2. EventsOf' = EventsOf /\ BytesOf' = BytesOf /\ LiveSet' = LiveSet
    BY <1>4, <2>1 DEF EventsOf, BytesOf, LiveSet
  <2> QED BY <2>2 DEF AccRest, TotalsOK, Failed
<1> QED BY <1>10, <1>11 DEF AccRest

\* The release takes the item off the counters exactly if the state is still
\* the route's; otherwise unregisterRoute has already given it back.
LEMMA ReleaseAcc ==
    ASSUME CountInv, AccRest, NEW c \in Consumers, Release(c)
    PROVE  AccRest'
<1>t. TypeOK
  BY DEF CountInv
<1>0. PICK r, n : r = cref[c] /\ n = citem[c].size
  OBVIOUS
<1>1. r \in States /\ heap[r] \in StateRec /\ n \in Nat /\ r # NoState
  BY <1>0, RefsAssumption DEF CountInv, PointerOK, TypeOK, Release, StateRec, Item
<1>2. /\ \A d \in Consumers : pc'[d] = IF d = c THEN "idle" ELSE pc[d]
      /\ \A d \in Consumers : d # c => cref'[d] = cref[d] /\ citem'[d] = citem[d]
      /\ UNCHANGED <<failed, routes>>
  BY <1>t DEF Release, Return, TypeOK
<1>3. \A q : Live(q)' <=> Live(q)
  BY <1>2 DEF Live
<1>4. Live(r) <=> Owns(c)
  <2>1. Live(r) => Owns(c)
    BY <1>0, <1>1 DEF Live, Owns, CountInv, CountRest, CallsMatch, Release
  <2>2. Owns(c) => Live(r)
    BY <1>0, <1>1 DEF Live, Owns, CountInv, CountRest, CallsMatch, Release
  <2> QED BY <2>1, <2>2
<1>5. \A q : q # r => InFlight(q)' = InFlight(q) /\ \A d \in InFlight(q) : citem'[d] = citem[d]
  BY <1>0, <1>2 DEF InFlight
<1>6. \A q : q # r => Flying(q)' = Flying(q)
  BY <1>5, <1>t, FlyingSame
<1>7. c \in InFlight(r) /\ InFlight(r)' = InFlight(r) \ {c}
  BY <1>0, <1>2 DEF InFlight, Release
<1>8. Flying(r) = n + Flying(r)' /\ Flying(r)' \in Int
  <2> PICK S, w, v : S = InFlight(r) /\ w = Weights /\ v = Weights'
    OBVIOUS
  <2>1. IsFiniteSet(S) /\ c \in S /\ \A d \in S : w[d] \in Int
    BY <1>7, <1>t, InFlightFinite, WeightsType DEF InFlight
  <2>2. SumOver(w, S) = w[c] + SumOver(w, S \ {c})
    BY ONLY <2>1, SumTake
  <2>3. IsFiniteSet(S \ {c})
    BY <2>1, FS_RemoveElement
  <2>4. \A d \in S \ {c} : w[d] \in Int /\ v[d] = w[d]
    BY <1>2, <2>1 DEF InFlight, Weights
  <2>5. SumOver(v, S \ {c}) = SumOver(w, S \ {c}) /\ SumOver(w, S \ {c}) \in Int
    <3> PICK T : T = S \ {c}
      OBVIOUS
    <3>1. IsFiniteSet(T)
      BY <2>3
    <3>2. \A d \in T : w[d] \in Int /\ v[d] = w[d]
      BY <2>4
    <3>3. SumOver(v, T) = SumOver(w, T) /\ SumOver(w, T) \in Int
      BY ONLY <3>1, <3>2, SumSame, SumTake
    <3> QED BY <3>3
  <2>6. w[c] = n
    BY <1>0 DEF Weights
  <2>7. Flying(r)' = SumOver(v, S \ {c}) /\ Flying(r) = SumOver(w, S)
    BY <1>7, Zenon DEF Flying
  <2> QED BY <2>2, <2>5, <2>6, <2>7, Zenon
<1>9. CASE ~Owns(c)
  <2>1. UNCHANGED <<heap, totalEvents, totalBytes>>
    BY <1>9 DEF Release
  <2>2. BytesOK'
    <3>1. \A q \in States : Live(q)' => q # r /\ Live(q)
      BY <1>3, <1>4, <1>9
    <3> QED BY <1>2, <1>6, <2>1, <3>1 DEF AccRest, BytesOK, Failed, HeldBytes
  <2>3. EventsOf' = EventsOf /\ BytesOf' = BytesOf /\ LiveSet' = LiveSet
    BY <1>3, <2>1 DEF EventsOf, BytesOf, LiveSet
  <2>4. TotalsOK'
    BY <1>2, <2>1, <2>3 DEF AccRest, TotalsOK, Failed
  <2> QED BY <2>2, <2>4 DEF AccRest
<1>10. CASE Owns(c)
  <2>0. PICK t : t = Released(heap[r], n)
    OBVIOUS
  <2>1. heap' = [heap EXCEPT ![r] = t] /\ totalEvents' = totalEvents - 1 /\ totalBytes' = totalBytes - n
    BY <1>0, <1>10, <2>0 DEF Release
  <2>2. \A q \in States : heap'[q] = IF q = r THEN t ELSE heap[q]
    BY <1>t, <2>1, CountersType
  <2>3. /\ t \in StateRec /\ t.queue = heap[r].queue /\ t.pending = heap[r].pending
        /\ t.events = heap[r].events - 1
    BY <1>1, <2>0, ReleasedType
  <2>4. t.bytes = heap[r].bytes - n
    <3>1. \A e, b \in Int : [heap[r] EXCEPT !.events = e, !.bytes = b].bytes = b
      BY <1>1 DEF StateRec
    <3>2. heap[r].events - 1 \in Int /\ heap[r].bytes - n \in Int
      BY <1>1 DEF StateRec
    <3> QED BY <2>0, <3>1, <3>2 DEF Released
  <2>5. HeldBytes(t) = HeldBytes(heap[r])
    BY <2>3, Zenon DEF HeldBytes
  <2>6. BytesOK'
    <3> SUFFICES ASSUME ~Failed, NEW q \in States, Live(q)
                 PROVE  heap'[q].bytes = HeldBytes(heap'[q]) + Flying(q)'
      BY <1>2, <1>3 DEF BytesOK, Failed, HeldBytes
    <3>0. heap[q].bytes = HeldBytes(heap[q]) + Flying(q)
      BY DEF AccRest, BytesOK
    <3>1. CASE q # r
      BY <1>6, <2>2, <3>0, <3>1
    <3>2. CASE q = r
      <4> PICK h, f : h = HeldBytes(heap[r]) /\ f = Flying(r)'
        OBVIOUS
      <4>1. h \in Int /\ f \in Int /\ n \in Int
        BY <1>1, <1>8, HeldBytesType
      <4>2. heap[r].bytes = h + (n + f)
        BY <1>8, <3>0, <3>2, Zenon
      <4>3. (h + (n + f)) - n = h + f
        BY <4>1
      <4>4. heap'[q] = t
        BY <2>2, <3>2
      <4>5. t.bytes = h + f
        BY <2>4, <4>2, <4>3, Zenon
      <4> QED BY <2>5, <3>2, <4>4, <4>5, Zenon
    <3> QED BY <3>1, <3>2
  <2>7. TotalsOK'
    <3> SUFFICES ASSUME ~Failed PROVE TotalsOK'
      BY <1>2 DEF TotalsOK, Failed
    <3>1. /\ IsFiniteSet(LiveSet) /\ totalEvents = SumOver(EventsOf, LiveSet)
          /\ totalBytes = SumOver(BytesOf, LiveSet)
      BY DEF AccRest, TotalsOK
    <3>2. r \in LiveSet /\ LiveSet' = LiveSet /\ LiveSet = LiveSet \cup {r}
      BY <1>1, <1>3, <1>4, <1>10 DEF LiveSet
    <3>3. /\ heap[r].events \in Int /\ heap[r].bytes \in Int
          /\ heap[r].events - 1 = heap[r].events + (-1)
          /\ heap[r].bytes - n = heap[r].bytes + (-n)
      BY <1>1 DEF StateRec
    <3>4. Raises(LiveSet, r, EventsOf, EventsOf', heap[r].events, -1)
      BY <1>t, <2>2, <2>3, <3>1, <3>2, <3>3, CountersType DEF Raises, EventsOf, LiveSet
    <3>5. Raises(LiveSet, r, BytesOf, BytesOf', heap[r].bytes, -n)
      BY <1>1, <1>t, <2>2, <2>4, <3>1, <3>2, <3>3, CountersType DEF Raises, BytesOf, LiveSet
    <3>6. SumOver(EventsOf', LiveSet \cup {r}) = SumOver(EventsOf, LiveSet) + (-1)
      BY ONLY <3>4, SumStore
    <3>7. SumOver(BytesOf', LiveSet \cup {r}) = SumOver(BytesOf, LiveSet) + (-n)
      BY ONLY <3>5, SumStore
    <3>8. totalEvents - 1 = totalEvents + (-1) /\ totalBytes - n = totalBytes + (-n)
      BY <1>1, <1>t, CountersType
    <3>9. totalEvents' = SumOver(EventsOf', LiveSet') /\ totalBytes' = SumOver(BytesOf', LiveSet')
      BY <2>1, <3>1, <3>2, <3>6, <3>7, <3>8
    <3> QED BY <3>1, <3>2, <3>9 DEF TotalsOK
  <2> QED BY <2>6, <2>7 DEF AccRest
<1> QED BY <1>9, <1>10

\* unregisterRoute gives back what the route's state still counts.
LEMMA UnregisterAcc ==
    ASSUME CountInv, AccRest, NEW k \in Keys, Unregister(k)
    PROVE  AccRest'
<1>t. TypeOK
  BY DEF CountInv
<1>1. UNCHANGED <<failed, heap, pc, cref, citem>>
  BY DEF Unregister, consumerVars
<1>2. \A j \in Keys : routes'[j] = IF j = k THEN NoState ELSE routes[j]
  BY <1>t DEF Unregister, TypeOK
<1>3. \A q : Flying(q)' = Flying(q)
  BY <1>1, <1>t, FlyingSame DEF InFlight
<1>4. \A q \in States : Live(q)' <=> (Live(q) /\ q # routes[k])
  <2>1. NoState \notin States /\ routes[k] # Global
    BY <1>t, RefsAssumption DEF TypeOK, States
  <2>2. ASSUME NEW q \in States, Live(q)' PROVE Live(q) /\ q # routes[k]
    <3>1. CASE q = Global
      BY <2>1, <3>1 DEF Live
    <3>2. CASE q # Global
      <4>1. PICK j \in Keys : routes'[j] = q
        BY <2>2, <3>2 DEF Live
      <4>2. j # k /\ routes[j] = q
        BY <1>2, <2>1, <4>1
      <4> QED BY <2>1, <4>2 DEF Live, CountInv, CountRest, RoutesDistinct
    <3> QED BY <3>1, <3>2
  <2>3. ASSUME NEW q \in States, Live(q), q # routes[k] PROVE Live(q)'
    <3>1. CASE q = Global
      BY <3>1 DEF Live
    <3>2. CASE q # Global
      <4>1. PICK j \in Keys : routes[j] = q
        BY <2>3, <3>2 DEF Live
      <4>2. routes'[j] = q
        BY <1>2, <2>3, <4>1
      <4> QED BY <4>2 DEF Live
    <3> QED BY <3>1, <3>2
  <2> QED BY <2>2, <2>3
<1>5. BytesOK'
  BY <1>1, <1>3, <1>4 DEF AccRest, BytesOK, Failed, HeldBytes
<1>6. LiveSet' = LiveSet \ {routes[k]} /\ EventsOf' = EventsOf /\ BytesOf' = BytesOf
  BY <1>1, <1>4 DEF LiveSet, EventsOf, BytesOf
<1>7. TotalsOK'
  <2> SUFFICES ASSUME ~Failed PROVE TotalsOK'
    BY <1>1 DEF TotalsOK, Failed
  <2>1. /\ IsFiniteSet(LiveSet) /\ totalEvents = SumOver(EventsOf, LiveSet)
        /\ totalBytes = SumOver(BytesOf, LiveSet)
    BY DEF AccRest, TotalsOK
  <2>2. /\ totalEvents' = totalEvents - StateOf(k).events
        /\ totalBytes' = totalBytes - StateOf(k).bytes
        /\ totalEvents \in Int /\ totalBytes \in Int
    BY <1>t, CountersType DEF Unregister
  <2>3. CASE routes[k] = NoState
    <3>1. StateOf(k).events = 0 /\ StateOf(k).bytes = 0
      BY <2>3 DEF StateOf, NewState
    <3>2. LiveSet' = LiveSet
      BY <1>6, <2>3, RefsAssumption DEF LiveSet
    <3>3. totalEvents' = totalEvents /\ totalBytes' = totalBytes
      BY <2>2, <3>1
    <3>4. EventsOf' = EventsOf /\ BytesOf' = BytesOf
      BY <1>6
    <3> QED BY <2>1, <3>2, <3>3, <3>4 DEF TotalsOK
  <2>4. CASE routes[k] # NoState
    <3>0. PICK r : r = routes[k]
      OBVIOUS
    <3>1. r \in States /\ r \in LiveSet /\ StateOf(k) = heap[r]
      BY <1>t, <2>4, <3>0 DEF TypeOK, States, LiveSet, Live, StateOf
    <3>2. (\A q \in LiveSet : EventsOf[q] \in Int) /\ \A q \in LiveSet : BytesOf[q] \in Int
      BY <1>t, CountersType DEF LiveSet
    <3>3. IsFiniteSet(LiveSet \ {r})
      BY <2>1, FS_RemoveElement
    <3>4. /\ SumOver(EventsOf, LiveSet) = EventsOf[r] + SumOver(EventsOf, LiveSet \ {r})
          /\ SumOver(BytesOf, LiveSet) = BytesOf[r] + SumOver(BytesOf, LiveSet \ {r})
      BY ONLY <2>1, <3>1, <3>2, SumTake
    <3>5. SumOver(EventsOf, LiveSet \ {r}) \in Int /\ SumOver(BytesOf, LiveSet \ {r}) \in Int
      <4> PICK T : T = LiveSet \ {r}
        OBVIOUS
      <4>1. IsFiniteSet(T) /\ (\A q \in T : EventsOf[q] \in Int) /\ \A q \in T : BytesOf[q] \in Int
        BY <3>2, <3>3
      <4>2. SumOver(EventsOf, T) \in Int /\ SumOver(BytesOf, T) \in Int
        BY ONLY <4>1, SumTake
      <4> QED BY <4>2
    <3>6. EventsOf[r] = heap[r].events /\ BytesOf[r] = heap[r].bytes /\ EventsOf[r] \in Int /\ BytesOf[r] \in Int
      BY <1>t, <3>1, CountersType
    <3>7. \A a, b \in Int : (a + b) - a = b
      OBVIOUS
    <3>8. /\ totalEvents' = SumOver(EventsOf, LiveSet \ {r})
          /\ totalBytes' = SumOver(BytesOf, LiveSet \ {r})
      <4>1. totalEvents' = (EventsOf[r] + SumOver(EventsOf, LiveSet \ {r})) - EventsOf[r]
        BY <2>1, <2>2, <3>1, <3>4, <3>6, Zenon
      <4>2. totalBytes' = (BytesOf[r] + SumOver(BytesOf, LiveSet \ {r})) - BytesOf[r]
        BY <2>1, <2>2, <3>1, <3>4, <3>6, Zenon
      <4>3. EventsOf[r] \in Int /\ BytesOf[r] \in Int
        BY <3>6, Zenon
      <4>4. (EventsOf[r] + SumOver(EventsOf, LiveSet \ {r})) - EventsOf[r] = SumOver(EventsOf, LiveSet \ {r})
        BY <3>5, <3>7, <4>3, Zenon
      <4>5. (BytesOf[r] + SumOver(BytesOf, LiveSet \ {r})) - BytesOf[r] = SumOver(BytesOf, LiveSet \ {r})
        BY <3>5, <3>7, <4>3, Zenon
      <4> QED BY <4>1, <4>2, <4>4, <4>5, Zenon
    <3> QED BY <1>6, <3>0, <3>3, <3>8 DEF TotalsOK
  <2> QED BY <2>3, <2>4
<1> QED BY <1>5, <1>7 DEF AccRest

\* Steps of a call other than the receive and the release.
LEMMA MoveAcc ==
    ASSUME CountInv, AccRest, NEW c \in Consumers, pc[c] # "release", pc'[c] # "release",
           UNCHANGED <<failed, routes, heap, totalEvents, totalBytes>>,
           \A d \in Consumers : d # c => pc'[d] = pc[d] /\ cref'[d] = cref[d] /\ citem'[d] = citem[d]
    PROVE  AccRest'
<1>1. \A r : InFlight(r)' = InFlight(r) /\ \A d \in InFlight(r) : citem'[d] = citem[d]
  BY DEF InFlight
<1> QED BY <1>1, QuietAcc

LEMMA ReturnAcc ==
    ASSUME CountInv, AccRest, NEW c \in Consumers, pc[c] # "release", Return(c),
           UNCHANGED <<failed, routes, heap, totalEvents, totalBytes>>
    PROVE  AccRest'
<1>1. /\ pc'[c] = "idle"
      /\ \A d \in Consumers : d # c => /\ pc'[d] = pc[d] /\ cref'[d] = cref[d]
                                        /\ citem'[d] = citem[d]
  BY DEF Return, CountInv, TypeOK
<1> QED BY <1>1, MoveAcc

LEMMA GotoAcc ==
    ASSUME CountInv, AccRest, NEW c \in Consumers, pc[c] # "release",
           NEW label, label # "release", Goto(c, label),
           UNCHANGED <<failed, routes, heap, totalEvents, totalBytes>>
    PROVE  AccRest'
<1>1. /\ pc'[c] = label /\ cref' = cref /\ citem' = citem
      /\ \A d \in Consumers : d # c => pc'[d] = pc[d]
  BY DEF Goto, CountInv, TypeOK
<1> QED BY <1>1, MoveAcc

LEMMA StillAcc ==
    ASSUME CountInv, AccRest,
           UNCHANGED <<failed, routes, heap, totalEvents, totalBytes, pc, cref, citem>>
    PROVE  AccRest'
BY QuietAcc DEF InFlight

\* After the failure nothing is claimed.
LEMMA FailedAcc == ASSUME Failed' PROVE AccRest'
BY DEF AccRest, BytesOK, TotalsOK

LEMMA RegisterAcc ==
    ASSUME CountInv, AccRest, NEW k \in Keys, Register(k)
    PROVE  AccRest'
<1>t. TypeOK
  BY DEF CountInv
<1>1. PICK r \in RefsOf(k) :
         /\ routes' = [routes EXCEPT ![k] = r]
         /\ heap' = IF StateOf(k).open THEN heap
                    ELSE [heap EXCEPT ![r] = Registered(StateOf(k))]
  BY DEF Register, Registered
<1>2. ~Failed /\ UNCHANGED consumerVars /\ UNCHANGED <<failed, totalEvents, totalBytes, pc, cref, citem>>
  BY DEF Register, consumerVars
<1>3. PICK s : s = StateOf(k)
  OBVIOUS
<1>4. /\ r \in States /\ LiveSet' = LiveSet \cup {r}
      /\ Live(r) => s = heap[r]
      /\ ~Live(r) => s.events = 0 /\ s.bytes = 0
      /\ s.bytes = HeldBytes(s) + Flying(r)
  BY <1>1, <1>2, <1>3, StateOfBytes
<1>5. s \in StateRec /\ (~s.open => s.queue = <<>>)
  BY <1>1, <1>2, <1>3, StateOfFacts
<1>6. PICK t : t = IF s.open THEN s ELSE Registered(s)
  OBVIOUS
<1>7. /\ t \in StateRec /\ t.events = s.events /\ t.bytes = s.bytes
      /\ HeldBytes(t) = HeldBytes(s)
  BY <1>5, <1>6, RegisteredFacts, RegisteredBytes
<1>8. heap' = [heap EXCEPT ![r] = t]
  <2>1. CASE ~s.open
    BY <1>1, <1>3, <1>6, <2>1
  <2>2. CASE s.open
    <3>1. routes[k] # NoState
      BY <1>3, <2>2 DEF StateOf, NewState
    <3>2. s = heap[r]
      BY <1>1, <1>2, <1>3, <3>1, AllocPreserves
    <3>3. heap \in [States -> StateRec]
      BY <1>t, CountersType
    <3> QED BY <1>1, <1>3, <1>4, <1>6, <2>2, <3>2, <3>3
  <2> QED BY <2>1, <2>2
<1>9. /\ t.events = s.events + 0 /\ t.bytes = s.bytes + 0
      /\ totalEvents' = totalEvents + 0 /\ totalBytes' = totalBytes + 0
  BY <1>2, <1>5, <1>7, <1>t, CountersType DEF StateRec
<1>10. t.bytes = HeldBytes(t) + Flying(r)
  BY <1>4, <1>7, Zenon
<1>11. Stores(r, s, t, 0, 0)
  BY <1>2, <1>4, <1>5, <1>7, <1>8, <1>9, <1>10 DEF Stores
<1> QED BY <1>2, <1>11, StoreAcc

LEMMA NextAcc == CountInv /\ AccRest /\ [Next]_vars => AccRest'
<1> SUFFICES ASSUME CountInv, AccRest, [Next]_vars PROVE AccRest'
  OBVIOUS
<1> USE DEF consumerVars, readerVars, routerVars
<1>1. ASSUME NEW n \in Notifications, Read(n) PROVE AccRest'
  BY <1>1, StillAcc DEF Read
<1>2. ASSUME RouteAfterFailure PROVE AccRest'
  BY <1>2, StillAcc DEF RouteAfterFailure
<1>3. ASSUME RouteDismissed PROVE AccRest'
  BY <1>3, StillAcc DEF RouteDismissed
<1>4. ASSUME RouteScoped PROVE AccRest'
  <2>0. PICK k : k = Head(todo)
    OBVIOUS
  <2>1. k \in Keys /\ ~Failed
    BY <1>4, <2>0 DEF RouteScoped, CountInv, TypeOK
  <2>2. PICK r \in RefsOf(k) :
           /\ routes' = [routes EXCEPT ![k] = r]
           /\ Deliver(StateOf(k), r) \/ Overflow(StateOf(k), r)
    BY <1>4, <2>0 DEF RouteScoped
  <2>3. UNCHANGED consumerVars
    BY <1>4 DEF RouteScoped
  <2>4. PICK s : s = StateOf(k)
    OBVIOUS
  <2>5. /\ r \in States /\ LiveSet' = LiveSet \cup {r}
        /\ Live(r) => s = heap[r]
        /\ ~Live(r) => s.events = 0 /\ s.bytes = 0
        /\ s.bytes = HeldBytes(s) + Flying(r)
    BY <2>1, <2>2, <2>3, <2>4, StateOfBytes
  <2>6. s \in StateRec
    BY <2>1, <2>4, StateTypes DEF CountInv
  <2>7. Deliver(s, r) \/ Overflow(s, r)
    BY <2>2, <2>4
  <2> QED BY <2>1, <2>3, <2>5, <2>6, <2>7, DeliverAcc
<1>5. ASSUME RouteGlobal PROVE AccRest'
  <2>1. UNCHANGED <<routes, consumerVars>> /\ ~Failed
    BY <1>5 DEF RouteGlobal
  <2>2. PICK s : s = heap[Global]
    OBVIOUS
  <2>3. Global \in States /\ Live(Global) /\ s \in StateRec
    BY <2>2 DEF States, Live, CountInv, TypeOK, StateRec
  <2>4. LiveSet' = LiveSet \cup {Global}
    BY <2>1, <2>3 DEF LiveSet, Live
  <2>5. s.bytes = HeldBytes(s) + Flying(Global)
    BY <2>1, <2>2, <2>3 DEF AccRest, BytesOK
  <2>6. Deliver(s, Global) \/ Overflow(s, Global)
    BY <1>5, <2>2 DEF RouteGlobal
  <2> QED BY <2>1, <2>2, <2>3, <2>4, <2>5, <2>6, DeliverAcc
<1>6. ASSUME ReadLoopFails \/ TransportFails PROVE AccRest'
  <2>1. PICK cause : FailAll(cause) /\ cause # "none"
    BY <1>6 DEF ReadLoopFails, TransportFails
  <2>2. Failed'
    BY <2>1 DEF FailAll, Failed
  <2> QED BY <2>2, FailedAcc
<1>7. ASSUME NEW r \in States, WakeOne(r) PROVE AccRest'
  <2>1. Failed'
    BY <1>7 DEF WakeOne, CountInv, CountRest, WakeOK, Failed
  <2> QED BY <2>1, FailedAcc
<1>8. ASSUME NEW k \in Keys, Register(k) PROVE AccRest'
  BY <1>8, RegisterAcc
<1>9. ASSUME NEW k \in Keys, Unregister(k) PROVE AccRest'
  BY <1>9, UnregisterAcc
<1>10. ASSUME NEW c \in Consumers, NEW k \in Keys \cup {Global}, NEW r, Begin(c, k, r)
       PROVE AccRest'
  <2>1. /\ pc[c] = "idle" /\ pc'[c] = "try" /\ citem' = citem
        /\ \A d \in Consumers : d # c => pc'[d] = pc[d] /\ cref'[d] = cref[d]
        /\ UNCHANGED <<failed, routes, heap, totalEvents, totalBytes>>
    BY <1>10 DEF Begin, CountInv, TypeOK
  <2> QED BY <2>1, MoveAcc
<1>11. ASSUME NEW c \in Consumers, Try(c) PROVE AccRest'
  <2>1. pc[c] = "try" /\ UNCHANGED <<failed, routes, totalEvents, totalBytes>>
    BY <1>11 DEF Try
  <2>2. CASE Receive(c)
    BY <2>1, <2>2, ReceiveAcc
  <2>3. CASE Return(c) /\ UNCHANGED heap
    BY <2>1, <2>3, ReturnAcc
  <2>4. CASE \/ Goto(c, "check") /\ UNCHANGED heap
             \/ Goto(c, "select") /\ UNCHANGED heap
    BY <2>1, <2>4, GotoAcc
  <2> QED BY <1>11, <2>2, <2>3, <2>4 DEF Try
<1>12. ASSUME NEW c \in Consumers, CheckFailed(c) PROVE AccRest'
  <2>1. pc[c] = "check" /\ UNCHANGED <<failed, routes, heap, totalEvents, totalBytes>>
    BY <1>12 DEF CheckFailed
  <2>2. Return(c) \/ Goto(c, "select")
    BY <1>12 DEF CheckFailed
  <2> QED BY <2>1, <2>2, ReturnAcc, GotoAcc
<1>13. ASSUME NEW c \in Consumers, Select(c) PROVE AccRest'
  BY <1>13, ReceiveAcc DEF Select
<1>14. ASSUME NEW c \in Consumers, SelectDone(c) PROVE AccRest'
  BY <1>14, ReturnAcc DEF SelectDone
<1>15. ASSUME NEW c \in Consumers, Release(c) PROVE AccRest'
  BY <1>15, ReleaseAcc
<1>16. CASE UNCHANGED vars
  BY <1>16, StillAcc DEF vars
<1> QED
  BY <1>1, <1>2, <1>3, <1>4, <1>5, <1>6, <1>7, <1>8, <1>9, <1>10, <1>11,
     <1>12, <1>13, <1>14, <1>15, <1>16
  DEF Next, Reader, Consumer, NextRoute, NextGlobal

LEMMA InitAcc == Init => AccRest
<1> SUFFICES ASSUME Init PROVE AccRest
  OBVIOUS
<1>1. \A r : InFlight(r) = {}
  BY DEF Init, InFlight
<1>2. \A r \in States : Live(r) <=> r = Global
  BY RefsAssumption DEF Init, Live
<1>3. Global \in States
  BY DEF States
<1>4. /\ heap[Global].pending = <<>> /\ heap[Global].queue = <<>>
      /\ heap[Global].events = 0 /\ heap[Global].bytes = 0
  BY DEF Init, NewState, States
<1>5. \A r : Flying(r) = 0
  BY <1>1, SumEmpty DEF Flying
<1>6. HeldBytes(heap[Global]) = 0
  <2>1. 0 + 0 = 0
    OBVIOUS
  <2> QED BY <1>4, <2>1, SizesEmpty, Zenon DEF HeldBytes
<1>7. 0 = 0 + 0
  OBVIOUS
<1>8. BytesOK
  BY <1>2, <1>4, <1>5, <1>6, <1>7 DEF BytesOK
<1>9. LiveSet = {} \cup {Global} /\ LiveSet = {Global}
  BY <1>2, <1>3 DEF LiveSet
<1>10. IsFiniteSet({}) /\ IsFiniteSet(LiveSet)
  BY <1>9, FS_EmptySet, FS_AddElement
<1>11. Raises({}, Global, EventsOf, EventsOf, 0, 0) /\ Raises({}, Global, BytesOf, BytesOf, 0, 0)
  BY <1>3, <1>4, <1>10 DEF Raises, EventsOf, BytesOf
<1>12. /\ SumOver(EventsOf, {} \cup {Global}) = SumOver(EventsOf, {}) + 0
       /\ SumOver(BytesOf, {} \cup {Global}) = SumOver(BytesOf, {}) + 0
  BY ONLY <1>11, SumStore
<1>13. SumOver(EventsOf, LiveSet) = 0 /\ SumOver(BytesOf, LiveSet) = 0
  BY <1>7, <1>9, <1>12, SumEmpty, Zenon
<1>14. totalEvents = 0 /\ totalBytes = 0
  BY DEF Init
<1> QED BY <1>8, <1>10, <1>13, <1>14 DEF AccRest, TotalsOK

\* Until the transport fails every counter of the router is exact: events and
\* bytes of each live route and of the global queue, and both totals, for any
\* number of routes and consumers and any interleaving of a consumer's second
\* critical section (releaseRouteItem, releaseGlobal) with unregisterRoute and
\* registerRoute.
THEOREM AccountsAreExact == Spec => []AccountsExact
<1>1. Init => CountInv /\ AccRest
  BY InitCount, InitAcc
<1>2. CountInv /\ AccRest /\ [Next]_vars => (CountInv /\ AccRest)'
  BY NextCount, NextAcc
<1>3. CountInv /\ AccRest => AccountsExact
  <2> SUFFICES ASSUME CountInv, AccRest PROVE CountersExact /\ TotalsExact
    BY DEF AccountsExact
  <2>1. CountersExact
    BY DEF CountInv, CountRest, EventsOK, AccRest, BytesOK, CountersExact, HeldBytes, Flying,
           Weights
  <2>2. TotalsExact
    BY DEF AccRest, TotalsOK, TotalsExact, LiveSet, EventsOf, BytesOf
  <2> QED BY <2>1, <2>2
<1> QED BY <1>1, <1>2, <1>3, PTL DEF Spec
=============================================================================
