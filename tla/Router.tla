------------------------------- MODULE Router -------------------------------
(***************************************************************************)
(* The notification half of MessageRouter (internal/router/router.go): one *)
(* stdout reader delivers every notification to the routes it names        *)
(* (login, turn, goal, compaction) or to the global queue; consumers wait  *)
(* on one route each; clients register and unregister routes; a transport  *)
(* failure wakes the consumers.                                            *)
(*                                                                         *)
(* Every critical section of r.mu is one action.  Channel receives, and    *)
(* the sends of FailAll, happen outside the mutex and are actions of their *)
(* own.  The response waiters of the same router are in Requests.tla.      *)
(***************************************************************************)
EXTENDS Integers, Sequences, FiniteSets, FiniteSetsExt

CONSTANTS
    Keys,                         \* the routes: pairs <<kind, id>>
    None,                         \* an absent id ("" in the code)
    Notifications,                \* the notifications the reader may read
    Consumers,                    \* goroutines calling Next*
    Serves(_),                    \* the routes a consumer calls Next* on
    Refs,                         \* addresses of routeState objects
    NoState,                      \* the nil *routeState
    Global,                       \* the global queue and its counters
    MaxRouteEvents, MaxRouteBytes, MaxGlobalEvents, MaxGlobalBytes,
    MaxTotalEvents, MaxTotalBytes,
    MaxRead                      \* bound: notifications read in one behaviour

\* Everything that has a queue: the routeState objects and the global queue.
States == Refs \cup {Global}

ASSUME RefsAssumption == /\ Global \notin Refs /\ Global \notin Keys
                         /\ NoState \notin States
                         /\ IsFiniteSet(Consumers)

\* normalizeLimits replaces every limit that is not positive by its default.
ASSUME LimitsAssumption ==
    /\ MaxRouteEvents \in Nat \ {0} /\ MaxRouteBytes \in Nat \ {0}
    /\ MaxGlobalEvents \in Nat \ {0} /\ MaxGlobalBytes \in Nat \ {0}
    /\ MaxTotalEvents \in Nat \ {0} /\ MaxTotalBytes \in Nat \ {0}
    /\ MaxRead \in Nat

VARIABLES
    failed,       \* r.failed: "none" is nil, else why the transport failed
    routes,       \* the four route maps
    closed,       \* the four closed maps
    heap,         \* the routeState objects; heap[Global] is the global queue
    totalEvents, totalBytes,
    nread,        \* notifications read so far: numbers them
    todo,         \* routes the reader has still to serve for this notification
    ritem,        \* the item it carries
    readErr,      \* what RouteNotification returned to the read loop
    wake,         \* queues FailAll has still to push the error to
    pc, ckey, cref, citem, sawFailed,  \* each consumer's Next* call
    ended         \* history: states on which a consumer was told of the failure

routerVars   == <<failed, routes, closed, heap, totalEvents, totalBytes>>
readerVars   == <<nread, todo, ritem, readErr>>
consumerVars == <<pc, ckey, cref, citem, sawFailed>>
vars == <<routerVars, readerVars, wake, consumerVars, ended>>

-----------------------------------------------------------------------------
(* Data *)

Item     == [seq : Nat, size : Nat, err : BOOLEAN]
NoItem   == [seq |-> 0, size |-> 0, err |-> FALSE]
ErrItem  == [seq |-> 0, size |-> 0, err |-> TRUE]

\* &routeState{}: open says that the channel has been made.
NewState == [queue |-> <<>>, open |-> FALSE, pending |-> <<>>,
             events |-> 0, bytes |-> 0]

MaxEvents(r) == IF r = Global THEN MaxGlobalEvents ELSE MaxRouteEvents
MaxBytes(r)  == IF r = Global THEN MaxGlobalBytes ELSE MaxRouteBytes

Failed == failed # "none"

Live(r) == r = Global \/ \E k \in Keys : routes[k] = r

\* Objects nobody points to any more are what an allocation may return.
Unreachable == {r \in Refs : /\ ~Live(r) /\ r \notin wake
                             /\ \A c \in Consumers : cref[c] # r}

\* The state of route k, allocated when the map has none.
StateOf(k) == IF routes[k] = NoState THEN NewState ELSE heap[routes[k]]
RefsOf(k)  == IF routes[k] # NoState THEN {routes[k]}
              ELSE IF Unreachable = {} THEN {}
              ELSE {CHOOSE r \in Unreachable : TRUE}

goalRelevantMethod(m) ==
    m \in {"thread/goal/updated", "thread/goal/cleared", "turn/started",
           "turn/completed", "turn/failed"}

\* The queues RouteNotification serves, in its order.
Targets(n) ==
    IF n.method = "thread/compacted" /\ n.thread # None
    THEN <<<<"compaction", n.thread>>>>
    ELSE IF n.method = "account/login/completed" /\ n.login # None
    THEN <<<<"login", n.login>>>>
    ELSE (IF n.turn # None THEN <<<<"turn", n.turn>>>> ELSE <<>>)
      \o (IF n.thread # None /\ goalRelevantMethod(n.method)
          THEN <<<<"goal", n.thread>>>> ELSE <<>>)
      \o (IF n.turn = None THEN <<Global>> ELSE <<>>)

\* A notification is what the router looks at: its method, the ids in its
\* params, and the size of the envelope that is queued.
ASSUME NotificationsAssumption ==
    \A n \in Notifications : /\ n.size \in Nat \ {0}
                             /\ Targets(n) \in Seq(Keys \cup {Global})

-----------------------------------------------------------------------------
(* The reader: RouteNotification and what the read loop does with its error *)

Read(n) ==
    /\ todo = <<>> /\ readErr = "none" /\ nread < MaxRead
    /\ nread' = nread + 1
    /\ todo' = Targets(n)
    /\ ritem' = [seq |-> nread + 1, size |-> n.size, err |-> FALSE]
    /\ UNCHANGED <<routerVars, readErr, wake, consumerVars, ended>>

\* The limit a delivery to state s at r would break, in the code's order.
LimitHit(s, r) ==
    IF s.events + 1 > MaxEvents(r) \/ s.bytes + ritem.size > MaxBytes(r)
    THEN IF r = Global THEN "global" ELSE "route"
    ELSE IF \/ totalEvents + 1 > MaxTotalEvents
            \/ totalBytes + ritem.size > MaxTotalBytes
    THEN "total"
    ELSE "none"

\* Mutant: items that wait for registration are not counted.
CountedIfOpen(s) ==
    IF s.open THEN [s EXCEPT !.events = @ + 1, !.bytes = @ + ritem.size] ELSE s

Counted(s) == [s EXCEPT !.events = @ + 1, !.bytes = @ + ritem.size]

Enqueued(s) == IF s.open THEN [Counted(s) EXCEPT !.queue = Append(@, ritem)]
               ELSE [Counted(s) EXCEPT !.pending = Append(@, ritem)]

\* The reader is done with one queue; it drops the item with the last.
Advance ==
    /\ todo' = Tail(todo)
    /\ ritem' = IF Tail(todo) = <<>> THEN NoItem ELSE ritem

\* Reserve, count and queue the item in state s at r.  The channel send is
\* made with the mutex held: it can complete only if the channel has room.
Deliver(s, r) ==
    /\ LimitHit(s, r) = "none"
    /\ s.open => Len(s.queue) < MaxEvents(r)
    /\ heap' = [heap EXCEPT ![r] = Enqueued(s)]
    /\ totalEvents' = totalEvents + 1
    /\ totalBytes' = totalBytes + ritem.size
    /\ Advance
    /\ UNCHANGED <<failed, closed, readErr>>

Overflow(s, r) ==
    /\ LimitHit(s, r) # "none"
    /\ readErr' = LimitHit(s, r)
    /\ todo' = <<>> /\ ritem' = NoItem
    /\ heap' = [heap EXCEPT ![r] = s]
    /\ UNCHANGED <<failed, closed, totalEvents, totalBytes>>

RouteAfterFailure ==
    /\ todo # <<>> /\ Failed
    /\ readErr' = "failed"
    /\ todo' = <<>> /\ ritem' = NoItem
    /\ UNCHANGED <<routerVars, nread, wake, consumerVars, ended>>

\* A closed route, or a goal route that nobody registered, drops the item.
Dismissed(k) == k \in closed \/ (k[1] = "goal" /\ routes[k] = NoState)

RouteDismissed ==
    /\ todo # <<>> /\ ~Failed /\ Head(todo) # Global
    /\ Dismissed(Head(todo))
    /\ Advance
    /\ UNCHANGED <<routerVars, nread, readErr, wake, consumerVars, ended>>

RouteScoped ==
    /\ todo # <<>> /\ ~Failed /\ Head(todo) # Global
    /\ ~Dismissed(Head(todo))
    /\ LET k == Head(todo) IN
         \E r \in RefsOf(k) :
            /\ routes' = [routes EXCEPT ![k] = r]
            /\ ended' = IF routes[k] = NoState THEN ended \ {r} ELSE ended
            /\ Deliver(StateOf(k), r) \/ Overflow(StateOf(k), r)
    /\ UNCHANGED <<nread, wake, consumerVars>>

RouteGlobal ==
    /\ todo # <<>> /\ ~Failed /\ Head(todo) = Global
    /\ Deliver(heap[Global], Global) \/ Overflow(heap[Global], Global)
    /\ UNCHANGED <<routes, nread, wake, consumerVars, ended>>

-----------------------------------------------------------------------------
(* Failure *)

\* Mutant: the routes are forgotten.
FailAllGlobalOnly(cause) ==
    /\ ~Failed
    /\ failed' = cause
    /\ wake' = {Global}
    /\ UNCHANGED <<routes, closed, heap, totalEvents, totalBytes, readerVars,
                   consumerVars, ended>>

\* FailAll's critical section; later calls find r.failed set and return.
FailAll(cause) ==
    /\ ~Failed
    /\ failed' = cause
    /\ wake' = {r \in States : Live(r) /\ heap[r].open}
    /\ UNCHANGED <<routes, closed, heap, totalEvents, totalBytes, readerVars,
                   consumerVars, ended>>

\* The read loop turns any error of RouteNotification into FailAll.
ReadLoopFails == readErr # "none" /\ FailAll(readErr)

\* The process's end, or a malformed line, calls it at any time.
TransportFails == FailAll("exit")

\* Mutant: room for the error is looked for one item too early.
WakeOneEarly(r) ==
    /\ r \in wake /\ (r = Global => wake = {Global})
    /\ wake' = wake \ {r}
    /\ heap' = IF Len(heap[r].queue) + 1 < MaxEvents(r)
               THEN [heap EXCEPT ![r].queue = Append(@, ErrItem)]
               ELSE heap
    /\ UNCHANGED <<failed, routes, closed, totalEvents, totalBytes, readerVars,
                   consumerVars, ended>>

\* One non-blocking send of the error; the global queue comes last.
WakeOne(r) ==
    /\ r \in wake /\ (r = Global => wake = {Global})
    /\ wake' = wake \ {r}
    /\ heap' = IF Len(heap[r].queue) < MaxEvents(r)
               THEN [heap EXCEPT ![r].queue = Append(@, ErrItem)]
               ELSE heap
    /\ UNCHANGED <<failed, routes, closed, totalEvents, totalBytes, readerVars,
                   consumerVars, ended>>

-----------------------------------------------------------------------------
(* Clients *)

\* Mutant: registration starts with an empty channel.
RegisterWithoutReplay(k) ==
    /\ ~Failed
    /\ closed' = closed \ {k}
    /\ \E r \in RefsOf(k) :
         /\ routes' = [routes EXCEPT ![k] = r]
         /\ ended' = IF routes[k] = NoState THEN ended \ {r} ELSE ended
         /\ heap' = [heap EXCEPT ![r] = [StateOf(k) EXCEPT !.open = TRUE,
                                                           !.pending = <<>>]]
    /\ UNCHANGED <<failed, totalEvents, totalBytes, readerVars, wake,
                   consumerVars>>

\* registerRoute makes the channel and replays the early items into it; it
\* does nothing to a route that is already registered, and fails after
\* FailAll.
Register(k) ==
    /\ ~Failed
    /\ closed' = closed \ {k}
    /\ \E r \in RefsOf(k) :
         LET s == StateOf(k) IN
         /\ routes' = [routes EXCEPT ![k] = r]
         /\ ended' = IF routes[k] = NoState THEN ended \ {r} ELSE ended
         /\ heap' = IF s.open THEN heap
                    ELSE [heap EXCEPT ![r] = [s EXCEPT !.open = TRUE,
                                                       !.queue = s.pending,
                                                       !.pending = <<>>]]
    /\ UNCHANGED <<failed, totalEvents, totalBytes, readerVars, wake,
                   consumerVars>>

Unregister(k) ==
    /\ routes' = [routes EXCEPT ![k] = NoState]
    /\ closed' = closed \cup {k}
    /\ totalEvents' = totalEvents - StateOf(k).events
    /\ totalBytes' = totalBytes - StateOf(k).bytes
    /\ UNCHANGED <<failed, heap, readerVars, wake, consumerVars, ended>>

-----------------------------------------------------------------------------
(* Consumers: nextRoute and NextGlobal *)

\* Consumer c begins Next* on k (a key or Global) having found state r and,
\* for a route, the value of r.failed.
Begin(c, k, r) ==
    /\ pc[c] = "idle" /\ k \in Serves(c)
    /\ pc' = [pc EXCEPT ![c] = "try"]
    /\ ckey' = [ckey EXCEPT ![c] = k]
    /\ cref' = [cref EXCEPT ![c] = r]
    /\ sawFailed' = [sawFailed EXCEPT ![c] = Failed /\ r # Global]
    /\ UNCHANGED <<routerVars, readerVars, wake, citem, ended>>

\* The critical section of nextRoute (a nil state is an error at once).
NextRoute(c, k) == routes[k] # NoState /\ Begin(c, k, routes[k])
NextGlobal(c)   == Begin(c, Global, Global)

Goto(c, label) ==
    /\ pc' = [pc EXCEPT ![c] = label]
    /\ UNCHANGED <<ckey, cref, citem, sawFailed>>

Return(c) ==
    /\ pc' = [pc EXCEPT ![c] = "idle"]
    /\ ckey' = [ckey EXCEPT ![c] = None]
    /\ cref' = [cref EXCEPT ![c] = NoState]
    /\ citem' = [citem EXCEPT ![c] = NoItem]
    /\ sawFailed' = [sawFailed EXCEPT ![c] = FALSE]

\* <-state.queue
Receive(c) ==
    /\ heap[cref[c]].queue # <<>>
    /\ LET item == Head(heap[cref[c]].queue) IN
         /\ citem' = [citem EXCEPT ![c] = item]
         /\ ended' = IF item.err THEN ended \cup {cref[c]} ELSE ended
    /\ heap' = [heap EXCEPT ![cref[c]].queue = Tail(@)]
    /\ pc' = [pc EXCEPT ![c] = "release"]
    /\ UNCHANGED <<ckey, cref, sawFailed>>

\* Mutant: the failure is looked at before the queue.
TryFailureFirst(c) ==
    /\ pc[c] = "try"
    /\ \/ ~heap[cref[c]].open /\ Return(c) /\ UNCHANGED <<heap, ended>>
       \/ /\ heap[cref[c]].open /\ sawFailed[c]
          /\ Return(c) /\ ended' = ended \cup {cref[c]} /\ UNCHANGED heap
       \/ heap[cref[c]].open /\ ~sawFailed[c] /\ Receive(c)
       \/ /\ heap[cref[c]].open /\ ~sawFailed[c] /\ heap[cref[c]].queue = <<>>
          /\ Goto(c, IF cref[c] = Global THEN "check" ELSE "select")
          /\ UNCHANGED <<heap, ended>>
    /\ UNCHANGED <<failed, routes, closed, totalEvents, totalBytes, readerVars,
                   wake>>

\* A state that is not registered is an error; otherwise the queue is tried
\* before the failure is looked at.
Try(c) ==
    /\ pc[c] = "try"
    /\ \/ ~heap[cref[c]].open /\ Return(c) /\ UNCHANGED <<heap, ended>>
       \/ heap[cref[c]].open /\ Receive(c)
       \/ /\ heap[cref[c]].open /\ heap[cref[c]].queue = <<>>
          /\ IF sawFailed[c] THEN Return(c) /\ ended' = ended \cup {cref[c]}
             ELSE /\ Goto(c, IF cref[c] = Global THEN "check" ELSE "select")
                  /\ UNCHANGED ended
          /\ UNCHANGED heap
    /\ UNCHANGED <<failed, routes, closed, totalEvents, totalBytes, readerVars,
                   wake>>

\* NextGlobal reads r.failed after it has tried the queue.
CheckFailed(c) ==
    /\ pc[c] = "check"
    /\ IF Failed THEN Return(c) ELSE Goto(c, "select")
    /\ UNCHANGED <<routerVars, readerVars, wake, ended>>

Select(c) ==
    /\ pc[c] = "select"
    /\ Receive(c)
    /\ UNCHANGED <<failed, routes, closed, totalEvents, totalBytes, readerVars,
                   wake>>

\* The other case of the select: the caller's context is done.  A context
\* that ends before the call reaches the select is not looked at earlier.
SelectDone(c) ==
    /\ pc[c] = "select"
    /\ Return(c)
    /\ UNCHANGED <<routerVars, readerVars, wake, ended>>

\* Mutant: releaseRouteItem does not compare the states.
OwnsAlways(c) == TRUE

\* May the item c holds still be subtracted from the counters?
Owns(c) == cref[c] = Global \/ routes[ckey[c]] = cref[c]

Released(s, size) == [s EXCEPT !.events = @ - 1, !.bytes = @ - size]

\* releaseRouteItem and releaseGlobal: the second critical section of Next*.
Release(c) ==
    /\ pc[c] = "release"
    /\ IF Owns(c)
       THEN /\ heap' = [heap EXCEPT ![cref[c]] = Released(@, citem[c].size)]
            /\ totalEvents' = totalEvents - 1
            /\ totalBytes' = totalBytes - citem[c].size
       ELSE UNCHANGED <<heap, totalEvents, totalBytes>>
    /\ Return(c)
    /\ UNCHANGED <<failed, routes, closed, readerVars, wake, ended>>

-----------------------------------------------------------------------------
Init ==
    /\ failed = "none"
    /\ routes = [k \in Keys |-> NoState]
    /\ closed = {}
    /\ heap = [r \in States |-> [NewState EXCEPT !.open = (r = Global)]]
    /\ totalEvents = 0 /\ totalBytes = 0
    /\ nread = 0 /\ todo = <<>> /\ ritem = NoItem /\ readErr = "none"
    /\ wake = {}
    /\ pc = [c \in Consumers |-> "idle"]
    /\ ckey = [c \in Consumers |-> None]
    /\ cref = [c \in Consumers |-> NoState]
    /\ citem = [c \in Consumers |-> NoItem]
    /\ sawFailed = [c \in Consumers |-> FALSE]
    /\ ended = {}

Reader == RouteAfterFailure \/ RouteDismissed \/ RouteScoped \/ RouteGlobal

Consumer(c) == Try(c) \/ CheckFailed(c) \/ Select(c) \/ Release(c)

Next ==
    \/ \E n \in Notifications : Read(n)
    \/ Reader
    \/ ReadLoopFails \/ TransportFails
    \/ \E r \in States : WakeOne(r)
    \/ \E k \in Keys : Register(k) \/ Unregister(k)
    \/ \E c \in Consumers :
          \/ \E k \in Keys : NextRoute(c, k)
          \/ NextGlobal(c)
          \/ Consumer(c)
          \/ SelectDone(c)

Spec == Init /\ [][Next]_vars

\* What the Go scheduler guarantees: a goroutine inside the router that can
\* take a step takes it.  Nothing forces a client to call, a notification to
\* arrive, a context to be cancelled or the transport to fail, except that
\* the read loop calls FailAll once RouteNotification returned an error.
Fairness ==
    /\ WF_vars(Reader)
    /\ WF_vars(ReadLoopFails)
    /\ WF_vars(\E r \in States : WakeOne(r))
    /\ \A c \in Consumers : WF_vars(Consumer(c))

FairSpec == Spec /\ Fairness

-----------------------------------------------------------------------------
(* Properties *)

\* Items a state holds.
Held(s) == Len(s.queue) + Len(s.pending)

\* Consumers that have received an item from r and not yet released it.
InFlight(r) == {c \in Consumers : pc[c] = "release" /\ cref[c] = r}

\* Type invariant.
TypeOK ==
    /\ failed \in {"none", "exit", "route", "global", "total", "failed"}
    /\ routes \in [Keys -> Refs \cup {NoState}]
    /\ closed \in SUBSET Keys
    /\ heap \in [States -> [queue : Seq(Item), open : BOOLEAN,
                            pending : Seq(Item), events : Int, bytes : Int]]
    /\ totalEvents \in Int /\ totalBytes \in Int
    /\ nread \in Nat /\ todo \in Seq(Keys \cup {Global}) /\ ritem \in Item
    /\ readErr \in {"none", "route", "global", "total", "failed"}
    /\ wake \in SUBSET States
    /\ pc \in [Consumers -> {"idle", "try", "check", "select", "release"}]
    /\ ckey \in [Consumers -> Keys \cup {Global, None}]
    /\ cref \in [Consumers -> States \cup {NoState}]
    /\ citem \in [Consumers -> Item]
    /\ sawFailed \in [Consumers -> BOOLEAN]
    /\ ended \in SUBSET States

SumOver(f, S) == MapThenSumSet(LAMBDA x : f[x], S)
SumSizes(s)   == SumOver([i \in DOMAIN s |-> s[i].size], DOMAIN s)

\* The mailbox of route k, or the global one, is what its state holds.
BoxOf(b) == IF b = Global THEN heap[Global].queue
            ELSE StateOf(b).queue \o StateOf(b).pending

Owed == {b \in Keys \cup {Global} :
            (IF b = Global THEN Global ELSE routes[b]) \in wake}

Mail == [seq : 1..MaxRead, size : {n.size : n \in Notifications},
         err : {FALSE}]

M == INSTANCE Mailbox WITH
        Boxes <- Keys \cup {Global}, Mail <- Mail, End <- ErrItem,
        Cap <- MaxEvents,
        box <- [b \in Keys \cup {Global} |-> BoxOf(b)],
        dismissed <- closed, failed <- Failed, owed <- Owed

\* The router implements the mailboxes: per route and in order, nothing is
\* lost, duplicated, reordered by the replay at registration or delivered
\* after the terminal error, and no queue outgrows its limit.
ImplementsMailbox == M!Spec

\* Until the transport fails, the event and byte counters of every live route
\* and of the global queue are exact: they count what is queued, what waits for
\* registration, and what a consumer has received but not yet released in its
\* second critical section (routeScoped, releaseRouteItem, releaseGlobal).
CountersExact ==
    ~Failed => \A r \in States : Live(r) =>
        LET s == heap[r] IN
        /\ s.events = Held(s) + Cardinality(InFlight(r))
        /\ s.bytes = SumSizes(s.queue) + SumSizes(s.pending)
                       + SumOver([c \in Consumers |-> citem[c].size], InFlight(r))

\* Until the transport fails, totalEvents and totalBytes are the sums of the
\* live counters: unregisterRoute gives back what a route still holds, and a
\* consumer that was in the middle of Next* does not give it back again.
TotalsExact ==
    ~Failed => LET live == {r \in States : Live(r)} IN
        /\ totalEvents = SumOver([r \in States |-> heap[r].events], live)
        /\ totalBytes = SumOver([r \in States |-> heap[r].bytes], live)

\* Both, for every way a consumer's second critical section, an unregistration
\* and a new registration of the same route may follow one another.
AccountsExact == CountersExact /\ TotalsExact

\* routeScoped, RouteNotification and registerRoute send on a channel while
\* they hold r.mu: if the counter admits one more item, the channel has room,
\* and the pending items fit in the channel that registration makes, so that
\* no send blocks and leaves the mutex locked.
SendNeverBlocks ==
    ~Failed => \A r \in States : Live(r) =>
        /\ heap[r].events < MaxEvents(r) =>
              Len(heap[r].queue) < MaxEvents(r)
        /\ Len(heap[r].pending) <= MaxEvents(r)

\* A route's consumer is told of the failure (by the error item, or by
\* r.failed) only when every notification accepted for the route has been
\* received: nothing follows the terminal error.  (NextGlobal does not
\* promise this: it reads r.failed after it found the queue empty.)
FailureComesLast ==
    \A r \in ended \ {Global} :
        \A i \in DOMAIN heap[r].queue : heap[r].queue[i].err

\* A consumer that has a queue to itself does not stay in the select of nextRoute or
\* NextGlobal after a failure, whenever it looked at r.failed, unless its route is
\* unregistered under it.
FailAllWakesConsumers ==
    \A c \in Consumers, k \in Keys \cup {Global} :
        (\A d \in Consumers : k \in Serves(d) <=> d = c) =>
            ((Failed /\ pc[c] = "select" /\ ckey[c] = k /\ Live(cref[c]))
                ~> (pc[c] # "select" \/ ~Live(cref[c])))

Waiters(r) == {c \in Consumers : pc[c] = "select" /\ cref[c] = r}

\* Of several consumers of one queue FailAll serves one: it takes every queue the router
\* knows and somebody waits on, has one error for it, and sends it only if there is room; the
\* error, or what was queued before it, does not stay in a queue that somebody waits on.
FailAllServesQueue ==
    /\ [][~Failed /\ Failed' =>
             {r \in States : Live(r) /\ Waiters(r) # {}} \subseteq wake']_vars
    /\ \A r \in States :
          ((r \in wake \/ (Failed /\ heap[r].queue # <<>>)) /\ Waiters(r) # {})
              ~> (Waiters(r) = {} \/ InFlight(r) # {} \/ ~Live(r))

\* "FailAll wakes all blocked consumers after a transport failure": everyone who waits,
\* the others on a queue and the one whose route was unregistered under it included.  It
\* does not hold.
FailAllWakesAll ==
    \A c \in Consumers : (Failed /\ pc[c] = "select") ~> pc[c] # "select"

\* "Route overflow isolates that route": a route at its limit is not what ends the
\* transport.  It does not hold: the read loop makes no difference.
OverflowIsolatesRoute == failed # "route"

=============================================================================
