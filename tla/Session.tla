------------------------------ MODULE Session ------------------------------
(***************************************************************************)
(* A client's session: NewClient starts the app-server and performs the    *)
(* initialize exchange (client.go, appserver.Client.Start); goroutines     *)
(* start interactive logins, retrying while the server is overloaded       *)
(* (retry.go, errors.go), and wait on the login handles (login.go,         *)
(* waitForLogin), each on any handle, while the child may exit and the     *)
(* client may be closed at any time.                                       *)
(*                                                                         *)
(* A login's route in the router is an object: a wait that has looked it   *)
(* up keeps a pointer to it, also when it is no longer in the map.         *)
(***************************************************************************)
EXTENDS Integers, Sequences, FiniteSets

CONSTANTS
    Procs,         \* goroutines that use the client
    Logins,        \* login ids the server hands out
    MaxWaits,      \* bound: calls of WaitContext of one goroutine
    Retriers,      \* the goroutines that log in through RetryOnOverload
    MaxAttempts,   \* RetryOptions
    InitialDelay,
    MaxDelay,
    JitterPercent

NoLogin == "none"

\* The item FailAll queues.
Failure == "failure"

ASSUME SessionAssumption ==
    /\ NoLogin \notin Logins /\ Failure \notin Logins
    /\ Retriers \subseteq Procs /\ MaxWaits \in Nat /\ MaxAttempts \in Nat \ {0}
    /\ InitialDelay \in Nat /\ MaxDelay \in Nat /\ JitterPercent \in Nat

VARIABLES
    start,     \* where NewClient is: "resolve", "spawn", "init", "closing", "open", "error"
    child,     \* the app-server: "none", "up", "gone" (waited for)
    closed,    \* Close was called
    failed,    \* the router's failure flag, set by FailAll
    waking,    \* the queues FailAll has still to send the failure to
    login,     \* the server's side of a login: "none", "begun", "completed"
    handles,   \* the logins whose handle was returned
    route,     \* a login's route: "none", "pending", "open", "closed"
    gen,       \* which object that route is
    mail,      \* what is queued in each object made so far
    pc, attempt, delay, nap,     \* per goroutine: RetryOnOverload
    at, ref, sawFailed,          \* per goroutine: waitForLogin
    cancelled,                   \* its context has ended
    waits,                       \* calls of WaitContext so far
    shared,                      \* another wait on the same handle overlapped this one
    taken,                       \* waits that returned a login's completion
    ended                        \* logins some wait on which has ended

clientVars == <<start, child, closed, failed, waking>>
routerVars == <<route, gen, mail>>
retryVars  == <<attempt, delay, nap>>
waitVars   == <<at, ref, sawFailed>>
history    == <<waits, shared, taken, ended>>
vars == <<clientVars, login, handles, routerVars, pc, retryVars, waitVars, cancelled, history>>

Least(a, b) == IF a <= b THEN a ELSE b

Init ==
    /\ start = "resolve" /\ child = "none" /\ closed = FALSE /\ failed = FALSE /\ waking = {}
    /\ login = [l \in Logins |-> "none"] /\ handles = {}
    /\ route = [l \in Logins |-> "none"] /\ gen = [l \in Logins |-> 0]
    /\ mail = [o \in Logins \X {0} |-> <<>>]
    /\ pc = [p \in Procs |-> "idle"] /\ attempt = [p \in Procs |-> 0]
    /\ delay = [p \in Procs |-> 0] /\ nap = [p \in Procs |-> 0]
    /\ at = [p \in Procs |-> NoLogin] /\ ref = [p \in Procs |-> 0]
    /\ sawFailed = [p \in Procs |-> FALSE]
    /\ cancelled = [p \in Procs |-> FALSE] /\ waits = [p \in Procs |-> 0]
    /\ shared = [p \in Procs |-> FALSE] /\ taken = [l \in Logins |-> {}] /\ ended = {}

-----------------------------------------------------------------------------
(* NewClient *)

\* ensureStarted, to appserver.New: flattenConfigOverrides and ResolveRuntime
\* may fail before there is anything to clean up.
Resolve ==
    /\ start = "resolve"
    /\ start' \in {"spawn", "error"}
    /\ UNCHANGED <<child, closed, failed, waking, login, handles, routerVars, pc, retryVars,
                   waitVars, cancelled, history>>

\* startProcess
Spawn ==
    /\ start = "spawn"
    /\ \/ start' = "init" /\ child' = "up"
       \/ start' = "error" /\ child' = child
    /\ UNCHANGED <<closed, failed, waking, login, handles, routerVars, pc, retryVars,
                   waitVars, cancelled, history>>

\* Mutant: Start returns initErr without closing the client.
LeaveChild ==
    /\ start = "init"
    /\ \/ start' = "open" /\ ~failed /\ UNCHANGED closed
       \/ start' = "error" /\ UNCHANGED closed
    /\ UNCHANGED <<child, failed, waking, login, handles, routerVars, pc, retryVars,
                   waitVars, cancelled, history>>

\* initialize: the response is complete and initialized was written; or the
\* request fails (an error, incomplete metadata, the caller's context, the end of
\* the child), and Start closes the client before it returns the error.
Initialize ==
    /\ start = "init"
    /\ \/ start' = "open" /\ ~failed /\ UNCHANGED closed
       \/ start' = "closing" /\ closed' = TRUE
    /\ UNCHANGED <<child, failed, waking, login, handles, routerVars, pc, retryVars,
                   waitVars, cancelled, history>>

\* Close waits for waitLoop, then NewClient returns.
StartFails ==
    /\ start = "closing" /\ child = "gone"
    /\ start' = "error"
    /\ UNCHANGED <<child, closed, failed, waking, login, handles, routerVars, pc, retryVars,
                   waitVars, cancelled, history>>

\* Client.Close by its user.
Close ==
    /\ start = "open" /\ ~closed
    /\ closed' = TRUE
    /\ UNCHANGED <<start, child, failed, waking, login, handles, routerVars, pc, retryVars,
                   waitVars, cancelled, history>>

\* Mutant: FailAll sets the flag but wakes nobody.
FlagOnly ==
    /\ child = "up" /\ ~failed
    /\ failed' = TRUE
    /\ UNCHANGED <<start, child, closed, waking, login, handles, routerVars, pc, retryVars, waitVars,
                   cancelled, history>>

\* readLoop fails, or waitLoop sees the child exit: FailAll sets the flag and
\* takes the queues of the registered routes.
FailAll ==
    /\ child = "up" /\ ~failed
    /\ failed' = TRUE
    /\ waking' = {<<l, gen[l]>> : l \in {m \in Logins : route[m] = "open"}}
    /\ UNCHANGED <<start, child, closed, login, handles, routerVars, pc, retryVars, waitVars,
                   cancelled, history>>

\* FailAll sends the failure on each of them.
Wake(o) ==
    /\ o \in waking
    /\ waking' = waking \ {o}
    /\ mail' = [mail EXCEPT ![o] = Append(@, Failure)]
    /\ UNCHANGED <<start, child, closed, failed, login, handles, route, gen, pc, retryVars,
                   waitVars, cancelled, history>>

\* waitLoop is done: the child was waited for and everybody told.
Reap ==
    /\ child = "up" /\ failed /\ waking = {}
    /\ child' = "gone"
    /\ UNCHANGED <<start, closed, failed, waking, login, handles, routerVars, pc, retryVars,
                   waitVars, cancelled, history>>

-----------------------------------------------------------------------------
(* Errors.  An error of the server is told by its code range, by what its     *)
(* message says and by whether its data says server_overloaded.               *)

RPCErrors == [server : BOOLEAN, retryLimit : BOOLEAN, overloaded : BOOLEAN]

\* translateAppServerError keeps code, message and data in a plain RPCError.
translateAppServerError(e) == [type |-> "RPCError", data |-> e.overloaded]

\* MapRPCError, for callers who have a code.
MapRPCError(e) ==
    [type |-> CASE ~e.server -> "RPCError"
                [] e.server /\ e.retryLimit -> "RetryLimitExceededError"
                [] e.server /\ ~e.retryLimit /\ e.overloaded -> "ServerBusyError"
                [] OTHER -> "ServerRPCError",
     data |-> e.overloaded]

IsRetryable(err) == err.type \in {"ServerBusyError", "RetryLimitExceededError"} \/ err.data

-----------------------------------------------------------------------------
(* RetryOnOverload around account/login/start *)

\* A login outside RetryOnOverload is one attempt.
Limit(p) == IF p \in Retriers THEN MaxAttempts ELSE 1

Goto(p, label) == pc' = [pc EXCEPT ![p] = label]

\* The call returns; what it kept in its frame is gone.
LeaveRetry(p) ==
    /\ Goto(p, "idle")
    /\ attempt' = [attempt EXCEPT ![p] = 0] /\ delay' = [delay EXCEPT ![p] = 0]
    /\ nap' = [nap EXCEPT ![p] = 0] /\ cancelled' = [cancelled EXCEPT ![p] = FALSE]

\* A call with a context of its own.
BeginLogin(p) ==
    /\ start = "open" /\ pc[p] = "idle" /\ \E l \in Logins : login[l] = "none"
    /\ attempt' = [attempt EXCEPT ![p] = 1] /\ delay' = [delay EXCEPT ![p] = InitialDelay]
    /\ Goto(p, "attempt")
    /\ UNCHANGED <<clientVars, login, handles, routerVars, nap, waitVars, cancelled, history>>

\* The context of a call ends.
CancelContext(p) ==
    /\ pc[p] # "idle" /\ ~cancelled[p]
    /\ cancelled' = [cancelled EXCEPT ![p] = TRUE]
    /\ UNCHANGED <<clientVars, login, handles, routerVars, pc, retryVars, waitVars, history>>

\* An attempt: the context is looked at, and the request goes out unless the
\* transport is closed or has failed, which is not retried.
Attempt(p) ==
    /\ pc[p] = "attempt"
    /\ IF cancelled[p] \/ closed \/ failed
       THEN LeaveRetry(p)
       ELSE Goto(p, "flight") /\ UNCHANGED <<retryVars, cancelled>>
    /\ UNCHANGED <<clientVars, login, handles, routerVars, waitVars, history>>

\* The server begins a login.  The handle has its id, unless the context ended
\* first: then nobody on this side ever learns of it.
LoginBegun(p) ==
    /\ pc[p] = "flight" /\ ~failed
    /\ \E l \in Logins : /\ login[l] = "none"
                         /\ login' = [login EXCEPT ![l] = "begun"]
                         /\ \/ handles' = handles \cup {l}
                            \/ cancelled[p] /\ handles' = handles
    /\ LeaveRetry(p)
    /\ UNCHANGED <<clientVars, routerVars, waitVars, history>>

\* The last attempt's error, or one that is not retried, is returned; so is the
\* end of the context or of the transport.
LoginFails(p) ==
    /\ pc[p] = "flight"
    /\ \/ cancelled[p] \/ failed
       \/ \E e \in RPCErrors : attempt[p] = Limit(p) \/ ~IsRetryable(translateAppServerError(e))
    /\ LeaveRetry(p)
    /\ UNCHANGED <<clientVars, login, handles, routerVars, waitVars, history>>

\* In hundredths of the unit of the delays: the capped delay, give or take at
\* most the jitter (random is 0, one half or nearly 1).
waitFor(d, r) == 100 * Least(d, MaxDelay) + r * d * JitterPercent

\* An overload error is waited out; a pause that is not positive is skipped by
\* NapEnds.
Overloaded(p) ==
    /\ pc[p] = "flight" /\ ~failed /\ attempt[p] # Limit(p)
    /\ \E e \in RPCErrors : IsRetryable(translateAppServerError(e))
    /\ \E r \in {-1, 0, 1} : nap' = [nap EXCEPT ![p] = waitFor(delay[p], r)]
    /\ Goto(p, "sleep")
    /\ UNCHANGED <<clientVars, login, handles, routerVars, attempt, delay, waitVars, cancelled,
                   history>>

\* Mutant: the delay doubles past its maximum.
DoublePast(p) ==
    /\ pc[p] = "sleep"
    /\ attempt' = [attempt EXCEPT ![p] = @ + 1]
    /\ delay' = [delay EXCEPT ![p] = @ * 2]
    /\ nap' = [nap EXCEPT ![p] = 0]
    /\ Goto(p, "attempt")
    /\ UNCHANGED <<clientVars, login, handles, routerVars, waitVars, cancelled, history>>

\* realRetryWait returns, and the loop goes on.
NapEnds(p) ==
    /\ pc[p] = "sleep"
    /\ attempt' = [attempt EXCEPT ![p] = @ + 1]
    /\ delay' = [delay EXCEPT ![p] = Least(MaxDelay, @ * 2)]
    /\ nap' = [nap EXCEPT ![p] = 0]
    /\ Goto(p, "attempt")
    /\ UNCHANGED <<clientVars, login, handles, routerVars, waitVars, cancelled, history>>

NapCancelled(p) ==
    /\ pc[p] = "sleep" /\ nap[p] > 0 /\ cancelled[p]
    /\ LeaveRetry(p)
    /\ UNCHANGED <<clientVars, login, handles, routerVars, waitVars, history>>

-----------------------------------------------------------------------------
(* The server completes a login (external), and RouteNotification keeps the   *)
(* completion for a route that is not registered yet, or drops it for one     *)
(* that was unregistered.                                                     *)

\* Mutant: a completion nobody waits for yet is dropped.
DropEarly(l) ==
    /\ login[l] = "begun" /\ child = "up" /\ ~failed
    /\ login' = [login EXCEPT ![l] = "completed"]
    /\ mail' = IF route[l] # "open" THEN mail
               ELSE [mail EXCEPT ![<<l, gen[l]>>] = Append(@, l)]
    /\ UNCHANGED <<clientVars, handles, gen, route, pc, retryVars, waitVars, cancelled, history>>

Completed(l) ==
    /\ login[l] = "begun" /\ child = "up" /\ ~failed
    /\ login' = [login EXCEPT ![l] = "completed"]
    /\ mail' = IF route[l] = "closed" THEN mail
               ELSE [mail EXCEPT ![<<l, gen[l]>>] = Append(@, l)]
    /\ route' = IF route[l] = "none" THEN [route EXCEPT ![l] = "pending"] ELSE route
    /\ UNCHANGED <<clientVars, handles, gen, pc, retryVars, waitVars, cancelled, history>>

-----------------------------------------------------------------------------
(* waitForLogin *)

Waiting == {"lookup", "try", "select", "unregister"}

\* registerLogin: RegisterLogin opens the route, or reports the failure.
Wait(p, l) ==
    /\ start = "open" /\ pc[p] = "idle" /\ l \in handles /\ waits[p] < MaxWaits
    /\ waits' = [waits EXCEPT ![p] = @ + 1]
    /\ IF failed
       THEN UNCHANGED <<route, pc, at, shared>>
       ELSE LET others == {q \in Procs : at[q] = l}
            IN  /\ route' = [route EXCEPT ![l] = "open"]
                /\ at' = [at EXCEPT ![p] = l]
                /\ shared' = [q \in Procs |-> IF q = p THEN others # {}
                                              ELSE shared[q] \/ q \in others]
                /\ Goto(p, "lookup")
    /\ UNCHANGED <<clientVars, login, handles, gen, mail, retryVars, ref, sawFailed, cancelled,
                   taken, ended>>

\* The head of the loop: the context, then nextRoute under the lock, where a route
\* that another wait has unregistered is an error.
Lookup(p) ==
    /\ pc[p] = "lookup"
    /\ IF ~cancelled[p] /\ route[at[p]] = "open"
       THEN /\ ref' = [ref EXCEPT ![p] = gen[at[p]]]
            /\ sawFailed' = [sawFailed EXCEPT ![p] = failed]
            /\ Goto(p, "try")
       ELSE Goto(p, "unregister") /\ UNCHANGED <<ref, sawFailed>>
    /\ UNCHANGED <<clientVars, login, handles, routerVars, retryVars, at, cancelled, history>>

Queue(p) == mail[<<at[p], ref[p]>>]

\* tryNextRoute, or a receive of the select: a completion is the result, a
\* failure the error.
Receive(p) ==
    /\ pc[p] \in {"try", "select"} /\ Queue(p) # <<>>
    /\ mail' = [mail EXCEPT ![<<at[p], ref[p]>>] = Tail(@)]
    /\ taken' = [l \in Logins |-> IF Head(Queue(p)) = l
                                  THEN taken[l] \cup {<<p, waits[p], at[p]>>} ELSE taken[l]]
    /\ Goto(p, "unregister")
    /\ UNCHANGED <<clientVars, login, handles, route, gen, retryVars, waitVars, cancelled, waits,
                   shared, ended>>

\* Nothing is queued: the failure that was seen is returned, or the select entered.
TryEmpty(p) ==
    /\ pc[p] = "try" /\ Queue(p) = <<>>
    /\ Goto(p, IF sawFailed[p] THEN "unregister" ELSE "select")
    /\ UNCHANGED <<clientVars, login, handles, routerVars, retryVars, waitVars, cancelled, history>>

SelectCancelled(p) ==
    /\ pc[p] = "select" /\ cancelled[p]
    /\ Goto(p, "unregister")
    /\ UNCHANGED <<clientVars, login, handles, routerVars, retryVars, waitVars, cancelled, history>>

\* The deferred unregisterLogin, by id, and the return.  What is queued in the
\* object that leaves the map is out of reach when no other wait has it.
Unregister(p) ==
    /\ pc[p] = "unregister"
    /\ LET l == at[p]
           alone == \A q \in Procs \ {p} : at[q] # l
       IN  /\ route' = [route EXCEPT ![l] = "closed"]
           /\ gen' = [gen EXCEPT ![l] = @ + 1]
           /\ mail' = [o \in DOMAIN mail \cup {<<l, gen[l] + 1>>} |->
                         IF o \notin DOMAIN mail \/ (alone /\ o[1] = l) THEN <<>> ELSE mail[o]]
           /\ ended' = ended \cup {l}
    /\ at' = [at EXCEPT ![p] = NoLogin] /\ ref' = [ref EXCEPT ![p] = 0]
    /\ sawFailed' = [sawFailed EXCEPT ![p] = FALSE]
    /\ cancelled' = [cancelled EXCEPT ![p] = FALSE] /\ shared' = [shared EXCEPT ![p] = FALSE]
    /\ Goto(p, "idle")
    /\ UNCHANGED <<clientVars, login, handles, retryVars, waits, taken>>

-----------------------------------------------------------------------------
Lifecycle ==
    \/ Resolve \/ Spawn \/ Initialize \/ StartFails \/ Close \/ FailAll \/ Reap
    \/ \E o \in waking : Wake(o)

WaitStep(p) ==
    \/ Lookup(p) \/ Receive(p) \/ TryEmpty(p) \/ SelectCancelled(p) \/ Unregister(p)

Step(p) ==
    \/ BeginLogin(p) \/ CancelContext(p) \/ Attempt(p) \/ LoginBegun(p) \/ LoginFails(p) \/ Overloaded(p)
    \/ NapEnds(p) \/ NapCancelled(p)
    \/ \E l \in Logins : Wait(p, l)
    \/ WaitStep(p)

Next == Lifecycle \/ (\E l \in Logins : Completed(l)) \/ (\E p \in Procs : Step(p))

\* Goroutines that can go on do; FailAll sends what it has to send; Close kills
\* the child when its time is up, and waitLoop then fails the router.
Fairness ==
    /\ \A p \in Procs : WF_vars(WaitStep(p))
    /\ WF_vars(\E o \in waking : Wake(o))
    /\ WF_vars(closed /\ FailAll) /\ WF_vars(closed /\ Reap)
    /\ WF_vars(StartFails)

Spec == Init /\ [][Next]_vars /\ Fairness

-----------------------------------------------------------------------------
(* Properties *)

\* A wait returns only its own login's completion, after the server completed it,
\* and no completion is returned twice; and a completion is never lost before some
\* wait on its handle has ended: it waits in the router, also when it came before
\* the handle was returned, until a wait takes it.
ResultsRight ==
    \A l \in Logins :
        /\ Cardinality(taken[l]) <= 1
        /\ \A t \in taken[l] : t[3] = l /\ login[l] = "completed"
        /\ (login[l] = "completed" /\ l \notin ended) =>
              \/ taken[l] # {}
              \/ l \in {mail[<<l, gen[l]>>][i] : i \in DOMAIN mail[<<l, gen[l]>>]}

\* The initial delay doubled k times.
Doubled[k \in Nat] == IF k = 0 THEN InitialDelay ELSE 2 * Doubled[k - 1]

\* The k-th pause of RetryOnOverload is the initial delay doubled k-1 times, capped at the
\* maximum, give or take the jitter of what is capped; only the first pause has the jitter of
\* the initial delay itself, which may be more than the maximum.  There are never more
\* attempts than allowed.
RetriesRight ==
    \A p \in Procs :
        /\ attempt[p] <= Limit(p)
        /\ pc[p] = "sleep" =>
              LET base   == Least(MaxDelay, Doubled[attempt[p] - 1])
                  spread == JitterPercent * (IF attempt[p] = 1 THEN InitialDelay ELSE base)
              IN  /\ attempt[p] < Limit(p)
                  /\ nap[p] \in 100 * base - spread .. 100 * base + spread

\* When NewClient has returned an error there is no child: either none was started,
\* or it was waited for.
StartLeavesNothing == start = "error" => child \in {"none", "gone"}

Ready(p) == cancelled[p] \/ failed \/ mail[<<at[p], gen[at[p]]>>] # <<>>

\* A wait that shares its handle with no other ends when its context does, when
\* its login completes or when the transport fails, at whatever point of the wait
\* that happens; and a start that failed returns.
WaitsReturn ==
    /\ \A p \in Procs : (pc[p] \in Waiting /\ ~shared[p] /\ Ready(p)) ~>
                            (pc[p] \notin Waiting \/ shared[p])
    /\ start = "closing" ~> start = "error"

\* Every wait ends when the transport fails (acceptance-test-spec.md, RTR-004:
\* "a transport failure wakes every response waiter, login handle, ...").
FailureWakesWaits ==
    \A p \in Procs : (pc[p] \in Waiting /\ failed) ~> pc[p] \notin Waiting
=============================================================================
