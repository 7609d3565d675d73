-------------------------------- MODULE Goal --------------------------------
(***************************************************************************)
(* One goal operation (goal.go), from the point where StartGoal has put it *)
(* into the client's map: the route loop that reads the thread's goal      *)
(* route and keeps the state of the operation, the goroutine that starts   *)
(* the goal and pulls its logical stream, and the goroutine, perhaps       *)
(* another one, that cancels or closes it.  The server works on a goal in  *)
(* physical turns; the stream shows them as one.  The routes are the       *)
(* mailboxes the router promises.                                          *)
(***************************************************************************)
EXTENDS Naturals, Sequences, FiniteSets

CONSTANTS
    Turns,          \* ids of physical turns
    NoTurn,
    Scripts,        \* what a server may send, the end of the old goal included
    GivesUp,        \* may the caller's context end, or a request fail?
    Cancels,        \* may the goal be cancelled or closed?
    Shared,         \* the scripts with which that may happen also while the caller is
                    \* in Next, or goes on to call it
    Breaks          \* may the transport fail?

Terminal == {"paused", "complete"}
Notifications ==
    [m : {"updated"}, t : Turns \cup {NoTurn}, s : {"active", "invalid"} \cup Terminal]
    \cup [m : {"cleared"}, t : {NoTurn}, s : {"none", "old"}]
    \cup [m : {"started", "item", "completed", "failed"}, t : Turns, s : {"none"}]

ASSUME GoalAssumption ==
    /\ NoTurn \notin Turns /\ {GivesUp, Cancels, Breaks} \subseteq BOOLEAN
    /\ Scripts \subseteq Seq(Notifications) /\ Shared \subseteq Scripts

VARIABLES
    script, sent,               \* the server: what it sends, how much it has sent
    goal, active, interrupted,  \* the goal it has, the turn that runs, and the
                                \* turns it was asked to interrupt
    down,                       \* the transport has failed
    goalQ, turnQ, turnRoute,    \* the mailboxes of the thread's goal and the turns
    logical, current, last, pending, status, cleared, failed, signal,
                                \* goalOperation
    registered, loop, got,      \* the route loop: registeredTurns, where it is,
                                \* the notification it works on
    closed,                     \* closeRoute has been called
    upc, next, turn, streaming, \* the caller: where it is, the turn it is to go on
                                \* with, the stream's turn, has it a TurnStream
    delivered,                  \* the events it has got
    outcome,
    hpc, target, cancelled      \* the goroutine in CancelContext or Close: where it
                                \* is, the turn it interrupts, were its requests
                                \* answered?

serverVars == <<script, sent, goal, active, interrupted, down>>
stateVars  == <<logical, current, last, pending, status, cleared, failed, signal>>
loopVars   == <<registered, loop, got>>
userVars   == <<upc, next, turn, streaming, delivered, outcome>>
handleVars == <<hpc, target, cancelled>>
vars == <<serverVars, goalQ, turnQ, turnRoute, stateVars, loopVars, closed, userVars,
          handleVars>>

None == [m |-> "none", t |-> NoTurn, s |-> "none"]

-----------------------------------------------------------------------------
(* The router's mailboxes, as far as a goal uses them *)

\* A notification with a turn goes to the turn's mailbox, registered or not; one
\* that matters to a goal goes to the goal's, too.
Route(n) ==
    /\ turnQ' = IF n.t \in Turns /\ turnRoute[n.t] # "closed"
                THEN [turnQ EXCEPT ![n.t] = Append(@, n)] ELSE turnQ
    /\ goalQ' = IF n.m # "item" /\ ~closed THEN Append(goalQ, n) ELSE goalQ

\* After a failure nothing is registered any more, and nobody is told.
RegisterTurn(t) ==
    turnRoute' = IF down THEN turnRoute ELSE [turnRoute EXCEPT ![t] = "open"]

UnregisterTurn(t) ==
    /\ turnRoute' = [turnRoute EXCEPT ![t] = "closed"]
    /\ turnQ' = [turnQ EXCEPT ![t] = <<>>]

-----------------------------------------------------------------------------
(* The server (external) *)

\* The old goal is cleared by thread/goal/clear; all the rest follows thread/goal/set.
Server ==
    /\ ~down /\ sent < Len(script)
    /\ LET n == script[sent + 1] IN
         /\ goal # "unset" \/ n.s = "old"
         /\ goal = "paused" => n.t = active \/ n.t = NoTurn
         /\ Route(n)
         /\ active' = CASE n.m = "started" -> n.t
                        [] n.m \in {"completed", "failed"} -> NoTurn
                        [] OTHER -> active
    /\ sent' = sent + 1
    /\ UNCHANGED <<script, goal, interrupted, down, turnRoute, stateVars, loopVars,
                   closed, userVars, handleVars>>

\* The queues that are registered get the error as their last item.
TransportFails ==
    /\ Breaks /\ ~down
    /\ down' = TRUE
    /\ UNCHANGED <<script, sent, goal, active, interrupted, goalQ, turnQ, turnRoute,
                   stateVars, loopVars, closed, userVars, handleVars>>

-----------------------------------------------------------------------------
(* routeLoop *)

Notify == signal' = TRUE

\* nextGoal looks up the route ...
LoopCall ==
    /\ loop = "call"
    /\ IF closed
       THEN /\ loop' = "done"
            /\ failed' = TRUE /\ Notify
       ELSE loop' = "select" /\ UNCHANGED <<failed, signal>>
    /\ UNCHANGED <<serverVars, goalQ, turnQ, turnRoute, logical, current, last, pending,
                   status, cleared, registered, got, closed, userVars, handleVars>>

\* ... and receives from it.  A turn is registered before anybody is told of it.
LoopReceive ==
    /\ loop = "select" /\ goalQ # <<>>
    /\ goalQ' = Tail(goalQ)
    /\ got' = Head(goalQ)
    /\ LET t == IF got'.m \in {"updated", "started"} THEN got'.t ELSE NoTurn IN
         /\ registered' = registered \cup ({t} \ {NoTurn})
         /\ loop' = IF t \in Turns \ registered THEN "register" ELSE "observe"
    /\ UNCHANGED <<serverVars, turnQ, turnRoute, stateVars, closed, userVars, handleVars>>

LoopRegister ==
    /\ loop = "register"
    /\ RegisterTurn(got.t)
    /\ loop' = "observe"
    /\ UNCHANGED <<serverVars, goalQ, turnQ, stateVars, registered, got, closed, userVars,
                   handleVars>>

\* noteTurnID
NoteTurnID(t) ==
    /\ logical' = IF logical = NoTurn THEN t ELSE logical
    /\ current' = t /\ last' = t
    /\ pending' = IF logical \in {NoTurn, t} \/ \E i \in DOMAIN pending : pending[i] = t
                  THEN pending ELSE Append(pending, t)

Completed(t) ==
    IF current = t THEN current' = NoTurn /\ last' = t ELSE UNCHANGED <<current, last>>

\* observeGoalNotification
ObserveGoalNotification(n) ==
    \/ /\ n.m = "updated" /\ n.s = "invalid"
       /\ failed' = TRUE
       /\ UNCHANGED <<logical, current, last, pending, status, cleared>>
    \/ /\ n.m = "updated" /\ n.s # "invalid"
       /\ status' = n.s
       /\ cleared' = (cleared /\ n.s # "active")
       /\ IF n.t # NoTurn THEN NoteTurnID(n.t)
          ELSE UNCHANGED <<logical, current, last, pending>>
       /\ UNCHANGED failed
    \/ /\ n.m = "cleared"
       /\ cleared' = TRUE
       /\ UNCHANGED <<logical, current, last, pending, status, failed>>
    \/ /\ n.m = "started"
       /\ NoteTurnID(n.t)
       /\ UNCHANGED <<status, cleared, failed>>
    \/ /\ n.m \in {"completed", "failed"}
       /\ Completed(n.t)
       /\ UNCHANGED <<logical, pending, status, cleared, failed>>

LoopObserve ==
    /\ loop = "observe"
    /\ ObserveGoalNotification(got) /\ Notify
    /\ loop' = "call" /\ got' = None
    /\ UNCHANGED <<serverVars, goalQ, turnQ, turnRoute, registered, closed, userVars,
                   handleVars>>

\* The transport's error is all that is left in the queue.
LoopFails ==
    /\ loop = "select" /\ goalQ = <<>> /\ down
    /\ loop' = "done"
    /\ failed' = TRUE /\ Notify
    /\ UNCHANGED <<serverVars, goalQ, turnQ, turnRoute, logical, current, last, pending,
                   status, cleared, registered, got, closed, userVars, handleVars>>

\* The context of the loop ends.
LoopCancelled ==
    /\ loop = "select" /\ closed
    /\ loop' = "done"
    /\ UNCHANGED <<serverVars, goalQ, turnQ, turnRoute, stateVars, registered, got, closed,
                   userVars, handleVars>>

-----------------------------------------------------------------------------
(* StartGoal, under the thread's lock *)

Goto(label) == upc' = label /\ UNCHANGED <<next, turn, streaming, delivered, outcome>>

\* The handle is closed and the call that closes it returns r.
End(r) ==
    /\ upc' = "close" /\ outcome' = r
    /\ UNCHANGED <<next, turn, streaming, delivered>>

\* StartGoal returns r when it has cancelled the operation and given up its route.
CleanUp(r) ==
    /\ upc' = "join" /\ outcome' = r /\ hpc' = "pause"
    /\ UNCHANGED <<next, turn, streaming, delivered, target, cancelled>>

ClearGoal ==
    /\ upc = "clear" /\ ~down
    /\ Goto("set")
    /\ UNCHANGED <<serverVars, goalQ, turnQ, turnRoute, stateVars, loopVars, closed,
                   handleVars>>

SetGoal ==
    /\ upc = "set" /\ ~down
    /\ goal' = "active"
    /\ Goto("await")
    /\ UNCHANGED <<script, sent, active, interrupted, down, goalQ, turnQ, turnRoute,
                   stateVars, loopVars, closed, handleVars>>

\* Mutant: a goal has only ended when it has been cleared.
EndedCleared == cleared

\* goalTerminal
Ended == cleared \/ status \in Terminal

\* Mutant: the end of the goal is looked for before its turn.
AwaitStartEndFirst ==
    /\ upc = "await"
    /\ \/ Ended /\ CleanUp("no turn")
       \/ ~Ended /\ logical # NoTurn /\ Goto("idle") /\ UNCHANGED handleVars
       \/ ~Ended /\ logical = NoTurn /\ Goto("waitStart") /\ UNCHANGED handleVars
    /\ UNCHANGED <<serverVars, goalQ, turnQ, turnRoute, stateVars, loopVars, closed>>

\* awaitStart; any error leads to the cleanup of StartGoal.
AwaitStart ==
    /\ upc = "await"
    /\ \/ failed /\ CleanUp("error")
       \/ ~failed /\ logical # NoTurn /\ Goto("idle") /\ UNCHANGED handleVars
       \/ ~failed /\ logical = NoTurn /\ Ended /\ CleanUp("no turn")
       \/ ~failed /\ logical = NoTurn /\ ~Ended /\ Goto("waitStart") /\ UNCHANGED handleVars
    /\ UNCHANGED <<serverVars, goalQ, turnQ, turnRoute, stateVars, loopVars, closed>>

Signalled(from, to) ==
    /\ upc = from /\ signal
    /\ signal' = FALSE
    /\ Goto(to)

StartSignalled ==
    /\ Signalled("waitStart", "await")
    /\ UNCHANGED <<serverVars, goalQ, turnQ, turnRoute, logical, current, last, pending,
                   status, cleared, failed, loopVars, closed, handleVars>>

\* thread/goal/clear or thread/goal/set fails, or its answer is not awaited.
StartFails ==
    /\ upc \in {"clear", "set"} /\ (GivesUp \/ down)
    /\ goal' \in (IF upc = "set" /\ ~down THEN {"unset", "active"} ELSE {"unset"})
    /\ CleanUp("error")
    /\ UNCHANGED <<script, sent, active, interrupted, down, goalQ, turnQ, turnRoute,
                   stateVars, loopVars, closed>>

\* The context ends or 30 seconds have passed.
StartGivesUp ==
    /\ upc = "waitStart"
    /\ CleanUp("error")
    /\ UNCHANGED <<serverVars, goalQ, turnQ, turnRoute, stateVars, loopVars, closed>>

-----------------------------------------------------------------------------
(* GoalStream.Next *)

\* The stream opens a TurnStream for the turn it is to go on with.
StreamNext ==
    /\ upc = "idle"
    /\ upc' = "read" /\ streaming' = TRUE
    /\ turn' = IF turn = NoTurn THEN logical ELSE turn
    /\ UNCHANGED <<serverVars, goalQ, turnQ, turnRoute, stateVars, loopVars, closed, next,
                   delivered, outcome, handleVars>>

\* An event of the turn: what follows depends on its kind.
StreamRead ==
    /\ upc = "read" /\ turnRoute[turn] = "open" /\ turnQ[turn] # <<>>
    /\ LET n == Head(turnQ[turn]) IN
         \/ /\ n.m = "started" /\ turn # logical
            /\ turnQ' = [turnQ EXCEPT ![turn] = Tail(@)]
            /\ UNCHANGED <<turnRoute, upc, streaming, delivered, outcome>>
         \/ /\ n.m \in {"updated", "item"} \/ (n.m = "started" /\ turn = logical)
            /\ turnQ' = [turnQ EXCEPT ![turn] = Tail(@)]
            /\ delivered' = Append(delivered, n)
            /\ upc' = "idle"
            /\ UNCHANGED <<turnRoute, streaming, outcome>>
         \/ /\ n.m \in {"completed", "failed"}
            /\ UnregisterTurn(turn)
            /\ streaming' = FALSE
            /\ upc' = IF n.m = "failed" THEN "finishFailed" ELSE "finish"
            /\ UNCHANGED <<delivered, outcome>>
    /\ UNCHANGED <<serverVars, goalQ, stateVars, loopVars, closed, next, turn,
                   handleVars>>

\* The turn is not registered, or its queue has come to the transport's error.
StreamFails ==
    /\ upc = "read"
    /\ turnRoute[turn] # "open" \/ (down /\ turnQ[turn] = <<>>)
    /\ UnregisterTurn(turn)
    /\ upc' = "close" /\ outcome' = "error" /\ streaming' = FALSE
    /\ UNCHANGED <<serverVars, goalQ, stateVars, loopVars, closed, next, turn, delivered,
                   handleVars>>

\* finishPhysicalTurn
FinishPhysicalTurn ==
    /\ upc \in {"finish", "finishFailed"}
    /\ current' = IF current = turn THEN NoTurn ELSE current
    /\ Notify
    /\ \/ upc = "finish" /\ Goto("continue")
       \/ /\ upc = "finishFailed" /\ upc' = "close" /\ outcome' = "end"
          /\ delivered' = Append(delivered, [m |-> "failed", t |-> turn, s |-> "none"])
          /\ UNCHANGED <<next, turn, streaming>>
    /\ UNCHANGED <<serverVars, goalQ, turnQ, turnRoute, logical, last, pending, status,
                   cleared, failed, loopVars, closed, handleVars>>

NextPending == IF pending = <<>> THEN NoTurn ELSE Head(pending)

\* Mutant: the end of the goal is looked for before further turns.
AwaitContinuationEndFirst ==
    /\ upc = "continue"
    /\ \/ failed /\ End("error")
       \/ /\ ~failed /\ Ended
          /\ upc' = "close" /\ outcome' = "end"
          /\ delivered' = Append(delivered, [m |-> "completed", t |-> turn, s |-> "none"])
          /\ UNCHANGED <<next, turn, streaming>>
       \/ /\ ~failed /\ ~Ended /\ NextPending \notin {NoTurn, turn}
          /\ next' = NextPending /\ upc' = "pop"
          /\ UNCHANGED <<turn, streaming, delivered, outcome>>
       \/ /\ ~failed /\ ~Ended /\ NextPending \in {NoTurn, turn}
          /\ Goto("waitTurn")
    /\ UNCHANGED <<serverVars, goalQ, turnQ, turnRoute, stateVars, loopVars, closed,
                   handleVars>>

\* awaitContinuation decides under the mutex ...
AwaitContinuation ==
    /\ upc = "continue"
    /\ \/ failed /\ End("error")
       \/ /\ ~failed /\ NextPending \notin {NoTurn, turn}
          /\ next' = NextPending /\ upc' = "pop"
          /\ UNCHANGED <<turn, streaming, delivered, outcome>>
       \/ /\ ~failed /\ NextPending = NoTurn /\ current = NoTurn /\ Ended
          /\ upc' = "close" /\ outcome' = "end"
          /\ delivered' = Append(delivered, [m |-> "completed", t |-> turn, s |-> "none"])
          /\ UNCHANGED <<next, turn, streaming>>
       \/ /\ ~failed
          /\ NextPending = turn \/ (NextPending = NoTurn /\ (current # NoTurn \/ ~Ended))
          /\ Goto("waitTurn")
    /\ UNCHANGED <<serverVars, goalQ, turnQ, turnRoute, stateVars, loopVars, closed,
                   handleVars>>

\* ... and takes the turn from the list when it has it again.
PopTurn ==
    /\ upc = "pop"
    /\ pending' = IF NextPending = next THEN Tail(pending) ELSE pending
    /\ Goto("register")
    /\ UNCHANGED <<serverVars, goalQ, turnQ, turnRoute, logical, current, last, status,
                   cleared, failed, signal, loopVars, closed, handleVars>>

RegisterNext ==
    /\ upc = "register"
    /\ RegisterTurn(next)
    /\ upc' = "read" /\ turn' = next /\ streaming' = TRUE /\ next' = NoTurn
    /\ UNCHANGED <<serverVars, goalQ, turnQ, stateVars, loopVars, closed, delivered, outcome,
                   handleVars>>

ContinuationSignalled ==
    /\ Signalled("waitTurn", "continue")
    /\ UNCHANGED <<serverVars, goalQ, turnQ, turnRoute, logical, current, last, pending,
                   status, cleared, failed, loopVars, closed, handleVars>>

\* The caller's context ends.
StreamGivesUp ==
    /\ GivesUp /\ upc \in {"read", "waitTurn"}
    /\ IF upc = "read" THEN UnregisterTurn(turn) ELSE UNCHANGED <<turnQ, turnRoute>>
    /\ upc' = "close" /\ outcome' = "error" /\ streaming' = FALSE
    /\ UNCHANGED <<serverVars, goalQ, stateVars, loopVars, closed, next, turn, delivered,
                   handleVars>>

-----------------------------------------------------------------------------
(* cancelGoalOperation and GoalHandle.Close *)

\* The goroutine at hpc goes on to label.
HandleTo(label) == hpc' = label /\ UNCHANGED <<target, cancelled>>

\* GoalHandle's methods are called by the goroutine that pulls the stream, between two
\* calls of Next, or by any other one.
Called ==
    /\ Cancels /\ hpc = "none" /\ upc \notin {"clear", "set", "await", "waitStart"}
    /\ \/ upc = "idle" /\ upc' = "join" /\ outcome' = "left"
       \/ script \in Shared /\ UNCHANGED <<upc, outcome>>
    /\ UNCHANGED <<serverVars, goalQ, turnQ, turnRoute, stateVars, loopVars, closed, next,
                   turn, streaming, delivered, target>>

CancelBegins == Called /\ hpc' = "pause" /\ cancelled' = "yes"
CloseBegins  == Called /\ hpc' = "close" /\ UNCHANGED cancelled

\* A request of the clean-up that fails is not reported: cancelled remembers it.
Unheard == IF cancelled = "yes" THEN "unheard" ELSE cancelled

PauseGoal ==
    /\ hpc = "pause" /\ hpc' = "target"
    /\ \/ ~down /\ goal' = "paused" /\ UNCHANGED cancelled
       \/ (GivesUp \/ down) /\ cancelled' = Unheard /\ UNCHANGED goal
    /\ UNCHANGED <<script, sent, active, interrupted, down, goalQ, turnQ, turnRoute,
                   stateVars, loopVars, closed, userVars, target>>

\* interruptTarget
InterruptTarget ==
    /\ hpc = "target"
    /\ target' = IF current # NoTurn THEN current ELSE last
    /\ hpc' = IF target' = NoTurn THEN "close" ELSE "interrupt"
    /\ UNCHANGED <<serverVars, goalQ, turnQ, turnRoute, stateVars, loopVars, closed, userVars,
                   cancelled>>

\* Mutant: the answer of the server is not looked at.
InterruptOnce ==
    /\ hpc = "interrupt" /\ ~down
    /\ interrupted' = interrupted \cup ({target} \cap {active})
    /\ HandleTo("close")
    /\ UNCHANGED <<script, sent, goal, active, down, goalQ, turnQ, turnRoute, stateVars,
                   loopVars, closed, userVars>>

\* turn/interrupt: a server that has another turn names it in its answer ...
Interrupt ==
    /\ hpc = "interrupt" /\ ~down
    /\ interrupted' = interrupted \cup ({target} \cap {active})
    /\ IF active \in {NoTurn, target} THEN HandleTo("close")
       ELSE hpc' = "note" /\ target' = active /\ UNCHANGED cancelled
    /\ UNCHANGED <<script, sent, goal, active, down, goalQ, turnQ, turnRoute, stateVars,
                   loopVars, closed, userVars>>

\* ... which becomes the operation's turn ...
NoteMismatch ==
    /\ hpc = "note"
    /\ current' = target /\ last' = target
    /\ HandleTo("again")
    /\ UNCHANGED <<serverVars, goalQ, turnQ, turnRoute, logical, pending, status, cleared,
                   failed, signal, loopVars, closed, userVars>>

\* ... and is interrupted, whatever the answer.
InterruptAgain ==
    /\ hpc = "again" /\ ~down
    /\ interrupted' = interrupted \cup ({target} \cap {active})
    /\ HandleTo("close")
    /\ UNCHANGED <<script, sent, goal, active, down, goalQ, turnQ, turnRoute, stateVars,
                   loopVars, closed, userVars>>

\* The 5 seconds have passed, or the request fails.
InterruptFails ==
    /\ GivesUp \/ down
    /\ hpc \in {"interrupt", "again"}
    /\ hpc' = "close" /\ cancelled' = Unheard
    /\ UNCHANGED <<serverVars, goalQ, turnQ, turnRoute, stateVars, loopVars, closed, userVars,
                   target>>

\* unregisterGoal: the loop's context is cancelled and the route unregistered ...
Close ==
    /\ closed' = TRUE
    /\ \/ upc = "close" /\ Goto("join") /\ UNCHANGED handleVars
       \/ hpc = "close" /\ HandleTo("join") /\ UNCHANGED userVars
    /\ UNCHANGED <<serverVars, goalQ, turnQ, turnRoute, stateVars, loopVars>>

\* ... and the loop awaited, by all that close the goal.
Join ==
    /\ closed /\ loop = "done"
    /\ \/ upc = "join" /\ Goto("done") /\ UNCHANGED handleVars
       \/ hpc = "join" /\ HandleTo("done") /\ UNCHANGED userVars
    /\ UNCHANGED <<serverVars, goalQ, turnQ, turnRoute, stateVars, loopVars, closed>>

-----------------------------------------------------------------------------
Init ==
    /\ script \in Scripts /\ sent = 0
    /\ goal = "unset" /\ down = FALSE /\ active = NoTurn /\ interrupted = {}
    /\ goalQ = <<>> /\ turnQ = [t \in Turns |-> <<>>]
    /\ turnRoute = [t \in Turns |-> "none"]
    /\ logical = NoTurn /\ current = NoTurn /\ last = NoTurn /\ pending = <<>>
    /\ status = "none" /\ cleared = FALSE /\ failed = FALSE /\ signal = FALSE
    /\ registered = {} /\ loop = "call" /\ got = None
    /\ closed = FALSE
    /\ upc = "clear" /\ next = NoTurn /\ turn = NoTurn /\ streaming = FALSE
    /\ delivered = <<>> /\ outcome = "none"
    /\ hpc = "none" /\ target = NoTurn /\ cancelled = "no"

RouteLoop ==
    \/ LoopCall \/ LoopReceive \/ LoopRegister \/ LoopObserve \/ LoopFails \/ LoopCancelled

Caller ==
    \/ ClearGoal \/ SetGoal \/ StartFails \/ AwaitStart \/ StartSignalled
    \/ StreamNext \/ StreamRead \/ StreamFails \/ FinishPhysicalTurn
    \/ AwaitContinuation \/ PopTurn \/ RegisterNext \/ ContinuationSignalled

Closer ==
    \/ PauseGoal \/ InterruptTarget \/ Interrupt \/ NoteMismatch \/ InterruptAgain
    \/ InterruptFails \/ Close \/ Join

Choices == StartGivesUp \/ StreamGivesUp \/ CancelBegins \/ CloseBegins

Returned == "done" \in {upc, hpc} /\ UNCHANGED vars

Next == Server \/ TransportFails \/ RouteLoop \/ Caller \/ Closer \/ Choices \/ Returned

Spec == Init /\ [][Next]_vars

\* The goroutines run, the timer of awaitStart fires, and the server goes on with
\* a goal until it is paused.
Fairness ==
    /\ WF_vars(Server) /\ WF_vars(RouteLoop) /\ WF_vars(Caller) /\ WF_vars(Closer)
    /\ WF_vars(StartGivesUp)

FairSpec == Spec /\ Fairness

-----------------------------------------------------------------------------
(* Properties *)

\* Type invariant.
TypeOK ==
    /\ script \in Scripts /\ sent \in 0 .. Len(script)
    /\ goal \in {"unset", "active", "paused"} /\ down \in BOOLEAN
    /\ interrupted \subseteq Turns
    /\ {active, logical, current, last, next, turn} \subseteq Turns \cup {NoTurn}
    /\ goalQ \in Seq(Notifications) /\ turnQ \in [Turns -> Seq(Notifications)]
    /\ turnRoute \in [Turns -> {"none", "open", "closed"}]
    /\ pending \in Seq(Turns) /\ status \in {"none", "active"} \cup Terminal
    /\ {cleared, failed, signal, closed, streaming} \subseteq BOOLEAN
    /\ registered \subseteq Turns /\ got \in Notifications \cup {None}
    /\ loop \in {"call", "select", "register", "observe", "done"}
    /\ upc \in {"clear", "set", "await", "waitStart", "idle", "read", "finish",
                "finishFailed", "continue", "waitTurn", "pop", "register", "close",
                "join", "done"}
    /\ delivered \in Seq(Notifications)
    /\ outcome \in {"none", "error", "no turn", "end", "left"}
    /\ hpc \in {"none", "pause", "target", "interrupt", "note", "again", "close", "join",
                "done"}
    /\ target \in Turns \cup {NoTurn} /\ cancelled \in {"no", "yes", "unheard"}

TurnsOf(s) == SelectSeq(s, LAMBDA n : n.t # NoTurn)

\* q is what the server has at the positions S of its script, in order.
Lists(q, S) ==
    /\ Len(q) = Cardinality(S)
    /\ \A k \in S : q[Cardinality({j \in S : j =< k})] = script[k]

\* What one logical turn shows of its physical turns, up to position p: the beginning
\* of the first, the end of the last, and everything in between.
Shown(p) ==
    {k \in 1 .. p :
        /\ script[k].t # NoTurn
        /\ script[k].m = "started" => \A j \in 1 .. k : script[j].t \in {NoTurn, script[k].t}
        /\ script[k].m = "completed" =>
              \A j \in k .. Len(script) : script[j].t \in {NoTurn, script[k].t}}

\* "multiple runtime continuation turns are exposed as one logical goal stream in
\* order": whatever the route loop and the stream see first, the events the
\* caller has got are those of the server, in order, without a gap, and the
\* stream ends normally only after the last event of the last turn.
InOrder ==
    /\ \E p \in 0 .. sent : Lists(delivered, Shown(p))
    /\ outcome = "end" => Lists(delivered, Shown(Len(script)))

\* "If the active turn changes, retry uses the server-reported/current turn ID":
\* a goal cancelled while the server answers leaves no turn running, wherever the
\* caller is in Next, and although the route loop may not have heard of the turn yet.
CancelStopsTurns ==
    cancelled = "yes" /\ hpc \in {"close", "join", "done"} /\ ~down
       => active \in interrupted \cup {NoTurn}

\* A notification that names a turn to the route loop, one that renews the goal's status,
\* and one that ends the goal.
Names(n)    == n.m \in {"updated", "started"} /\ n.s # "invalid" /\ n.t # NoTurn
Renews(n)   == n.m = "updated" /\ n.s # "invalid"
Finishes(n) == (n.m = "cleared" /\ n.s # "old") \/ n.s \in Terminal

\* A server that announces the end of the old goal, if at all, before everything else,
\* and, if it has a turn for the goal, names it before it ends the goal.
OldFirst(s) == \A i \in 1 .. Len(s) : s[i].s = "old" => i = 1
AnnouncesFirst(s) ==
    /\ OldFirst(s)
    /\ \A i \in 1 .. Len(s) : Finishes(s[i]) =>
          TurnsOf(s) = <<>> \/ \E j \in 1 .. i : Names(s[j])

\* A server that works on one turn after the other, ends the goal only when it has named
\* all its turns, has no turn after one that failed, and after the end of the old goal
\* gives the new one's status before it names a turn.
Orderly(s) ==
    /\ \A i, k \in 1 .. Len(s) : i < k /\ s[i].t = s[k].t /\ s[i].t # NoTurn =>
          \A j \in i .. k : s[j].t \in {NoTurn, s[i].t}
    /\ \A i, k \in 1 .. Len(s) : i < k =>
          /\ s[i].m \in {"completed", "failed"} => s[k].t # s[i].t
          /\ s[i].m = "failed" => s[k].t = NoTurn
    /\ \A k \in 1 .. Len(s) : s[k].t # NoTurn =>
          /\ \E j \in 1 .. Len(s) : Names(s[j]) /\ s[j].t = s[k].t
          /\ \A i \in 1 .. Len(s) : Finishes(s[i]) =>
                \E j \in 1 .. i : Names(s[j]) /\ s[j].t = s[k].t
    /\ \A i, k \in 1 .. Len(s) : s[i].s = "old" /\ Names(s[k]) =>
          \E j \in i .. k : Renews(s[j])

\* "A physical turn emitted immediately by thread/goal/set is observed": StartGoal reports
\* that the goal ended without a turn only if it has none, even when the turn and the end
\* of the goal reach the route loop before awaitStart looks for either.  The end of the old
\* goal may deceive it, but only as long as the route loop has heard nothing of the new one.
StartFindsTurn ==
    [][outcome' = "no turn" /\ outcome # "no turn" =>
          \/ TurnsOf(script) = <<>>
          \/ status = "none" /\ \E i \in 1 .. sent : script[i].s = "old"]_vars

\* The same without the exception: it does not hold.
StartObservesTurn == outcome = "no turn" => TurnsOf(script) = <<>>

\* "success, failure, timeout, cancellation, ... each finish ... with no goroutine or waiter
\* leak": the route loop comes to its end, StartGoal returns, with a handle or with the goal
\* cleaned up, also when no turn comes, and a caller that pulls the stream comes to its end.
\* It takes a server that names a continuation once; and when another goroutine has closed
\* the goal, that one returns and the caller may stay in Next.
GoalEnds == <>(loop = "done" /\ (upc = "done" \/ (hpc = "done" /\ upc # "join")))

\* The same for the caller, whoever closes the goal: it does not hold.
CallerEnds == <>(upc = "done")

=============================================================================
