----------------------------- MODULE AppServer ------------------------------
(***************************************************************************)
(* The life of appserver.Client (internal/appserver/client.go): Start,     *)
(* Close and the goroutines they own.  The read loop scans the child's     *)
(* stdout and hands server requests to a pool of workers through a bounded *)
(* queue; the wait loop reaps the child, cancels and joins the workers,    *)
(* fails the router and closes waitDone; Close asks, interrupts and kills. *)
(* Responses and notifications are in Requests.tla and Router.tla: here    *)
(* they are lines without an effect and are left out.                      *)
(***************************************************************************)
EXTENDS Naturals, Sequences, FiniteSets, SequencesExt

CONSTANTS
    Callers,                   \* goroutines that call Start and Close
    ServerRequests,            \* the requests of the child: it numbers them
    Bad,                       \* a line the read loop fails on
    NoRequest,
    Workers,                   \* server request workers: enough to exceed the limit
    MaxServerRequestHandlers,
    MaxLines                   \* bound on the lines the child writes

ASSUME AppServerAssumption ==
    /\ MaxServerRequestHandlers \in Nat \ {0}
    /\ MaxLines \in Nat /\ ServerRequests \in SUBSET Nat
    /\ IsFiniteSet(Workers) /\ Cardinality(Workers) > MaxServerRequestHandlers
    /\ Bad \notin ServerRequests /\ NoRequest \notin ServerRequests

Lines == ServerRequests \cup {Bad}

VARIABLES
    started, closed,           \* c.started, c.closed
    init,                      \* c.initOnce and its outcome
    proc, signal,              \* the child and what Close sent to it
    eof,                       \* the write end of its stdout is closed
    stdin,                     \* the write end of its stdin is open
    stdout,                    \* lines in its stdout pipe
    stdoutOpen,                \* the read end of that pipe is open
    scanned,                   \* lines in the scanner's buffer
    rpc,                       \* the read loop
    queue, queueOpen,          \* c.serverRequests
    workerCount, wpc, wreq,    \* the workers and the request of each
    cancelled,                 \* c.handlerCtx is done
    waitpc, waitDone,          \* the wait loop and its channel
    failed,                    \* the router has been failed
    pc, outcome,               \* the callers
    sent, answered,            \* the child: requests sent, answers received
    panicked                   \* a send on a closed channel

clientVars == <<started, closed, init>>
childVars  == <<proc, signal, eof, sent, answered>>
readVars   == <<stdout, stdoutOpen, scanned, rpc>>
workVars   == <<workerCount, wpc, wreq>>
callVars   == <<pc, outcome>>
vars == <<clientVars, childVars, stdin, readVars, queue, queueOpen, workVars,
          cancelled, waitpc, waitDone, failed, callVars, panicked>>

Goto(c, label) == pc' = [pc EXCEPT ![c] = label] /\ UNCHANGED outcome

Return(c, what) ==
    /\ pc' = [pc EXCEPT ![c] = "done"]
    /\ outcome' = [outcome EXCEPT ![c] = what]

-----------------------------------------------------------------------------
(* Start *)

StartProcess(c) ==
    /\ pc[c] = "idle"
    /\ Goto(c, "init")
    /\ started' = TRUE
    /\ IF started THEN UNCHANGED <<proc, stdin, stdoutOpen, rpc, waitpc, closed>>
       ELSE /\ closed' = FALSE
            /\ proc' = "running" /\ stdin' = TRUE /\ stdoutOpen' = TRUE
            /\ rpc' = "scan" /\ waitpc' = "wait"
    /\ UNCHANGED <<init, signal, eof, sent, answered, stdout, scanned, queue,
                   queueOpen, workVars, cancelled, waitDone, failed, panicked>>

\* The executable cannot be started: nothing has changed and Start may be
\* called again.
LaunchFails(c) ==
    /\ pc[c] = "idle" /\ ~started
    /\ Return(c, "notLaunched")
    /\ UNCHANGED <<clientVars, childVars, stdin, readVars, queue, queueOpen,
                   workVars, cancelled, waitpc, waitDone, failed, panicked>>

InitStep(c, label, state) ==
    /\ Goto(c, label)
    /\ init' = state
    /\ UNCHANGED <<started, closed, childVars, stdin, readVars, queue, queueOpen,
                   workVars, cancelled, waitpc, waitDone, failed, panicked>>

\* initOnce: the first caller runs initialize, whose Request refuses a closed
\* client; the others wait for it.
InitBegin(c) ==
    /\ pc[c] = "init" /\ init = "none"
    /\ InitStep(c, IF closed THEN "init" ELSE "initializing",
                IF closed THEN "error" ELSE "running")

\* The response has arrived and "initialized" can be sent.
InitSucceeds(c) ==
    /\ pc[c] = "initializing" /\ ~closed
    /\ InitStep(c, "init", "ok")

\* The context is done, the metadata is incomplete, the transport has failed or
\* the client is closed.
InitFails(c) == pc[c] = "initializing" /\ InitStep(c, "init", "error")

\* Start returns, through Close when initialize failed.
InitDone(c) ==
    /\ pc[c] = "init" /\ init \in {"ok", "error"}
    /\ outcome' = [outcome EXCEPT ![c] = IF init = "ok" THEN "started"
                                         ELSE "initFailed"]
    /\ pc' = [pc EXCEPT ![c] = IF init = "ok" THEN "ready" ELSE "close"]
    /\ UNCHANGED <<clientVars, childVars, stdin, readVars, queue, queueOpen,
                   workVars, cancelled, waitpc, waitDone, failed, panicked>>

-----------------------------------------------------------------------------
(* Close *)

CloseBegin(c) ==
    /\ pc[c] \in {"idle", "ready"}
    /\ pc' = [pc EXCEPT ![c] = "close"]
    /\ outcome' = [outcome EXCEPT ![c] = "closing"]
    /\ UNCHANGED <<clientVars, childVars, stdin, readVars, queue, queueOpen,
                   workVars, cancelled, waitpc, waitDone, failed, panicked>>

\* Mutant: a second Close does not wait for the first.
CloseMarkReturns(c) ==
    /\ pc[c] = "close"
    /\ IF started /\ ~closed THEN Goto(c, "input") /\ closed' = TRUE
       ELSE /\ Return(c, IF started THEN "closed" ELSE "notStarted")
            /\ UNCHANGED closed
    /\ UNCHANGED <<started, init, childVars, stdin, readVars, queue, queueOpen,
                   workVars, cancelled, waitpc, waitDone, failed, panicked>>

\* The critical section: a client that was not started has nothing to close,
\* a second Close only waits.
CloseMark(c) ==
    /\ pc[c] = "close"
    /\ IF started THEN Goto(c, IF closed THEN "join" ELSE "input")
       ELSE Return(c, "notStarted")
    /\ closed' = (closed \/ started)
    /\ UNCHANGED <<started, init, childVars, stdin, readVars, queue, queueOpen,
                   workVars, cancelled, waitpc, waitDone, failed, panicked>>

\* stdin.Close and handlerCancel.
CloseInput(c) ==
    /\ pc[c] = "input"
    /\ Goto(c, "grace")
    /\ stdin' = FALSE /\ cancelled' = TRUE
    /\ UNCHANGED <<clientVars, childVars, readVars, queue, queueOpen, workVars,
                   waitpc, waitDone, failed, panicked>>

\* Mutant: the child is interrupted and never killed.
EscalateOnce(c) ==
    /\ pc[c] \in {"grace", "kill"}
    /\ Goto(c, "join")
    /\ waitDone \/ signal' = "interrupt"
    /\ waitDone => UNCHANGED signal
    /\ UNCHANGED <<clientVars, proc, eof, sent, answered, stdin, readVars, queue,
                   queueOpen, workVars, cancelled, waitpc, waitDone, failed,
                   panicked>>

\* Each of the two selects of Close: waitDone, or the interval is over and the
\* child is interrupted, then killed.
Escalate(c) ==
    /\ pc[c] \in {"grace", "kill"}
    /\ Goto(c, IF pc[c] = "grace" THEN "kill" ELSE "join")
    /\ \/ waitDone /\ UNCHANGED signal
       \/ signal' = IF pc[c] = "grace" THEN "interrupt" ELSE "kill"
    /\ UNCHANGED <<clientVars, proc, eof, sent, answered, stdin, readVars, queue,
                   queueOpen, workVars, cancelled, waitpc, waitDone, failed,
                   panicked>>

\* Wait.
Join(c) ==
    /\ pc[c] = "join" /\ waitDone
    /\ Return(c, IF outcome[c] = "initFailed" THEN "initFailed" ELSE "closed")
    /\ UNCHANGED <<clientVars, childVars, stdin, readVars, queue, queueOpen,
                   workVars, cancelled, waitpc, waitDone, failed, panicked>>

-----------------------------------------------------------------------------
(* The child (external) *)

ChildWrites(line) ==
    /\ proc = "running" /\ ~eof /\ line \notin sent
    /\ Cardinality(sent) < MaxLines
    /\ line # Bad => \A r \in ServerRequests : r < line => r \in sent
    /\ sent' = sent \cup {line}
    /\ stdout' = Append(stdout, line)
    /\ UNCHANGED <<clientVars, proc, signal, eof, answered, stdin, stdoutOpen,
                   scanned, rpc, queue, queueOpen, workVars, cancelled, waitpc, waitDone,
                   failed, callVars, panicked>>

\* It may close its stdout and live on ...
ChildClosesStdout ==
    /\ proc = "running" /\ ~eof /\ eof' = TRUE
    /\ UNCHANGED <<clientVars, proc, signal, sent, answered, stdin, readVars, queue,
                   queueOpen, workVars, cancelled, waitpc, waitDone, failed,
                   callVars, panicked>>

\* ... or end at any time, which closes what it had open, and must once it has
\* been killed.
ChildExits ==
    /\ proc = "running" /\ proc' = "exited" /\ eof' = TRUE
    /\ UNCHANGED <<clientVars, signal, sent, answered, stdin, readVars, queue,
                   queueOpen, workVars, cancelled, waitpc, waitDone, failed,
                   callVars, panicked>>

-----------------------------------------------------------------------------
(* The read loop *)

\* scanner.Scan reads what is in the pipe when its buffer is empty.
Scan ==
    /\ rpc = "scan" /\ scanned = <<>> /\ stdoutOpen /\ stdout # <<>>
    /\ scanned' = stdout /\ stdout' = <<>>
    /\ UNCHANGED <<clientVars, childVars, stdin, stdoutOpen, rpc, queue,
                   queueOpen, workVars, cancelled, waitpc, waitDone, failed,
                   callVars, panicked>>

\* End of file leaves the loop without an error and without a word to the router;
\* an error of the pipe, which the wait loop closes under the reader, fails the
\* router.
ScanEnds ==
    /\ rpc = "scan" /\ scanned = <<>>
    /\ \/ stdoutOpen /\ eof /\ stdout = <<>> /\ UNCHANGED failed
       \/ ~stdoutOpen /\ failed' = TRUE
    /\ rpc' = "done"
    /\ UNCHANGED <<clientVars, childVars, stdin, stdout, stdoutOpen, scanned,
                   queue, queueOpen, workVars, cancelled, waitpc, waitDone,
                   callVars, panicked>>

\* A server request is queued, or fails the router when the queue is full; a
\* send on the closed channel panics.
ReadRequest ==
    /\ rpc = "scan" /\ scanned # <<>> /\ Head(scanned) \in ServerRequests
    /\ scanned' = Tail(scanned)
    /\ panicked' = ~queueOpen
    /\ \/ /\ queueOpen /\ Len(queue) < MaxServerRequestHandlers
          /\ queue' = Append(queue, Head(scanned))
          /\ rpc' = "queued"
          /\ UNCHANGED failed
       \/ /\ queueOpen /\ Len(queue) = MaxServerRequestHandlers
          /\ rpc' = "done" /\ failed' = TRUE
          /\ UNCHANGED queue
       \/ ~queueOpen /\ UNCHANGED <<queue, rpc, failed>>
    /\ UNCHANGED <<clientVars, childVars, stdin, stdout, stdoutOpen, queueOpen,
                   workVars, cancelled, waitpc, waitDone, callVars>>

\* Invalid JSON, a line that is too long, a notification the router refuses.
ReadBad ==
    /\ rpc = "scan" /\ scanned # <<>> /\ Head(scanned) = Bad
    /\ scanned' = Tail(scanned)
    /\ rpc' = "done" /\ failed' = TRUE
    /\ UNCHANGED <<clientVars, childVars, stdin, stdout, stdoutOpen, queue,
                   queueOpen, workVars, cancelled, waitpc, waitDone, callVars,
                   panicked>>

\* ensureServerRequestWorkers takes workerMu ...
EnsureBegin ==
    /\ rpc = "queued" /\ rpc' = "ensure"
    /\ UNCHANGED <<clientVars, childVars, stdin, stdout, stdoutOpen, scanned,
                   queue, queueOpen, workVars, cancelled, waitpc, waitDone,
                   failed, callVars, panicked>>

\* Mutant: one worker too many.
MoreWorkersAlways ==
    workerCount <= MaxServerRequestHandlers /\ workerCount <= Len(queue)

MoreWorkers ==
    workerCount < MaxServerRequestHandlers /\ workerCount <= Len(queue)

\* ... and compares, in each turn of its loop, with the length of a queue that
\* the new workers are already emptying.
Ensure ==
    /\ rpc = "ensure"
    /\ \/ /\ MoreWorkers
          /\ workerCount' = workerCount + 1
          /\ LET new == CHOOSE w \in Workers : wpc[w] = "none"
             IN  wpc' = [wpc EXCEPT ![new] = "receive"]
          /\ UNCHANGED rpc
       \/ ~MoreWorkers /\ rpc' = "scan" /\ UNCHANGED <<workerCount, wpc>>
    /\ UNCHANGED <<clientVars, childVars, stdin, stdout, stdoutOpen, scanned,
                   queue, queueOpen, wreq, cancelled, waitpc, waitDone, failed,
                   callVars, panicked>>

-----------------------------------------------------------------------------
(* The workers *)

WorkerReceives(w) ==
    /\ wpc[w] = "receive" /\ queue # <<>>
    /\ wpc' = [wpc EXCEPT ![w] = "handle"]
    /\ wreq' = [wreq EXCEPT ![w] = Head(queue)]
    /\ queue' = Tail(queue)
    /\ UNCHANGED <<clientVars, childVars, stdin, readVars, queueOpen, workerCount,
                   cancelled, waitpc, waitDone, failed, callVars, panicked>>

\* The approval handler has returned and the answer is written: the child gets
\* it if it is there.
WorkerAnswers(w) ==
    /\ wpc[w] = "handle"
    /\ wpc' = [wpc EXCEPT ![w] = "receive"]
    /\ wreq' = [wreq EXCEPT ![w] = NoRequest]
    /\ answered' = IF stdin /\ proc = "running"
                   THEN [answered EXCEPT ![wreq[w]] = @ + 1] ELSE answered
    /\ UNCHANGED <<clientVars, proc, signal, eof, sent, stdin, readVars, queue,
                   queueOpen, workerCount, cancelled, waitpc, waitDone, failed,
                   callVars, panicked>>

\* Mutant: the worker stops as soon as its context is done.
WorkerExitsCancelled(w) ==
    /\ wpc[w] = "receive" /\ cancelled /\ rpc # "ensure"
    /\ wpc' = [wpc EXCEPT ![w] = "none"]
    /\ workerCount' = workerCount - 1
    /\ UNCHANGED <<clientVars, childVars, stdin, readVars, queue, queueOpen, wreq,
                   cancelled, waitpc, waitDone, failed, callVars, panicked>>

\* The range over the queue ends when it is closed and empty.
WorkerExits(w) ==
    /\ wpc[w] = "receive" /\ queue = <<>> /\ ~queueOpen /\ rpc # "ensure"
    /\ wpc' = [wpc EXCEPT ![w] = "none"]
    /\ workerCount' = workerCount - 1
    /\ UNCHANGED <<clientVars, childVars, stdin, readVars, queue, queueOpen, wreq,
                   cancelled, waitpc, waitDone, failed, callVars, panicked>>

-----------------------------------------------------------------------------
(* The wait loop *)

\* cmd.Wait returns and closes the pipes.
Reap ==
    /\ waitpc = "wait" /\ proc = "exited"
    /\ waitpc' = "cancel"
    /\ stdin' = FALSE /\ stdoutOpen' = FALSE
    /\ UNCHANGED <<clientVars, childVars, stdout, scanned, rpc, queue, queueOpen,
                   workVars, cancelled, waitDone, failed, callVars, panicked>>

WaitCancel ==
    /\ waitpc = "cancel" /\ waitpc' = "close"
    /\ cancelled' = TRUE
    /\ UNCHANGED <<clientVars, childVars, stdin, readVars, queue, queueOpen,
                   workVars, waitDone, failed, callVars, panicked>>

WaitClose ==
    /\ waitpc = "close" /\ waitpc' = "join"
    /\ queueOpen' = FALSE
    /\ UNCHANGED <<clientVars, childVars, stdin, readVars, queue, workVars,
                   cancelled, waitDone, failed, callVars, panicked>>

\* Mutant: waitDone is closed without joining the workers and failing the router.
WaitJoinSkipped ==
    /\ waitpc = "join" /\ waitpc' = "signal"
    /\ UNCHANGED <<clientVars, childVars, stdin, readVars, queue, queueOpen,
                   workVars, cancelled, waitDone, failed, callVars, panicked>>

WaitJoin ==
    /\ waitpc = "join" /\ \A w \in Workers : wpc[w] = "none"
    /\ waitpc' = "fail"
    /\ UNCHANGED <<clientVars, childVars, stdin, readVars, queue, queueOpen,
                   workVars, cancelled, waitDone, failed, callVars, panicked>>

WaitFail ==
    /\ waitpc = "fail" /\ waitpc' = "signal"
    /\ failed' = TRUE
    /\ UNCHANGED <<clientVars, childVars, stdin, readVars, queue, queueOpen,
                   workVars, cancelled, waitDone, callVars, panicked>>

WaitSignal ==
    /\ waitpc = "signal" /\ waitpc' = "done"
    /\ waitDone' = TRUE
    /\ UNCHANGED <<clientVars, childVars, stdin, readVars, queue, queueOpen,
                   workVars, cancelled, failed, callVars, panicked>>

-----------------------------------------------------------------------------
Init ==
    /\ started = FALSE /\ closed = FALSE /\ init = "none"
    /\ proc = "none" /\ signal = "none" /\ eof = FALSE
    /\ sent = {} /\ answered = [r \in ServerRequests |-> 0]
    /\ stdin = FALSE /\ stdout = <<>> /\ stdoutOpen = FALSE /\ scanned = <<>>
    /\ rpc = "none" /\ waitpc = "none" /\ waitDone = FALSE
    /\ queue = <<>> /\ queueOpen = TRUE
    /\ workerCount = 0
    /\ wpc = [w \in Workers |-> "none"]
    /\ wreq = [w \in Workers |-> NoRequest]
    /\ cancelled = FALSE /\ failed = FALSE /\ panicked = FALSE
    /\ pc = [c \in Callers |-> "idle"]
    /\ outcome = [c \in Callers |-> "none"]

ReadLoop == Scan \/ ScanEnds \/ ReadRequest \/ ReadBad \/ EnsureBegin \/ Ensure

WaitLoop == Reap \/ WaitCancel \/ WaitClose \/ WaitJoin \/ WaitFail \/ WaitSignal

Starting(c) == InitBegin(c) \/ InitDone(c)

Closing(c) == CloseMark(c) \/ CloseInput(c) \/ Escalate(c) \/ Join(c)

Next ==
    /\ ~panicked
    /\ \/ \E c \in Callers :
             \/ StartProcess(c) \/ LaunchFails(c) \/ InitSucceeds(c)
             \/ InitFails(c) \/ Starting(c) \/ CloseBegin(c) \/ Closing(c)
       \/ \E line \in Lines : ChildWrites(line)
       \/ ChildClosesStdout \/ ChildExits
       \/ ReadLoop
       \/ \E w \in Workers :
             WorkerReceives(w) \/ WorkerAnswers(w) \/ WorkerExits(w)
       \/ WaitLoop

Spec == Init /\ [][Next]_vars

\* Goroutines run; a killed child ends; a failed router answers initialize; a
\* handler returns once its context is done.  The child need not end because
\* its stdin is closed or because it is interrupted.
Fairness ==
    /\ \A c \in Callers : /\ WF_vars(~panicked /\ Starting(c))
                          /\ WF_vars(~panicked /\ Closing(c))
                          /\ WF_vars(~panicked /\ failed /\ InitFails(c))
    /\ WF_vars(~panicked /\ signal = "kill" /\ ChildExits)
    /\ WF_vars(~panicked /\ ReadLoop)
    /\ WF_vars(~panicked /\ WaitLoop)
    /\ \A w \in Workers :
          /\ WF_vars(~panicked /\ (WorkerReceives(w) \/ WorkerExits(w)))
          /\ WF_vars(~panicked /\ cancelled /\ WorkerAnswers(w))

FairSpec == Spec /\ Fairness

-----------------------------------------------------------------------------
(* Properties *)

WorkersAlive == {w \in Workers : wpc[w] # "none"}

\* Type invariant.
TypeOK ==
    /\ started \in BOOLEAN /\ closed \in BOOLEAN
    /\ init \in {"none", "running", "ok", "error"}
    /\ proc \in {"none", "running", "exited"}
    /\ signal \in {"none", "interrupt", "kill"} /\ eof \in BOOLEAN
    /\ sent \in SUBSET Lines /\ answered \in [ServerRequests -> Nat]
    /\ stdin \in BOOLEAN /\ stdoutOpen \in BOOLEAN
    /\ stdout \in Seq(Lines) /\ scanned \in Seq(Lines)
    /\ rpc \in {"none", "scan", "queued", "ensure", "done"}
    /\ waitpc \in {"none", "wait", "cancel", "close", "join", "fail", "signal",
                   "done"}
    /\ waitDone \in BOOLEAN /\ queueOpen \in BOOLEAN
    /\ queue \in Seq(ServerRequests)
    /\ workerCount \in Nat
    /\ wpc \in [Workers -> {"none", "receive", "handle"}]
    /\ wreq \in [Workers -> ServerRequests \cup {NoRequest}]
    /\ cancelled \in BOOLEAN /\ failed \in BOOLEAN /\ panicked \in BOOLEAN
    /\ pc \in [Callers -> {"idle", "init", "initializing", "ready", "close",
                           "input", "grace", "kill", "join", "done"}]
    /\ outcome \in [Callers -> {"none", "notLaunched", "started", "initFailed",
                                "closing", "notStarted", "closed"}]

\* workerCount, which ensureServerRequestWorkers trusts, is the number of
\* workers alive, so never more handlers than the limit run, through every
\* start and exit of a worker.
HandlersBounded ==
    /\ workerCount = Cardinality(WorkersAlive)
    /\ workerCount <= MaxServerRequestHandlers
    /\ Len(queue) <= MaxServerRequestHandlers

\* A Close that found a process (and a Start whose initialize failed) returns
\* only when the child has been reaped and the router has been failed, also
\* when another caller is doing the work: "No zombie process remains".
CloseReaps ==
    \A c \in Callers : pc[c] = "done" /\ outcome[c] \in {"closed", "initFailed"}
        => proc = "exited" /\ failed /\ closed

\* A server request is in one place, answered at most once after it left, and,
\* once the read loop has accepted it, in a handler's hands by the time the
\* workers are gone: closing the queue loses none.
HandledOnce ==
    /\ \A r \in ServerRequests :
          answered[r] + Cardinality({w \in Workers : wreq[w] = r})
            + Cardinality({i \in DOMAIN queue : queue[i] = r})
            + Cardinality({i \in DOMAIN scanned : scanned[i] = r})
            + Cardinality({i \in DOMAIN stdout : stdout[i] = r}) <= 1
    /\ waitDone /\ rpc \in {"scan", "done"} /\ WorkersAlive = {} => queue = <<>>

\* "It closes input, waits a bounded interval, terminates, then kills if
\* required": every Close, first or concurrent, returns.
CloseReturns ==
    \A c \in Callers : (pc[c] = "close") ~> (pc[c] = "done" \/ panicked)

\* "all goroutines and child processes terminate after every close", and the
\* end of the child, however it comes, fails the router: the reader, the
\* workers and the wait loop end, whatever they were doing, and nobody is left
\* waiting for a child that is gone, although the read loop is silent when it
\* meets the end of the file.
GoroutinesEnd ==
    (proc = "exited" \/ (closed /\ started))
        ~> \/ panicked
           \/ /\ proc = "exited" /\ failed /\ rpc = "done"
              /\ waitpc = "done" /\ WorkersAlive = {}

\* "empty stdout, ... wake all waiters": once the read loop has ended, for
\* whatever reason, no answer can arrive any more, and the router is failed so
\* that nobody waits for one.
EndIsNoticed == (rpc = "done") ~> (failed \/ panicked)

\* "Close is concurrent-safe": the SDK never sends on the closed queue.
NeverPanics == ~panicked

=============================================================================
