------------------------------ MODULE Requests ------------------------------
(***************************************************************************)
(* JSON-RPC requests of appserver.Client and the response waiters of the   *)
(* router.  Request registers a one-slot channel under a fresh id, writes  *)
(* the message, one writer at a time, into a pipe that may be full, and    *)
(* waits for the channel or its context; the read loop                     *)
(* takes the waiter out of the map and then, outside the mutex, sends the  *)
(* response to it; FailAll takes all the waiters and sends each an error.  *)
(* The child process answers what it received, in any order, late, more    *)
(* than once or never.                                                     *)
(***************************************************************************)
EXTENDS Naturals, Sequences, FiniteSets

CONSTANTS
    Calls,               \* calls of Request; each has an id of its own
    Unwritable,          \* calls whose message cannot be encoded in a line
    Nobody,              \* no call
    MaxResponseWaiters,
    PipeRoom,            \* messages the child's stdin holds unread
    MaxAnswers           \* bound: responses the child sends with one id

ASSUME CallsAssumption ==
    /\ IsFiniteSet(Calls) /\ Nobody \notin Calls /\ Unwritable \subseteq Calls
    /\ MaxResponseWaiters \in Nat \ {0} /\ MaxAnswers \in Nat /\ PipeRoom \in Nat

VARIABLES
    open,      \* started and not closed (ensureUsable)
    stdinUp,   \* the child still reads what is written
    failed,    \* router.failed # nil
    waiters,   \* router.responseWaiters: the ids in the map
    chan,      \* the one-slot channel of each call
    cpc,       \* where each call of Request is
    result,    \* what it returned
    writer,    \* the call that holds writeMu
    pipe,      \* messages written and not read
    received,  \* requests the child has received
    answers,   \* responses on the wire, per id
    answered,  \* responses the child has sent, per id
    sending,   \* the waiter RouteResponse has taken out of the map
    failing    \* the waiters FailAll has still to send to

procVars == <<open, stdinUp>>
writeVars == <<writer, pipe>>
wireVars == <<received, answers, answered>>
callVars == <<cpc, result>>
vars == <<procVars, failed, waiters, chan, callVars, writeVars, wireVars, sending, failing>>

-----------------------------------------------------------------------------
Goto(q, label) == cpc' = [cpc EXCEPT ![q] = label] /\ UNCHANGED result

Return(q, outcome) ==
    /\ cpc' = [cpc EXCEPT ![q] = "done"]
    /\ result' = [result EXCEPT ![q] = outcome]

EnsureUsable(q) ==
    /\ cpc[q] = "start"
    /\ IF open THEN Goto(q, "create") ELSE Return(q, "closed")
    /\ UNCHANGED <<procVars, failed, waiters, chan, writeVars, wireVars, sending, failing>>

CreateResponseWaiter(q) ==
    /\ cpc[q] = "create"
    /\ \/ /\ failed \/ Cardinality(waiters) >= MaxResponseWaiters
          /\ Return(q, IF failed THEN "failed" ELSE "limit")
          /\ UNCHANGED waiters
       \/ /\ ~failed /\ Cardinality(waiters) < MaxResponseWaiters
          /\ waiters' = waiters \cup {q}
          /\ Goto(q, "write")
    /\ UNCHANGED <<procVars, failed, chan, writeVars, wireVars, sending, failing>>

\* writeMessage refuses what does not fit in a line, and takes writeMu otherwise.
LockWrite(q) ==
    /\ cpc[q] = "write"
    /\ \/ q \in Unwritable /\ Goto(q, "discardWrite") /\ UNCHANGED writer
       \/ q \notin Unwritable /\ writer = Nobody /\ Goto(q, "writing") /\ writer' = q
    /\ UNCHANGED <<procVars, failed, waiters, chan, pipe, wireVars, sending, failing>>

\* stdin.Write returns when the pipe has taken the message, and fails when stdin
\* is closed or the child has gone, also while it waits for room; the context of
\* the call is not looked at.
Write(q) ==
    /\ cpc[q] = "writing"
    /\ \/ stdinUp /\ Cardinality(pipe) < PipeRoom /\ pipe' = pipe \cup {q} /\ Goto(q, "wait")
       \/ ~stdinUp /\ Goto(q, "discardWrite") /\ UNCHANGED pipe
    /\ writer' = Nobody
    /\ UNCHANGED <<procVars, failed, waiters, chan, wireVars, sending, failing>>

\* The two cases of Request's select.
TakeResponse(q) ==
    /\ cpc[q] = "wait" /\ chan[q] # <<>>
    /\ chan' = [chan EXCEPT ![q] = Tail(@)]
    /\ Return(q, Head(chan[q]))
    /\ UNCHANGED <<procVars, failed, waiters, writeVars, wireVars, sending, failing>>

ContextDone(q) ==
    /\ cpc[q] = "wait"
    /\ Goto(q, "discardCtx")
    /\ UNCHANGED <<procVars, failed, waiters, chan, writeVars, wireVars, sending, failing>>

\* Mutant: the cancelled call leaves its waiter in the map.
DiscardUnwrittenOnly(q) ==
    /\ cpc[q] \in {"discardWrite", "discardCtx"}
    /\ waiters' = IF cpc[q] = "discardWrite" THEN waiters \ {q} ELSE waiters
    /\ Return(q, IF cpc[q] = "discardCtx" THEN "cancelled" ELSE "unwritten")
    /\ UNCHANGED <<procVars, failed, chan, writeVars, wireVars, sending, failing>>

DiscardResponseWaiter(q) ==
    /\ cpc[q] \in {"discardWrite", "discardCtx"}
    /\ waiters' = waiters \ {q}
    /\ Return(q, IF cpc[q] = "discardCtx" THEN "cancelled" ELSE "unwritten")
    /\ UNCHANGED <<procVars, failed, chan, writeVars, wireVars, sending, failing>>

-----------------------------------------------------------------------------
(* The child process (external) and its pipes *)

\* The child reads a message when it likes to.
Read(q) ==
    /\ q \in pipe
    /\ pipe' = pipe \ {q} /\ received' = received \cup ({q} \cap Calls)
    /\ UNCHANGED <<procVars, failed, waiters, chan, callVars, writer, answers, answered,
                   sending, failing>>

Answer(q) ==
    /\ q \in received /\ answered[q] < MaxAnswers
    /\ answers' = [answers EXCEPT ![q] = @ + 1]
    /\ answered' = [answered EXCEPT ![q] = @ + 1]
    /\ UNCHANGED <<procVars, failed, waiters, chan, callVars, writeVars, received, sending,
                   failing>>

\* The child exits, or Close marks the client closed and closes stdin.
Exit ==
    /\ stdinUp' = FALSE
    /\ UNCHANGED <<open, failed, waiters, chan, callVars, writeVars, wireVars, sending,
                   failing>>

Close ==
    /\ open /\ open' = FALSE /\ stdinUp' = FALSE
    /\ UNCHANGED <<failed, waiters, chan, callVars, writeVars, wireVars, sending, failing>>

-----------------------------------------------------------------------------
(* The read loop and the failure *)

\* Mutant: the waiter stays in the map until the response has been sent.
RouteResponseKeeps(q) ==
    /\ sending = Nobody /\ answers[q] > 0
    /\ answers' = [answers EXCEPT ![q] = @ - 1]
    /\ sending' = IF q \in waiters THEN q ELSE Nobody
    /\ UNCHANGED <<procVars, failed, waiters, chan, callVars, writeVars, received, answered,
                   failing>>

\* RouteResponse: an id that is not in the map (unknown, late, repeated) is
\* ignored.
RouteResponse(q) ==
    /\ sending = Nobody /\ answers[q] > 0
    /\ answers' = [answers EXCEPT ![q] = @ - 1]
    /\ sending' = IF q \in waiters THEN q ELSE Nobody
    /\ waiters' = waiters \ {q}
    /\ UNCHANGED <<procVars, failed, chan, callVars, writeVars, received, answered, failing>>

Send(q, value) ==
    /\ Len(chan[q]) < 1
    /\ chan' = [chan EXCEPT ![q] = Append(@, value)]

SendResponse ==
    /\ sending # Nobody
    /\ Send(sending, "answer")
    /\ sending' = Nobody
    /\ UNCHANGED <<procVars, failed, waiters, callVars, writeVars, wireVars, failing>>

\* Mutant: the waiters it has taken out of the map are forgotten.
FailAllForgets ==
    /\ ~failed
    /\ failed' = TRUE
    /\ waiters' = {} /\ failing' = {}
    /\ UNCHANGED <<procVars, chan, callVars, writeVars, wireVars, sending>>

\* The critical section of FailAll.
FailAll ==
    /\ ~failed
    /\ failed' = TRUE
    /\ failing' = waiters
    /\ waiters' = {}
    /\ UNCHANGED <<procVars, chan, callVars, writeVars, wireVars, sending>>

SendFailure(q) ==
    /\ q \in failing
    /\ Send(q, "error")
    /\ failing' = failing \ {q}
    /\ UNCHANGED <<procVars, failed, waiters, callVars, writeVars, wireVars, sending>>

-----------------------------------------------------------------------------
\* Start has just written the notification initialized, which is nobody's request.
Init ==
    /\ open = TRUE /\ stdinUp = TRUE /\ failed = FALSE
    /\ waiters = {} /\ failing = {} /\ sending = Nobody
    /\ chan = [q \in Calls |-> <<>>]
    /\ cpc = [q \in Calls |-> "start"]
    /\ result = [q \in Calls |-> "none"]
    /\ writer = Nobody /\ pipe = {Nobody} /\ received = {}
    /\ answers = [q \in Calls |-> 0]
    /\ answered = [q \in Calls |-> 0]

Caller(q) ==
    \/ EnsureUsable(q) \/ CreateResponseWaiter(q) \/ LockWrite(q) \/ Write(q)
    \/ TakeResponse(q) \/ DiscardResponseWaiter(q)

Next ==
    \/ \E q \in Calls : \/ Caller(q) \/ ContextDone(q) \/ Answer(q)
                        \/ RouteResponse(q) \/ SendFailure(q)
    \/ \E q \in pipe : Read(q)
    \/ SendResponse \/ FailAll \/ Exit \/ Close

Spec == Init /\ [][Next]_vars

\* The goroutines of the SDK run; when the child is gone the wait loop calls
\* FailAll.  The child need not read or answer, and no context has to end.
Fairness ==
    /\ \A q \in Calls : WF_vars(Caller(q)) /\ WF_vars(SendFailure(q))
    /\ WF_vars(SendResponse)
    /\ WF_vars(~stdinUp /\ FailAll)

FairSpec == Spec /\ Fairness

-----------------------------------------------------------------------------
(* Properties *)

\* Type invariant.
TypeOK ==
    /\ open \in BOOLEAN /\ stdinUp \in BOOLEAN /\ failed \in BOOLEAN
    /\ waiters \in SUBSET Calls /\ failing \in SUBSET Calls
    /\ sending \in Calls \cup {Nobody}
    /\ chan \in [Calls -> Seq({"answer", "error"})]
    /\ cpc \in [Calls -> {"start", "create", "write", "writing", "wait", "discardWrite",
                          "discardCtx", "done"}]
    /\ result \in [Calls -> {"none", "closed", "failed", "limit", "unwritten",
                             "cancelled", "answer", "error"}]
    /\ writer \in Calls \cup {Nobody} /\ pipe \in SUBSET (Calls \cup {Nobody})
    /\ received \in SUBSET Calls
    /\ answers \in [Calls -> Nat] /\ answered \in [Calls -> Nat]

\* The read loop and FailAll send on a waiter outside the mutex and with no
\* default case: whoever has taken the waiter out of the map finds its one
\* slot free, and never both have taken it.  Otherwise one slow caller would
\* stop the read loop for everybody.
SendsFindRoom ==
    /\ sending # Nobody => chan[sending] = <<>> /\ sending \notin failing
    /\ \A q \in failing : chan[q] = <<>>

\* A call that has returned has left no waiter behind, so cancelled and failed
\* calls do not use up the limit on waiters.
NoWaiterLeaks == \A q \in waiters : cpc[q] # "done"

\* A call that has registered its waiter cannot be lost: until it gives up, its
\* waiter is in the map, or the read loop or FailAll holds it and has still to
\* send, or what they sent is in the channel.
CallsReachable ==
    \A q \in Calls : cpc[q] \in {"write", "writing", "wait"} =>
        q \in waiters \/ q = sending \/ q \in failing \/ chan[q] # <<>>

\* "All pending callers receive one terminal error": once the child has gone or
\* the client is closed, every call that has begun returns, the one that is
\* blocked on a pipe nobody reads and those that wait for writeMu behind it included.
CallsReturn ==
    \A q \in Calls : (~stdinUp /\ cpc[q] # "start") ~> (cpc[q] = "done")

=============================================================================
