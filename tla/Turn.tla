-------------------------------- MODULE Turn --------------------------------
(***************************************************************************)
(* One turn as a caller sees it: startTurn (client.go), the TurnStream of  *)
(* its handle and the result RunContext collects (turn_api.go).  The route *)
(* of the turn is abstracted from Router to what one consumer can tell:    *)
(* notifications wait in it from before it is registered, the end of the   *)
(* transport is queued behind them, and unregistering it cuts it off.      *)
(* A TurnStream may be closed by another goroutine than the one in Next.   *)
(***************************************************************************)
EXTENDS Integers, Sequences, FiniteSets, FiniteSetsExt, SequencesExt

CONSTANTS
    MaxSent,       \* notifications of the turn (bound)
    RouteLimit,    \* MaxRouteEvents
    MaxEnds        \* calls of Next after the end of the stream (bound)

ASSUME TurnAssumption ==
    /\ {MaxSent, RouteLimit, MaxEnds} \subseteq Nat \ {0}

None == 0      \* an empty text, no usage

\* An agent message with or without a phase, or an item of another type.
Phases   == {"final", "commentary", "plain", "other"}
Statuses == {"completed", "interrupted", "failed"}

\* The notifications of a turn.  "misc" stands for turn/started, item/started, error and
\* the delta family: Next passes them on and collectTurnResult skips them.  The text of a
\* message and the figures of a usage are told apart by n.
Notifications ==
    [kind : {"item"}, phase : Phases, n : 0 .. MaxSent]
    \cup [kind : {"usage"}, n : 0 .. MaxSent]
    \cup [kind : {"turn"}, status : Statuses]
    \cup [kind : {"misc", "malformed"}]
Failure == [kind |-> "failure"]     \* the error FailAll queues

VARIABLES
    turn, sent,         \* the server's: "none", "running", "ended"; what it has sent
    route, box,         \* the route of the turn: "none", "open", "closed"; what waits in it
    failed,             \* why the transport has failed: "no", "fault", "overflow"
    start,              \* startTurn: "idle", "sent", "handle", "error"
    mode,               \* how the handle was consumed: "no", "stream", "run"
    reader, terminalErr, terminalEOF, closed, latestUsage,   \* Next and the TurnStream
    closer,             \* the other goroutine's Close: "idle", "marked", "returned"
    got, ends,          \* what Next has returned: events, and then ends
    ret, result         \* what RunContext has returned

serverVars == <<turn, sent>>
streamVars == <<terminalErr, terminalEOF, closed, latestUsage>>
runVars    == <<ret, result>>
vars == <<serverVars, route, box, failed, start, mode, reader, streamVars, closer, got, ends,
          runVars>>

-----------------------------------------------------------------------------
(* The server and the transport (external) *)

ServerStarts ==
    /\ start # "idle" /\ turn = "none" /\ failed = "no"
    /\ turn' = "running"
    /\ UNCHANGED <<sent, route, box, failed, start, mode, reader, streamVars, closer, got, ends,
                   runVars>>

\* A route that was never registered keeps what comes; a closed one drops it.
Deliver(m) == box' = IF route = "closed" THEN box ELSE Append(box, m)

ServerSends ==
    /\ turn = "running" /\ failed = "no"
    /\ route = "closed" \/ Len(box) < RouteLimit
    /\ \E m \in Notifications :
         /\ m.kind # "turn" => Len(sent) < MaxSent - 1
         /\ m.kind \in {"item", "usage"} => m.n \in {None, Len(sent) + 1}
         /\ m.kind = "item" /\ m.n = None => m.phase = "plain"
         /\ sent' = Append(sent, m)
         /\ turn' = IF m.kind = "turn" THEN "ended" ELSE turn
         /\ Deliver(m)
    /\ UNCHANGED <<route, failed, start, mode, reader, streamVars, closer, got, ends, runVars>>

\* FailAll leaves its error in a registered route that has room for it.
Fail(cause) ==
    /\ failed' = cause
    /\ box' = IF route = "open" /\ Len(box) < RouteLimit THEN Append(box, Failure) ELSE box
    /\ UNCHANGED <<serverVars, route, start, mode, reader, streamVars, closer, got, ends, runVars>>

\* The read loop turns the error of a full route into the end of the transport.
RouteOverflows ==
    /\ turn = "running" /\ failed = "no" /\ Len(sent) < MaxSent
    /\ route # "closed" /\ Len(box) = RouteLimit
    /\ Fail("overflow")

TransportFails ==
    /\ failed = "no"
    /\ Fail("fault")

-----------------------------------------------------------------------------
(* startTurn *)

StartTurn ==
    /\ start = "idle"
    /\ start' = "sent"
    /\ UNCHANGED <<serverVars, route, box, failed, mode, reader, streamVars, closer, got, ends,
                   runVars>>

\* Mutant: what arrived before the registration is dropped.
RegisterTurnEmpty ==
    /\ start = "sent" /\ turn # "none"
    /\ start' = "handle"
    /\ route' = IF failed = "no" THEN "open" ELSE route
    /\ box' = <<>>
    /\ UNCHANGED <<serverVars, failed, mode, reader, streamVars, closer, got, ends, runVars>>

\* turn/start has been answered.  sdkClient.registerTurn drops RegisterTurn's error.
RegisterTurn ==
    /\ start = "sent" /\ turn # "none"
    /\ start' = "handle"
    /\ route' = IF failed = "no" THEN "open" ELSE route
    /\ UNCHANGED <<serverVars, box, failed, mode, reader, streamVars, closer, got, ends, runVars>>

\* turn/start ends in an error, which its context may cause: the server may have taken
\* the request all the same.
StartTurnFails ==
    /\ start = "sent"
    /\ start' = "error"
    /\ UNCHANGED <<serverVars, route, box, failed, mode, reader, streamVars, closer, got, ends,
                   runVars>>

\* StreamContext, of the caller or of RunContext: the handle is consumed once.
Stream(m) ==
    /\ start = "handle" /\ mode = "no"
    /\ mode' = m
    /\ UNCHANGED <<serverVars, route, box, failed, start, reader, streamVars, closer, got, ends,
                   runVars>>

-----------------------------------------------------------------------------
(* TurnStream.Close, called by another goroutine *)

CloseMarks ==
    /\ mode = "stream" /\ closer = "idle"
    /\ closer' = IF closed THEN "returned" ELSE "marked"
    /\ closed' = TRUE
    /\ UNCHANGED <<serverVars, route, box, failed, start, mode, reader, terminalErr, terminalEOF,
                   latestUsage, got, ends, runVars>>

CloseUnregisters ==
    /\ closer = "marked"
    /\ closer' = "returned"
    /\ route' = "closed"
    /\ UNCHANGED <<serverVars, box, failed, start, mode, reader, streamVars, got, ends, runVars>>

\* Close in the reader's own goroutine.
Close ==
    /\ closed' = TRUE
    /\ route' = IF closed THEN route ELSE "closed"

-----------------------------------------------------------------------------
(* TurnStream.Next *)

\* How the stream has ended, in the order in which Next looks.
End == CASE terminalErr # "none" -> terminalErr
         [] terminalErr = "none" /\ terminalEOF -> "EOF"
         [] terminalErr = "none" /\ ~terminalEOF /\ closed -> "closed"
         [] OTHER -> "none"

NextEnds ==
    /\ mode # "no" /\ reader = "ready" /\ ret = "none"
    /\ End # "none" /\ Len(ends) < (IF mode = "run" THEN 1 ELSE MaxEnds)
    /\ ends' = Append(ends, End)
    /\ UNCHANGED <<serverVars, route, box, failed, start, mode, reader, streamVars, closer, got,
                   runVars>>

NextCalls ==
    /\ mode # "no" /\ reader = "ready" /\ ret = "none" /\ End = "none"
    /\ reader' = "lookup"
    /\ UNCHANGED <<serverVars, route, box, failed, start, mode, streamVars, closer, got, ends,
                   runVars>>

\* Mutant: the error is not kept.
NextFailsOnce(err) ==
    /\ reader' = "ready"
    /\ Close
    /\ ends' = Append(ends, err)
    /\ UNCHANGED <<terminalErr, terminalEOF, latestUsage, got>>

NextFails(err) ==
    /\ reader' = "ready"
    /\ terminalErr' = err
    /\ Close
    /\ ends' = Append(ends, err)
    /\ UNCHANGED <<terminalEOF, latestUsage, got>>

\* nextTurn looks up the route and whether the transport has failed ...
NextLooksUp ==
    /\ reader = "lookup"
    /\ \/ /\ route # "open"
          /\ NextFails("unregistered")
       \/ /\ route = "open"
          /\ reader' = IF failed = "no" THEN "try" ELSE "tryFailed"
          /\ UNCHANGED <<route, streamVars, got, ends>>
    /\ UNCHANGED <<serverVars, box, failed, start, mode, closer, runVars>>

\* ... tries its queue ...
NextTries ==
    /\ reader \in {"try", "tryFailed"} /\ box = <<>>
    /\ \/ /\ reader = "try"
          /\ reader' = "select"
          /\ UNCHANGED <<route, streamVars, got, ends>>
       \/ /\ reader = "tryFailed"
          /\ NextFails("failure")
    /\ UNCHANGED <<serverVars, box, failed, start, mode, closer, runVars>>

\* ... and waits until the context ends ...
NextCancelled ==
    /\ reader = "select"
    /\ NextFails("cancelled")
    /\ UNCHANGED <<serverVars, box, failed, start, mode, closer, runVars>>

Terminal(m) == m.kind = "turn"

\* ... or something comes, which decodeTurnNotification makes an event of.
NextReceives ==
    /\ reader \in {"try", "tryFailed", "select"} /\ box # <<>>
    /\ box' = Tail(box)
    /\ LET m == Head(box) IN
         CASE m.kind = "failure"   -> NextFails("failure")
           [] m.kind = "malformed" -> NextFails("malformed")
           [] OTHER ->
                /\ reader' = "ready"
                /\ got' = Append(got, m)
                /\ latestUsage' = IF m.kind = "usage" /\ m.n # None THEN m.n ELSE latestUsage
                /\ terminalEOF' = Terminal(m)
                /\ UNCHANGED <<route, terminalErr, closed, ends>>
    /\ UNCHANGED <<serverVars, failed, start, mode, closer, runVars>>

-----------------------------------------------------------------------------
(* RunContext *)

\* The items that were completed, in order.
Items(events) ==
    LET upTo[i \in 0 .. Len(events)] ==
          IF i = 0 THEN <<>>
          ELSE IF events[i].kind = "item" THEN Append(upTo[i - 1], events[i]) ELSE upTo[i - 1]
    IN upTo[Len(events)]

\* Mutant: any message without a phase replaces the fallback.
LookFirst(seen, item) ==
    CASE seen.done -> seen
      [] ~seen.done /\ item.phase = "final" -> [done |-> TRUE, text |-> item.n]
      [] ~seen.done /\ item.phase = "plain" -> [done |-> FALSE, text |-> item.n]
      [] OTHER -> seen

\* One round of finalAssistantResponse: text is the fallback, until it is the answer.
Look(seen, item) ==
    CASE seen.done -> seen
      [] ~seen.done /\ item.phase = "final" -> [done |-> TRUE, text |-> item.n]
      [] ~seen.done /\ item.phase = "plain" /\ seen.text = None -> [done |-> FALSE, text |-> item.n]
      [] OTHER -> seen

\* finalAssistantResponse: the loop over the items, from the last to the first.
FinalAssistantResponse(items) ==
    LET seen[j \in 0 .. Len(items)] ==
          IF j = 0 THEN [done |-> FALSE, text |-> None]
          ELSE Look(seen[j - 1], items[Len(items) + 1 - j])
    IN seen[Len(items)].text

\* Mutant: a result is built and the route stays registered.
CollectOpen ==
    /\ mode = "run" /\ ret = "none" /\ reader = "ready" /\ ends # <<>>
    /\ IF Last(ends) # "EOF" THEN ret' = "error" /\ UNCHANGED result
       ELSE IF Last(got).status = "failed" THEN ret' = "failed" /\ UNCHANGED result
       ELSE /\ ret' = "ok"
            /\ result' = [items |-> Items(got), final |-> FinalAssistantResponse(Items(got)),
                          usage |-> latestUsage, status |-> Last(got).status]
    /\ UNCHANGED <<serverVars, route, box, failed, start, mode, reader, streamVars, closer, got,
                   ends>>

\* collectTurnResult, once Next has returned an end, and RunContext's deferred Close.  The
\* event that ends the turn has the stream's latest usage.
Collect ==
    /\ mode = "run" /\ ret = "none" /\ reader = "ready" /\ ends # <<>>
    /\ IF Last(ends) # "EOF" THEN ret' = "error" /\ UNCHANGED result
       ELSE IF Last(got).status = "failed" THEN ret' = "failed" /\ UNCHANGED result
       ELSE /\ ret' = "ok"
            /\ result' = [items |-> Items(got), final |-> FinalAssistantResponse(Items(got)),
                          usage |-> latestUsage, status |-> Last(got).status]
    /\ Close
    /\ UNCHANGED <<serverVars, box, failed, start, mode, reader, terminalErr, terminalEOF,
                   latestUsage, closer, got, ends>>

\* The context has ended before a call of Next: the stream is not, RunContext is.
RunCancelled ==
    /\ mode = "run" /\ ret = "none" /\ reader = "ready" /\ End = "none"
    /\ ret' = "error"
    /\ Close
    /\ UNCHANGED <<serverVars, box, failed, start, mode, reader, terminalErr, terminalEOF,
                   latestUsage, closer, got, ends, result>>

-----------------------------------------------------------------------------
Init ==
    /\ turn = "none" /\ sent = <<>>
    /\ route = "none" /\ box = <<>> /\ failed = "no"
    /\ start = "idle" /\ mode = "no"
    /\ reader = "ready" /\ terminalErr = "none"
    /\ terminalEOF = FALSE /\ closed = FALSE
    /\ latestUsage = None /\ closer = "idle"
    /\ got = <<>> /\ ends = <<>>
    /\ ret = "none"
    /\ result = [items |-> <<>>, final |-> None, usage |-> None, status |-> "completed"]

Reader == NextEnds \/ NextCalls \/ NextLooksUp \/ NextTries \/ NextReceives \/ Collect

Next ==
    \/ ServerStarts \/ ServerSends \/ RouteOverflows \/ TransportFails
    \/ StartTurn \/ RegisterTurn \/ StartTurnFails \/ Stream("stream") \/ Stream("run")
    \/ CloseMarks \/ CloseUnregisters
    \/ Reader \/ NextCancelled \/ RunCancelled

Spec == Init /\ [][Next]_vars

\* The goroutine in Next runs, and a turn does not go on for ever.
FairSpec == Spec /\ WF_vars(Reader) /\ WF_vars(ServerSends)

-----------------------------------------------------------------------------
Texts == 0 .. MaxSent
Ends  == {"EOF", "closed", "unregistered", "failure", "cancelled", "malformed"}

\* Type invariant.
TypeOK ==
    /\ turn \in {"none", "running", "ended"} /\ sent \in Seq(Notifications)
    /\ route \in {"none", "open", "closed"} /\ box \in Seq(Notifications \cup {Failure})
    /\ Len(box) <= RouteLimit
    /\ failed \in {"no", "fault", "overflow"}
    /\ start \in {"idle", "sent", "handle", "error"} /\ mode \in {"no", "stream", "run"}
    /\ reader \in {"ready", "lookup", "try", "tryFailed", "select"}
    /\ terminalErr \in (Ends \ {"EOF", "closed"}) \cup {"none"}
    /\ {terminalEOF, closed} \subseteq BOOLEAN /\ latestUsage \in Texts
    /\ closer \in {"idle", "marked", "returned"}
    /\ got \in Seq(Notifications) /\ ends \in Seq(Ends)
    /\ ret \in {"none", "ok", "failed", "error"}
    /\ result \in [items : Seq(Notifications), final : Texts, usage : Texts, status : Statuses]

\* The events Next returns are the turn's notifications from the first on, in order and
\* without a gap: those that come before turn/start is answered are waiting in the
\* route (acceptance-test-spec.md RTR-001), and neither Close nor the end of the
\* transport lets one overtake another.
InOrder == IsPrefix(got, sent)

\* The end of a stream is stable: an end that Next has returned, io.EOF "after normal
\* completion" or "a stable terminal error after failure" (acceptance-test-spec.md
\* API-003), it returns from then on, through its own Close and whatever the transport
\* does.  Only ErrStreamClosed may take its place, and only when the caller has closed
\* the stream.
StableEnd ==
    \A i, j \in 1 .. Len(ends) :
        i < j => ends[j] = ends[i] \/ (ends[j] = "closed" /\ closer # "idle")

\* "Close is concurrent-safe and idempotent, unregisters its route, and future Next
\* calls match ErrStreamClosed" (API-003): what a call of Next returns that begins
\* after the caller's Close has returned.
ClosedStreamsSaySo ==
    [][(closer = "returned" /\ reader = "ready" /\ ends' # ends)
          => Last(ends') = "closed"]_vars

\* The positions of the messages a result may be taken from.
Answers(phase) == {i \in 1 .. Len(sent) : sent[i].kind = "item" /\ sent[i].phase = phase}
Spoken(phase)  == {i \in Answers(phase) : sent[i].n # None}

\* What RunContext returns is what the server has sent: every item, the latest usage, the
\* status, and as the final response the latest final_answer, or else the latest message
\* without a phase that says something (acceptance-test-spec.md API-003, API-004).  A
\* failed turn is an error, and there is no result without the turn's completion.
ResultRight ==
    /\ ret = "ok" =>
         /\ turn = "ended" /\ result.status = Last(sent).status /\ result.status # "failed"
         /\ result.items = Items(sent)
         /\ result.final = IF Answers("final") # {} THEN sent[Max(Answers("final"))].n
                           ELSE IF Spoken("plain") # {} THEN sent[Max(Spoken("plain"))].n
                           ELSE None
         /\ \A i \in 1 .. Len(sent) :
              sent[i].kind = "usage" /\ sent[i].n # None => result.usage >= sent[i].n
    /\ ret = "failed" => turn = "ended" /\ Last(sent).status = "failed"

\* RunContext returns once the turn has ended or the transport has failed, wherever the
\* end finds it, and leaves no route behind: nothing of the turn is buffered after it.
RunReturns == (mode = "run") ~> (ret # "none" /\ route = "closed")

\* Giving up turn/start does not end the client (acceptance-test-spec.md TRN-004): once
\* startTurn has returned its error, the turn it asked for does not fill a route.
CancelSparesClient == [][start = "error" /\ failed = "no" => failed' # "overflow"]_vars
=============================================================================
