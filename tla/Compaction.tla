----------------------------- MODULE Compaction -----------------------------
(***************************************************************************)
(* CompactThreadAndWait (client.go) on one thread.  A call registers the   *)
(* thread's compaction route, reads which compactions the thread has       *)
(* completed, asks for one more and waits for whatever comes first: the    *)
(* notification thread/compacted, which a goroutine of the call reads from *)
(* the route, or a new completed compaction in the snapshots that another  *)
(* goroutine polls.  Calls follow one another, since each runs under the   *)
(* thread's lock; what a call has started may outlive it.                  *)
(***************************************************************************)
EXTENDS Integers, Sequences, FiniteSets, FiniteSetsExt

CONSTANTS
    MaxCalls,      \* calls of CompactThreadAndWait
    MaxOwn         \* compactions the server starts on its own account (bound)

ASSUME CompactionAssumption == MaxCalls \in Nat \ {0} /\ MaxOwn \in Nat

Calls == 1 .. MaxCalls
Ids   == 1 .. MaxCalls + MaxOwn   \* turn ids of compactions, in the order they start
NoId  == 0

VARIABLES
    notifies,             \* does the server emit thread/compacted?
    started, completed,   \* the server: how many it has started, those it completed
    compactionRoute, mail,          \* the compaction route and its notifications
    call, pc,             \* the call being made and where it is
    baseline, fallback,   \* what its first thread/read said, and did it say anything
    own, done0,           \* the compaction each call asked for, and what had been
                          \* completed when it began
    accepted, confirmed,  \* its CompactionResult: RequestAccepted, TurnID
    listener, poller,     \* the goroutines of each call
    holds,                \* the call whose route the listener has looked up
    heard, seen           \* the channels on which they tell it

compactorVars == <<notifies, started, completed>>
callVars   == <<call, pc, baseline, fallback, own, done0, accepted, confirmed>>
compactionVars == <<compactorVars, compactionRoute, mail, callVars, listener, poller, holds,
                    heard, seen>>

Goto(label) == pc' = label

-----------------------------------------------------------------------------
(* The server (external): one compaction at a time *)

ServerCompacts ==
    /\ started = Cardinality(completed)
    /\ Cardinality({i \in 1 .. started : \A k \in Calls : own[k] # i}) < MaxOwn
    /\ started' = started + 1
    /\ UNCHANGED <<notifies, completed, compactionRoute, mail, callVars, listener, poller,
                   holds, heard, seen>>

\* RouteNotification: a route that was never registered keeps its notifications, a
\* closed one has none.
Routed(i) == IF notifies /\ compactionRoute # "closed" THEN Append(mail, i) ELSE mail

\* A compaction is completed, visible to thread/read and announced.
ServerCompletes ==
    /\ started > Cardinality(completed)
    /\ completed' = completed \cup {started}
    /\ mail' = Routed(started)
    /\ UNCHANGED <<notifies, started, compactionRoute, callVars, listener, poller, holds, heard,
                   seen>>

-----------------------------------------------------------------------------
(* CompactThreadAndWait *)

\* registerCompaction
Register ==
    /\ pc = "idle" /\ call < MaxCalls
    /\ call' = call + 1
    /\ compactionRoute' = "open"
    /\ done0' = [done0 EXCEPT ![call + 1] = completed]
    /\ Goto("baseline")
    /\ UNCHANGED <<compactorVars, mail, baseline, fallback, own, accepted, confirmed, listener,
                   poller, holds, heard, seen>>

\* completedCompactionTurns
Baseline ==
    /\ pc = "baseline"
    /\ \/ baseline' = completed /\ fallback' = TRUE
       \/ baseline' = {} /\ fallback' = FALSE
    /\ Goto("request")
    /\ UNCHANGED <<compactorVars, compactionRoute, mail, call, own, done0, accepted, confirmed,
                   listener, poller, holds, heard, seen>>

\* thread/compact/start: the server accepts it when it is not compacting, and the
\* goroutines of waitForCompaction are started.
Request ==
    /\ pc = "request" /\ started = Cardinality(completed)
    /\ started' = started + 1
    /\ own' = [own EXCEPT ![call] = started + 1]
    /\ accepted' = [accepted EXCEPT ![call] = TRUE]
    /\ listener' = [listener EXCEPT ![call] = "new"]
    /\ poller' = IF fallback THEN [poller EXCEPT ![call] = "read"] ELSE poller
    /\ Goto("wait")
    /\ UNCHANGED <<notifies, completed, compactionRoute, mail, call, baseline, fallback, done0,
                   confirmed, holds, heard, seen>>

RequestFails ==
    /\ pc = "request"
    /\ Goto("unregister")
    /\ UNCHANGED <<compactorVars, compactionRoute, mail, call, baseline, fallback, own, done0,
                   accepted, confirmed, listener, poller, holds, heard, seen>>

\* The select of waitForCompaction.
WaitEnds ==
    /\ pc = "wait"
    /\ \E i \in heard[call] \cup seen[call] :
         confirmed' = [confirmed EXCEPT ![call] = i]
    /\ Goto("unregister")
    /\ UNCHANGED <<compactorVars, compactionRoute, mail, call, baseline, fallback, own, done0,
                   accepted, listener, poller, holds, heard, seen>>

\* The caller's context ends.
WaitCancelled ==
    /\ pc = "wait"
    /\ Goto("unregister")
    /\ UNCHANGED <<compactorVars, compactionRoute, mail, call, baseline, fallback, own, done0,
                   accepted, confirmed, listener, poller, holds, heard, seen>>

\* waitCtx has been cancelled on the way here.
Unregister ==
    /\ pc = "unregister"
    /\ compactionRoute' = "closed" /\ mail' = <<>>
    /\ Goto("idle")
    /\ UNCHANGED <<compactorVars, call, baseline, fallback, own, done0, accepted, confirmed,
                   listener, poller, holds, heard, seen>>

-----------------------------------------------------------------------------
(* The goroutines of call k *)

Cancelled(k) == k < call \/ pc \in {"idle", "unregister"}

\* nextCompaction looks up the route by the thread's id ...
ListenerCalls(k) ==
    /\ listener[k] = "new"
    /\ listener' = [listener EXCEPT ![k] = IF compactionRoute = "open" THEN "try" ELSE "done"]
    /\ holds' = [holds EXCEPT ![k] = call]
    /\ UNCHANGED <<compactorVars, compactionRoute, mail, callVars, poller, heard, seen>>

\* A route that was unregistered since gets no more notifications.
HasMail(k) == holds[k] = call /\ compactionRoute = "open" /\ mail # <<>>

\* ... receives from its queue, whether or not the context has ended ...
ListenerReceives(k) ==
    /\ listener[k] \in {"try", "select"} /\ HasMail(k)
    /\ heard' = [heard EXCEPT ![k] = {Head(mail)}]
    /\ mail' = Tail(mail)
    /\ listener' = [listener EXCEPT ![k] = "done"]
    /\ UNCHANGED <<compactorVars, compactionRoute, callVars, poller, holds, seen>>

ListenerWaits(k) ==
    /\ listener[k] = "try" /\ ~HasMail(k)
    /\ listener' = [listener EXCEPT ![k] = "select"]
    /\ UNCHANGED <<compactorVars, compactionRoute, mail, callVars, poller, holds, heard, seen>>

\* ... or ends with its context.
ListenerEnds(k) ==
    /\ listener[k] = "select" /\ Cancelled(k)
    /\ listener' = [listener EXCEPT ![k] = "done"]
    /\ UNCHANGED <<compactorVars, compactionRoute, mail, callVars, poller, holds, heard, seen>>

\* Mutant: a turn counts before it has completed.
NewTurnsAny == (1 .. started) \ baseline

\* The completed compactions of a snapshot that the baseline does not have.
NewTurns == completed \ baseline

\* Mutant: a snapshot with nothing new ends the polling.
PollerReadsOnce(k) ==
    /\ poller[k] = "read" /\ k = call
    /\ poller' = [poller EXCEPT ![k] = "done"]
    /\ seen' = IF NewTurns = {} THEN seen ELSE [seen EXCEPT ![k] = {Min(NewTurns)}]
    /\ UNCHANGED <<compactorVars, compactionRoute, mail, callVars, listener, holds, heard>>

\* pollCompactionSnapshot: the first new one in the thread's order.  What an earlier
\* call's poller still reads, nobody receives.
PollerReads(k) ==
    /\ poller[k] = "read" /\ k = call
    /\ \/ /\ NewTurns # {}
          /\ seen' = [seen EXCEPT ![k] = {Min(NewTurns)}]
          /\ poller' = [poller EXCEPT ![k] = "done"]
       \/ /\ NewTurns = {}
          /\ poller' = [poller EXCEPT ![k] = "tick"]
          /\ UNCHANGED seen
    /\ UNCHANGED <<compactorVars, compactionRoute, mail, callVars, listener, holds, heard>>

\* thread/read fails, for a poller of an earlier call because its context has ended.
PollerFails(k) ==
    /\ poller[k] = "read"
    /\ poller' = [poller EXCEPT ![k] = "tick"]
    /\ UNCHANGED <<compactorVars, compactionRoute, mail, callVars, listener, holds, heard, seen>>

\* (With the context ended the select may still take the ticker some times: such a
\* round, whose read fails, changes nothing and is left out.)
PollerTicks(k) ==
    /\ poller[k] = "tick" /\ ~Cancelled(k)
    /\ poller' = [poller EXCEPT ![k] = "read"]
    /\ UNCHANGED <<compactorVars, compactionRoute, mail, callVars, listener, holds, heard, seen>>

PollerEnds(k) ==
    /\ poller[k] = "tick" /\ Cancelled(k)
    /\ poller' = [poller EXCEPT ![k] = "done"]
    /\ UNCHANGED <<compactorVars, compactionRoute, mail, callVars, listener, holds, heard, seen>>

-----------------------------------------------------------------------------
CompactionInit ==
    /\ notifies \in BOOLEAN
    /\ started = 0 /\ completed = {}
    /\ compactionRoute = "none" /\ mail = <<>>
    /\ call = 0 /\ pc = "idle" /\ baseline = {} /\ fallback = FALSE
    /\ own = [k \in Calls |-> NoId] /\ done0 = [k \in Calls |-> {}]
    /\ accepted = [k \in Calls |-> FALSE] /\ confirmed = [k \in Calls |-> NoId]
    /\ listener = [k \in Calls |-> "none"] /\ poller = [k \in Calls |-> "none"]
    /\ holds = [k \in Calls |-> 0]
    /\ heard = [k \in Calls |-> {}] /\ seen = [k \in Calls |-> {}]

Caller == Register \/ Baseline \/ Request \/ WaitEnds \/ Unregister

Listener(k) ==
    ListenerCalls(k) \/ ListenerReceives(k) \/ ListenerWaits(k) \/ ListenerEnds(k)

Poller(k) == PollerReads(k) \/ PollerFails(k) \/ PollerTicks(k) \/ PollerEnds(k)

CompactionNext ==
    \/ ServerCompacts \/ ServerCompletes
    \/ Caller \/ RequestFails \/ WaitCancelled
    \/ \E k \in Calls : Listener(k) \/ Poller(k)

CompactionSpec == CompactionInit /\ [][CompactionNext]_compactionVars

\* The server completes what it starts, goroutines run, and a read succeeds now and then.
Fairness ==
    /\ WF_compactionVars(ServerCompletes) /\ WF_compactionVars(Caller)
    /\ \A k \in Calls : /\ WF_compactionVars(Listener(k)) /\ WF_compactionVars(Poller(k))
                        /\ SF_compactionVars(PollerReads(k))

CompactionFairSpec == CompactionSpec /\ Fairness

-----------------------------------------------------------------------------
(* Properties *)

\* Type invariant.
CompactionTypeOK ==
    /\ notifies \in BOOLEAN /\ started \in 0 .. MaxCalls + MaxOwn /\ completed \subseteq Ids
    /\ compactionRoute \in {"none", "open", "closed"} /\ mail \in Seq(Ids)
    /\ call \in 0 .. MaxCalls
    /\ pc \in {"idle", "baseline", "request", "wait", "unregister"}
    /\ baseline \subseteq Ids /\ fallback \in BOOLEAN
    /\ own \in [Calls -> Ids \cup {NoId}] /\ done0 \in [Calls -> SUBSET Ids]
    /\ accepted \in [Calls -> BOOLEAN] /\ confirmed \in [Calls -> Ids \cup {NoId}]
    /\ listener \in [Calls -> {"none", "new", "try", "select", "done"}]
    /\ poller \in [Calls -> {"none", "read", "tick", "done"}]
    /\ holds \in [Calls -> 0 .. MaxCalls]
    /\ heard \in [Calls -> SUBSET Ids] /\ seen \in [Calls -> SUBSET Ids]

\* Call k may be told of a compaction that was over when it began: only the first
\* call, whose route the router has kept notifications for.
Kept(k, i) == k = 1 /\ notifies /\ i \in done0[k]

\* The compaction a result names has completed, for a request that was accepted, and
\* is new to the call.  The snapshots read before the request, the goroutines of
\* earlier calls and what was announced while no call ran must not be taken for it;
\* what was announced before the first call is (router.go:393-395).
ConfirmsNew ==
    \A k \in Calls :
        confirmed[k] # NoId =>
            /\ accepted[k] /\ confirmed[k] \in completed
            /\ confirmed[k] \in done0[k] => Kept(k, confirmed[k])

\* "requests compaction and waits until app-server emits thread/compacted or
\* thread/read exposes a new completed contextCompaction turn" (client.go:521-525):
\* no call confirms a compaction that was over when it began.
ConfirmsFresh == \A k \in Calls : confirmed[k] # NoId => confirmed[k] \notin done0[k]

\* Whatever ends a call, the goroutines waitForCompaction started for it end too:
\* the deferred cancel reaches the one in nextCompaction and the one that polls, and
\* neither is left sending on a channel nobody reads.
GoroutinesEnd ==
    \A k \in Calls :
        Cancelled(k) ~> (listener[k] \in {"none", "done"} /\ poller[k] \in {"none", "done"})

\* No goroutine of an earlier call may still look up, or has looked up, the route
\* that call k has registered.
Unshared(k) == \A j \in 1 .. k - 1 : listener[j] # "new" /\ holds[j] # k

\* A call whose compaction the server has accepted returns without its context
\* having to end: by the snapshots if the thread could be read once, else by the
\* notification of a server that emits it, provided that no listener of an earlier
\* call takes it, which nothing prevents (client.go:521-524).
CallsReturn ==
    \A k \in Calls :
        (call = k /\ pc = "wait" /\ (fallback \/ (notifies /\ Unshared(k))))
            ~> (call # k \/ pc # "wait")
=============================================================================
