# Verification of codex-sdk-go

TLA+ models of the concurrent core of the Codex SDK for Go, model-checked with TLC and,
in their safety, proved with TLAPS. `PROJECT.json` maps every definition to the lines it models and
lists the runs, mutants, findings, hazards and theorems.

## 1. The system

The SDK starts `codex app-server` as a child process and speaks JSON-RPC over its stdin
and stdout. One goroutine reads stdout; every other part reacts to what it routes.

| component | source | state | operations | what is hard |
|---|---|---|---|---|
| notification router | `internal/router/router.go` | four maps of routes (login, turn, goal, compaction) with bounded queues, a global queue, counters, the failure | `RouteNotification`, `Register*`, `Unregister*`, `Next*`, `FailAll` | notifications come before their route is registered; the receive and the counting of an item are two critical sections; sends under a mutex |
| request correlation | `router.go`, `internal/appserver/client.go` | the map of response waiters | `Request`, `RouteResponse`, `DiscardResponseWaiter`, `FailAll` | late, repeated and missing responses; cancellation; failure in the middle |
| process and workers | `internal/appserver/client.go` | the child, its pipes, the queue of server requests, the workers | `Start`, `Close`, `readLoop`, `waitLoop`, workers | who closes which channel, who waits for whom |
| thread serialisation | `client.go`, `goal.go` | a map of counted locks, a map of goals | `withThreadLock`, `startTurn`, `StartGoal`, `CompactThreadAndWait`, closing a goal | locks are deleted and made again; a goal outlives the lock under which it was started |
| goal operation | `goal.go` | what is known of the goal and its turns | `routeLoop`, `awaitStart`, `awaitContinuation`, `GoalStream.Next`, `CancelContext`, `Close` | the same fact is announced several times and in several orders |
| turn | `turn_api.go`, `client.go` | the flags of a `TurnStream` | `startTurn`, `Next`, `Close`, `RunContext` | closing and failing while `Next` waits; giving up a request the server has taken |
| compaction | `client.go` | none of its own | `CompactThreadAndWait` | two sources of the same news; goroutines that outlive a call |
| runtime installer | `internal/runtimebin` | a cache directory shared by processes, a lock file | `Install`, `Remove`, `ResolveRuntime` | crashes; stale locks; steps that are not atomic |
| client start | `client.go`, `internal/appserver/client.go` | where the start is, the child | `NewClient`, `ensureStarted`, `Start`, `initialize` | the start fails after the child is up and nobody owns the child |
| login, retry, error mapping | `login.go`, `retry.go`, `errors.go`, `client.go` | the handles' routes; delay and attempts of a retry | `loginStart`, `waitForLogin`, `RetryOnOverload`, `translateAppServerError`, `MapRPCError`, `IsRetryable` | completions before, between and during waits; waits that share a handle |
| generated protocol types | `protocol/generated_types.go`, `cmd/codex-sdk-gen/protocolgen.go` | none | the `UnmarshalJSON`/`MarshalJSON` of 78 unions and 4 structs, and the rules that generate them | which variant takes a value; what survives a round trip; servers newer than the SDK |
| thread API, options, inputs, packaging, command lines, scripts | see `PROJECT.json` | none | | not modelled, see section 9 |

How they interact: `readLoop` calls the router, which wakes callers of `Request` and
consumers of `Next*`; goals, turns and compactions are consumers that register routes by
the id of a thread or a turn; the end of the child reaches all of them through `FailAll`;
the thread lock keeps turns, goals and compactions of one thread apart. Everything the
server says, and all a caller reads back, passes through the generated decoders.

What makes each part correct: the router neither blocks its reader nor loses, repeats or
reorders an item below its limits; a request returns and leaves nothing behind; closing
reaps the child and ends every goroutine; of the operations on a thread one is at work at
a time; a goal shows its turns as one stream that ends when the goal does; a turn's result
is what the server sent; a confirmed compaction is a new one; the cache is whole or empty;
a failed start leaves no process; a login's completion reaches a wait on its handle, once; a
value is decoded as the variant it is, and what the SDK does not know is kept as it came.

## 2. Modules

One action is one critical section, one channel operation, one system call, or a stretch
of code that only touches what its goroutine owns. Interleavings of these are explored.
Actions named after a function of the code model it; the parts of longer functions are
named for what they do. An operator marked `Mutant` is a wrong version of the next one,
used to show that a property can fail.

**Router** (`MCRouter`, `RouterProofs`). A `routeState` is an element of `heap`, the route
maps point to it, and a consumer that has looked one up keeps the pointer: so an item may
be subtracted from a state that is no longer a route's. `RouteNotification` serves the
routes a notification names one after the other, each in its own critical section.
`nextRoute` is looking up, trying the queue, selecting, and releasing. `FailAll` sets the
failure and then pushes the error to one queue at a time.

**Mailbox** is what the router promises: a bounded FIFO per route that accepts mail before
it is opened. `Router!ImplementsMailbox` maps the queue and the pending list of a route to
its mailbox.

**Requests** (`MCRequests`, `RequestsProofs`). A call registers a waiter, writes, waits.
`RouteResponse` and `FailAll` take waiters under the mutex and send after it. The child
answers in any order, late, twice or never. The write has two steps, taking `writeMu` and
writing: the stdin pipe holds `PipeRoom` messages, the first of which is the `initialized`
notification, and a writer that finds it full stays where it is, with the mutex, until the
child reads or the pipe is gone.

**AppServer** (`MCAppServer`, `AppServerProofs`). Lines travel from the child to the pipe, to the scanner's
buffer, to the queue, to a worker. The child may close its stdout, end, or stay until it is
killed. `waitLoop` reaps, cancels, closes the queue, joins,
fails the router, closes `waitDone`. `Close` closes stdin, interrupts, kills. A send on a
closed channel sets `panicked`. The initialize exchange is one step with an outcome.

**Threads** (`MCThreads`, `ThreadsProofs`). Goroutines choose an operation and a thread,
get or make the lock entry, acquire it, do the operation's steps, release, and delete the
entry with its last user. Closing a goal takes no lock.

**Goal** (`MCGoal`, `GoalProofs`). One operation: the route loop, the caller, who starts the goal
and pulls its stream, a server that follows one of a set of scripts of notifications, and a
goroutine in `CancelContext` or `Close`. This one is the caller's own, between two calls of
`Next`, or, with the scripts of the constant `Shared`, any other one at any time, also while the
caller is blocked in `Next`. A script may begin with the `thread/goal/cleared` that answers
`StartGoal`'s own clear.

**Turn** (`MCTurn`, `OperationProofs`). One turn, from `turn/start` to the result, with its route reduced to
what one consumer can tell, and a second goroutine that may close the stream.

**Compaction** (`MCCompaction`, `OperationProofs`). Calls one after the other on one thread, the listener and
the poller each starts, and a server that compacts when asked and on its own account.

**Installer** (`MCInstaller`, `StartProofs`). Processes over one lock file and one
install root. A directory is absent, whole, or broken with or without the executable.

**Session** (`MCSession`, `StartProofs`). `NewClient` goes through resolving, spawning and
initializing, each of which may fail; then goroutines begin logins, some through
`RetryOnOverload`, and wait on any handle that was returned. A login's route is an object
with a generation, as in Router: a wait keeps the object it has looked up, while another
wait, by ending, makes the next registration create a new one. The answers of the server to
a login range over the kinds of errors that `translateAppServerError`, `MapRPCError` and
`IsRetryable` tell apart.

**Decoder, Unions, Wire** (`MCWire`, `WireProofs`). `Decoder` is both halves of the
generated types: what `protocolgen.go` makes of a union (which discriminator it finds, which
check it emits, the order of the checks), and what the emitted `UnmarshalJSON` and
`MarshalJSON` do. A JSON value is abstracted to its kind, the literal that may name a
variant, its keys and those of ill-typed values. `Unions` is the table of every union of
`generated_types.go` and of the structs with a decoder of their own, one definition per
union. `Wire` is the life of a value: sent, decoded, encoded, decoded again.

## 3. Runs

One passing run per component, with the safety and the liveness questions together:

| run | shows | bounds |
|---|---|---|
| `router` | counters and totals exact (`AccountsExact`), sends under the mutex find room, nothing follows the failure, Router implements Mailbox, a failure reaches a consumer that has to itself a queue the router still knows, and of several on one queue one | a turn route and the global queue, a consumer of both and one of the global queue, two route states so that one is reused, limits of 1 and 2 events and of 2 and 3 bytes so that each kind is met, 2 notifications of two sizes |
| `requests` | no send blocks, no waiter leaks, every call returns once the pipe is gone, the one blocked in a write and those behind it on `writeMu` included | 3 calls, 2 waiters, one message that cannot be written, a pipe that holds 1 message, 2 responses per id |
| `appserver` | at most the limit of handlers, each request reaches one handler and is answered once, `Close` reaps and returns, goroutines end with the child | 2 callers, 2 server requests and a malformed line of which the child sends two, a stdout it may close, a limit of 1 |
| `threads` | mutual exclusion per thread, goals and turns exclude each other, the map of goals and the routes of compactions are their owners', operations return | 2 goroutines, as many lock objects, which are reused |
| `goal` | events in order without a gap and the end last, a started turn is found, a cancelled goal leaves no turn running, the route loop ends and with it the caller, or the goroutine that closed the goal | 8 scripts of up to three turns, one with an invalid update, two that begin with the end of the old goal; a caller that cancels or closes between two calls of `Next`, and with the 6 shorter scripts any goroutine at any point |
| `turn` | order, stable ends, the right result; `RunContext` returns and leaves no route | 3 notifications of every kind, a route limit of 2 |
| `compaction` | only a new compaction is confirmed, or by the first call one announced before it; calls return | 2 calls, one compaction of the server's own at any time, with and without `thread/compacted` |
| `installer` | the root changes from nothing to everything only, success means a whole root, nothing is left behind, installers return | 2 installers and a remover, crashes at any step, locks that age under a living owner, roots that are broken from the start |
| `session` | a wait returns its own login's completion, which is kept until some wait on its handle has ended and handed out once; the pauses of a retry are doubled, capped and jittered as documented; a failed start leaves no child; waits return | 2 goroutines, 2 logins, a wait per goroutine, so that one wait may follow or overlap another's; 3 attempts, and delays that meet their maximum at the second pause |
| `wire` | an instance of a variant decodes as that variant, what no variant recognises is kept, and decoding, encoding and decoding again changes nothing | all 78 unions and 4 structs, with and without optional and unknown keys, and near misses: one required key left out, one value of a wrong type, an unknown literal, another kind |

The bounds are the smallest at which the cases in question happen: two actors of every kind
that can disturb each other, objects that are reused, queues that can be full, and one more
notification than fits. The theorems of section 6 cover the other sizes, such as several
routes that one notification names. Deadlock is not checked where every bounded input has
been used up at the end and the program would just wait for more. The type invariants are
not among the properties of the runs: those of Router, Requests, AppServer, Threads, Installer,
Goal, Turn and Compaction, and `CallsReachable` of Requests and `LocksExact` of Threads, are
proved.

## 4. Findings, and what holds only with a condition

Two runs check one statement of the repository each and find that the code does otherwise;
the findings in `PROJECT.json` quote it:

| run | what TLC shows |
|---|---|
| `appserver_panic` | a server request read after the child has been reaped is sent on a closed channel |
| `wire_shadowed` | `FileSystemSpecialPath` is named by `kind`, which the generator does not look for: its first variant takes every value and the encoding loses `path` and `subpath` |

Configurations beside the runs, each of which TLC finds violated, are kept to be run again
when the code changes. Where a statement of the repository is contradicted it is named, in
`docs/codex-sdk-parity/acceptance-test-spec.md` if nothing else is said:

| configuration | module, property | what it shows |
|---|---|---|
| `appserver_silent.cfg` | `MCAppServer`, `EndIsNoticed` | the child closes its stdout and lives: `readLoop` ends without a word, and nobody is told (TRN-007, lines 132-133) |
| `router_woken.cfg` | `MCRouter`, `FailAllWakesAll` | of two goroutines in `NextGlobal`, or in any other `Next` on one queue, `FailAll` wakes one (`router.go:314`, RTR-004) |
| `router_unregistered.cfg` | `MCRouter`, `FailAllWakesAll` | a consumer whose route is unregistered while it waits is not woken by `FailAll` (`router.go:314`) |
| `router_overflow.cfg` | `MCRouter`, `OverflowIsolatesRoute` | one route at its limit ends the transport, where lines 125-126 (TRN-006) ask for that route to be isolated |
| `threads_goal_route.cfg` | `MCThreads`, `OwnerKeepsRoute` | a refused second `StartGoal` unregisters the route of the goal that owns the thread |
| `goal_continuation.cfg` | `MCGoal`, `GoalEnds` | a continuation that `thread/goal/updated` names first is queued a second time by `noteTurnID` after the stream has taken it, and the stream waits for ever |
| `goal_closed.cfg` | `MCGoal`, `CallerEnds` | `CancelContext` or `Close` ends the route loop, and a `Next` that is blocked, or that the owner goes on to call, is not signalled |
| `goal_cleared.cfg` | `MCGoal`, `StartObservesTurn` | a `thread/goal/cleared` that answers `StartGoal`'s own clear is taken for the end of the new goal (GOAL-002, lines 263-264) |
| `compaction_kept.cfg` | `MCCompaction`, `ConfirmsFresh` | a notification from before the first call is kept for its route and confirms it (`client.go:521-525`) |
| `turn_closed.cfg` | `MCTurn`, `ClosedStreamsSaySo` | a stream closed after, or in the middle of, its end goes on returning that end, where lines 204-205 (API-003) ask for `ErrStreamClosed` |
| `turn_cancelled.cfg` | `MCTurn`, `CancelSparesClient` | the notifications of a turn whose `turn/start` was given up overflow and end the client |
| `installer_selected.cfg` | `MCInstaller`, `SelectedIsWhole` | a runtime that `Remove` is deleting is selected as long as its executable is there (line 322) |
| `session_two_waits.cfg` | `MCSession`, `FailureWakesWaits` | of two waits on one handle the first to end unregisters the route; the other waits on a queue that neither a completion nor `FailAll` reaches (RTR-004) |

`session_capped.cfg` (`MCSession`, `RetriesRight`) is no run either, but passes: a retry whose
initial delay is beyond the maximum, of which the theorem `RetriesAreRight` speaks as well.

Some properties hold only with a condition, which is written into them or into a constant,
because the code does not do without it:

* `FailAllWakesConsumers` is about a consumer that has to itself a queue the router knows.
  On a queue that several share, `FailAllServesQueue` says what the code does: one of them
  is served. `router_woken.cfg` and `router_unregistered.cfg` show the two cases that are left.
  `WaitsReturn` of Session is about handles that are not shared, for the same reason.
* `CallsReturn` of Requests is about the end of the pipe. Until then a call that is blocked
  in `stdin.Write`, and those behind it on `writeMu`, do not look at their contexts.
* `RetriesRight` holds for all delays, but says what the code does: the jitter is taken from
  the delay as it is kept, and that is capped only when it is doubled, so with an initial
  delay beyond the maximum the first pause spreads by the jitter of that initial delay.
* `DecodesOwn` and `UnknownKept` are about unions whose variants the checks can tell apart
  (`Distinguishable`); `MCWire` states that only `FileSystemSpecialPath` and
  `McpServerElicitationRequestParams` are not.
* `InOrder` of Goal is about servers that name all their turns before they end the goal: the
  stream ends when the goal has ended and no turn is pending.
* `GoalEnds` is checked for servers that announce a continuation by `turn/started` alone
  (`goal_continuation.cfg` shows why), and promises the end of the caller only as long as no
  other goroutine closes the goal: then it is that one which returns, and the caller may stay
  in `Next` (`goal_closed.cfg`). `docs/concurrency-cancellation.md` asks for a single owner
  of a handle and its stream; the other properties of `goal` do not rely on it.
* `StartFindsTurn` excepts a `StartGoal` whose route loop has heard of nothing but the end of
  the old goal (`goal_cleared.cfg`).
* `InOrder` of Goal also takes a server that, after it has announced the end of the old goal,
  gives the new one's status before it names a turn, as the answer to `thread/goal/set` does:
  only that makes the operation forget that a goal was cleared.
* `ConfirmsNew` excepts what was announced before the first call (`compaction_kept.cfg`).
* `CallsReturn` of Compaction excepts a call whose thread could not be read when a listener
  of an earlier call, started late, takes its notification.
* `InstallsAtomically` and `OkMeansInstalled` except what `Remove`, which takes no lock, does
  to the root. Neither rests on the lock file: of two processes
  that both find a lock stale, the second may remove the lock the first has just created.
* `StableEnd` allows `ErrStreamClosed` to take the place of an earlier end once the caller
  has closed the stream, as API-003 demands; that the code does not do so is shown by `turn_closed.cfg`.
* `CloseReturns` and `GoroutinesEnd` of AppServer take handlers to return once their context
  is done; one that itself waits for an answer over the transport is not modelled.

Seen while modelling, stated by no run:

* A known payload that is malformed makes `UnmarshalJSON` fail, where
  `acceptance-test-spec.md`, PROTO-005, speaks of a raw fallback; the decoders fall back for
  unknown variants only.
* `translateAppServerError` does not go through `MapRPCError`. An error whose message is that
  of a retry limit and whose data does not say `server_overloaded` is retryable for the one
  and not for the other: an assumption of `MCSession` says that this is the only difference.
* A limit that ends the transport is reported as `ErrTransportClosed` alone once it has been
  translated, while TRN-006 asks for `ErrLimitExceeded` too.
* A login begun on the server whose caller's context has ended leaves its completion in a
  pending route that nobody will register.

## 5. Fairness

* Router: goroutines that can run do.
* Requests: goroutines that can run do, and the wait loop calls `FailAll` when the pipe is
  gone. The child need neither read nor answer, and no context has to end.
* AppServer: goroutines run; a child that was killed ends; a handler whose context is
  cancelled returns, which is the contract of handlers in the code. A child that was only
  asked or interrupted need not end.
* Threads: strong fairness for acquiring a mutex (Go's mutex does not starve a waiter);
  requests made under the lock are answered or given up; a cancelled route loop ends.
* Goal: the goroutines run, the one that cancels or closes included; the server goes through
  its script; the timer of `awaitStart` fires. Nobody has to cancel.
* Turn: `Next` runs and the server ends its turn, or the transport fails.
* Compaction: a compaction that has started completes; `thread/read` succeeds now and
  then.
* Session: a wait that can go on does, `FailAll` gets its sends done, and a closed client
  ends: `Close` kills the child when its time is up, so that `waitLoop` fails the router and
  reaps. Neither does a login have to complete nor a context to end.
* Installer: living installers run and time passes, so that a lock gets old. Nothing is
  assumed of the contexts: a lock is waited for without its context's help.

## 6. Proofs

`TypeCorrect` in RouterProofs, RequestsProofs, AppServerProofs, ThreadsProofs, StartProofs and
GoalProofs, `TurnTypeCorrect` and `CompactionTypeCorrect` in OperationProofs are the type
invariants for all values of the constants. The others rest on
an inductive invariant, which also serves as the reader's explanation.

Some of the proofs are about data of any size: the sum of what a router counts, the items of a
turn, a delay doubled again and again. The induction they need is taken from the least
element of a set of naturals (`WFMin` of the library), in the lemma `Induct` of the module,
which speaks of a set and not of a predicate; from it come the lemmas that the recursive
function exists and what it computes (`FoldExists`, `SumTake` and `SumStore` in RouterProofs,
those on `Items` and `Look` in OperationProofs, that on `Doubled` in StartProofs).

* **RouterProofs**. `SendsNeverBlock`: a send under the mutex always finds room. That a
  queue is not full follows from the counter only if the counter is exact, which involves
  the consumers between receiving and releasing. `CountInv` says: route maps do not share
  states (`RoutesDistinct`); a consumer that holds a route's state was called for that
  route, since an object somebody holds is not reused (`CallsMatch`); a state has a queue
  or early items, never both (`ShapeOK`); until the failure the counter of a live state is
  what it holds plus what consumers carry, and within its limit (`EventsOK`); errors are
  only pushed after the failure (`WakeOK`). Assumptions: the limits are positive, as
  `normalizeLimits` makes them, and there are finitely many consumers.
  `AccountsAreExact` adds the bytes and the totals (`BytesOK`, `TotalsOK`). `CallsMatch` is
  what makes the release right: a consumer finds its state in the map exactly if the state
  is live, so an item is subtracted either by the release or by the unregistration. The live
  states are finitely many at any time, however many keys there are, and a sum over them
  does not depend on the order of its terms.
  `FailuresComeLast`: no error is queued before the failure, an error is last in its queue,
  and a consumer that has been told has found nothing else (`EndInv`).
  `RouterImplementsMailbox`: a mailbox is the queue of the route's state or its early items
  (`BoxesShown`), whichever object that is, since routes do not share objects; every
  action is then a step of Mailbox or a stutter, with one lemma for each of its actions.
* **RequestsProofs**. A waiter is in exactly one place: the map, `RouteResponse`'s hands,
  `FailAll`'s hands, or nobody's, and its channel is empty unless it is nobody's. From
  this `SendsAlwaysFindRoom`, `WaitersNeverLeak` and `CallsStayReachable`.
* **AppServerProofs**. `Inv` has a part for each theorem. `PoolOK`: `workerCount` is the
  number of workers alive, and a queue that holds a request has a worker unless the read
  loop is about to start one. `FlowOK`: a line is in one of the pipe, the scanner's buffer,
  the queue, a worker's hands and the answers, and nowhere twice. `LifeOK`: how far
  `waitLoop` is says whether the child is reaped and the router failed, and whoever has
  returned from `Close` has seen `waitDone`. `HandlersAreBounded`, `HandledAtMostOnce` and
  `ClosesReap` follow. Assumptions: the limit is positive, as the code makes
  it, and there are more names for workers than may be alive.
* **ThreadsProofs**. `LocksStayExact` is needed for `LockExcludes`: the lock excludes only
  because the entry in the map is not deleted while somebody points to it, so that all who
  work on a thread hold the same entry. `TurnsExcludeGoals`, `GoalsHaveOneOwner` and
  `CompactionsKeepRoutes` then follow from who may change the maps without the lock.
* **StartProofs**, about installations. The staging directory of an installer is whole from
  the end of the extraction on and gone when it returns, and the lock file is that of a
  process between open and unlock. Atomicity does not rest on the lock, which need not exclude, but on the
  rename. `InstallsAreAtomic` is about every step while no `Remove` is at work;
  `SuccessMeansInstalled` holds until the first one begins.
* **StartProofs**, about a client. `NothingIsLeft` needs only where the child is at each stage
  of the start. `ResultsAreRight` is about objects that outlive their place in the map: a completion is
  queued in one object, once, and only as long as no wait has taken it (`MailInv`); it is in
  the object the route is now, or a wait on its handle has ended (`KeptInv`), because only a
  wait that ends closes a route and only then is another object made. Assumption: the two
  marks of the model are no login ids.
  `RetriesAreRight`: the delay a retry keeps, doubled and capped at each attempt, is the
  initial delay doubled as often and capped once (`CapTwice`), and only the first pause can see
  an initial delay that is beyond the maximum (`DelayOf`, `DelayIs`).
* **OperationProofs**, about a turn. What waits in the route is what the server has sent and
  `Next` has not returned, unless `Next` can no longer read (`FlowInv`); once it has returned
  an end it reads no more (`EndInv`). So `EventsInOrder` and `EndsAreStable`. For
  `ResultsAreRight` also: the end of a turn is the last thing sent (`SentInv`), the usage is
  never older than what was read (`UsageInv`), and the search for the final response, from
  the last item back, finds the latest final answer or else the latest plain message that
  says something, for any number of items. `TurnTypeCorrect` adds that a route never holds
  more than its limit, the error of `FailAll` included (`HeldInv`).
* **OperationProofs**, about a compaction. All from which a call could take a compaction for
  its own, the route, its channels, the snapshots without the baseline, holds only what has
  completed since it began (`CallInv`), for the call that is at work; goroutines of earlier
  calls may take its notifications but have no way to confirm it. What was announced before
  any call can only be met by the first, because a closed route keeps nothing (`MailInv`,
  `Kept`). For `CompactionTypeCorrect`, that
  the ids of compactions are bounded is a count: each call asks for one at the most, and what
  no call asked for is no more than `MaxOwn` (`OwnInv`, `StartedBound`).
* **GoalProofs**, for every script. `TypeCorrect` needs which of the turns the code takes for
  granted are known at each of its places (`TurnsKnown`). `CancelsStopTurns`: whoever has a
  handle knows of a turn (`HandleInv`), and once the goal is paused no other turn can start,
  so that the turn that runs is the one interrupted, at the second attempt if not at the
  first, wherever the caller is in `Next` (`CancelInv`). `StartsFindTurns`: the end of the old
  goal is the first that the route loop hears of, if it hears of it (`OldInv`), and from then
  on it hears of the first turn before it hears of the goal's end (`AheadInv`). It assumes
  that the server announces the end of the old goal before all else and names a turn of the
  new one before it ends that (`AnnouncesFirst`, which `MCGoal` states of its scripts).
  `StreamsInOrder` is told in positions of the script. The stream has come to a position p,
  the route loop to a position o, and each of the queues lists what concerns it from there to
  the last that was sent (`QueuesAt`, `LoopAt`); the caller has what is `Shown` up to p, but for
  the end of a turn it still works on (`PlaceAt`). The turns of an orderly script are ordered
  (`Before`), and of those the loop has been told of the ones after the stream's are pending in
  that order (`PendingAt`), however often each was named. So the turn that is popped is the
  next of the script, and when the goal has ended and none is pending, none is to come. The
  assumption `Orderly`, which `MCGoal` states of its scripts: one turn after the other, none
  after one that failed, and all of them named before the goal ends; if the old goal's end is
  announced, the new one's status follows before any turn, so that when the operation holds
  the goal to be over, it is (`OverAt`).
* **WireProofs**. About every table of well-formed unions, not only the generated one:
  `DecodesOwnCorrect` says that where the variants are distinguishable the first check that
  passes is the value's own, `UnknownKeptCorrect` that what no check accepts is raw, and
  `RoundTripCorrect` that an encoding passes the check of the variant it came from and none
  before it. The lemmas are about the first match of a sequence and what the checks look at;
  the temporal part only carries them along (`WireInv`).

## 7. Only model-checked

* Liveness and everything under fairness: no prover here handles `ENABLED`. That includes
  `FailAllWakesConsumers` and `FailAllServesQueue`, the first part of which is about a step.
* That `Unions` is the table in the generated code is a matter of reading both.

## 8. Plan

1. Done: Router, Mailbox, Requests, Threads, AppServer, Goal, Installer, Turn, Compaction,
   Session (client start, login, retry, errors), Decoder, Unions, Wire; the safety
   properties of the passing runs and the type invariants proved, but for the first part of
   `FailAllServesQueue`.
2. Left to model: a composition of AppServer, Requests and Router, with `FailAll` reached from
   `readLoop`, `waitLoop` and `Close`; which manifest, signature and version are accepted, and
   the order in which runtimes are looked for; the checks of the repacking of archives.

## 9. Not modelled

* Text: log lines, error wording, redaction of secrets, the stderr tail.
* Conversions without control: options, inputs, configuration, the thread API, the plain
  structs, enums and registries of the generated types.
* Of the generated decoders: `null` in a required field, keys that differ only in case, and
  empty values that `omitempty` leaves out, because the abstraction of a JSON value does not
  tell them apart.
* Of the generator: reading the schema, naming and formatting.
* `ensureStarted` with two callers: `NewClient` calls it before the client is shared, so the
  branch that drops a second app-server client is not reached.
* Cryptography and archive formats: only whether a check accepts. The search for a runtime in
  `PATH`, the version output it reads, and the rules on manifests.
* Build-time tools, command lines, scripts and examples: input, output and file system.
