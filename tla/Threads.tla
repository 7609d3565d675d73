------------------------------ MODULE Threads -------------------------------
(***************************************************************************)
(* What the root Client serialises per conversation thread (client.go,     *)
(* goal.go): starting a turn, compacting, starting a goal.  Each runs under *)
(* the thread's lock, an entry of a map that is created by its first user  *)
(* and deleted by its last.  A goal that has started outlives the lock: it *)
(* owns the thread through the map of goals and a goal route, until its    *)
(* handle is closed, which does not take the lock.                         *)
(***************************************************************************)
EXTENDS Naturals, FiniteSets

CONSTANTS
    Threads,       \* thread ids
    Procs,         \* goroutines; each keeps at most one goal handle
    Nobody,
    Entries,       \* addresses of threadStartLock objects
    NoEntry

ASSUME ThreadsAssumption ==
    /\ IsFiniteSet(Procs) /\ Nobody \notin Procs \cup Threads
    /\ NoEntry \notin Entries

VARIABLES
    locks,         \* c.threadLocks
    users,         \* entry.users
    holder,        \* who holds entry.mu
    pc, op, thread, entry,   \* the goroutines: operation, thread, lock entry
    goals,         \* c.goals: whose goal operation is in the map
    route,         \* is the goal route of the thread registered?
    compacting,    \* is its compaction route registered?
    loop,          \* the route loop of each goroutine's goal operation
    handle, hthread  \* its goal handle and the thread of that goal

lockVars   == <<locks, users, holder>>
procVars   == <<pc, op, thread, entry>>
goalVars   == <<goals, route, loop>>
handleVars == <<handle, hthread>>
vars == <<lockVars, procVars, goalVars, compacting, handleVars>>

Goto(p, label) ==
    pc' = [pc EXCEPT ![p] = label] /\ UNCHANGED <<op, thread, entry>>

-----------------------------------------------------------------------------
(* withThreadLock *)

\* Nobody points to these.
Free == {e \in Entries : /\ \A t \in Threads : locks[t] # e
                         /\ \A p \in Procs : entry[p] # e}

EntriesOf(t) == IF locks[t] # NoEntry THEN {locks[t]}
                ELSE IF Free = {} THEN {}
                ELSE {CHOOSE e \in Free : TRUE}

\* threadLock: the critical section of lockMu.  A goroutine whose goal handle
\* is open does not start another goal.
ThreadLock(p, t, o) ==
    /\ pc[p] = "idle" /\ (o = "goal" => handle[p] = "none")
    /\ \E e \in EntriesOf(t) :
         /\ locks' = [locks EXCEPT ![t] = e]
         /\ users' = [users EXCEPT ![e] = IF locks[t] = NoEntry THEN 1 ELSE @ + 1]
         /\ entry' = [entry EXCEPT ![p] = e]
    /\ pc' = [pc EXCEPT ![p] = "lock"]
    /\ op' = [op EXCEPT ![p] = o]
    /\ thread' = [thread EXCEPT ![p] = t]
    /\ UNCHANGED <<holder, goalVars, compacting, handleVars>>

\* Mutant: the lock is not waited for.
AcquireAlways(p) ==
    /\ pc[p] = "lock"
    /\ holder' = [holder EXCEPT ![entry[p]] = p]
    /\ Goto(p, op[p])
    /\ UNCHANGED <<locks, users, goalVars, compacting, handleVars>>

\* entry.mu.Lock and the beginning of the operation.
Acquire(p) ==
    /\ pc[p] = "lock" /\ holder[entry[p]] = Nobody
    /\ holder' = [holder EXCEPT ![entry[p]] = p]
    /\ Goto(p, op[p])
    /\ UNCHANGED <<locks, users, goalVars, compacting, handleVars>>

Unlock(p) ==
    /\ pc[p] = "unlock"
    /\ holder' = [holder EXCEPT ![entry[p]] = Nobody]
    /\ Goto(p, "release")
    /\ UNCHANGED <<locks, users, goalVars, compacting, handleVars>>

Forget(p) ==
    /\ pc' = [pc EXCEPT ![p] = "idle"]
    /\ op' = [op EXCEPT ![p] = "none"]
    /\ thread' = [thread EXCEPT ![p] = Nobody]
    /\ entry' = [entry EXCEPT ![p] = NoEntry]

\* Mutant: the entry is deleted by whoever is done first.
ReleaseDeletes(p) ==
    /\ pc[p] = "release"
    /\ users' = [users EXCEPT ![entry[p]] = @ - 1]
    /\ locks' = [locks EXCEPT ![thread[p]] = NoEntry]
    /\ Forget(p)
    /\ UNCHANGED <<holder, goalVars, compacting, handleVars>>

\* releaseThreadLock deletes the entry with its last user.
ReleaseThreadLock(p) ==
    /\ pc[p] = "release"
    /\ users' = [users EXCEPT ![entry[p]] = @ - 1]
    /\ locks' = IF users[entry[p]] = 1
                THEN [locks EXCEPT ![thread[p]] = NoEntry] ELSE locks
    /\ Forget(p)
    /\ UNCHANGED <<holder, goalVars, compacting, handleVars>>

-----------------------------------------------------------------------------
(* startTurn and CompactThreadAndWait *)

\* Mutant: the goals are not looked at.
CheckGoalSkipped(p) ==
    /\ pc[p] = "turn"
    /\ Goto(p, "turnStart")
    /\ UNCHANGED <<lockVars, goalVars, compacting, handleVars>>

CheckGoal(p) ==
    /\ pc[p] = "turn"
    /\ Goto(p, IF goals[thread[p]] = Nobody THEN "turnStart" ELSE "unlock")
    /\ UNCHANGED <<lockVars, goalVars, compacting, handleVars>>

\* turn/start is sent and answered, or fails.
TurnStart(p) ==
    /\ pc[p] = "turnStart"
    /\ Goto(p, "unlock")
    /\ UNCHANGED <<lockVars, goalVars, compacting, handleVars>>

\* registerCompaction may fail; the deferred unregistration follows the wait.
Compact(p) ==
    /\ pc[p] = "compact"
    /\ \/ /\ Goto(p, "compactWait")
          /\ compacting' = [compacting EXCEPT ![thread[p]] = TRUE]
       \/ Goto(p, "unlock") /\ UNCHANGED compacting
    /\ UNCHANGED <<lockVars, goalVars, handleVars>>

CompactEnds(p) ==
    /\ pc[p] = "compactWait"
    /\ Goto(p, "unlock")
    /\ compacting' = [compacting EXCEPT ![thread[p]] = FALSE]
    /\ UNCHANGED <<lockVars, goalVars, handleVars>>

-----------------------------------------------------------------------------
(* StartGoal *)

\* The thread is read: not idle, not persisted or an error ends the call.
GoalRead(p) ==
    /\ pc[p] = "goal"
    /\ Goto(p, "goalRegister") \/ Goto(p, "unlock")
    /\ UNCHANGED <<lockVars, goalVars, compacting, handleVars>>

\* registerGoal, and the route loop is started.
GoalRegister(p) ==
    /\ pc[p] = "goalRegister"
    /\ \/ /\ Goto(p, "goalPublish")
          /\ route' = [route EXCEPT ![thread[p]] = TRUE]
          /\ loop' = [loop EXCEPT ![p] = "running"]
       \/ Goto(p, "unlock") /\ UNCHANGED <<route, loop>>
    /\ UNCHANGED <<lockVars, goals, compacting, handleVars>>

\* Mutant: the newer goal replaces the older one.
GoalPublishReplaces(p) ==
    /\ pc[p] = "goalPublish"
    /\ goals' = [goals EXCEPT ![thread[p]] = p]
    /\ hthread' = [hthread EXCEPT ![p] = thread[p]]
    /\ Goto(p, "goalStart")
    /\ UNCHANGED <<lockVars, route, loop, compacting, handle>>

\* The critical section of goalMu: the thread may have an owner already.
GoalPublish(p) ==
    /\ pc[p] = "goalPublish"
    /\ \/ /\ goals[thread[p]] # Nobody
          /\ Goto(p, "goalReject") /\ UNCHANGED <<goals, hthread>>
       \/ /\ goals[thread[p]] = Nobody
          /\ goals' = [goals EXCEPT ![thread[p]] = p]
          /\ hthread' = [hthread EXCEPT ![p] = thread[p]]
          /\ Goto(p, "goalStart")
    /\ UNCHANGED <<lockVars, route, loop, compacting, handle>>

\* Mutant: the route loop is not cancelled.
CloseRouteOnly(p, t) == route' = [route EXCEPT ![t] = FALSE] /\ UNCHANGED loop

\* closeRoute cancels the route loop and unregisters the goal route of the
\* thread, whoever registered it.
CloseRoute(p, t) ==
    /\ route' = [route EXCEPT ![t] = FALSE]
    /\ loop' = [loop EXCEPT ![p] = IF @ = "running" THEN "cancelled" ELSE @]

GoalReject(p) ==
    /\ pc[p] = "goalReject"
    /\ CloseRoute(p, thread[p])
    /\ Goto(p, "goalRejectJoin")
    /\ UNCHANGED <<lockVars, goals, compacting, handleVars>>

GoalRejectJoin(p) ==
    /\ pc[p] = "goalRejectJoin" /\ loop[p] = "ended"
    /\ Goto(p, "unlock")
    /\ loop' = [loop EXCEPT ![p] = "none"]
    /\ UNCHANGED <<lockVars, goals, route, compacting, handleVars>>

\* ClearGoal, SetGoal, awaitStart: a handle is returned, or the deferred
\* cleanup pauses, interrupts and unregisters the goal.
GoalStart(p) ==
    /\ pc[p] = "goalStart"
    /\ \/ Goto(p, "unlock") /\ handle' = [handle EXCEPT ![p] = "open"]
       \/ Goto(p, "goalCleanup") /\ handle' = [handle EXCEPT ![p] = "close"]
    /\ UNCHANGED <<lockVars, goalVars, compacting, hthread>>

GoalCleanupDone(p) ==
    /\ pc[p] = "goalCleanup" /\ handle[p] = "none"
    /\ Goto(p, "unlock")
    /\ UNCHANGED <<lockVars, goalVars, compacting, handleVars>>

-----------------------------------------------------------------------------
(* Closing a goal: unregisterGoal, run by GoalHandle.Close (once, by any    *)
(* goroutine, without the thread's lock) or by StartGoal's cleanup          *)

HandleClose(p) ==
    /\ handle[p] = "open"
    /\ handle' = [handle EXCEPT ![p] = "close"]
    /\ UNCHANGED <<lockVars, procVars, goalVars, compacting, hthread>>

UnregisterRoute(p) ==
    /\ handle[p] = "close"
    /\ handle' = [handle EXCEPT ![p] = "delete"]
    /\ CloseRoute(p, hthread[p])
    /\ UNCHANGED <<lockVars, procVars, goals, compacting, hthread>>

\* delete(c.goals, threadID), without looking whose goal is there.
DeleteGoal(p) ==
    /\ handle[p] = "delete"
    /\ handle' = [handle EXCEPT ![p] = "join"]
    /\ goals' = [goals EXCEPT ![hthread[p]] = Nobody]
    /\ UNCHANGED <<lockVars, procVars, route, loop, compacting, hthread>>

JoinLoop(p) ==
    /\ handle[p] = "join" /\ loop[p] = "ended"
    /\ handle' = [handle EXCEPT ![p] = "none"]
    /\ hthread' = [hthread EXCEPT ![p] = Nobody]
    /\ loop' = [loop EXCEPT ![p] = "none"]
    /\ UNCHANGED <<lockVars, procVars, goals, route, compacting>>

\* The route loop ends when it is cancelled, or on an error of its route.
LoopEnds(p) ==
    /\ loop[p] \in {"running", "cancelled"}
    /\ loop' = [loop EXCEPT ![p] = "ended"]
    /\ UNCHANGED <<lockVars, procVars, goals, route, compacting, handleVars>>

-----------------------------------------------------------------------------
Init ==
    /\ locks = [t \in Threads |-> NoEntry]
    /\ users = [e \in Entries |-> 0]
    /\ holder = [e \in Entries |-> Nobody]
    /\ pc = [p \in Procs |-> "idle"]
    /\ op = [p \in Procs |-> "none"]
    /\ thread = [p \in Procs |-> Nobody]
    /\ entry = [p \in Procs |-> NoEntry]
    /\ goals = [t \in Threads |-> Nobody]
    /\ route = [t \in Threads |-> FALSE]
    /\ compacting = [t \in Threads |-> FALSE]
    /\ loop = [p \in Procs |-> "none"]
    /\ handle = [p \in Procs |-> "none"]
    /\ hthread = [p \in Procs |-> Nobody]

Body(p) ==
    \/ CheckGoal(p) \/ TurnStart(p) \/ Compact(p) \/ CompactEnds(p)
    \/ GoalRead(p) \/ GoalRegister(p) \/ GoalPublish(p) \/ GoalReject(p)
    \/ GoalRejectJoin(p) \/ GoalStart(p) \/ GoalCleanupDone(p)

Closing(p) == UnregisterRoute(p) \/ DeleteGoal(p) \/ JoinLoop(p)

Next ==
    \E p \in Procs :
        \/ \E t \in Threads, o \in {"turn", "compact", "goal"} : ThreadLock(p, t, o)
        \/ Acquire(p) \/ Body(p) \/ Unlock(p) \/ ReleaseThreadLock(p)
        \/ HandleClose(p) \/ Closing(p) \/ LoopEnds(p)

Spec == Init /\ [][Next]_vars

\* Goroutines run, Go's mutexes do not starve a waiter, and requests are
\* answered or give up (contexts, the 30 s of awaitStart, the 5 s of the
\* cleanup).  Nothing forces a handle to be closed.
Fairness ==
    \A p \in Procs : /\ WF_vars(Body(p)) /\ SF_vars(Acquire(p))
                     /\ WF_vars(Unlock(p)) /\ WF_vars(ReleaseThreadLock(p))
                     /\ WF_vars(Closing(p))
                     /\ WF_vars(loop[p] = "cancelled" /\ LoopEnds(p))

FairSpec == Spec /\ Fairness

-----------------------------------------------------------------------------
(* Properties *)

\* Goroutines that have a reference to entry e.
UsersOf(e) == {p \in Procs : entry[p] = e}

Critical == {"turn", "turnStart", "compact", "compactWait", "goal",
             "goalRegister", "goalPublish", "goalReject", "goalRejectJoin",
             "goalStart", "goalCleanup", "unlock"}

\* Type invariant.
TypeOK ==
    /\ locks \in [Threads -> Entries \cup {NoEntry}]
    /\ users \in [Entries -> Nat]
    /\ holder \in [Entries -> Procs \cup {Nobody}]
    /\ pc \in [Procs -> Critical \cup {"idle", "lock", "release"}]
    /\ op \in [Procs -> {"none", "turn", "compact", "goal"}]
    /\ thread \in [Procs -> Threads \cup {Nobody}]
    /\ entry \in [Procs -> Entries \cup {NoEntry}]
    /\ goals \in [Threads -> Procs \cup {Nobody}]
    /\ route \in [Threads -> BOOLEAN] /\ compacting \in [Threads -> BOOLEAN]
    /\ loop \in [Procs -> {"none", "running", "cancelled", "ended"}]
    /\ handle \in [Procs -> {"none", "open", "close", "delete", "join"}]
    /\ hthread \in [Procs -> Threads \cup {Nobody}]

\* Never two goroutines are inside the same thread's section, although its lock
\* is deleted and made again (threadLock, releaseThreadLock).
MutualExclusion ==
    \A p, q \in Procs : pc[p] \in Critical /\ pc[q] \in Critical
        /\ thread[p] = thread[q] => p = q

\* The map holds exactly the entries somebody uses, with their number of users:
\* it does not grow with the threads a client has ever touched.
LocksExact ==
    \A t \in Threads :
        /\ locks[t] # NoEntry =>
              /\ users[locks[t]] = Cardinality(UsersOf(locks[t]))
              /\ UsersOf(locks[t]) # {}
        /\ \A p \in Procs : thread[p] = t => entry[p] = locks[t]

\* "normal turn start ... fail while a goal owns the thread": between startTurn's
\* look at the goals and the end of its request no goal can be published.
TurnExcludesGoal ==
    \A p \in Procs : pc[p] = "turnStart" => goals[thread[p]] = Nobody

\* A goal keeps its place in the map until its own closing deletes it: "two
\* goals on one thread cannot both acquire ownership", and the unconditional
\* delete of unregisterGoal never removes somebody else's.
OwnsGoal(p) == \/ pc[p] = "goalStart" \/ handle[p] \in {"open", "close", "delete"}

OneOwner == \A p \in Procs : OwnsGoal(p) => goals[hthread[p]] = p

\* The compaction that waits has its route: unlike the goal route, nobody
\* unregisters it outside the thread's lock.
CompactionKeepsRoute ==
    \A p \in Procs : pc[p] = "compactWait" => compacting[thread[p]]

\* Every operation gives the thread back, and a goal that is closed is forgotten:
\* joining the route loop under the thread's lock does not deadlock, whoever
\* closes which handle ("The lock is released after every terminal path").
OperationsReturn ==
    \A p \in Procs : /\ (pc[p] # "idle") ~> (pc[p] = "idle")
                     /\ (handle[p] = "close") ~> (handle[p] = "none")

\* "goal notifications route by thread ID": the goal that owns the thread has
\* its route until it is closed.
OwnerKeepsRoute ==
    \A p \in Procs : handle[p] = "open" => route[hthread[p]]

=============================================================================
