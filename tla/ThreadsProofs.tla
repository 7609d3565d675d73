--------------------------- MODULE ThreadsProofs ----------------------------
(***************************************************************************)
(* The safety invariants of Threads for any threads and goroutines.        *)
(***************************************************************************)
EXTENDS Threads, FiniteSetTheorems, TLAPS

\* A goroutine inside withThreadLock refers to the entry that the map has for
\* its thread, one outside refers to none.
RefsOK ==
    \A p \in Procs :
        /\ pc[p] = "idle" => entry[p] = NoEntry /\ thread[p] = Nobody
        /\ pc[p] # "idle" => /\ thread[p] \in Threads /\ entry[p] \in Entries
                             /\ locks[thread[p]] = entry[p] /\ op[p] # "none"

\* Two threads never share an entry.
EntriesDistinct ==
    \A t, u \in Threads : locks[t] = locks[u] /\ locks[t] # NoEntry => t = u

\* The entries in the map count their users, and have some.
CountsOK ==
    \A t \in Threads : locks[t] # NoEntry =>
        /\ users[locks[t]] = Cardinality(UsersOf(locks[t]))
        /\ UsersOf(locks[t]) # {}

\* Whoever is in the critical section holds the mutex of its entry.
HolderOK == \A p \in Procs : pc[p] \in Critical => holder[entry[p]] = p

LockInv == RefsOK /\ EntriesDistinct /\ CountsOK /\ HolderOK

\* A goroutine that is starting a goal has no goal yet.
HandleOK ==
    \A p \in Procs :
        (pc[p] = "lock" /\ op[p] = "goal")
          \/ pc[p] \in {"goal", "goalRegister", "goalPublish", "goalReject",
                        "goalRejectJoin", "goalStart"}
        => handle[p] = "none"

\* A goal owner knows its thread.
OwnerOK == \A p \in Procs : OwnsGoal(p) => /\ hthread[p] \in Threads
                                           /\ goals[hthread[p]] = p

GoalInv == HandleOK /\ OwnerOK /\ TurnExcludesGoal /\ CompactionKeepsRoute

\* The inductive invariant.
IInv == TypeOK /\ LockInv /\ GoalInv

\* A step inside the critical section: only pc[p] and the state of goals and
\* routes changes.
Inner(p) ==
    /\ pc[p] \in Critical
    /\ \E label \in Critical : Goto(p, label)
    /\ UNCHANGED lockVars

\* Steps of a goal's closing and of its route loop.
Outer(p) == HandleClose(p) \/ Closing(p) \/ LoopEnds(p)

-----------------------------------------------------------------------------

\* The bodies of startTurn, CompactThreadAndWait and StartGoal are such steps.
LEMMA BodyInner == ASSUME NEW p \in Procs, Body(p) PROVE Inner(p)
BY DEF Body, Inner, Critical, CheckGoal, TurnStart, Compact, CompactEnds, GoalRead,
       GoalRegister, GoalPublish, GoalReject, GoalRejectJoin, GoalStart,
       GoalCleanupDone

\* Closing a goal does not touch the locks.
LEMMA OuterUnchanged ==
    ASSUME NEW p \in Procs, Outer(p) PROVE UNCHANGED <<lockVars, procVars>>
BY DEF Outer, HandleClose, Closing, UnregisterRoute, DeleteGoal, JoinLoop, LoopEnds

\* The users of an entry are finitely many.
LEMMA UsersFinite ==
    ASSUME NEW e PROVE IsFiniteSet(UsersOf(e)) /\ Cardinality(UsersOf(e)) \in Nat
<1>1. UsersOf(e) \in SUBSET Procs
  BY DEF UsersOf
<1> QED
  BY <1>1, ThreadsAssumption, FS_Subset, FS_CardinalityType

-----------------------------------------------------------------------------
(* Types *)

\* Every step keeps the types; a user count is not decremented below zero.
LEMMA TypeStep ==
    ASSUME TypeOK, LockInv, [Next]_vars PROVE TypeOK'
<1> USE DEF lockVars, procVars, goalVars, handleVars
<1>1. ASSUME NEW p \in Procs, NEW t \in Threads,
             NEW o \in {"turn", "compact", "goal"}, ThreadLock(p, t, o)
      PROVE  TypeOK'
  <2>1. PICK e \in EntriesOf(t) :
            /\ locks' = [locks EXCEPT ![t] = e]
            /\ users' = [users EXCEPT ![e] = IF locks[t] = NoEntry THEN 1 ELSE @ + 1]
            /\ entry' = [entry EXCEPT ![p] = e]
    BY <1>1 DEF ThreadLock
  <2>2. e \in Entries
    BY <2>1 DEF EntriesOf, Free, TypeOK
  <2>3. users' \in [Entries -> Nat]
    BY <2>1, <2>2 DEF TypeOK
  <2> QED
    BY <1>1, <2>1, <2>2, <2>3 DEF ThreadLock, TypeOK
<1>2. ASSUME NEW p \in Procs, Acquire(p) PROVE TypeOK'
  <2>1. op[p] \in Critical
    BY <1>2 DEF Acquire, LockInv, RefsOK, TypeOK, Critical
  <2> QED
    BY <1>2, <2>1 DEF Acquire, Goto, TypeOK
<1>3. ASSUME NEW p \in Procs, Unlock(p) PROVE TypeOK'
  BY <1>3 DEF Unlock, Goto, TypeOK
<1>4. ASSUME NEW p \in Procs, ReleaseThreadLock(p) PROVE TypeOK'
  <2>1. /\ thread[p] \in Threads /\ entry[p] \in Entries
        /\ locks[thread[p]] = entry[p]
    BY <1>4 DEF ReleaseThreadLock, LockInv, RefsOK
  <2>2. users[entry[p]] \in Nat /\ users[entry[p]] # 0
    BY <2>1, UsersFinite, FS_EmptySet, ThreadsAssumption
    DEF LockInv, CountsOK, TypeOK
  <2>3. users[entry[p]] - 1 \in Nat
    BY <2>2
  <2>4. users' \in [Entries -> Nat] /\ locks' \in [Threads -> Entries \cup {NoEntry}]
    BY <1>4, <2>3 DEF ReleaseThreadLock, TypeOK
  <2> QED
    BY <1>4, <2>4 DEF ReleaseThreadLock, Forget, TypeOK
<1>5. ASSUME NEW p \in Procs, Body(p) PROVE TypeOK'
  <2>1. pc' \in [Procs -> Critical \cup {"idle", "lock", "release"}]
    BY <1>5, BodyInner DEF Inner, Goto, TypeOK
  <2>2. CASE CheckGoal(p) \/ TurnStart(p) \/ Compact(p) \/ CompactEnds(p)
             \/ GoalRead(p) \/ GoalRegister(p)
    BY <2>1, <2>2 DEF CheckGoal, TurnStart, Compact, CompactEnds, GoalRead,
                      GoalRegister, Goto, TypeOK
  <2>3. CASE GoalPublish(p)
    <3>1. pc[p] \in Critical
      BY <2>3 DEF GoalPublish, Critical
    <3>2. thread[p] \in Threads
      BY <3>1 DEF LockInv, RefsOK, Critical
    <3> QED
      BY <2>1, <2>3, <3>2 DEF GoalPublish, Goto, TypeOK
  <2>4. CASE GoalReject(p) \/ GoalRejectJoin(p) \/ GoalStart(p)
             \/ GoalCleanupDone(p)
    BY <2>1, <2>4 DEF GoalReject, GoalRejectJoin, GoalStart, GoalCleanupDone,
                      CloseRoute, Goto, TypeOK
  <2> QED
    BY <1>5, <2>2, <2>3, <2>4 DEF Body
<1>6. ASSUME NEW p \in Procs, Outer(p) PROVE TypeOK'
  BY <1>6 DEF Outer, HandleClose, Closing, UnregisterRoute, DeleteGoal, JoinLoop,
              LoopEnds, CloseRoute, TypeOK
<1>7. CASE UNCHANGED vars
  BY <1>7 DEF vars, TypeOK
<1> QED
  BY <1>1, <1>2, <1>3, <1>4, <1>5, <1>6, <1>7 DEF Next, Outer

-----------------------------------------------------------------------------
(* The lock *)

\* threadLock: the entry is shared with its other users or is a fresh one.
LEMMA ThreadLockStep ==
    ASSUME TypeOK, TypeOK', LockInv, NEW p \in Procs, NEW t \in Threads,
           NEW o \in {"turn", "compact", "goal"}, ThreadLock(p, t, o)
    PROVE  LockInv'
<1>1. PICK e \in EntriesOf(t) :
          /\ locks' = [locks EXCEPT ![t] = e]
          /\ users' = [users EXCEPT ![e] = IF locks[t] = NoEntry THEN 1 ELSE @ + 1]
          /\ entry' = [entry EXCEPT ![p] = e]
  BY DEF ThreadLock
<1>2. /\ pc' = [pc EXCEPT ![p] = "lock"]
      /\ op' = [op EXCEPT ![p] = o]
      /\ thread' = [thread EXCEPT ![p] = t]
      /\ pc[p] = "idle" /\ holder' = holder
  BY DEF ThreadLock
<1>3. entry[p] = NoEntry /\ e \in Entries /\ e # NoEntry
  BY <1>1, <1>2, ThreadsAssumption DEF LockInv, RefsOK, EntriesOf, Free, TypeOK
<1>4. \A u \in Threads : u # t => locks[u] # e
  BY <1>1, <1>3 DEF EntriesOf, Free, LockInv, EntriesDistinct
<1>5. locks[t] = NoEntry => \A q \in Procs : entry[q] # e
  BY <1>1 DEF EntriesOf, Free
<1>6. locks[t] # NoEntry => e = locks[t]
  BY <1>1 DEF EntriesOf
<1>7. RefsOK'
  <2>1. ASSUME NEW q \in Procs, q # p, pc[q] # "idle"
        PROVE  locks'[thread[q]] = entry[q]
    <3>1. /\ thread[q] \in Threads /\ locks[thread[q]] = entry[q]
          /\ entry[q] # NoEntry
      BY <2>1, ThreadsAssumption DEF LockInv, RefsOK
    <3>2. CASE thread[q] = t
      BY <1>1, <1>6, <3>1, <3>2 DEF TypeOK
    <3>3. CASE thread[q] # t
      BY <1>1, <3>1, <3>3 DEF TypeOK
    <3> QED
      BY <3>2, <3>3
  <2> QED
    BY <1>1, <1>2, <1>3, <2>1, ThreadsAssumption DEF LockInv, RefsOK, TypeOK
<1>8. EntriesDistinct'
  BY <1>1, <1>3, <1>4 DEF LockInv, EntriesDistinct, TypeOK
<1>9. CountsOK'
  <2>1. ASSUME NEW u \in Threads, u # t, locks[u] # NoEntry
        PROVE  /\ users'[locks[u]] = Cardinality(UsersOf(locks[u])')
               /\ UsersOf(locks[u])' # {} /\ locks'[u] = locks[u]
    <3>1. locks'[u] = locks[u] /\ users'[locks[u]] = users[locks[u]]
      BY <1>1, <1>4, <2>1 DEF TypeOK
    <3>2. UsersOf(locks[u])' = UsersOf(locks[u])
      BY <1>1, <1>3, <1>4, <2>1, <3>1 DEF UsersOf, TypeOK
    <3> QED
      BY <2>1, <3>1, <3>2 DEF LockInv, CountsOK
  <2>2. users'[e] = Cardinality(UsersOf(e)') /\ UsersOf(e)' # {}
    <3>1. UsersOf(e)' = UsersOf(e) \cup {p} /\ p \notin UsersOf(e)
      BY <1>1, <1>3 DEF UsersOf, TypeOK
    <3>2. Cardinality(UsersOf(e)') = Cardinality(UsersOf(e)) + 1
      BY <3>1, UsersFinite, FS_AddElement
    <3>3. CASE locks[t] = NoEntry
      <4>1. UsersOf(e) = {}
        BY <1>5, <3>3 DEF UsersOf
      <4> QED
        BY <1>1, <1>3, <3>1, <3>2, <3>3, <4>1, FS_EmptySet DEF TypeOK
    <3>4. CASE locks[t] # NoEntry
      BY <1>1, <1>3, <1>6, <3>1, <3>2, <3>4 DEF LockInv, CountsOK, TypeOK
    <3> QED
      BY <3>3, <3>4
  <2>3. locks'[t] = e
    BY <1>1 DEF TypeOK
  <2>4. ASSUME NEW u \in Threads, locks'[u] # NoEntry
        PROVE  /\ users'[locks'[u]] = Cardinality(UsersOf(locks[u])')
               /\ UsersOf(locks[u])' # {}
    <3>1. CASE u = t
      BY <2>2, <2>3, <3>1 DEF UsersOf
    <3>2. CASE u # t
      <4>1. locks'[u] = locks[u]
        BY <1>1, <3>2 DEF TypeOK
      <4> QED
        BY <2>1, <2>4, <3>2, <4>1 DEF UsersOf
    <3> QED
      BY <3>1, <3>2
  <2> QED
    BY <2>4 DEF CountsOK
<1>10. HolderOK'
  BY <1>1, <1>2 DEF LockInv, HolderOK, TypeOK, Critical
<1> QED
  BY <1>7, <1>8, <1>9, <1>10 DEF LockInv

\* releaseThreadLock: the last user takes the entry away, and nobody else
\* refers to it.
LEMMA ReleaseStep ==
    ASSUME TypeOK, TypeOK', LockInv, NEW p \in Procs, ReleaseThreadLock(p)
    PROVE  LockInv'
<1>0. PICK t \in Threads, e \in Entries : t = thread[p] /\ e = entry[p]
  BY DEF ReleaseThreadLock, LockInv, RefsOK
<1>1. t \in Threads /\ e \in Entries /\ locks[t] = e /\ e # NoEntry
  BY <1>0, ThreadsAssumption DEF ReleaseThreadLock, LockInv, RefsOK
<1>2. /\ users' = [users EXCEPT ![e] = @ - 1]
      /\ locks' = IF users[e] = 1 THEN [locks EXCEPT ![t] = NoEntry] ELSE locks
      /\ pc' = [pc EXCEPT ![p] = "idle"] /\ op' = [op EXCEPT ![p] = "none"]
      /\ thread' = [thread EXCEPT ![p] = Nobody]
      /\ entry' = [entry EXCEPT ![p] = NoEntry]
      /\ holder' = holder
  BY <1>0 DEF ReleaseThreadLock, Forget
<1>3. users[e] = Cardinality(UsersOf(e)) /\ p \in UsersOf(e)
  BY <1>0, <1>1 DEF LockInv, CountsOK, UsersOf
<1>4. users[e] = 1 => \A q \in Procs : entry[q] = e => q = p
  <2>1. ASSUME users[e] = 1 PROVE \E x : UsersOf(e) = {x}
    BY <1>3, <2>1, UsersFinite, FS_Singleton
  <2> QED
    BY <1>3, <2>1 DEF UsersOf
<1>5. \A u \in Threads : u # t => locks'[u] = locks[u] /\ locks[u] # e
  BY <1>1, <1>2 DEF LockInv, EntriesDistinct, TypeOK
<1>6. RefsOK'
  <2>1. ASSUME NEW q \in Procs, q # p, pc[q] # "idle"
        PROVE  locks'[thread[q]] = entry[q]
    <3>1. thread[q] \in Threads /\ locks[thread[q]] = entry[q]
      BY <2>1 DEF LockInv, RefsOK
    <3>2. CASE users[e] = 1
      BY <1>1, <1>4, <1>5, <2>1, <3>1, <3>2
    <3>3. CASE users[e] # 1
      BY <1>2, <3>1, <3>3
    <3> QED
      BY <3>2, <3>3
  <2> QED
    BY <1>2, <2>1 DEF LockInv, RefsOK, TypeOK
<1>7. EntriesDistinct'
  BY <1>1, <1>2 DEF LockInv, EntriesDistinct, TypeOK
<1>8. CountsOK'
  <2>1. ASSUME NEW u \in Threads, u # t, locks'[u] # NoEntry
        PROVE  /\ users'[locks'[u]] = Cardinality(UsersOf(locks[u])')
               /\ UsersOf(locks[u])' # {}
    <3>1. locks'[u] = locks[u] /\ locks[u] # e /\ locks[u] \in Entries
      BY <1>5, <2>1 DEF TypeOK
    <3>2. users'[locks[u]] = users[locks[u]]
      BY <1>2, <3>1 DEF TypeOK
    <3>3. UsersOf(locks[u])' = UsersOf(locks[u])
      <4>1. UsersOf(locks[u])' = {q \in Procs : entry'[q] = locks[u]}
        BY <3>1 DEF UsersOf
      <4>2. \A q \in Procs : entry'[q] = locks[u] <=> entry[q] = locks[u]
        BY <1>0, <1>2, <3>1, ThreadsAssumption DEF TypeOK
      <4> QED
        BY <4>1, <4>2 DEF UsersOf
    <3> QED
      BY <2>1, <3>1, <3>2, <3>3 DEF LockInv, CountsOK
  <2>2. ASSUME locks'[t] # NoEntry
        PROVE  /\ users'[locks'[t]] = Cardinality(UsersOf(locks[t])')
               /\ UsersOf(locks[t])' # {}
    <3>1. users[e] # 1 /\ locks' = locks
      BY <1>1, <1>2, <2>2 DEF TypeOK
    <3>2. UsersOf(locks[t])' = UsersOf(e) \ {p}
      BY <1>1, <1>2, <3>1 DEF UsersOf, TypeOK
    <3>3. /\ Cardinality(UsersOf(e) \ {p}) = Cardinality(UsersOf(e)) - 1
          /\ IsFiniteSet(UsersOf(e) \ {p})
      BY <1>3, UsersFinite, FS_RemoveElement
    <3>4. users'[e] = users[e] - 1
      BY <1>1, <1>2 DEF TypeOK
    <3>5. Cardinality(UsersOf(e) \ {p}) # 0
      BY <1>3, <3>1, <3>3, UsersFinite
    <3>6. UsersOf(e) \ {p} # {}
      BY <3>3, <3>5, FS_EmptySet
    <3> QED
      BY <1>1, <1>3, <3>1, <3>2, <3>3, <3>4, <3>6
  <2>3. ASSUME NEW u \in Threads, locks'[u] # NoEntry
        PROVE  /\ users'[locks'[u]] = Cardinality(UsersOf(locks[u])')
               /\ UsersOf(locks[u])' # {}
    BY <2>1, <2>2, <2>3
  <2> QED
    BY <2>3 DEF CountsOK
<1>9. HolderOK'
  BY <1>2 DEF LockInv, HolderOK, TypeOK, Critical
<1> QED
  BY <1>6, <1>7, <1>8, <1>9 DEF LockInv

\* Steps that leave the map of locks and the references alone.
LEMMA OtherLockStep ==
    ASSUME TypeOK, TypeOK', LockInv, NEW p \in Procs,
           Acquire(p) \/ Unlock(p) \/ Inner(p)
    PROVE  LockInv'
<1>1. /\ locks' = locks /\ users' = users /\ entry' = entry /\ thread' = thread
      /\ op' = op /\ \A q \in Procs : q # p => pc'[q] = pc[q]
      /\ pc[p] # "idle" /\ pc'[p] # "idle"
  <2>1. pc'[p] # "idle"
    BY DEF Acquire, Unlock, Inner, Goto, Critical, TypeOK, LockInv, RefsOK
  <2> QED
    BY <2>1 DEF Acquire, Unlock, Inner, Goto, lockVars, Critical, TypeOK
<1>2. RefsOK' /\ EntriesDistinct' /\ CountsOK'
  BY <1>1 DEF LockInv, RefsOK, EntriesDistinct, CountsOK, UsersOf
<1>3. HolderOK'
  <2>1. CASE Acquire(p)
    BY <1>1, <2>1, ThreadsAssumption
    DEF Acquire, Goto, LockInv, HolderOK, RefsOK, Critical, TypeOK
  <2>2. CASE Unlock(p)
    BY <1>1, <2>2, ThreadsAssumption
    DEF Unlock, Goto, LockInv, HolderOK, RefsOK, Critical, TypeOK
  <2>3. CASE Inner(p)
    BY <1>1, <2>3 DEF Inner, lockVars, LockInv, HolderOK
  <2> QED
    BY <2>1, <2>2, <2>3
<1> QED
  BY <1>2, <1>3 DEF LockInv

\* Every step keeps the lock invariant.
LEMMA LockStep ==
    ASSUME TypeOK, TypeOK', LockInv, [Next]_vars PROVE LockInv'
<1>1. ASSUME UNCHANGED <<lockVars, procVars>> PROVE LockInv'
  BY <1>1 DEF lockVars, procVars, LockInv, RefsOK, EntriesDistinct, CountsOK,
              UsersOf, HolderOK
<1>2. ASSUME NEW p \in Procs, Outer(p) PROVE LockInv'
  BY <1>1, <1>2, OuterUnchanged
<1>3. CASE UNCHANGED vars
  BY <1>1, <1>3 DEF vars
<1> QED
  BY <1>2, <1>3, ThreadLockStep, ReleaseStep, OtherLockStep, BodyInner
  DEF Next, Outer

\* The lock invariant excludes two goroutines from one thread's section.
LEMMA Excludes == ASSUME LockInv PROVE MutualExclusion
BY DEF LockInv, RefsOK, HolderOK, MutualExclusion, Critical

-----------------------------------------------------------------------------
(* Goals and compactions *)

\* Every step keeps the goal invariant.
LEMMA GoalStep == ASSUME IInv, TypeOK', [Next]_vars PROVE GoalInv'
<1>0. TypeOK /\ LockInv /\ HandleOK /\ OwnerOK /\ TurnExcludesGoal
      /\ CompactionKeepsRoute /\ MutualExclusion
  BY Excludes DEF IInv, GoalInv
<1> USE <1>0, ThreadsAssumption
    DEF lockVars, procVars, goalVars, handleVars, GoalInv, HandleOK, OwnerOK,
        OwnsGoal, TurnExcludesGoal, CompactionKeepsRoute, TypeOK, Goto
<1>1. ASSUME NEW p \in Procs, NEW t \in Threads,
             NEW o \in {"turn", "compact", "goal"}, ThreadLock(p, t, o)
      PROVE  GoalInv'
  BY <1>1 DEF ThreadLock
<1>2. ASSUME NEW p \in Procs, Acquire(p) PROVE GoalInv'
  BY <1>2 DEF Acquire, LockInv, RefsOK
<1>3. ASSUME NEW p \in Procs, Unlock(p) PROVE GoalInv'
  BY <1>3 DEF Unlock
<1>4. ASSUME NEW p \in Procs, ReleaseThreadLock(p) PROVE GoalInv'
  BY <1>4 DEF ReleaseThreadLock, Forget
<1>5. ASSUME NEW p \in Procs, pc[p] \in Critical
      PROVE  /\ thread[p] \in Threads
             /\ \A q \in Procs : pc[q] \in Critical /\ thread[q] = thread[p] => q = p
  BY <1>5 DEF LockInv, RefsOK, MutualExclusion, Critical
<1>6. ASSUME NEW p \in Procs, CheckGoal(p) PROVE GoalInv'
  BY <1>6 DEF CheckGoal
<1>7. ASSUME NEW p \in Procs, TurnStart(p) PROVE GoalInv'
  BY <1>7 DEF TurnStart
<1>8. ASSUME NEW p \in Procs, Compact(p) PROVE GoalInv'
  BY <1>5, <1>8 DEF Compact, Critical
<1>9. ASSUME NEW p \in Procs, CompactEnds(p) PROVE GoalInv'
  BY <1>5, <1>9 DEF CompactEnds, Critical
<1>10. ASSUME NEW p \in Procs, GoalRead(p) \/ GoalRegister(p) PROVE GoalInv'
  BY <1>10 DEF GoalRead, GoalRegister
<1>11. ASSUME NEW p \in Procs, GoalPublish(p) PROVE GoalInv'
  BY <1>5, <1>11 DEF GoalPublish, Critical
<1>12. ASSUME NEW p \in Procs, GoalReject(p) \/ GoalRejectJoin(p) PROVE GoalInv'
  BY <1>12 DEF GoalReject, GoalRejectJoin, CloseRoute
<1>13. ASSUME NEW p \in Procs, GoalStart(p) \/ GoalCleanupDone(p) PROVE GoalInv'
  BY <1>13 DEF GoalStart, GoalCleanupDone
<1>14. ASSUME NEW p \in Procs, HandleClose(p) \/ LoopEnds(p) PROVE GoalInv'
  BY <1>14 DEF HandleClose, LoopEnds
<1>15. ASSUME NEW p \in Procs, UnregisterRoute(p) PROVE GoalInv'
  BY <1>15 DEF UnregisterRoute, CloseRoute
<1>16. ASSUME NEW p \in Procs, DeleteGoal(p) PROVE GoalInv'
  BY <1>16 DEF DeleteGoal
<1>17. ASSUME NEW p \in Procs, JoinLoop(p) PROVE GoalInv'
  BY <1>17 DEF JoinLoop
<1>18. CASE UNCHANGED vars
  BY <1>18 DEF vars
<1> HIDE <1>0 DEF GoalInv, HandleOK, OwnerOK, OwnsGoal, TurnExcludesGoal,
                  CompactionKeepsRoute, TypeOK, Goto
<1> QED
  BY <1>1, <1>2, <1>3, <1>4, <1>6, <1>7, <1>8, <1>9, <1>10, <1>11, <1>12, <1>13,
     <1>14, <1>15, <1>16, <1>17, <1>18 DEF Next, Body, Closing

-----------------------------------------------------------------------------

\* Nothing is locked, started or open in the beginning.
LEMMA InitOK == ASSUME Init PROVE IInv
<1>1. TypeOK
  BY DEF Init, TypeOK, Critical
<1>2. LockInv
  BY ThreadsAssumption
  DEF Init, LockInv, RefsOK, EntriesDistinct, CountsOK, HolderOK, Critical
<1>3. GoalInv
  BY DEF Init, GoalInv, HandleOK, OwnerOK, OwnsGoal, TurnExcludesGoal,
         CompactionKeepsRoute
<1> QED
  BY <1>1, <1>2, <1>3 DEF IInv

\* The invariant holds of every behaviour.
LEMMA Inductive == Spec => []IInv
<1>1. ASSUME IInv, [Next]_vars PROVE IInv'
  BY <1>1, TypeStep, LockStep, GoalStep DEF IInv
<1> QED
  BY InitOK, <1>1, PTL DEF Spec

\* The operations of Client on threads keep the types of their state.
THEOREM TypeCorrect == Spec => []TypeOK
BY Inductive, PTL DEF IInv

\* withThreadLock excludes, for any number of goroutines, threads and reuses of
\* an entry.
THEOREM LockExcludes == Spec => []MutualExclusion
<1>1. ASSUME IInv PROVE MutualExclusion
  BY <1>1, Excludes DEF IInv
<1> QED
  BY Inductive, <1>1, PTL

\* threadLock and releaseThreadLock keep exactly the entries in use.
THEOREM LocksStayExact == Spec => []LocksExact
<1>1. ASSUME IInv PROVE LocksExact
  BY <1>1, ThreadsAssumption DEF IInv, LockInv, RefsOK, CountsOK, LocksExact
<1> QED
  BY Inductive, <1>1, PTL

\* startTurn's check of the goals is still true when its request is answered.
THEOREM TurnsExcludeGoals == Spec => []TurnExcludesGoal
BY Inductive, PTL DEF IInv, GoalInv

\* The map of goals names each goal from StartGoal to unregisterGoal.
THEOREM GoalsHaveOneOwner == Spec => []OneOwner
<1>1. ASSUME IInv PROVE OneOwner
  BY <1>1 DEF IInv, GoalInv, OwnerOK, OneOwner
<1> QED
  BY Inductive, <1>1, PTL

\* A waiting CompactThreadAndWait keeps its route.
THEOREM CompactionsKeepRoutes == Spec => []CompactionKeepsRoute
BY Inductive, PTL DEF IInv, GoalInv

=============================================================================
