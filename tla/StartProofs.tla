---------------------------- MODULE StartProofs -----------------------------
(***************************************************************************)
(* Proofs about what a client needs before it can work.                    *)
(*                                                                         *)
(* A client (Session): what NewClient leaves behind when it fails, and     *)
(* what a wait on a login returns, for any number of goroutines, logins    *)
(* and waits.  A completion is queued in at most one object, once, and     *)
(* only until some wait has taken it (MailInv); it is in the object that   *)
(* the route is, or a wait on the handle has ended (KeptInv): a route is   *)
(* closed only by a wait that ends, and only then is a new object made for *)
(* it.  The delay of RetryOnOverload is the initial one doubled at each    *)
(* attempt and capped (RetryInv): the cap commutes with the doubling       *)
(* (CapTwice).                                                             *)
(*                                                                         *)
(* Its runtime (Installer): the safety of installations for any number of  *)
(* processes that die at any time, with a lock that excludes nobody.  The  *)
(* rename alone protects the root, as long as nothing is removed.          *)
(***************************************************************************)
EXTENDS Session, Installer, FiniteSetTheorems, WellFoundedInduction, TLAPS

StartInv ==
    /\ start \in {"resolve", "spawn"} => child = "none"
    /\ start = "error" => child \in {"none", "gone"}

Labels == {"idle", "attempt", "flight", "sleep", "lookup", "try", "select", "unregister"}

\* The types of what the queues depend on; a wait that has looked its object up
\* points to one that was made.
SType ==
    /\ login \in [Logins -> {"none", "begun", "completed"}]
    /\ gen \in [Logins -> Nat]
    /\ route \in [Logins -> {"none", "pending", "open", "closed"}]
    /\ DOMAIN mail \subseteq Logins \X Nat
    /\ mail \in [DOMAIN mail -> Seq(Logins \cup {Failure})]
    /\ \A l \in Logins : <<l, gen[l]>> \in DOMAIN mail
    /\ waking \subseteq DOMAIN mail
    /\ pc \in [Procs -> Labels]
    /\ at \in [Procs -> Logins \cup {NoLogin}]
    /\ ref \in [Procs -> Nat]
    /\ \A p \in Procs : pc[p] \in Waiting => at[p] \in Logins
    /\ \A p \in Procs : pc[p] \in {"try", "select"} => <<at[p], ref[p]>> \in DOMAIN mail
    /\ taken \in [Logins -> SUBSET (Procs \X Nat \X Logins)]
    /\ waits \in [Procs -> Nat]
    /\ ended \subseteq Logins

\* A completion is queued with its own login, after that completed, and not taken.
Own == \A o \in DOMAIN mail : \A i \in DOMAIN mail[o] :
          mail[o][i] # Failure => /\ mail[o][i] = o[1]
                                  /\ login[o[1]] = "completed" /\ taken[o[1]] = {}

\* It is queued once.
Once == \A o, q \in DOMAIN mail : \A i \in DOMAIN mail[o], j \in DOMAIN mail[q] :
           (mail[o][i] # Failure /\ mail[o][i] = mail[q][j]) => o = q /\ i = j

MailInv == Own /\ Once

TakenInv ==
    \A l \in Logins :
        /\ taken[l] = {} \/ \E t : taken[l] = {t}
        /\ \A t \in taken[l] : t[3] = l /\ login[l] = "completed"

KeptInv ==
    \A l \in Logins :
        /\ route[l] = "closed" => l \in ended
        /\ (login[l] = "completed" /\ l \notin ended) =>
              taken[l] # {} \/ \E i \in DOMAIN mail[<<l, gen[l]>>] : mail[<<l, gen[l]>>][i] = l

Inv == SType /\ MailInv /\ TakenInv /\ KeptInv

-----------------------------------------------------------------------------
\* Of NewClient's failures: Start closes the client, and Close waits for the child.
THEOREM NothingIsLeft == Spec => []StartLeavesNothing
<1> USE DEF StartInv
<1>1. Init => StartInv
  BY DEF Init
<1>2. StartInv /\ [Next]_vars => StartInv'
  <2> SUFFICES ASSUME StartInv, [Next]_vars PROVE StartInv'
    OBVIOUS
  <2>1. CASE Lifecycle
    BY <2>1 DEF Lifecycle, Resolve, Spawn, Initialize, StartFails, Close, FailAll, Reap, Wake
  <2>2. ASSUME NEW l \in Logins, Completed(l) PROVE StartInv'
    BY <2>2 DEF Completed, clientVars
  <2>3. ASSUME NEW p \in Procs, Step(p) PROVE StartInv'
    BY <2>3 DEF Step, WaitStep, BeginLogin, CancelContext, Attempt, LoginBegun, LoginFails,
                Overloaded, NapEnds, NapCancelled, Wait, Lookup, Receive, TryEmpty,
                SelectCancelled, Unregister, clientVars
  <2>4. CASE UNCHANGED vars
    BY <2>4 DEF vars, clientVars
  <2> QED BY <2>1, <2>2, <2>3, <2>4 DEF Next
<1>3. StartInv => StartLeavesNothing
  BY DEF StartLeavesNothing
<1> HIDE DEF StartInv
<1> QED BY <1>1, <1>2, <1>3, PTL DEF Spec

-----------------------------------------------------------------------------
\* Queues, as the steps below change them.
LEMMA AppendAt ==
    ASSUME NEW S, NEW s \in Seq(S), NEW x \in S
    PROVE  /\ Append(s, x) \in Seq(S)
           /\ DOMAIN Append(s, x) = DOMAIN s \cup {Len(s) + 1}
           /\ Len(s) + 1 \notin DOMAIN s
           /\ \A i \in DOMAIN s : Append(s, x)[i] = s[i]
           /\ Append(s, x)[Len(s) + 1] = x
OBVIOUS

LEMMA TailAt ==
    ASSUME NEW S, NEW s \in Seq(S), s # <<>>
    PROVE  /\ Tail(s) \in Seq(S)
           /\ 1 \in DOMAIN s /\ Head(s) = s[1]
           /\ \A i \in DOMAIN Tail(s) : i + 1 \in DOMAIN s /\ i + 1 # 1 /\ Tail(s)[i] = s[i + 1]
           /\ \A i \in DOMAIN s : i = 1 \/ (i - 1 \in DOMAIN Tail(s) /\ Tail(s)[i - 1] = s[i])
           /\ \A i, j \in DOMAIN Tail(s) : i + 1 = j + 1 => i = j
OBVIOUS

LEMMA OnceAt ==
    ASSUME Once, NEW o \in DOMAIN mail, NEW q \in DOMAIN mail,
           NEW i \in DOMAIN mail[o], NEW j \in DOMAIN mail[q],
           mail[o][i] # Failure, mail[o][i] = mail[q][j]
    PROVE  o = q /\ i = j
BY DEF Once

LEMMA TakenKeeps ==
    ASSUME TakenInv,
           \A m \in Logins : /\ taken'[m] = taken[m]
                             /\ login[m] = "completed" => login'[m] = "completed"
    PROVE  TakenInv'
<1> SUFFICES ASSUME NEW m \in Logins
             PROVE  /\ taken'[m] = {} \/ \E t : taken'[m] = {t}
                    /\ \A t \in taken'[m] : t[3] = m /\ login'[m] = "completed"
  BY DEF TakenInv
<1>1. taken'[m] = taken[m] /\ (login[m] = "completed" => login'[m] = "completed")
  OBVIOUS
<1>2. taken'[m] = {} \/ \E t : taken'[m] = {t}
  BY <1>1, Zenon DEF TakenInv
<1>3. \A t \in taken'[m] : t[3] = m /\ login'[m] = "completed"
  BY <1>1 DEF TakenInv
<1> QED BY <1>2, <1>3

LEMMA InitInv == Init => Inv
<1> SUFFICES ASSUME Init PROVE Inv
  OBVIOUS
<1>1. SType
  <2>1. mail = [o \in Logins \X {0} |-> <<>>]
    BY DEF Init
  <2>2. DOMAIN mail = Logins \X {0}
    BY <2>1
  <2>3. mail \in [DOMAIN mail -> Seq(Logins \cup {Failure})]
    BY <2>1, <2>2
  <2>4. DOMAIN mail \subseteq Logins \X Nat /\ \A l \in Logins : <<l, gen[l]>> \in DOMAIN mail
    BY <2>2 DEF Init
  <2>5. /\ waking = {} /\ ended = {} /\ taken \in [Logins -> SUBSET (Procs \X Nat \X Logins)]
        /\ pc = [p \in Procs |-> "idle"] /\ at \in [Procs -> Logins \cup {NoLogin}]
        /\ ref \in [Procs -> Nat] /\ waits \in [Procs -> Nat]
    BY DEF Init
  <2>6. /\ pc \in [Procs -> Labels]
        /\ \A p \in Procs : pc[p] \notin Waiting /\ pc[p] \notin {"try", "select"}
    BY <2>5 DEF Waiting, Labels
  <2>7. /\ login \in [Logins -> {"none", "begun", "completed"}] /\ gen \in [Logins -> Nat]
        /\ route \in [Logins -> {"none", "pending", "open", "closed"}]
    BY DEF Init
  <2> QED BY <2>3, <2>4, <2>5, <2>6, <2>7 DEF SType
<1>2. \A o \in DOMAIN mail : DOMAIN mail[o] = {}
  BY DEF Init
<1>3. MailInv
  BY <1>2 DEF MailInv, Own, Once
<1>4. TakenInv /\ KeptInv
  BY DEF Init, TakenInv, KeptInv
<1> QED BY <1>1, <1>3, <1>4 DEF Inv

\* What the invariant says of the queues and the logins.
data == <<login, gen, route, mail, waking, taken, waits, ended, at, ref>>

\* A step of one goroutine that touches none of them and goes nowhere it would
\* need an object it has not got.
Quiet(p) ==
    /\ UNCHANGED data
    /\ \E label \in Labels : /\ pc' = [pc EXCEPT ![p] = label]
                             /\ label \in Waiting => at[p] \in Logins
                             /\ label \in {"try", "select"} => <<at[p], ref[p]>> \in DOMAIN mail

LEMMA DataKeeps ==
    ASSUME MailInv, TakenInv, KeptInv, UNCHANGED data
    PROVE  MailInv' /\ TakenInv' /\ KeptInv'
<1>1. /\ login' = login /\ gen' = gen /\ route' = route /\ mail' = mail
      /\ taken' = taken /\ ended' = ended
  BY DEF data
<1>2. Own'
  BY <1>1 DEF MailInv, Own
<1>3. Once'
  BY <1>1 DEF MailInv, Once
<1>4. TakenInv'
  BY <1>1 DEF TakenInv
<1>5. KeptInv'
  BY <1>1 DEF KeptInv
<1> QED BY <1>2, <1>3, <1>4, <1>5 DEF MailInv

LEMMA QuietKeeps ==
    ASSUME Inv, NEW p \in Procs, Quiet(p) PROVE Inv'
<1>1. SType'
  BY DEF Inv, SType, Quiet, data, Waiting
<1>2. MailInv' /\ TakenInv' /\ KeptInv'
  BY DataKeeps DEF Inv, Quiet
<1> QED BY <1>1, <1>2 DEF Inv

LEMMA StutterKeeps ==
    ASSUME Inv, UNCHANGED <<data, pc>> PROVE Inv'
<1>1. SType'
  BY DEF Inv, SType, data, Waiting
<1>2. MailInv' /\ TakenInv' /\ KeptInv'
  BY DataKeeps DEF Inv
<1> QED BY <1>1, <1>2 DEF Inv

LEMMA GoKeeps ==
    ASSUME Inv, NEW p \in Procs, UNCHANGED data,
           NEW label \in {"idle", "attempt", "flight", "sleep", "unregister"},
           pc' = [pc EXCEPT ![p] = label],
           label = "unregister" => at[p] \in Logins
    PROVE  Inv'
<1>1. label \in Labels /\ (label \in Waiting => label = "unregister")
      /\ label \notin {"try", "select"}
  BY DEF Waiting, Labels
<1>2. Quiet(p)
  BY <1>1 DEF Quiet
<1> QED BY <1>2, QuietKeeps

LEMMA RetryKeeps ==
    ASSUME Inv, NEW p \in Procs,
           \/ BeginLogin(p) \/ CancelContext(p) \/ Attempt(p) \/ LoginFails(p) \/ Overloaded(p)
           \/ NapEnds(p) \/ NapCancelled(p)
    PROVE  Inv'
<1>1. CASE CancelContext(p)
  BY <1>1, StutterKeeps DEF CancelContext, clientVars, routerVars, waitVars, history, data
<1>2. CASE BeginLogin(p)
  <2>1. UNCHANGED data
    BY <1>2 DEF BeginLogin, clientVars, routerVars, waitVars, history, data
  <2>2. pc' = [pc EXCEPT ![p] = "attempt"]
    BY <1>2 DEF BeginLogin, Goto, LeaveRetry
  <2> QED BY <2>1, <2>2, GoKeeps
<1>3. CASE Attempt(p)
  <2>1. UNCHANGED data
    BY <1>3 DEF Attempt, clientVars, routerVars, waitVars, history, data
  <2>2. pc' = [pc EXCEPT ![p] = "idle"] \/ pc' = [pc EXCEPT ![p] = "flight"]
    BY <1>3 DEF Attempt, Goto, LeaveRetry
  <2> QED BY <2>1, <2>2, GoKeeps
<1>4. CASE LoginFails(p)
  <2>1. UNCHANGED data
    BY <1>4 DEF LoginFails, clientVars, routerVars, waitVars, history, data
  <2>2. pc' = [pc EXCEPT ![p] = "idle"]
    BY <1>4 DEF LoginFails, Goto, LeaveRetry
  <2> QED BY <2>1, <2>2, GoKeeps
<1>5. CASE Overloaded(p)
  <2>1. UNCHANGED data
    BY <1>5 DEF Overloaded, clientVars, routerVars, waitVars, history, data
  <2>2. pc' = [pc EXCEPT ![p] = "sleep"]
    BY <1>5 DEF Overloaded, Goto, LeaveRetry
  <2> QED BY <2>1, <2>2, GoKeeps
<1>6. CASE NapEnds(p)
  <2>1. UNCHANGED data
    BY <1>6 DEF NapEnds, clientVars, routerVars, waitVars, history, data
  <2>2. pc' = [pc EXCEPT ![p] = "attempt"]
    BY <1>6 DEF NapEnds, Goto, LeaveRetry
  <2> QED BY <2>1, <2>2, GoKeeps
<1>7. CASE NapCancelled(p)
  <2>1. UNCHANGED data
    BY <1>7 DEF NapCancelled, clientVars, routerVars, waitVars, history, data
  <2>2. pc' = [pc EXCEPT ![p] = "idle"]
    BY <1>7 DEF NapCancelled, Goto, LeaveRetry
  <2> QED BY <2>1, <2>2, GoKeeps
<1> QED BY <1>1, <1>2, <1>3, <1>4, <1>5, <1>6, <1>7

\* The server begins a login nobody has heard of before.
LEMMA LoginBegunKeeps ==
    ASSUME Inv, NEW p \in Procs, LoginBegun(p) PROVE Inv'
<1> USE DEF Inv
<1> PICK l \in Logins : login[l] = "none" /\ login' = [login EXCEPT ![l] = "begun"]
  BY DEF LoginBegun
<1>1. /\ UNCHANGED <<gen, route, mail, waking, taken, waits, ended, at, ref>>
      /\ pc' = [pc EXCEPT ![p] = "idle"]
  BY DEF LoginBegun, LeaveRetry, Goto, clientVars, routerVars, waitVars, history
<1>2. SType'
  <2>1. login' \in [Logins -> {"none", "begun", "completed"}]
    BY DEF SType
  <2>2. pc' \in [Procs -> Labels]
    BY <1>1 DEF SType, Labels
  <2>3. \A q \in Procs : pc'[q] = pc[q] \/ pc'[q] = "idle"
    BY <1>1 DEF SType
  <2>4. \A q \in Procs : pc'[q] \in Waiting => pc[q] \in Waiting
    BY <2>3 DEF Waiting
  <2>5. \A q \in Procs : pc'[q] \in {"try", "select"} => pc[q] \in {"try", "select"}
    BY <2>3
  <2> QED BY <1>1, <2>1, <2>2, <2>4, <2>5 DEF SType
<1>3. \A m \in Logins : login[m] = "completed" <=> login'[m] = "completed"
  BY DEF SType
<1>4. MailInv'
  <2>1. \A o \in DOMAIN mail : o[1] \in Logins
    BY DEF SType
  <2>2. Own'
    BY <1>1, <1>3, <2>1 DEF MailInv, Own
  <2>3. Once'
    BY <1>1 DEF MailInv, Once
  <2> QED BY <2>2, <2>3 DEF MailInv
<1>5. TakenInv' /\ KeptInv'
  BY <1>1, <1>3 DEF TakenInv, KeptInv
<1> QED BY <1>2, <1>4, <1>5

-----------------------------------------------------------------------------
\* The client's life: only FailAll and Wake touch the queues.
LEMMA FailAllKeeps == ASSUME Inv, FailAll PROVE Inv'
<1> USE DEF Inv
<1>1. /\ UNCHANGED <<login, gen, route, mail, taken, waits, ended, at, ref, pc>>
      /\ waking' = {<<l, gen[l]>> : l \in {m \in Logins : route[m] = "open"}}
  BY DEF FailAll, routerVars, waitVars, history
<1>2. waking' \subseteq DOMAIN mail
  BY <1>1 DEF SType
<1>3. SType'
  BY <1>1, <1>2 DEF SType
<1>4. Own'
  BY <1>1 DEF MailInv, Own
<1>5. Once'
  BY <1>1 DEF MailInv, Once
<1>6. TakenInv' /\ KeptInv'
  BY <1>1 DEF TakenInv, KeptInv
<1> QED BY <1>3, <1>4, <1>5, <1>6 DEF MailInv

\* One item more at the end of the queue of object q.
Appended(q, x) == mail' = [mail EXCEPT ![q] = Append(@, x)]

LEMMA AppendKeepsType ==
    ASSUME SType, NEW q \in DOMAIN mail, NEW x \in Logins \cup {Failure}, Appended(q, x)
    PROVE  /\ DOMAIN mail' = DOMAIN mail
           /\ mail' \in [DOMAIN mail -> Seq(Logins \cup {Failure})]
           /\ mail'[q] = Append(mail[q], x)
           /\ \A o \in DOMAIN mail \ {q} : mail'[o] = mail[o]
           /\ \A o \in DOMAIN mail : \A i \in DOMAIN mail[o] :
                 i \in DOMAIN mail'[o] /\ mail'[o][i] = mail[o][i]
           /\ \A o \in DOMAIN mail : \A i \in DOMAIN mail'[o] :
                 \/ i \in DOMAIN mail[o] /\ mail'[o][i] = mail[o][i]
                 \/ o = q /\ i = Len(mail[q]) + 1 /\ mail'[o][i] = x
           /\ Len(mail[q]) + 1 \in DOMAIN mail'[q] /\ mail'[q][Len(mail[q]) + 1] = x
<1>1. mail[q] \in Seq(Logins \cup {Failure})
  BY DEF SType
<1>2. /\ DOMAIN mail' = DOMAIN mail /\ mail'[q] = Append(mail[q], x)
      /\ \A o \in DOMAIN mail \ {q} : mail'[o] = mail[o]
  BY DEF SType, Appended
<1>3. /\ Append(mail[q], x) \in Seq(Logins \cup {Failure})
      /\ DOMAIN Append(mail[q], x) = DOMAIN mail[q] \cup {Len(mail[q]) + 1}
      /\ \A i \in DOMAIN mail[q] : Append(mail[q], x)[i] = mail[q][i]
      /\ Append(mail[q], x)[Len(mail[q]) + 1] = x
  BY <1>1, AppendAt
<1>4. mail' \in [DOMAIN mail -> Seq(Logins \cup {Failure})]
  BY <1>3 DEF SType, Appended
<1>5. \A o \in DOMAIN mail : \A i \in DOMAIN mail[o] :
                 i \in DOMAIN mail'[o] /\ mail'[o][i] = mail[o][i]
  BY <1>2, <1>3
<1>6. \A o \in DOMAIN mail : \A i \in DOMAIN mail'[o] :
                 \/ i \in DOMAIN mail[o] /\ mail'[o][i] = mail[o][i]
                 \/ o = q /\ i = Len(mail[q]) + 1 /\ mail'[o][i] = x
  BY <1>2, <1>3
<1> QED BY <1>2, <1>3, <1>4, <1>5, <1>6

LEMMA WakeKeeps == ASSUME Inv, NEW q \in waking, Wake(q) PROVE Inv'
<1> USE DEF Inv
<1>1. /\ UNCHANGED <<login, gen, route, taken, waits, ended, at, ref, pc>>
      /\ waking' = waking \ {q} /\ mail' = [mail EXCEPT ![q] = Append(@, Failure)]
  BY DEF Wake, waitVars, history
<1>2. q \in DOMAIN mail /\ Failure \in Logins \cup {Failure} /\ Appended(q, Failure)
  BY <1>1 DEF SType, Appended
<1>3. /\ DOMAIN mail' = DOMAIN mail
      /\ mail' \in [DOMAIN mail -> Seq(Logins \cup {Failure})]
      /\ \A o \in DOMAIN mail : \A i \in DOMAIN mail[o] :
            i \in DOMAIN mail'[o] /\ mail'[o][i] = mail[o][i]
      /\ \A o \in DOMAIN mail : \A i \in DOMAIN mail'[o] :
            \/ i \in DOMAIN mail[o] /\ mail'[o][i] = mail[o][i]
            \/ mail'[o][i] = Failure
  BY <1>1, <1>2, AppendKeepsType
<1>4. SType'
  BY <1>1, <1>3 DEF SType
<1>5. Own'
  BY <1>1, <1>3 DEF MailInv, Own
<1>6. Once'
  BY <1>3 DEF MailInv, Once
<1>7. TakenInv'
  BY <1>1 DEF TakenInv
<1>8. KeptInv'
  <2>1. \A l \in Logins : <<l, gen[l]>> \in DOMAIN mail
    BY DEF SType
  <2>2. ASSUME NEW l \in Logins, NEW i \in DOMAIN mail[<<l, gen[l]>>], mail[<<l, gen[l]>>][i] = l
        PROVE  \E j \in DOMAIN mail'[<<l, gen[l]>>] : mail'[<<l, gen[l]>>][j] = l
    BY <1>3, <2>1, <2>2
  <2> QED BY <1>1, <2>2 DEF KeptInv
<1> QED BY <1>4, <1>5, <1>6, <1>7, <1>8 DEF MailInv

LEMMA LifecycleKeeps == ASSUME Inv, Lifecycle PROVE Inv'
<1>1. CASE FailAll
  BY <1>1, FailAllKeeps
<1>2. CASE \E o \in waking : Wake(o)
  BY <1>2, WakeKeeps
<1>3. CASE Resolve \/ Spawn \/ Initialize \/ StartFails \/ Close \/ Reap
  <2>1. UNCHANGED <<data, pc>>
    BY <1>3 DEF Resolve, Spawn, Initialize, StartFails, Close, Reap, routerVars, waitVars,
                history, data
  <2> QED BY <2>1, StutterKeeps
<1> QED BY <1>1, <1>2, <1>3 DEF Lifecycle

\* The server completes a login: its completion is nowhere yet, and the object it
\* is queued in is the route's.
LEMMA CompletedKeeps == ASSUME Inv, NEW l \in Logins, Completed(l) PROVE Inv'
<1> USE DEF Inv
<1>1. /\ UNCHANGED <<gen, waking, taken, waits, ended, at, ref, pc>>
      /\ login[l] = "begun" /\ login' = [login EXCEPT ![l] = "completed"]
      /\ route' = IF route[l] = "none" THEN [route EXCEPT ![l] = "pending"] ELSE route
      /\ mail' = IF route[l] = "closed" THEN mail
                 ELSE [mail EXCEPT ![<<l, gen[l]>>] = Append(@, l)]
  BY DEF Completed, clientVars, waitVars, history
<1>2. /\ login' \in [Logins -> {"none", "begun", "completed"}]
      /\ route' \in [Logins -> {"none", "pending", "open", "closed"}]
      /\ login'[l] = "completed" /\ \A m \in Logins \ {l} : login'[m] = login[m]
      /\ \A m \in Logins : route'[m] = "closed" <=> route[m] = "closed"
  BY <1>1 DEF SType
<1>3. /\ <<l, gen[l]>> \in DOMAIN mail
      /\ \A o \in DOMAIN mail : o[1] \in Logins
      /\ \A o \in DOMAIN mail : \A i \in DOMAIN mail[o] : mail[o][i] # l
      /\ taken[l] = {}
  <2>1. Failure # l
    BY SessionAssumption
  <2>2. l \in Logins /\ login[l] # "completed"
    BY <1>1
  <2> QED BY <2>1, <2>2 DEF SType, MailInv, Own, TakenInv
<1>4. /\ DOMAIN mail' = DOMAIN mail
      /\ mail' \in [DOMAIN mail -> Seq(Logins \cup {Failure})]
      /\ \A o \in DOMAIN mail : \A i \in DOMAIN mail[o] :
            i \in DOMAIN mail'[o] /\ mail'[o][i] = mail[o][i]
      /\ \A o \in DOMAIN mail : \A i \in DOMAIN mail'[o] :
            \/ i \in DOMAIN mail[o] /\ mail'[o][i] = mail[o][i]
            \/ o = <<l, gen[l]>> /\ i = Len(mail[<<l, gen[l]>>]) + 1 /\ mail'[o][i] = l
      /\ route[l] # "closed" =>
            \E i \in DOMAIN mail'[<<l, gen[l]>>] : mail'[<<l, gen[l]>>][i] = l
  <2>1. CASE route[l] = "closed"
    BY <1>1, <2>1 DEF SType
  <2>2. CASE route[l] # "closed"
    <3> DEFINE q == <<l, gen[l]>>
    <3>1. Appended(q, l) /\ q \in DOMAIN mail /\ l \in Logins \cup {Failure}
      BY <1>1, <1>3, <2>2 DEF Appended
    <3> HIDE DEF q
    <3>2. /\ DOMAIN mail' = DOMAIN mail
          /\ mail' \in [DOMAIN mail -> Seq(Logins \cup {Failure})]
          /\ \A o \in DOMAIN mail : \A i \in DOMAIN mail[o] :
                i \in DOMAIN mail'[o] /\ mail'[o][i] = mail[o][i]
          /\ \A o \in DOMAIN mail : \A i \in DOMAIN mail'[o] :
                \/ i \in DOMAIN mail[o] /\ mail'[o][i] = mail[o][i]
                \/ o = q /\ i = Len(mail[q]) + 1 /\ mail'[o][i] = l
          /\ Len(mail[q]) + 1 \in DOMAIN mail'[q] /\ mail'[q][Len(mail[q]) + 1] = l
      BY <3>1, AppendKeepsType
    <3> QED BY <3>2 DEF q
  <2> QED BY <2>1, <2>2
<1>5. SType'
  BY <1>1, <1>2, <1>4 DEF SType
<1>6. Own'
  <2> SUFFICES ASSUME NEW o \in DOMAIN mail, NEW i \in DOMAIN mail'[o], mail'[o][i] # Failure
               PROVE  mail'[o][i] = o[1] /\ login'[o[1]] = "completed" /\ taken'[o[1]] = {}
    BY <1>4 DEF Own
  <2>1. CASE i \in DOMAIN mail[o] /\ mail'[o][i] = mail[o][i]
    BY <1>1, <1>2, <1>3, <2>1 DEF MailInv, Own
  <2>2. CASE o = <<l, gen[l]>> /\ mail'[o][i] = l
    BY <1>1, <1>2, <1>3, <2>2
  <2> QED BY <1>4, <2>1, <2>2
<1>7. Once'
  <2> SUFFICES ASSUME NEW o \in DOMAIN mail, NEW q \in DOMAIN mail,
                      NEW i \in DOMAIN mail'[o], NEW j \in DOMAIN mail'[q],
                      mail'[o][i] # Failure, mail'[o][i] = mail'[q][j]
               PROVE  o = q /\ i = j
    BY <1>4 DEF Once
  <2>1. CASE mail'[o][i] = l
    <3>1. ~(i \in DOMAIN mail[o] /\ mail'[o][i] = mail[o][i])
      BY <1>3, <2>1
    <3>2. ~(j \in DOMAIN mail[q] /\ mail'[q][j] = mail[q][j])
      BY <1>3, <2>1
    <3>3. o = <<l, gen[l]>> /\ i = Len(mail[<<l, gen[l]>>]) + 1
      BY <1>4, <3>1
    <3>4. q = <<l, gen[l]>> /\ j = Len(mail[<<l, gen[l]>>]) + 1
      BY <1>4, <3>2
    <3> QED BY <3>3, <3>4, Zenon
  <2>2. CASE mail'[o][i] # l
    <3>1. /\ i \in DOMAIN mail[o] /\ mail'[o][i] = mail[o][i]
          /\ j \in DOMAIN mail[q] /\ mail'[q][j] = mail[q][j]
      BY <1>4, <2>2
    <3>2. mail[o][i] # Failure /\ mail[o][i] = mail[q][j] /\ Once
      BY <3>1 DEF MailInv
    <3>3. i \in DOMAIN mail[o] /\ j \in DOMAIN mail[q]
      BY <3>1
    <3> QED BY <3>2, <3>3, OnceAt
  <2> QED BY <2>1, <2>2
<1>8. TakenInv'
  <2>1. \A m \in Logins : taken'[m] = taken[m] /\ (login[m] = "completed" => login'[m] = "completed")
    BY <1>1, <1>2
  <2>2. TakenInv
    OBVIOUS
  <2> QED BY <2>1, <2>2, TakenKeeps
<1>9. KeptInv'
  <2>1. \A m \in Logins \ {l} : login'[m] = login[m] /\ <<m, gen[m]>> \in DOMAIN mail
    BY <1>2 DEF SType
  <2>2. \A m \in Logins : route'[m] = "closed" => m \in ended'
    BY <1>1, <1>2 DEF KeptInv
  <2>3. (login'[l] = "completed" /\ l \notin ended') =>
            \E i \in DOMAIN mail'[<<l, gen'[l]>>] : mail'[<<l, gen'[l]>>][i] = l
    BY <1>1, <1>4 DEF KeptInv
  <2>4. ASSUME NEW m \in Logins \ {l}, login'[m] = "completed", m \notin ended', taken'[m] = {}
        PROVE  \E i \in DOMAIN mail'[<<m, gen'[m]>>] : mail'[<<m, gen'[m]>>][i] = m
    <3>1. PICK i \in DOMAIN mail[<<m, gen[m]>>] : mail[<<m, gen[m]>>][i] = m
      BY <1>1, <2>1, <2>4 DEF KeptInv
    <3> QED BY <1>1, <1>4, <2>1, <3>1
  <2> QED BY <2>2, <2>3, <2>4 DEF KeptInv
<1> QED BY <1>5, <1>6, <1>7, <1>8, <1>9 DEF MailInv

-----------------------------------------------------------------------------
\* waitForLogin.
LEMMA WaitKeeps == ASSUME Inv, NEW p \in Procs, NEW l \in Logins, Wait(p, l) PROVE Inv'
<1> USE DEF Inv
<1>1. UNCHANGED <<login, gen, mail, waking, taken, ended, ref>>
  BY DEF Wait, clientVars
<1>2. waits' \in [Procs -> Nat]
  BY DEF Wait, SType
<1>3. \/ UNCHANGED <<route, pc, at>>
      \/ /\ route' = [route EXCEPT ![l] = "open"] /\ at' = [at EXCEPT ![p] = l]
         /\ pc' = [pc EXCEPT ![p] = "lookup"]
  BY DEF Wait, Goto
<1>4. /\ route' \in [Logins -> {"none", "pending", "open", "closed"}]
      /\ \A m \in Logins : route'[m] = "closed" => route[m] = "closed"
      /\ at' \in [Procs -> Logins \cup {NoLogin}] /\ pc' \in [Procs -> Labels]
  BY <1>3 DEF SType, Labels
<1>5. /\ \A q \in Procs : pc'[q] \in Waiting => at'[q] \in Logins
      /\ \A q \in Procs : pc'[q] \in {"try", "select"} =>
            pc[q] \in {"try", "select"} /\ at'[q] = at[q]
  BY <1>3 DEF SType
<1>6. SType'
  BY <1>1, <1>2, <1>4, <1>5 DEF SType
<1>7. Own' /\ TakenInv'
  BY <1>1 DEF MailInv, Own, TakenInv
<1>8. Once'
  BY <1>1 DEF MailInv, Once
<1>9. KeptInv'
  BY <1>1, <1>4 DEF KeptInv
<1> QED BY <1>6, <1>7, <1>8, <1>9 DEF MailInv

LEMMA LookupKeeps == ASSUME Inv, NEW p \in Procs, Lookup(p) PROVE Inv'
<1>1. pc[p] = "lookup" /\ at[p] \in Logins
  BY DEF Lookup, Inv, SType, Waiting
<1>2. UNCHANGED <<login, gen, route, mail, waking, taken, waits, ended, at>>
  BY DEF Lookup, clientVars, routerVars, history
<1>3. CASE pc' = [pc EXCEPT ![p] = "unregister"] /\ ref' = ref
  <2>1. UNCHANGED data
    BY <1>2, <1>3 DEF data
  <2> QED BY <1>1, <1>3, <2>1, GoKeeps
<1>4. CASE pc' = [pc EXCEPT ![p] = "try"] /\ ref' = [ref EXCEPT ![p] = gen[at[p]]]
  <2> USE DEF Inv
  <2>1. ref' \in [Procs -> Nat] /\ pc' \in [Procs -> Labels]
    BY <1>1, <1>4 DEF SType, Labels
  <2>2. \A q \in Procs : pc'[q] \in Waiting => at'[q] \in Logins
    BY <1>1, <1>2, <1>4 DEF SType
  <2>3. <<at'[p], ref'[p]>> \in DOMAIN mail
    BY <1>1, <1>2, <1>4 DEF SType
  <2>4. \A q \in Procs \ {p} : pc'[q] = pc[q] /\ ref'[q] = ref[q] /\ at'[q] = at[q]
    BY <1>2, <1>4 DEF SType
  <2>5. \A q \in Procs : pc'[q] \in {"try", "select"} => <<at'[q], ref'[q]>> \in DOMAIN mail
    BY <2>3, <2>4 DEF SType
  <2>6. SType'
    BY <1>2, <2>1, <2>2, <2>5 DEF SType
  <2>7. Own' /\ TakenInv' /\ KeptInv'
    BY <1>2 DEF MailInv, Own, TakenInv, KeptInv
  <2>8. Once'
    BY <1>2 DEF MailInv, Once
  <2> QED BY <2>6, <2>7, <2>8 DEF MailInv
<1> QED BY <1>3, <1>4 DEF Lookup, Goto

LEMMA TryKeeps == ASSUME Inv, NEW p \in Procs, TryEmpty(p) PROVE Inv'
<1>1. UNCHANGED data
  BY DEF TryEmpty, clientVars, routerVars, waitVars, history, data
<1>2. /\ at[p] \in Logins /\ <<at[p], ref[p]>> \in DOMAIN mail
      /\ \/ pc' = [pc EXCEPT ![p] = "unregister"]
         \/ pc' = [pc EXCEPT ![p] = "select"]
  BY DEF TryEmpty, Goto, Inv, SType, Waiting
<1>3. CASE pc' = [pc EXCEPT ![p] = "unregister"]
  BY <1>1, <1>2, <1>3, GoKeeps
<1>4. CASE pc' = [pc EXCEPT ![p] = "select"]
  <2>1. Quiet(p)
    BY <1>1, <1>2, <1>4 DEF Quiet, Labels
  <2> QED BY <2>1, QuietKeeps
<1> QED BY <1>2, <1>3, <1>4

LEMMA SelectKeeps == ASSUME Inv, NEW p \in Procs, SelectCancelled(p) PROVE Inv'
<1>1. UNCHANGED data
  BY DEF SelectCancelled, clientVars, routerVars, waitVars, history, data
<1>2. at[p] \in Logins /\ pc' = [pc EXCEPT ![p] = "unregister"]
  BY DEF SelectCancelled, Goto, Inv, SType, Waiting
<1> QED BY <1>1, <1>2, GoKeeps

\* A wait takes the head of its queue: a completion leaves the queues as it is taken.
LEMMA ReceiveKeeps == ASSUME Inv, NEW p \in Procs, Receive(p) PROVE Inv'
<1> USE DEF Inv
<1> PICK a : a = <<at[p], ref[p]>>
  OBVIOUS
<1>1. /\ a \in DOMAIN mail /\ mail[a] # <<>> /\ at[p] \in Logins /\ a[1] = at[p]
      /\ mail[a] \in Seq(Logins \cup {Failure})
  BY DEF Receive, Queue, SType, Waiting
<1> PICK h : h = mail[a][1]
  OBVIOUS
<1>2. /\ UNCHANGED <<login, gen, route, waking, waits, ended, at, ref>>
      /\ pc' = [pc EXCEPT ![p] = "unregister"]
      /\ mail' = [mail EXCEPT ![a] = Tail(@)]
  BY DEF Receive, clientVars, waitVars, Goto
<1>3. /\ Tail(mail[a]) \in Seq(Logins \cup {Failure})
      /\ 1 \in DOMAIN mail[a] /\ Head(mail[a]) = h
      /\ \A i \in DOMAIN Tail(mail[a]) :
            i + 1 \in DOMAIN mail[a] /\ i + 1 # 1 /\ Tail(mail[a])[i] = mail[a][i + 1]
      /\ \A i \in DOMAIN mail[a] :
            i = 1 \/ (i - 1 \in DOMAIN Tail(mail[a]) /\ Tail(mail[a])[i - 1] = mail[a][i])
      /\ \A i, j \in DOMAIN Tail(mail[a]) : i + 1 = j + 1 => i = j
  BY <1>1, TailAt
<1>4. /\ DOMAIN mail' = DOMAIN mail
      /\ mail'[a] = Tail(mail[a]) /\ \A o \in DOMAIN mail \ {a} : mail'[o] = mail[o]
      /\ mail' \in [DOMAIN mail -> Seq(Logins \cup {Failure})]
  BY <1>1, <1>2, <1>3 DEF SType
<1>5. \A l \in Logins : taken'[l] = IF h = l THEN taken[l] \cup {<<p, waits[p], at[p]>>}
                                             ELSE taken[l]
  BY <1>3 DEF Receive, Queue
<1>6. h # Failure => h = at[p] /\ login[at[p]] = "completed" /\ taken[at[p]] = {}
  BY <1>1, <1>3 DEF MailInv, Own
<1>7. h \in Logins => h # Failure
  BY SessionAssumption
<1>8. /\ \A l \in Logins : h # l => taken'[l] = taken[l]
      /\ h \in Logins => h = at[p] /\ taken'[h] = {<<p, waits[p], at[p]>>}
  BY <1>5, <1>6, <1>7
<1>9. SType'
  <2>1. /\ pc' \in [Procs -> Labels]
        /\ \A q \in Procs : pc'[q] \in Waiting => at'[q] \in Logins
        /\ \A q \in Procs : pc'[q] \in {"try", "select"} => pc[q] \in {"try", "select"}
    BY <1>1, <1>2 DEF SType, Labels
  <2>2. taken' \in [Logins -> SUBSET (Procs \X Nat \X Logins)]
    <3>1. <<p, waits[p], at[p]>> \in Procs \X Nat \X Logins
      BY <1>1 DEF SType
    <3>2. taken' = [l \in Logins |-> IF Head(Queue(p)) = l
                                  THEN taken[l] \cup {<<p, waits[p], at[p]>>} ELSE taken[l]]
      BY DEF Receive
    <3> QED BY <3>1, <3>2 DEF SType
  <2> QED BY <1>2, <1>4, <2>1, <2>2 DEF SType
\* What is queued after the step was queued before it, elsewhere than at the head.
<1>10. ASSUME NEW o \in DOMAIN mail, NEW i \in DOMAIN mail'[o]
       PROVE  \E j \in DOMAIN mail[o] : /\ mail'[o][i] = mail[o][j] /\ ~(o = a /\ j = 1)
                                        /\ j = IF o = a THEN i + 1 ELSE i
  <2>1. CASE o = a
    <3>1. i \in DOMAIN Tail(mail[a]) /\ mail'[o][i] = Tail(mail[a])[i]
      BY <1>4, <2>1
    <3>2. i + 1 \in DOMAIN mail[o] /\ i + 1 # 1 /\ mail'[o][i] = mail[o][i + 1]
      BY <1>3, <2>1, <3>1
    <3> QED BY <2>1, <3>2
  <2>2. CASE o # a
    BY <1>4, <2>2
  <2> QED BY <2>1, <2>2
<1>11. Own'
  <2> SUFFICES ASSUME NEW o \in DOMAIN mail, NEW i \in DOMAIN mail'[o], mail'[o][i] # Failure
               PROVE  mail'[o][i] = o[1] /\ login'[o[1]] = "completed" /\ taken'[o[1]] = {}
    BY <1>4 DEF Own
  <2>1. PICK j \in DOMAIN mail[o] : mail'[o][i] = mail[o][j] /\ ~(o = a /\ j = 1)
    BY <1>10
  <2>2. /\ mail[o][j] = o[1] /\ login[o[1]] = "completed" /\ taken[o[1]] = {}
        /\ o[1] \in Logins
    BY <2>1 DEF MailInv, Own, SType
  <2>3. h # o[1]
    <3> SUFFICES ASSUME h = o[1] PROVE FALSE
      OBVIOUS
    <3>1. mail[a][1] # Failure /\ mail[a][1] = mail[o][j] /\ Once
      BY <1>7, <2>2 DEF MailInv
    <3>2. a = o /\ 1 = j
      BY <1>1, <1>3, <3>1, OnceAt
    <3> QED BY <2>1, <3>2
  <2> QED BY <1>2, <1>8, <2>1, <2>2, <2>3
<1>12. Once'
  <2> SUFFICES ASSUME NEW o \in DOMAIN mail, NEW q \in DOMAIN mail,
                      NEW i \in DOMAIN mail'[o], NEW j \in DOMAIN mail'[q],
                      mail'[o][i] # Failure, mail'[o][i] = mail'[q][j]
               PROVE  o = q /\ i = j
    BY <1>4 DEF Once
  <2>1. PICK k \in DOMAIN mail[o] : mail'[o][i] = mail[o][k] /\ k = IF o = a THEN i + 1 ELSE i
    BY <1>10
  <2>2. PICK m \in DOMAIN mail[q] : mail'[q][j] = mail[q][m] /\ m = IF q = a THEN j + 1 ELSE j
    BY <1>10
  <2>3. mail[o][k] # Failure /\ mail[o][k] = mail[q][m] /\ Once
    BY <2>1, <2>2 DEF MailInv
  <2>4. o = q /\ k = m
    BY <2>3, OnceAt
  <2>5. CASE o = a
    BY <1>3, <1>4, <2>1, <2>2, <2>4, <2>5
  <2>6. CASE o # a
    BY <2>1, <2>2, <2>4, <2>6
  <2> QED BY <2>4, <2>5, <2>6
<1>13. TakenInv'
  <2> SUFFICES ASSUME NEW l \in Logins
               PROVE  /\ taken'[l] = {} \/ \E t : taken'[l] = {t}
                      /\ \A t \in taken'[l] : t[3] = l /\ login'[l] = "completed"
    BY DEF TakenInv
  <2>1. CASE h = l
    <3>1. taken'[l] = {<<p, waits[p], at[p]>>} /\ at[p] = l /\ login'[l] = "completed"
      BY <1>2, <1>6, <1>7, <1>8, <2>1
    <3> QED BY <3>1
  <2>2. CASE h # l
    <3>1. taken'[l] = taken[l] /\ login'[l] = login[l]
      BY <1>2, <1>8, <2>2
    <3>2. TakenInv
      OBVIOUS
    <3>3. taken[l] = {} \/ \E t : taken[l] = {t}
      BY <3>2, Zenon DEF TakenInv
    <3>4. \A t \in taken[l] : t[3] = l /\ login[l] = "completed"
      BY <3>2 DEF TakenInv
    <3> QED BY <3>1, <3>3, <3>4, Zenon
  <2> QED BY <2>1, <2>2
<1>14. KeptInv'
  <2> SUFFICES ASSUME NEW l \in Logins, login[l] = "completed", l \notin ended, taken'[l] = {}
               PROVE  \E i \in DOMAIN mail'[<<l, gen[l]>>] : mail'[<<l, gen[l]>>][i] = l
    BY <1>2 DEF KeptInv
  <2>1. h # l /\ taken[l] = {}
    BY <1>8
  <2> PICK b : b = <<l, gen[l]>>
    OBVIOUS
  <2>2. b \in DOMAIN mail
    BY DEF SType
  <2>3. PICK i \in DOMAIN mail[b] : mail[b][i] = l
    BY <2>1 DEF KeptInv
  <2>4. CASE b = a
    <3>1. i # 1
      BY <2>1, <2>3, <2>4
    <3>2. i \in DOMAIN mail[a] /\ mail[a][i] = l /\ mail'[b] = Tail(mail[a])
      BY <1>4, <2>3, <2>4
    <3>3. i - 1 \in DOMAIN Tail(mail[a]) /\ Tail(mail[a])[i - 1] = l
      BY <1>3, <3>1, <3>2
    <3> QED BY <3>2, <3>3
  <2>5. CASE b # a
    BY <1>4, <2>2, <2>3, <2>5
  <2> QED BY <2>4, <2>5
<1> QED BY <1>9, <1>11, <1>12, <1>13, <1>14 DEF MailInv

\* A wait that ends closes the route by its id, and a new object is made for it.
LEMMA UnregisterKeeps == ASSUME Inv, NEW p \in Procs, Unregister(p) PROVE Inv'
<1> USE DEF Inv
<1> PICK l : l = at[p]
  OBVIOUS
<1> PICK n : n = <<l, gen[l] + 1>>
  OBVIOUS
<1>1. l \in Logins
  BY DEF Unregister, SType, Waiting
<1>2. /\ UNCHANGED <<login, waking, waits, taken>>
      /\ route' = [route EXCEPT ![l] = "closed"] /\ gen' = [gen EXCEPT ![l] = @ + 1]
      /\ ended' = ended \cup {l} /\ at' = [at EXCEPT ![p] = NoLogin]
      /\ ref' = [ref EXCEPT ![p] = 0] /\ pc' = [pc EXCEPT ![p] = "idle"]
  BY DEF Unregister, Goto, clientVars
<1>3. /\ DOMAIN mail' = DOMAIN mail \cup {n}
      /\ \A o \in DOMAIN mail' : mail'[o] = <<>> \/ (o \in DOMAIN mail /\ mail'[o] = mail[o])
      /\ \A o \in DOMAIN mail : o[1] # l => mail'[o] = mail[o]
      /\ mail' \in [DOMAIN mail' -> Seq(Logins \cup {Failure})]
  <2> DEFINE alone == \A q \in Procs \ {p} : at[q] # l
  <2>1. mail' = [o \in DOMAIN mail \cup {n} |->
                    IF o \notin DOMAIN mail \/ (alone /\ o[1] = l) THEN <<>> ELSE mail[o]]
    BY DEF Unregister
  <2> HIDE DEF alone
  <2> QED BY <2>1 DEF SType
<1>4. SType'
  <2>1. /\ gen' \in [Logins -> Nat] /\ gen'[l] = gen[l] + 1
        /\ \A m \in Logins \ {l} : gen'[m] = gen[m]
        /\ route' \in [Logins -> {"none", "pending", "open", "closed"}]
        /\ at' \in [Procs -> Logins \cup {NoLogin}] /\ ref' \in [Procs -> Nat]
        /\ pc' \in [Procs -> Labels] /\ ended' \subseteq Logins
    BY <1>1, <1>2 DEF SType, Labels
  <2>2. /\ pc'[p] = "idle"
        /\ \A q \in Procs \ {p} : pc'[q] = pc[q] /\ at'[q] = at[q] /\ ref'[q] = ref[q]
    BY <1>2 DEF SType
  <2>3. /\ \A q \in Procs : pc'[q] \in Waiting => at'[q] \in Logins
        /\ \A q \in Procs : pc'[q] \in {"try", "select"} => <<at'[q], ref'[q]>> \in DOMAIN mail
    BY <2>2 DEF SType, Waiting
  <2>4. \A m \in Logins : <<m, gen'[m]>> \in DOMAIN mail'
    BY <1>3, <2>1 DEF SType
  <2>5. n \in Logins \X Nat
    BY <1>1 DEF SType
  <2> QED BY <1>2, <1>3, <2>1, <2>3, <2>4, <2>5 DEF SType
<1>5. ASSUME NEW o \in DOMAIN mail', NEW i \in DOMAIN mail'[o]
      PROVE  o \in DOMAIN mail /\ i \in DOMAIN mail[o] /\ mail'[o][i] = mail[o][i]
  BY <1>3
<1>6. Own'
  <2> SUFFICES ASSUME NEW o \in DOMAIN mail', NEW i \in DOMAIN mail'[o], mail'[o][i] # Failure
               PROVE  mail'[o][i] = o[1] /\ login'[o[1]] = "completed" /\ taken'[o[1]] = {}
    BY DEF Own
  <2> QED BY <1>2, <1>5 DEF MailInv, Own
<1>7. Once'
  <2> SUFFICES ASSUME NEW o \in DOMAIN mail', NEW q \in DOMAIN mail',
                      NEW i \in DOMAIN mail'[o], NEW j \in DOMAIN mail'[q],
                      mail'[o][i] # Failure, mail'[o][i] = mail'[q][j]
               PROVE  o = q /\ i = j
    BY DEF Once
  <2>1. /\ o \in DOMAIN mail /\ i \in DOMAIN mail[o] /\ mail'[o][i] = mail[o][i]
        /\ q \in DOMAIN mail /\ j \in DOMAIN mail[q] /\ mail'[q][j] = mail[q][j]
    BY <1>5
  <2>2. mail[o][i] # Failure /\ mail[o][i] = mail[q][j] /\ Once
    BY <2>1 DEF MailInv
  <2> QED BY <2>1, <2>2, OnceAt
<1>8. TakenInv'
  BY <1>2, TakenKeeps
<1>9. KeptInv'
  <2>1. \A m \in Logins : route'[m] = "closed" => m \in ended'
    BY <1>1, <1>2 DEF KeptInv, SType
  <2>2. ASSUME NEW m \in Logins, login[m] = "completed", m \notin ended', taken[m] = {}
        PROVE  \E i \in DOMAIN mail'[<<m, gen'[m]>>] : mail'[<<m, gen'[m]>>][i] = m
    <3>1. m # l /\ m \notin ended
      BY <1>2, <2>2
    <3>2. gen'[m] = gen[m] /\ <<m, gen[m]>> \in DOMAIN mail
      BY <1>2, <3>1 DEF SType
    <3>3. mail'[<<m, gen[m]>>] = mail[<<m, gen[m]>>]
      BY <1>3, <3>1, <3>2
    <3>4. \E i \in DOMAIN mail[<<m, gen[m]>>] : mail[<<m, gen[m]>>][i] = m
      BY <2>2, <3>1 DEF KeptInv
    <3> QED BY <3>2, <3>3, <3>4
  <2> QED BY <1>2, <2>1, <2>2 DEF KeptInv
<1> QED BY <1>4, <1>6, <1>7, <1>8, <1>9 DEF MailInv

-----------------------------------------------------------------------------
LEMMA InvResults == Inv => ResultsRight
<1> SUFFICES ASSUME Inv, NEW l \in Logins
             PROVE  /\ Cardinality(taken[l]) <= 1
                    /\ \A t \in taken[l] : t[3] = l /\ login[l] = "completed"
                    /\ (login[l] = "completed" /\ l \notin ended) =>
                          \/ taken[l] # {}
                          \/ l \in {mail[<<l, gen[l]>>][i] : i \in DOMAIN mail[<<l, gen[l]>>]}
  BY DEF ResultsRight
<1>0. TakenInv /\ KeptInv
  BY DEF Inv
<1>1. Cardinality(taken[l]) <= 1
  <2>1. taken[l] = {} \/ \E t : taken[l] = {t}
    BY <1>0, Zenon DEF TakenInv
  <2>2. CASE taken[l] = {}
    BY <2>2, FS_EmptySet
  <2>3. ASSUME NEW t, taken[l] = {t} PROVE Cardinality(taken[l]) = 1
    BY <2>3, FS_Singleton
  <2> QED BY <2>1, <2>2, <2>3
<1>2. \A t \in taken[l] : t[3] = l /\ login[l] = "completed"
  BY <1>0 DEF TakenInv
<1> QED BY <1>0, <1>1, <1>2 DEF KeptInv

\* A wait on a login returns its own login's completion, after the server completed
\* it, no completion is returned twice, and none is lost before a wait on its handle
\* has ended: RegisterLogin, RouteNotification, nextRoute, FailAll and the deferred
\* UnregisterLogin together, for any number of waits on any handles.
THEOREM ResultsAreRight == Spec => []ResultsRight
<1>1. Inv /\ [Next]_vars => Inv'
  <2> SUFFICES ASSUME Inv, [Next]_vars PROVE Inv'
    OBVIOUS
  <2>1. CASE Lifecycle
    BY <2>1, LifecycleKeeps
  <2>2. ASSUME NEW l \in Logins, Completed(l) PROVE Inv'
    BY <2>2, CompletedKeeps
  <2>3. ASSUME NEW p \in Procs, Step(p) PROVE Inv'
    <3>1. CASE LoginBegun(p)
      BY <3>1, LoginBegunKeeps
    <3>2. CASE \E l \in Logins : Wait(p, l)
      BY <3>2, WaitKeeps
    <3>3. CASE WaitStep(p)
      BY <3>3, LookupKeeps, ReceiveKeeps, TryKeeps, SelectKeeps, UnregisterKeeps DEF WaitStep
    <3>4. CASE \/ BeginLogin(p) \/ CancelContext(p) \/ Attempt(p) \/ LoginFails(p)
               \/ Overloaded(p) \/ NapEnds(p) \/ NapCancelled(p)
      BY <3>4, RetryKeeps
    <3> QED BY <2>3, <3>1, <3>2, <3>3, <3>4 DEF Step
  <2>4. CASE UNCHANGED vars
    BY <2>4, StutterKeeps DEF vars, clientVars, routerVars, waitVars, history, data
  <2> QED BY <2>1, <2>2, <2>3, <2>4 DEF Next
<1> QED BY <1>1, InitInv, InvResults, PTL DEF Spec

-----------------------------------------------------------------------------
(* RetryOnOverload *)

\* A function on 0..n that starts at the initial delay and doubles.
Doubles(g, n) ==
    /\ g \in [0 .. n -> Nat] /\ g[0] = InitialDelay
    /\ \A k \in 1 .. n : g[k] = 2 * g[k - 1]

\* A set of numbers with 0 and with the successor of each of its members has them all.
LEMMA Induct ==
    ASSUME NEW S, 0 \in S, \A n \in Nat : n \in S => n + 1 \in S
    PROVE  \A n \in Nat : n \in S
<1> DEFINE T == Nat \ S
<1> SUFFICES ASSUME T # {} PROVE FALSE
  OBVIOUS
<1>1. T \subseteq Nat
  OBVIOUS
<1>2. PICK i \in T : \A k \in T : ~(<<k, i>> \in OpToRel(<, Nat))
  <2> HIDE DEF T
  <2> QED BY <1>1, NatLessThanWellFounded, WFMin, Zenon
<1>3. \A k \in T : ~(k < i)
  BY <1>2 DEF OpToRel
<1>4. i \in Nat /\ i # 0
  OBVIOUS
<1>5. i - 1 \in Nat /\ i - 1 < i /\ (i - 1) + 1 = i
  BY <1>4
<1>6. i - 1 \in S
  BY <1>3, <1>5
<1> QED BY <1>5, <1>6

LEMMA DoublesExists == \A n \in Nat : \E g : Doubles(g, n)
<1> DEFINE S == {n \in Nat : \E g : Doubles(g, n)}
<1>1. 0 \in S
  <2> DEFINE g == [k \in 0 .. 0 |-> InitialDelay]
  <2>1. Doubles(g, 0)
    BY SessionAssumption DEF Doubles
  <2> QED BY <2>1
<1>2. ASSUME NEW n \in Nat, n \in S PROVE n + 1 \in S
  <2> PICK g : Doubles(g, n)
    BY <1>2
  <2> DEFINE h == [k \in 0 .. n + 1 |-> IF k = n + 1 THEN 2 * g[n] ELSE g[k]]
  <2>1. h \in [0 .. n + 1 -> Nat]
    <3>1. g[n] \in Nat /\ 2 * g[n] \in Nat
      BY DEF Doubles
    <3>2. ASSUME NEW k \in 0 .. n + 1, k # n + 1 PROVE g[k] \in Nat
      <4>1. k \in 0 .. n
        BY <3>2
      <4> QED BY <4>1 DEF Doubles
    <3> QED BY <3>1, <3>2
  <2>2. h[0] = InitialDelay
    BY DEF Doubles
  <2>3. ASSUME NEW k \in 1 .. n + 1 PROVE h[k] = 2 * h[k - 1]
    <3>1. CASE k = n + 1
      BY <3>1
    <3>2. CASE k # n + 1
      <4>1. k \in 1 .. n /\ k - 1 \in 0 .. n + 1 /\ k - 1 # n + 1 /\ k \in 0 .. n + 1
        BY <3>2
      <4>2. g[k] = 2 * g[k - 1]
        BY <4>1 DEF Doubles
      <4> QED BY <3>2, <4>1, <4>2
    <3> QED BY <3>1, <3>2
  <2> HIDE DEF h
  <2>4. Doubles(h, n + 1)
    BY <2>1, <2>2, <2>3 DEF Doubles
  <2> QED BY <2>4
<1> HIDE DEF S
<1>3. \A n \in Nat : n \in S
  BY <1>1, <1>2, Induct
<1> QED BY <1>3 DEF S

LEMMA DoublesUnique ==
    ASSUME NEW m \in Nat, NEW n \in Nat, NEW g, NEW h, Doubles(g, m), Doubles(h, n)
    PROVE  \A k \in Nat : k <= m /\ k <= n => g[k] = h[k]
<1> DEFINE S == {k \in Nat : k <= m /\ k <= n => g[k] = h[k]}
<1>1. 0 \in S
  BY DEF Doubles
<1>2. ASSUME NEW k \in Nat, k \in S PROVE k + 1 \in S
  <2> SUFFICES ASSUME k + 1 <= m, k + 1 <= n PROVE g[k + 1] = h[k + 1]
    OBVIOUS
  <2>1. k + 1 \in 1 .. m /\ k + 1 \in 1 .. n /\ (k + 1) - 1 = k /\ k <= m /\ k <= n
    OBVIOUS
  <2>2. g[k + 1] = 2 * g[k] /\ h[k + 1] = 2 * h[k]
    BY <2>1 DEF Doubles
  <2>3. g[k] = h[k]
    BY <1>2, <2>1
  <2> QED BY <2>2, <2>3
<1> HIDE DEF S
<1>3. \A k \in Nat : k \in S
  BY <1>1, <1>2, Induct
<1> QED BY <1>3 DEF S

\* Doubled is what its definition says.
LEMMA DoubledIs ==
    /\ Doubled[0] = InitialDelay
    /\ \A k \in Nat : Doubled[k] \in Nat /\ Doubled[k + 1] = 2 * Doubled[k]
<1> DEFINE G(n) == CHOOSE g : Doubles(g, n)
           F == [n \in Nat |-> G(n)[n]]
<1>1. \A n \in Nat : Doubles(G(n), n)
  BY DoublesExists
<1> HIDE DEF G
<1>2. F[0] = InitialDelay
  BY <1>1 DEF Doubles
<1>3. ASSUME NEW k \in Nat PROVE F[k] \in Nat /\ F[k + 1] = 2 * F[k]
  <2>1. Doubles(G(k), k) /\ Doubles(G(k + 1), k + 1)
    BY <1>1
  <2>2. G(k)[k] = G(k + 1)[k]
    BY <2>1, DoublesUnique
  <2>3. G(k + 1)[k + 1] = 2 * G(k + 1)[k]
    <3>1. k + 1 \in 1 .. k + 1 /\ (k + 1) - 1 = k
      OBVIOUS
    <3> QED BY <2>1, <3>1 DEF Doubles
  <2>4. G(k)[k] \in Nat
    BY <2>1 DEF Doubles
  <2> QED BY <2>2, <2>3, <2>4
<1>4. F = [k \in Nat |-> IF k = 0 THEN InitialDelay ELSE 2 * F[k - 1]]
  <2>1. ASSUME NEW k \in Nat, k # 0 PROVE F[k] = 2 * F[k - 1]
    <3>1. k - 1 \in Nat /\ (k - 1) + 1 = k
      BY <2>1
    <3> QED BY <1>3, <3>1
  <2> QED BY <1>2, <2>1
<1> HIDE DEF F
<1>5. Doubled = [k \in Nat |-> IF k = 0 THEN InitialDelay ELSE 2 * Doubled[k - 1]]
  BY <1>4 DEF Doubled
<1>6. /\ Doubled[0] = InitialDelay
      /\ \A k \in Nat : Doubled[k + 1] = 2 * Doubled[k]
  <2>1. Doubled[0] = InitialDelay
    BY <1>5
  <2>2. ASSUME NEW k \in Nat PROVE Doubled[k + 1] = 2 * Doubled[k]
    <3>1. k + 1 \in Nat /\ k + 1 # 0 /\ (k + 1) - 1 = k
      OBVIOUS
    <3> QED BY <1>5, <3>1
  <2> QED BY <2>1, <2>2
<1>7. \A k \in Nat : Doubled[k] \in Nat
  <2> DEFINE S == {k \in Nat : Doubled[k] \in Nat}
  <2>1. 0 \in S
    BY <1>6, SessionAssumption
  <2>2. ASSUME NEW k \in Nat, k \in S PROVE k + 1 \in S
    BY <1>6, <2>2
  <2> HIDE DEF S
  <2>3. \A k \in Nat : k \in S
    BY <2>1, <2>2, Induct
  <2> QED BY <2>3 DEF S
<1> QED BY <1>6, <1>7

-----------------------------------------------------------------------------
Capped(k) == Least(MaxDelay, Doubled[k])

\* The delay after k doublings, each of which is capped.
DelayOf(k) == IF k = 0 THEN InitialDelay ELSE Capped(k)

\* Where RetryOnOverload is: the delay is the initial one, doubled for each attempt
\* after the first and capped; a pause has the jitter of it.
RetryOf(p) ==
    /\ attempt[p] \in Nat /\ attempt[p] <= Limit(p)
    /\ pc[p] \in {"attempt", "flight", "sleep"} =>
          attempt[p] # 0 /\ delay[p] = DelayOf(attempt[p] - 1)
    /\ pc[p] = "sleep" =>
          /\ attempt[p] # Limit(p)
          /\ \E r \in {-1, 0, 1} : nap[p] = waitFor(delay[p], r)

RetryInv ==
    /\ pc \in [Procs -> Labels] /\ attempt \in [Procs -> Nat]
    /\ delay = [p \in Procs |-> delay[p]] /\ nap = [p \in Procs |-> nap[p]]
    /\ \A p \in Procs : RetryOf(p)

LEMMA LimitType == ASSUME NEW p \in Procs PROVE Limit(p) \in Nat /\ 1 <= Limit(p)
BY SessionAssumption DEF Limit

LEMMA LeastOf == \A a, b \in Nat : Least(a, b) \in Nat /\ Least(a, b) <= a /\ Least(a, b) <= b
BY DEF Least

\* Doubling what was capped, and capping it again, caps what was doubled.
LEMMA CapTwice ==
    ASSUME NEW m \in Nat, NEW d \in Nat
    PROVE  Least(m, Least(m, d) * 2) = Least(m, 2 * d)
BY DEF Least

LEMMA DelayIs ==
    \A k \in Nat : /\ DelayOf(k) \in Nat
                   /\ Capped(k) = Least(MaxDelay, DelayOf(k))
                   /\ DelayOf(k + 1) = Least(MaxDelay, DelayOf(k) * 2)
<1> SUFFICES ASSUME NEW k \in Nat
             PROVE  /\ DelayOf(k) \in Nat
                    /\ Capped(k) = Least(MaxDelay, DelayOf(k))
                    /\ DelayOf(k + 1) = Least(MaxDelay, DelayOf(k) * 2)
  OBVIOUS
<1>1. /\ Doubled[0] = InitialDelay /\ InitialDelay \in Nat /\ MaxDelay \in Nat
      /\ Doubled[k] \in Nat /\ Doubled[k + 1] = 2 * Doubled[k]
  BY DoubledIs, SessionAssumption
<1>2. DelayOf(k + 1) = Least(MaxDelay, 2 * Doubled[k])
  BY <1>1 DEF DelayOf, Capped
<1>3. CASE k = 0
  <2>1. DelayOf(k) = InitialDelay /\ Doubled[k] = InitialDelay
    BY <1>1, <1>3 DEF DelayOf
  <2> QED BY <1>1, <1>2, <2>1 DEF Capped, Least
<1>4. CASE k # 0
  <2>1. DelayOf(k) = Least(MaxDelay, Doubled[k])
    BY <1>4 DEF DelayOf, Capped
  <2>2. Least(MaxDelay, Least(MaxDelay, Doubled[k]) * 2) = Least(MaxDelay, 2 * Doubled[k])
    BY <1>1, CapTwice
  <2>3. /\ Least(MaxDelay, Doubled[k]) \in Nat
        /\ Least(MaxDelay, Least(MaxDelay, Doubled[k])) = Least(MaxDelay, Doubled[k])
    BY <1>1 DEF Least
  <2> QED BY <1>2, <2>1, <2>2, <2>3 DEF Capped
<1> QED BY <1>3, <1>4

\* The jitter is a share of the delay.
LEMMA JitterIs ==
    ASSUME NEW d \in Nat, NEW j \in Nat, NEW r \in {-1, 0, 1}
    PROVE  j * d \in Nat /\ (r * d * j = -(j * d) \/ r * d * j = 0 \/ r * d * j = j * d)
OBVIOUS

LEMMA RetryRight == RetryInv => RetriesRight
<1> DEFINE Spread(k) == JitterPercent * (IF k = 1 THEN InitialDelay ELSE Capped(k - 1))
<1> SUFFICES ASSUME RetryInv, NEW p \in Procs
             PROVE  /\ attempt[p] <= Limit(p)
                    /\ pc[p] = "sleep" =>
                          /\ attempt[p] < Limit(p)
                          /\ nap[p] \in 100 * Capped(attempt[p] - 1) - Spread(attempt[p])
                                        .. 100 * Capped(attempt[p] - 1) + Spread(attempt[p])
  BY DEF RetriesRight, Capped
<1>1. RetryOf(p) /\ Limit(p) \in Nat
  BY LimitType DEF RetryInv
<1>2. attempt[p] \in Nat /\ attempt[p] <= Limit(p)
  BY <1>1 DEF RetryOf
<1>3. ASSUME pc[p] = "sleep"
      PROVE  /\ attempt[p] < Limit(p)
             /\ nap[p] \in 100 * Capped(attempt[p] - 1) - Spread(attempt[p])
                           .. 100 * Capped(attempt[p] - 1) + Spread(attempt[p])
  <2> PICK k : k = attempt[p] - 1
    OBVIOUS
  <2>1. attempt[p] # 0 /\ attempt[p] # Limit(p) /\ attempt[p] = k + 1 /\ k \in Nat
    BY <1>1, <1>2, <1>3 DEF RetryOf
  <2> PICK d : d = DelayOf(k)
    OBVIOUS
  <2> PICK b : b = Capped(k)
    OBVIOUS
  <2>2. PICK r \in {-1, 0, 1} : nap[p] = waitFor(d, r)
    BY <1>1, <1>3 DEF RetryOf
  <2>3. /\ d \in Nat /\ b = Least(MaxDelay, d) /\ MaxDelay \in Nat /\ JitterPercent \in Nat
    BY <2>1, DelayIs, SessionAssumption
  <2>c. b \in Nat /\ b = Least(d, MaxDelay)
    BY <2>3 DEF Least
  <2>4. b \in Nat /\ nap[p] = 100 * b + r * d * JitterPercent
    BY <2>2, <2>c, Zenon DEF waitFor
  <2>5. nap[p] \in 100 * b - JitterPercent * d .. 100 * b + JitterPercent * d
    <3> PICK x : x = JitterPercent * d
      OBVIOUS
    <3>1. x \in Nat /\ (r * d * JitterPercent = -x \/ r * d * JitterPercent = 0
                          \/ r * d * JitterPercent = x)
      BY <2>2, <2>3, JitterIs
    <3> QED BY <2>4, <3>1
  <2>6. JitterPercent * d = Spread(attempt[p])
    BY <2>1 DEF DelayOf
  <2> QED BY <1>2, <1>1, <2>1, <2>5, <2>6
<1> QED BY <1>2, <1>3

\* Goroutine p moves to a label of RetryOnOverload or out of it, with attempt a, delay
\* d and pause n; the others stay.
MovesTo(p, label, a, d, n) ==
    /\ pc' = [pc EXCEPT ![p] = label] /\ attempt' = [attempt EXCEPT ![p] = a]
    /\ delay' = [delay EXCEPT ![p] = d] /\ nap' = [nap EXCEPT ![p] = n]

LEMMA MoveKeeps ==
    ASSUME RetryInv, NEW p \in Procs, NEW label \in Labels, NEW a \in Nat, NEW d, NEW n,
           MovesTo(p, label, a, d, n), a <= Limit(p),
           label \in {"attempt", "flight", "sleep"} => a # 0 /\ d = DelayOf(a - 1),
           label = "sleep" => a # Limit(p) /\ \E r \in {-1, 0, 1} : n = waitFor(d, r)
    PROVE  RetryInv'
<1>1. /\ pc' \in [Procs -> Labels] /\ attempt' \in [Procs -> Nat]
      /\ delay' = [q \in Procs |-> delay'[q]] /\ nap' = [q \in Procs |-> nap'[q]]
  BY DEF MovesTo, RetryInv
<1>2. pc'[p] = label /\ attempt'[p] = a /\ delay'[p] = d /\ nap'[p] = n
  BY DEF MovesTo, RetryInv
<1>3. RetryOf(p)'
  BY <1>2 DEF RetryOf, Limit, DelayOf, Capped, waitFor
<1>4. ASSUME NEW q \in Procs, q # p PROVE RetryOf(q)'
  <2>1. pc'[q] = pc[q] /\ attempt'[q] = attempt[q] /\ delay'[q] = delay[q] /\ nap'[q] = nap[q]
    BY <1>4 DEF MovesTo, RetryInv
  <2>2. RetryOf(q)
    BY DEF RetryInv
  <2> QED BY <2>1, <2>2 DEF RetryOf, Limit, DelayOf, Capped, waitFor
<1> QED BY <1>1, <1>3, <1>4 DEF RetryInv

\* A goroutine that is in none of them moves to none of them.
LEMMA ElsewhereKeeps ==
    ASSUME RetryInv, NEW p \in Procs, UNCHANGED retryVars,
           NEW label \in Waiting \cup {"idle"}, pc' = [pc EXCEPT ![p] = label]
    PROVE  RetryInv'
<1>1. MovesTo(p, label, attempt[p], delay[p], nap[p])
  BY DEF MovesTo, RetryInv, retryVars
<1>2. /\ label \in Labels /\ label \notin {"attempt", "flight", "sleep"}
      /\ attempt[p] \in Nat /\ attempt[p] <= Limit(p)
  BY DEF Waiting, Labels, RetryInv, RetryOf
<1> QED BY <1>1, <1>2, MoveKeeps

LEMMA SameKeeps == ASSUME RetryInv, UNCHANGED <<pc, retryVars>> PROVE RetryInv'
BY DEF RetryInv, RetryOf, retryVars, Limit, DelayOf, Capped, waitFor

LEMMA RetryStepKeeps ==
    ASSUME RetryInv, NEW p \in Procs, Step(p) PROVE RetryInv'
<1>0. /\ Limit(p) \in Nat /\ 1 <= Limit(p) /\ pc[p] \in Labels
      /\ attempt[p] \in Nat /\ attempt[p] <= Limit(p) /\ RetryOf(p)
  BY LimitType DEF RetryInv, RetryOf
<1>1. CASE BeginLogin(p)
  <2>1. MovesTo(p, "attempt", 1, InitialDelay, nap[p])
    BY <1>1 DEF BeginLogin, MovesTo, Goto, RetryInv
  <2>2. InitialDelay = DelayOf(1 - 1) /\ "attempt" \in Labels
    BY DEF DelayOf, Labels
  <2> QED BY <1>0, <2>1, <2>2, MoveKeeps
<1>2. CASE CancelContext(p)
  BY <1>2, SameKeeps DEF CancelContext
<1>3. CASE LeaveRetry(p)
  <2>1. MovesTo(p, "idle", 0, 0, 0)
    BY <1>3 DEF LeaveRetry, MovesTo, Goto
  <2> QED BY <1>0, <2>1, MoveKeeps DEF Labels
<1>4. CASE Attempt(p)
  <2>1. CASE pc' = [pc EXCEPT ![p] = "flight"] /\ UNCHANGED retryVars
    <3>1. MovesTo(p, "flight", attempt[p], delay[p], nap[p])
      BY <2>1 DEF MovesTo, RetryInv, retryVars
    <3>2. attempt[p] # 0 /\ delay[p] = DelayOf(attempt[p] - 1)
      BY <1>0, <1>4 DEF RetryOf, Attempt
    <3> QED BY <1>0, <3>1, <3>2, MoveKeeps DEF Labels
  <2> QED BY <1>3, <1>4, <2>1 DEF Attempt, Goto
<1>5. CASE LoginBegun(p) \/ LoginFails(p) \/ NapCancelled(p)
  BY <1>3, <1>5 DEF LoginBegun, LoginFails, NapCancelled
<1>6. CASE Overloaded(p)
  <2>1. PICK r \in {-1, 0, 1} : nap' = [nap EXCEPT ![p] = waitFor(delay[p], r)]
    BY <1>6 DEF Overloaded
  <2>2. MovesTo(p, "sleep", attempt[p], delay[p], waitFor(delay[p], r))
    BY <1>6, <2>1 DEF Overloaded, MovesTo, Goto, RetryInv
  <2>3. attempt[p] # 0 /\ delay[p] = DelayOf(attempt[p] - 1) /\ attempt[p] # Limit(p)
    BY <1>0, <1>6 DEF RetryOf, Overloaded
  <2> QED BY <1>0, <2>2, <2>3, MoveKeeps DEF Labels
<1>7. CASE NapEnds(p)
  <2>1. MovesTo(p, "attempt", attempt[p] + 1, Least(MaxDelay, delay[p] * 2), 0)
    BY <1>7 DEF NapEnds, MovesTo, Goto, RetryInv
  <2>2. attempt[p] # 0 /\ delay[p] = DelayOf(attempt[p] - 1) /\ attempt[p] # Limit(p)
    BY <1>0, <1>7 DEF RetryOf, NapEnds
  <2>3. attempt[p] - 1 \in Nat /\ (attempt[p] - 1) + 1 = (attempt[p] + 1) - 1
    BY <1>0, <2>2
  <2>4. Least(MaxDelay, delay[p] * 2) = DelayOf((attempt[p] + 1) - 1)
    BY <2>2, <2>3, DelayIs
  <2>5. attempt[p] + 1 \in Nat /\ attempt[p] + 1 # 0 /\ attempt[p] + 1 <= Limit(p)
    BY <1>0, <2>2
  <2> QED BY <2>1, <2>4, <2>5, MoveKeeps DEF Labels
<1>8. ASSUME NEW l \in Logins, Wait(p, l) PROVE RetryInv'
  <2>1. UNCHANGED retryVars /\ (pc' = pc \/ pc' = [pc EXCEPT ![p] = "lookup"])
    BY <1>8 DEF Wait, Goto
  <2> QED BY <2>1, SameKeeps, ElsewhereKeeps DEF Waiting
<1>9. CASE WaitStep(p)
  <2>1. UNCHANGED retryVars
    BY <1>9 DEF WaitStep, Lookup, Receive, TryEmpty, SelectCancelled, Unregister
  <2>2. \E label \in Waiting \cup {"idle"} : pc' = [pc EXCEPT ![p] = label]
    BY <1>9 DEF WaitStep, Lookup, Receive, TryEmpty, SelectCancelled, Unregister, Goto, Waiting
  <2> QED BY <2>1, <2>2, ElsewhereKeeps
<1> QED BY <1>1, <1>2, <1>4, <1>5, <1>6, <1>7, <1>8, <1>9 DEF Step

\* RetryOnOverload makes no more attempts than allowed, and the pause after the k-th is
\* the initial delay doubled k-1 times and capped, give or take its jitter, or that of an
\* initial delay beyond the maximum: for every number of attempts, delays and jitter.
THEOREM RetriesAreRight == Spec => []RetriesRight
<1>1. Init => RetryInv
  <2> SUFFICES ASSUME Init PROVE RetryInv
    OBVIOUS
  <2>1. /\ pc \in [Procs -> Labels] /\ attempt \in [Procs -> Nat]
        /\ delay = [p \in Procs |-> delay[p]] /\ nap = [p \in Procs |-> nap[p]]
    BY DEF Init, Labels
  <2>2. ASSUME NEW p \in Procs PROVE RetryOf(p)
    <3>1. pc[p] = "idle" /\ attempt[p] = 0 /\ Limit(p) \in Nat
      BY LimitType DEF Init
    <3> QED BY <3>1 DEF RetryOf
  <2> QED BY <2>1, <2>2 DEF RetryInv
<1>2. RetryInv /\ [Next]_vars => RetryInv'
  <2> SUFFICES ASSUME RetryInv, [Next]_vars PROVE RetryInv'
    OBVIOUS
  <2>1. CASE Lifecycle
    <3>1. UNCHANGED <<pc, retryVars>>
      BY <2>1 DEF Lifecycle, Resolve, Spawn, Initialize, StartFails, Close, FailAll, Reap, Wake
    <3> QED BY <3>1, SameKeeps
  <2>2. ASSUME NEW l \in Logins, Completed(l) PROVE RetryInv'
    BY <2>2, SameKeeps DEF Completed
  <2>3. ASSUME NEW p \in Procs, Step(p) PROVE RetryInv'
    BY <2>3, RetryStepKeeps
  <2>4. CASE UNCHANGED vars
    BY <2>4, SameKeeps DEF vars
  <2> QED BY <2>1, <2>2, <2>3, <2>4 DEF Next
<1> QED BY <1>1, <1>2, RetryRight, PTL DEF Spec

-----------------------------------------------------------------------------
(* Install, Remove and ResolveRuntime *)

\* Where an installer has no staging directory ...
Unstaged == {"idle", "inputs", "open", "stat", "unlink", "poll", "verify", "stage", "unlock", "done"}

\* ... and what it has renamed is everything the manifest names.
TempInv ==
    /\ \A p \in Installers : ipc[p] \in Unstaged => temp[p] = "absent"
    /\ \A p \in Installers : ipc[p] \in {"metadata", "rename"} => temp[p] = Whole

\* The lock file belongs to an installer that will remove it, or has died.
LockInv == lockFile \in Installers => ipc[lockFile] \in Locked \cup {"dead"}

\* The inductive invariant.
IInv == TypeOK /\ TempInv /\ LockInv

USE InstallerAssumption

LEMMA InitIInv == InstallerInit => IInv
BY DEF InstallerInit, IInv, TypeOK, TempInv, LockInv, Unstaged, Locked, Roots, Whole, Broken

\* Before the lock.
Begin(p) == ResolveInstallInputs(p) \/ VerifyManifest(p)

\* One step of an installer.
InstallerStep(p) == Begin(p) \/ Install(p) \/ Mishap(p)

\* One step of a remover.
RemoverStep(r) == RemoveBegin(r) \/ RemoveSome(r) \/ RemoveEnd(r) \/ RemoverDies(r)

LEMMA NextIInv == IInv /\ [InstallerNext]_installerVars => IInv'
<1> SUFFICES ASSUME IInv, [InstallerNext]_installerVars PROVE IInv'
  OBVIOUS
<1> USE DEF IInv, TypeOK, TempInv, LockInv, Unstaged, Locked, Roots, Whole, Broken,
            lockVars, Proceed, Return
<1>1. ASSUME NEW p \in Installers, Begin(p) PROVE IInv'
  BY <1>1 DEF Begin, ResolveInstallInputs, VerifyManifest
<1>2. ASSUME NEW p \in Installers, OpenLock(p) PROVE IInv'
  <2>1. CASE lockFile = Nobody
    BY <1>2, <2>1 DEF OpenLock
  <2>2. CASE lockFile # Nobody
    BY <1>2, <2>2 DEF OpenLock
  <2> QED
    BY <2>1, <2>2
<1>3. ASSUME NEW p \in Installers, StatLock(p) \/ UnlinkLock(p) \/ Poll(p) PROVE IInv'
  <2>1. CASE StatLock(p)
    BY <2>1 DEF StatLock
  <2>2. CASE UnlinkLock(p)
    BY <2>2 DEF UnlinkLock
  <2>3. CASE Poll(p)
    BY <2>3 DEF Poll
  <2> QED
    BY <1>3, <2>1, <2>2, <2>3
<1>4. ASSUME NEW p \in Installers, Verify(p) \/ Stage(p) PROVE IInv'
  BY <1>4 DEF Verify, Stage
<1>5. ASSUME NEW p \in Installers, Extract(p) \/ WriteInstallMetadata(p) PROVE IInv'
  BY <1>5 DEF Extract, WriteInstallMetadata
<1>6. ASSUME NEW p \in Installers, Rename(p) PROVE IInv'
  BY <1>6 DEF Rename
<1>7. ASSUME NEW p \in Installers, Check(p) \/ Cleanup(p) PROVE IInv'
  BY <1>7 DEF Check, Cleanup
<1>8. ASSUME NEW p \in Installers, Unlock(p) PROVE IInv'
  BY <1>8 DEF Unlock
<1>9. ASSUME NEW p \in Installers, Mishap(p) PROVE IInv'
  BY <1>9 DEF Mishap, PollCancelled, OpenFails, InstallFails, Dies
<1>10. ASSUME NEW r \in Removers, RemoverStep(r) PROVE IInv'
  BY <1>10 DEF RemoverStep, RemoveBegin, RemoveSome, RemoveEnd, RemoverDies
<1>11. CASE LockAges \/ ResolveRuntime
  BY <1>11 DEF LockAges, ResolveRuntime
<1>12. CASE UNCHANGED installerVars
  BY <1>12 DEF installerVars
<1> HIDE DEF IInv, TypeOK, TempInv, LockInv, Unstaged, Locked, Roots, Whole, Broken,
             lockVars, Proceed, Return
<1> QED
  BY <1>1, <1>2, <1>3, <1>4, <1>5, <1>6, <1>7, <1>8, <1>9, <1>10, <1>11, <1>12
  DEF InstallerNext, Begin, Install, RemoverStep

\* The variables keep their types: Spec implies [] TypeOK.
THEOREM TypeCorrect == InstallerSpec => []TypeOK
<1>1. IInv => TypeOK
  BY DEF IInv
<1> QED
  BY InitIInv, NextIInv, <1>1, PTL DEF InstallerSpec

\* Installers that return leave neither a staging directory nor, once all have
\* returned, a lock file, even when a lock was taken for stale and removed under
\* a living owner.
THEOREM InstallsLeaveNothing == InstallerSpec => []NothingLeftBehind
<1>1. IInv => NothingLeftBehind
  BY DEF IInv, TypeOK, TempInv, LockInv, NothingLeftBehind, Unstaged, Locked
<1> QED
  BY InitIInv, NextIInv, <1>1, PTL DEF InstallerSpec

\* Unless a Remove is at work, a step changes the root only from nothing to
\* everything.
LEMMA RootStep ==
    ASSUME IInv, [InstallerNext]_installerVars, ~Removing
    PROVE  root' # root => root = "absent" /\ root' = Whole
<1>1. ASSUME NEW p \in Installers, Rename(p)
      PROVE  root' # root => root = "absent" /\ root' = Whole
  BY <1>1 DEF IInv, TempInv, Rename
<1>2. ASSUME NEW p \in Installers, InstallerStep(p), ~Rename(p) PROVE root' = root
  BY <1>2 DEF InstallerStep, Install, Begin, ResolveInstallInputs, VerifyManifest, OpenLock, StatLock, UnlinkLock, Poll,
     Verify, Stage, Extract, WriteInstallMetadata, Check, Cleanup, Unlock, Mishap, PollCancelled, OpenFails,
     InstallFails, Dies
<1>3. CASE LockAges \/ ResolveRuntime \/ UNCHANGED installerVars
  BY <1>3 DEF LockAges, ResolveRuntime, installerVars
<1>4. ASSUME NEW r \in Removers, RemoverStep(r) PROVE root' = root
  BY <1>4 DEF RemoverStep, RemoveBegin, RemoveSome, RemoveEnd, RemoverDies, Removing
<1> QED
  BY <1>1, <1>2, <1>3, <1>4 DEF InstallerNext, InstallerStep, RemoverStep, Begin

\* As long as nobody calls Remove, that is true of every step, and nobody had
\* called it before.
LEMMA UntouchedStep ==
    ASSUME IInv, [InstallerNext]_installerVars, Untouched'
    PROVE  Untouched /\ (root' # root => root = "absent" /\ root' = Whole)
<1>1. Untouched
  <2>1. ASSUME NEW p \in Installers, InstallerStep(p) PROVE rpc' = rpc
    BY <2>1 DEF InstallerStep, Install, Begin, ResolveInstallInputs, VerifyManifest, OpenLock, StatLock, UnlinkLock,
       Poll, Verify, Stage, Extract, WriteInstallMetadata, Rename, Check, Cleanup, Unlock, Mishap,
       PollCancelled, OpenFails, InstallFails, Dies
  <2>2. CASE LockAges \/ ResolveRuntime \/ UNCHANGED installerVars
    BY <2>2 DEF LockAges, ResolveRuntime, installerVars, Untouched
  <2>3. ASSUME NEW r \in Removers, RemoverStep(r) PROVE Untouched
    BY <2>3 DEF RemoverStep, RemoveBegin, RemoveSome, RemoveEnd, RemoverDies, Untouched, IInv, TypeOK
  <2> QED
    BY <2>1, <2>2, <2>3 DEF InstallerNext, InstallerStep, RemoverStep, Begin, Untouched
<1>2. ~Removing
  BY <1>1 DEF Untouched, Removing
<1> QED
  BY <1>1, <1>2, RootStep

\* Unless a Remove is at work, the root changes only from nothing to a whole
\* runtime, whatever installers die and whoever believes to hold the lock.
THEOREM InstallsAreAtomic == InstallerSpec => InstallsAtomically
<1>1. IInv /\ [InstallerNext]_installerVars
        => [root' # root /\ ~Removing => root = "absent" /\ root' = Whole]_installerVars
  BY RootStep
<1> QED
  BY InitIInv, NextIInv, <1>1, PTL DEF InstallerSpec, InstallsAtomically

\* As long as nobody calls Remove, an Install that succeeded has a whole runtime.
THEOREM SuccessMeansInstalled == InstallerSpec => []OkMeansInstalled
<1>1. InstallerInit => OkMeansInstalled
  BY DEF InstallerInit, OkMeansInstalled
<1>2. IInv /\ OkMeansInstalled /\ [InstallerNext]_installerVars => OkMeansInstalled'
  <2> SUFFICES ASSUME IInv, OkMeansInstalled, [InstallerNext]_installerVars, Untouched',
                      NEW q \in Installers, result'[q] = "ok"
               PROVE  root' = Whole
    BY DEF OkMeansInstalled
  <2>0. Untouched
    BY UntouchedStep
  <2>1. root = Whole => root' = Whole
    BY UntouchedStep DEF Whole
  <2>2. CASE result[q] = "ok"
    BY <2>0, <2>1, <2>2 DEF OkMeansInstalled
  <2>3. CASE result[q] # "ok"
    <3> result \in [Installers -> {"none", "refused", "cancelled", "ok", "error"}]
      BY DEF IInv, TypeOK
    <3>1. ASSUME NEW p \in Installers, InstallerStep(p), ~Verify(p), ~Check(p)
          PROVE  result'[q] # "ok"
      BY <3>1, <2>3 DEF InstallerStep, Install, Begin, ResolveInstallInputs, VerifyManifest, OpenLock, StatLock, UnlinkLock,
         Poll, Stage, Extract, WriteInstallMetadata, Rename, Cleanup, Unlock, Mishap, PollCancelled,
         OpenFails, InstallFails, Dies, Proceed, Return
    <3>2. ASSUME NEW p \in Installers, Verify(p) \/ Check(p) PROVE root = Whole
      BY <3>2, <2>3 DEF Verify, Check, Proceed, Return
    <3>3. CASE LockAges \/ ResolveRuntime \/ UNCHANGED installerVars
      BY <3>3, <2>3 DEF LockAges, ResolveRuntime, installerVars
    <3>4. ASSUME NEW r \in Removers, RemoverStep(r) PROVE result' = result
      BY <3>4 DEF RemoverStep, RemoveBegin, RemoveSome, RemoveEnd, RemoverDies
    <3> QED
      BY <2>1, <2>3, <3>1, <3>2, <3>3, <3>4 DEF InstallerNext, InstallerStep, RemoverStep, Begin
  <2> QED
    BY <2>2, <2>3
<1> QED
  BY InitIInv, NextIInv, <1>1, <1>2, PTL DEF InstallerSpec
=============================================================================
