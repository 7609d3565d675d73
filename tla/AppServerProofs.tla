--------------------------- MODULE AppServerProofs --------------------------
(* Theorems about AppServer, for every value of its constants.             *)
EXTENDS AppServer, FiniteSetTheorems, TLAPS

-----------------------------------------------------------------------------
(* Lines in a queue *)

In(x, q) == \E i \in DOMAIN q : q[i] = x

\* No line is in the queue twice.
Once(q) == \A i, j \in DOMAIN q : q[i] = q[j] => i = j

LEMMA EmptyFacts == Once(<<>>) /\ \A x : ~In(x, <<>>)
BY DEF Once, In

LEMMA AppendFacts ==
    ASSUME NEW S, NEW q \in Seq(S), NEW x \in S
    PROVE  /\ \A y : In(y, Append(q, x)) <=> In(y, q) \/ y = x
           /\ Once(q) /\ ~In(x, q) => Once(Append(q, x))
<1>1. /\ DOMAIN Append(q, x) = 1..(Len(q) + 1) /\ DOMAIN q = 1..Len(q)
      /\ Len(q) \in Nat
      /\ \A i \in 1..Len(q) : Append(q, x)[i] = q[i]
      /\ Append(q, x)[Len(q) + 1] = x
  OBVIOUS
<1>2. \A i \in 1..(Len(q) + 1) : i \in 1..Len(q) \/ i = Len(q) + 1
  BY <1>1
<1>3. \A i \in 1..Len(q) : i \in 1..(Len(q) + 1) BY <1>1
<1>4. Len(q) + 1 \in 1..(Len(q) + 1) BY <1>1
<1>5. PICK t : t = Append(q, x) OBVIOUS
<1>6. PICK n : n = Len(q) + 1 OBVIOUS
<1>7. \A y : In(y, t) <=> In(y, q) \/ y = x
  BY <1>1, <1>2, <1>3, <1>4, <1>5 DEF In
<1>8. Once(q) /\ ~In(x, q) => Once(t)
  BY <1>1, <1>2, <1>5 DEF In, Once
<1> QED BY <1>5, <1>7, <1>8

LEMMA TailFacts ==
    ASSUME NEW S, NEW q \in Seq(S), q # <<>>
    PROVE  /\ Head(q) \in S /\ Tail(q) \in Seq(S) /\ In(Head(q), q)
           /\ Len(Tail(q)) = Len(q) - 1 /\ Len(q) \in Nat \ {0}
           /\ \A y : In(y, Tail(q)) => In(y, q)
           /\ Once(q) => Once(Tail(q)) /\ ~In(Head(q), Tail(q))
<1>1. /\ DOMAIN Tail(q) = 1..(Len(q) - 1) /\ DOMAIN q = 1..Len(q)
      /\ Len(q) \in Nat /\ Len(q) > 0 /\ Head(q) = q[1]
      /\ \A i \in 1..(Len(q) - 1) : Tail(q)[i] = q[i + 1]
      /\ Head(q) \in S /\ Tail(q) \in Seq(S) /\ Len(Tail(q)) = Len(q) - 1
  OBVIOUS
<1>2. \A i \in 1..(Len(q) - 1) : i + 1 \in 1..Len(q) /\ i + 1 # 1
  BY <1>1
<1>3. \A i, j \in 1..(Len(q) - 1) : i + 1 = j + 1 => i = j BY <1>1
<1>4. PICK t : t = Tail(q) OBVIOUS
<1>5. In(Head(q), q) BY <1>1 DEF In
<1>6. \A y : In(y, t) => In(y, q) BY <1>1, <1>2, <1>4 DEF In
<1>7. Once(q) => Once(t) BY <1>1, <1>2, <1>3, <1>4 DEF Once
<1>8. Once(q) => ~In(Head(q), t)
  BY <1>1, <1>2, <1>4 DEF Once, In
<1> QED BY <1>1, <1>4, <1>5, <1>6, <1>7, <1>8

\* Counting the places of a line that is in the queue at most once.
LEMMA CountOnce ==
    ASSUME NEW S, NEW q \in Seq(S), Once(q), NEW x
    PROVE  Cardinality({i \in DOMAIN q : q[i] = x}) = IF In(x, q) THEN 1 ELSE 0
<1>1. CASE In(x, q)
  <2>1. PICK i \in DOMAIN q : q[i] = x BY <1>1 DEF In
  <2>2. {j \in DOMAIN q : q[j] = x} = {i} BY <2>1 DEF Once
  <2> QED BY <1>1, <2>2, FS_Singleton
<1>2. CASE ~In(x, q)
  <2>1. {j \in DOMAIN q : q[j] = x} = {} BY <1>2 DEF In
  <2> QED BY <1>2, <2>1, FS_EmptySet
<1> QED BY <1>1, <1>2

-----------------------------------------------------------------------------
(* The inductive invariant *)

\* The pool: workerCount is the number of workers alive, a worker has a request
\* exactly while it handles one, and the read loop goes back to the scanner
\* only with a worker alive for what it has queued.
PoolOK ==
    /\ workerCount = Cardinality(WorkersAlive)
    /\ workerCount <= MaxServerRequestHandlers
    /\ Len(queue) <= MaxServerRequestHandlers
    /\ \A w \in Workers : wpc[w] = "handle" <=> wreq[w] # NoRequest
    /\ rpc \in {"none", "scan", "done"} /\ WorkersAlive = {} => queue = <<>>

Handled(x)  == x \in ServerRequests /\ \E w \in Workers : wreq[w] = x
Answered(x) == x \in ServerRequests /\ answered[x] # 0

\* The flow: a line is in one place only, and only when it has been sent.
FlowOK ==
    /\ Once(queue) /\ Once(scanned) /\ Once(stdout)
    /\ \A v, w \in Workers : wreq[v] = wreq[w] /\ wreq[w] # NoRequest => v = w
    /\ \A r \in ServerRequests : answered[r] \in {0, 1}
    /\ \A x \in Lines :
          /\ In(x, stdout) => ~In(x, scanned) /\ ~In(x, queue)
                              /\ ~Handled(x) /\ ~Answered(x)
          /\ In(x, scanned) => ~In(x, queue) /\ ~Handled(x) /\ ~Answered(x)
          /\ In(x, queue) => ~Handled(x) /\ ~Answered(x)
          /\ Handled(x) => ~Answered(x)
          /\ x \notin sent => ~In(x, stdout) /\ ~In(x, scanned) /\ ~In(x, queue)
                              /\ ~Handled(x) /\ ~Answered(x)

\* The life of the process: what each loop and each caller has established
\* when it comes to its next step.
LifeOK ==
    /\ ~started => proc = "none" /\ waitpc = "none" /\ rpc = "none" /\ ~closed
    /\ waitpc \notin {"none", "wait"} => proc = "exited"
    /\ waitpc \in {"signal", "done"} => failed
    /\ waitDone => waitpc = "done"
    /\ \A c \in Callers :
          /\ pc[c] \in {"input", "grace", "kill", "join"} => closed /\ started
          /\ pc[c] = "done" /\ outcome[c] \in {"closed", "initFailed"} =>
                waitDone /\ closed

Inv == TypeOK /\ PoolOK /\ FlowOK /\ LifeOK

LEMMA InitInv == Init => Inv
<1> SUFFICES ASSUME Init PROVE Inv OBVIOUS
<1>1. TypeOK
  <2>1. /\ sent \in SUBSET Lines /\ answered \in [ServerRequests -> Nat]
        /\ stdout \in Seq(Lines) /\ scanned \in Seq(Lines)
        /\ queue \in Seq(ServerRequests) /\ workerCount \in Nat
    BY DEF Init
  <2>2. /\ wpc \in [Workers -> {"none", "receive", "handle"}]
        /\ wreq \in [Workers -> ServerRequests \cup {NoRequest}]
    BY DEF Init
  <2> QED BY <2>1, <2>2 DEF Init, TypeOK
<1>2. PoolOK
  <2>1. WorkersAlive = {} BY DEF Init, WorkersAlive
  <2>2. Cardinality({}) = 0 BY FS_EmptySet
  <2> QED BY <2>1, <2>2, AppServerAssumption DEF Init, PoolOK
<1>3. FlowOK
  <2>1. \A x \in Lines : ~Handled(x) /\ ~Answered(x)
    BY AppServerAssumption DEF Init, Handled, Answered
  <2> QED BY <2>1, EmptyFacts DEF Init, FlowOK
<1>4. LifeOK BY DEF Init, LifeOK
<1> QED BY <1>1, <1>2, <1>3, <1>4 DEF Inv

-----------------------------------------------------------------------------
(* Steps that leave a part of the invariant alone *)

LEMMA QuietPool ==
    ASSUME PoolOK, UNCHANGED <<workVars, queue>>,
           rpc' \in {"none", "scan", "done"} => rpc \in {"none", "scan", "done"}
    PROVE  PoolOK'
<1>1. WorkersAlive' = WorkersAlive BY DEF workVars, WorkersAlive
<1> QED BY <1>1 DEF PoolOK, workVars

LEMMA QuietFlow ==
    ASSUME FlowOK, UNCHANGED <<answered, wreq, queue, scanned, stdout, sent>>
    PROVE  FlowOK'
BY DEF FlowOK, Handled, Answered

LEMMA QuietLife ==
    ASSUME LifeOK, UNCHANGED <<started, closed, proc, waitpc, waitDone, pc, outcome>>,
           failed => failed', started = FALSE => rpc' = rpc
    PROVE  LifeOK'
BY DEF LifeOK

-----------------------------------------------------------------------------
(* The callers *)

LEMMA CallerStep ==
    ASSUME Inv, NEW c \in Callers,
           UNCHANGED <<eof, sent, answered, proc, readVars, queue, queueOpen, workVars,
                       waitpc, waitDone, failed, panicked, started>>,
           closed' = closed \/ (started /\ closed' = TRUE),
           \A d \in Callers : d # c => pc'[d] = pc[d] /\ outcome'[d] = outcome[d],
           pc'[c] \in {"input", "grace", "kill", "join"} => closed' /\ started,
           pc'[c] = "done" /\ outcome'[c] \in {"closed", "initFailed"} =>
                waitDone /\ closed'
    PROVE  PoolOK' /\ FlowOK' /\ LifeOK'
<1>1. PoolOK' BY QuietPool DEF Inv, readVars
<1>2. FlowOK' BY QuietFlow DEF Inv, readVars, workVars
<1>3. LifeOK'
  <2>1. /\ LifeOK /\ rpc' = rpc /\ (closed => closed')
        /\ (~started => closed' = closed)
    BY DEF Inv, readVars
  <2>2. \A d \in Callers :
          /\ pc'[d] \in {"input", "grace", "kill", "join"} => closed' /\ started
          /\ pc'[d] = "done" /\ outcome'[d] \in {"closed", "initFailed"} =>
                waitDone /\ closed'
    BY <2>1 DEF LifeOK
  <2> QED BY <2>1, <2>2 DEF LifeOK
<1> QED BY <1>1, <1>2, <1>3

\* The types of what a caller's step may change.
CallsType ==
    /\ started \in BOOLEAN /\ closed \in BOOLEAN
    /\ init \in {"none", "running", "ok", "error"}
    /\ signal \in {"none", "interrupt", "kill"}
    /\ stdin \in BOOLEAN /\ cancelled \in BOOLEAN
    /\ pc \in [Callers -> {"idle", "init", "initializing", "ready", "close",
                           "input", "grace", "kill", "join", "done"}]
    /\ outcome \in [Callers -> {"none", "notLaunched", "started", "initFailed",
                                "closing", "notStarted", "closed"}]

LEMMA CallsTyped == TypeOK => CallsType
BY DEF TypeOK, CallsType

LEMMA CallerType ==
    ASSUME TypeOK, CallsType',
           UNCHANGED <<eof, sent, answered, proc, readVars, queue, queueOpen, workVars,
                       waitpc, waitDone, failed, panicked>>
    PROVE  TypeOK'
BY DEF TypeOK, CallsType, readVars, workVars

LEMMA CallersInv ==
    ASSUME Inv, NEW c \in Callers,
           \/ StartProcess(c) \/ LaunchFails(c) \/ InitSucceeds(c)
           \/ InitFails(c) \/ Starting(c) \/ CloseBegin(c) \/ Closing(c)
    PROVE  Inv'
<1>t. TypeOK /\ PoolOK /\ FlowOK /\ LifeOK BY DEF Inv
<1> USE DEF clientVars, childVars, readVars, workVars, callVars, Goto, Return
<1>1. CASE StartProcess(c)
  <2>0. CallsType' BY <1>1, <1>t, CallsTyped DEF StartProcess, CallsType
  <2>a. UNCHANGED <<init, signal, eof, sent, answered, stdout, scanned, queue,
                    queueOpen, workVars, cancelled, waitDone, failed, panicked>>
    BY <1>1 DEF StartProcess
  <2>b. /\ started' \in BOOLEAN /\ closed' \in BOOLEAN /\ stdin' \in BOOLEAN
        /\ proc' \in {"none", "running", "exited"} /\ stdoutOpen' \in BOOLEAN
        /\ rpc' \in {"none", "scan", "queued", "ensure", "done"}
        /\ waitpc' \in {"none", "wait", "cancel", "close", "join", "fail", "signal",
                         "done"}
    <3>1. CASE started BY <1>1, <1>t, <3>1 DEF StartProcess, TypeOK
    <3>2. CASE ~started BY <1>1, <3>2 DEF StartProcess
    <3> QED BY <3>1, <3>2
  <2>1. TypeOK' BY <1>t, <2>0, <2>a, <2>b DEF TypeOK, CallsType
  <2>2. \A d \in Callers : /\ d # c => pc'[d] = pc[d]
                           /\ pc'[c] = "init" /\ outcome' = outcome
    BY <1>1, <1>t DEF StartProcess, TypeOK
  <2>3. CASE started
    BY <1>1, <1>t, <2>1, <2>2, <2>3, CallerStep DEF StartProcess, Inv
  <2>4. CASE ~started
    <3>1. rpc = "none" /\ proc = "none" /\ waitpc = "none" /\ ~closed /\ ~waitDone
      BY <1>t, <2>4 DEF LifeOK
    <3>2. PoolOK' BY <1>1, <1>t, <3>1, QuietPool DEF StartProcess
    <3>3. FlowOK' BY <1>1, <1>t, QuietFlow DEF StartProcess
    <3>4. LifeOK'
      <4>1. /\ started' = TRUE /\ closed' = FALSE /\ waitpc' = "wait"
            /\ waitDone' = waitDone
        BY <1>1, <2>4 DEF StartProcess
      <4> QED BY <1>t, <2>2, <3>1, <4>1 DEF LifeOK
    <3> QED BY <2>1, <3>2, <3>3, <3>4 DEF Inv
  <2> QED BY <2>3, <2>4
<1>2. CASE LaunchFails(c)
  <2>0. CallsType' BY <1>2, <1>t, CallsTyped DEF LaunchFails, CallsType
  <2>1. TypeOK' BY <1>2, <1>t, <2>0, CallerType DEF LaunchFails
  <2>2. /\ \A d \in Callers : d # c => pc'[d] = pc[d] /\ outcome'[d] = outcome[d]
        /\ pc'[c] = "done" /\ outcome'[c] = "notLaunched"
    BY <1>2, <1>t DEF LaunchFails, TypeOK
  <2> QED BY <1>2, <2>1, <2>2, CallerStep DEF LaunchFails, Inv
<1>3. ASSUME NEW label \in {"init", "initializing"},
             NEW state \in {"running", "ok", "error"}, InitStep(c, label, state)
      PROVE  Inv'
  <2>0. CallsType' BY <1>3, <1>t, CallsTyped DEF InitStep, CallsType
  <2>1. TypeOK' BY <1>3, <1>t, <2>0, CallerType DEF InitStep
  <2>2. /\ \A d \in Callers : d # c => pc'[d] = pc[d] /\ outcome'[d] = outcome[d]
        /\ pc'[c] = label
    BY <1>3, <1>t DEF InitStep, TypeOK
  <2> QED BY <1>3, <2>1, <2>2, CallerStep DEF InitStep, Inv
<1>4. CASE InitBegin(c) BY <1>3, <1>4 DEF InitBegin
<1>5. CASE InitSucceeds(c) BY <1>3, <1>5 DEF InitSucceeds
<1>6. CASE InitFails(c) BY <1>3, <1>6 DEF InitFails
<1>7. CASE InitDone(c)
  <2>0. CallsType' BY <1>7, <1>t, CallsTyped DEF InitDone, CallsType
  <2>1. TypeOK' BY <1>7, <1>t, <2>0, CallerType DEF InitDone
  <2>2. /\ \A d \in Callers : d # c => pc'[d] = pc[d] /\ outcome'[d] = outcome[d]
        /\ pc'[c] \in {"ready", "close"}
    BY <1>7, <1>t DEF InitDone, TypeOK
  <2> QED BY <1>7, <2>1, <2>2, CallerStep DEF InitDone, Inv
<1>8. CASE CloseBegin(c)
  <2>0. CallsType' BY <1>8, <1>t, CallsTyped DEF CloseBegin, CallsType
  <2>1. TypeOK' BY <1>8, <1>t, <2>0, CallerType DEF CloseBegin
  <2>2. /\ \A d \in Callers : d # c => pc'[d] = pc[d] /\ outcome'[d] = outcome[d]
        /\ pc'[c] = "close"
    BY <1>8, <1>t DEF CloseBegin, TypeOK
  <2> QED BY <1>8, <2>1, <2>2, CallerStep DEF CloseBegin, Inv
<1>9. CASE CloseMark(c)
  <2>0. CallsType' BY <1>9, <1>t, CallsTyped DEF CloseMark, CallsType
  <2>1. TypeOK' BY <1>9, <1>t, <2>0, CallerType DEF CloseMark
  <2>2. /\ \A d \in Callers : d # c => pc'[d] = pc[d] /\ outcome'[d] = outcome[d]
        /\ started => pc'[c] \in {"join", "input"}
        /\ ~started => pc'[c] = "done" /\ outcome'[c] = "notStarted"
    BY <1>9, <1>t DEF CloseMark, TypeOK
  <2>3. closed' = closed \/ (started /\ closed' = TRUE)
    BY <1>9, <1>t DEF CloseMark, TypeOK, LifeOK
  <2>4. started => closed' = TRUE BY <1>9, <1>t DEF CloseMark, TypeOK
  <2>5. pc'[c] \in {"input", "grace", "kill", "join"} => closed' /\ started
    BY <2>2, <2>4
  <2>6. ~(pc'[c] = "done" /\ outcome'[c] \in {"closed", "initFailed"})
    BY <2>2
  <2>7. UNCHANGED <<eof, sent, answered, proc, readVars, queue, queueOpen, workVars,
                       waitpc, waitDone, failed, panicked, started>>
    BY <1>9 DEF CloseMark
  <2>8. PoolOK' /\ FlowOK' /\ LifeOK'
    BY <2>2, <2>3, <2>5, <2>6, <2>7, CallerStep
  <2> QED BY <2>1, <2>8 DEF Inv
<1>10. CASE CloseInput(c)
  <2>0. CallsType' BY <1>10, <1>t, CallsTyped DEF CloseInput, CallsType
  <2>1. TypeOK' BY <1>10, <1>t, <2>0, CallerType DEF CloseInput
  <2>2. /\ \A d \in Callers : d # c => pc'[d] = pc[d] /\ outcome'[d] = outcome[d]
        /\ pc'[c] = "grace" /\ closed /\ started
    BY <1>10, <1>t DEF CloseInput, TypeOK, LifeOK
  <2> QED BY <1>10, <2>1, <2>2, CallerStep DEF CloseInput, Inv
<1>11. CASE Escalate(c)
  <2>0. CallsType' BY <1>11, <1>t, CallsTyped DEF Escalate, CallsType
  <2>1. TypeOK' BY <1>11, <1>t, <2>0, CallerType DEF Escalate
  <2>2. /\ \A d \in Callers : d # c => pc'[d] = pc[d] /\ outcome'[d] = outcome[d]
        /\ pc'[c] \in {"kill", "join"} /\ closed /\ started
    BY <1>11, <1>t DEF Escalate, TypeOK, LifeOK
  <2> QED BY <1>11, <2>1, <2>2, CallerStep DEF Escalate, Inv
<1>12. CASE Join(c)
  <2>0. CallsType' BY <1>12, <1>t, CallsTyped DEF Join, CallsType
  <2>1. TypeOK' BY <1>12, <1>t, <2>0, CallerType DEF Join
  <2>2. /\ \A d \in Callers : d # c => pc'[d] = pc[d] /\ outcome'[d] = outcome[d]
        /\ pc'[c] = "done" /\ closed /\ started /\ waitDone
    BY <1>12, <1>t DEF Join, TypeOK, LifeOK
  <2> QED BY <1>12, <2>1, <2>2, CallerStep DEF Join, Inv
<1> QED BY <1>1, <1>2, <1>4, <1>5, <1>6, <1>7, <1>8, <1>9, <1>10, <1>11, <1>12
        DEF Starting, Closing

-----------------------------------------------------------------------------
(* The child and the wait loop *)

LEMMA ChildWritesInv ==
    ASSUME Inv, NEW line \in Lines, ChildWrites(line) PROVE Inv'
<1>t. TypeOK /\ PoolOK /\ FlowOK /\ LifeOK BY DEF Inv
<1> USE DEF clientVars, childVars, readVars, workVars, callVars
<1>0. /\ stdout' = Append(stdout, line) /\ sent' = sent \cup {line} /\ line \notin sent
      /\ stdout \in Seq(Lines)
      /\ UNCHANGED <<answered, wreq, queue, scanned>>
  BY <1>t DEF ChildWrites, TypeOK
<1>1. TypeOK'
  <2>1. stdout' \in Seq(Lines) /\ sent' \in SUBSET Lines BY <1>0, <1>t DEF TypeOK
  <2>2. UNCHANGED <<clientVars, proc, signal, eof, answered, stdin, stdoutOpen, scanned,
                    rpc, queue, queueOpen, workVars, cancelled, waitpc, waitDone,
                    failed, callVars, panicked>>
    BY DEF ChildWrites
  <2> QED BY <1>t, <2>1, <2>2 DEF TypeOK
<1>2. PoolOK' BY <1>t, QuietPool DEF ChildWrites
<1>3. FlowOK'
  <2>1. /\ \A y : In(y, stdout') <=> In(y, stdout) \/ y = line
        /\ Once(stdout) /\ ~In(line, stdout) => Once(stdout')
    BY <1>0, AppendFacts
  <2>2. /\ ~In(line, stdout) /\ ~In(line, scanned) /\ ~In(line, queue)
        /\ ~Handled(line) /\ ~Answered(line)
    BY <1>0, <1>t DEF FlowOK
  <2>3. \A x : (Handled(x)' <=> Handled(x)) /\ (Answered(x)' <=> Answered(x))
    BY <1>0 DEF Handled, Answered
  <2> QED BY <1>0, <1>t, <2>1, <2>2, <2>3 DEF FlowOK
<1>4. LifeOK' BY <1>t, QuietLife DEF ChildWrites
<1> QED BY <1>1, <1>2, <1>3, <1>4 DEF Inv

LEMMA WaitLoopInv ==
    ASSUME Inv, ChildClosesStdout \/ ChildExits \/ WaitLoop PROVE Inv'
<1>t. TypeOK /\ PoolOK /\ FlowOK /\ LifeOK BY DEF Inv
<1> USE DEF clientVars, childVars, readVars, workVars, callVars
<1>u. UNCHANGED <<clientVars, signal, sent, answered, stdout, scanned, rpc, queue,
                  workVars, callVars, panicked>>
  BY DEF ChildClosesStdout, ChildExits, WaitLoop, Reap, WaitCancel,
         WaitClose, WaitJoin, WaitFail, WaitSignal
<1>1. /\ (failed => failed')
      /\ failed' \in BOOLEAN /\ stdin' \in BOOLEAN /\ stdoutOpen' \in BOOLEAN
      /\ eof' \in BOOLEAN /\ cancelled' \in BOOLEAN /\ queueOpen' \in BOOLEAN
      /\ waitDone' \in BOOLEAN
      /\ proc' \in {"none", "running", "exited"}
      /\ waitpc' \in {"none", "wait", "cancel", "close", "join", "fail", "signal",
                      "done"}
  <2>0. CASE ChildClosesStdout BY <1>t, <2>0 DEF ChildClosesStdout, TypeOK
  <2>1. CASE ChildExits BY <1>t, <2>1 DEF ChildExits, TypeOK
  <2>2. CASE Reap BY <1>t, <2>2 DEF Reap, TypeOK
  <2>3. CASE WaitCancel BY <1>t, <2>3 DEF WaitCancel, TypeOK
  <2>4. CASE WaitClose BY <1>t, <2>4 DEF WaitClose, TypeOK
  <2>5. CASE WaitJoin BY <1>t, <2>5 DEF WaitJoin, TypeOK
  <2>6. CASE WaitFail BY <1>t, <2>6 DEF WaitFail, TypeOK
  <2>7. CASE WaitSignal BY <1>t, <2>7 DEF WaitSignal, TypeOK
  <2> QED BY <2>0, <2>1, <2>2, <2>3, <2>4, <2>5, <2>6, <2>7 DEF WaitLoop
<1>2. TypeOK' BY <1>1, <1>u, <1>t DEF TypeOK
<1>3. PoolOK' BY <1>u, <1>t, QuietPool
<1>4. FlowOK' BY <1>u, <1>t, QuietFlow
<1>5. LifeOK'
  <2>1. /\ started
        /\ waitpc' \notin {"none", "wait"} => proc' = "exited"
        /\ waitpc' \in {"signal", "done"} => failed'
        /\ waitDone' => waitpc' = "done"
        /\ waitDone => waitDone'
    BY <1>u, <1>t DEF ChildClosesStdout, ChildExits, WaitLoop, Reap, WaitCancel,
              WaitClose, WaitJoin, WaitFail, WaitSignal, LifeOK, TypeOK
  <2> QED BY <1>u, <1>t, <2>1 DEF LifeOK
<1> QED BY <1>2, <1>3, <1>4, <1>5 DEF Inv

-----------------------------------------------------------------------------
(* The read loop *)

LEMMA ReadLoopType ==
    ASSUME TypeOK,
           UNCHANGED <<clientVars, childVars, stdin, stdoutOpen, queueOpen, wreq,
                       cancelled, waitpc, waitDone, callVars>>,
           stdout' \in Seq(Lines), scanned' \in Seq(Lines),
           queue' \in Seq(ServerRequests), failed' \in BOOLEAN, panicked' \in BOOLEAN,
           rpc' \in {"scan", "queued", "ensure", "done"}, workerCount' \in Nat,
           wpc' \in [Workers -> {"none", "receive", "handle"}]
    PROVE  TypeOK'
BY DEF TypeOK, clientVars, childVars, callVars

\* A step of the read loop moves nothing but lines and workers.
LEMMA ReadLoopLife ==
    ASSUME LifeOK, rpc # "none",
           UNCHANGED <<clientVars, childVars, waitpc, waitDone, callVars>>,
           failed => failed'
    PROVE  LifeOK'
BY QuietLife DEF LifeOK, clientVars, childVars, callVars

LEMMA ScanInv == ASSUME Inv, Scan \/ ScanEnds \/ EnsureBegin PROVE Inv'
<1>t. TypeOK /\ PoolOK /\ FlowOK /\ LifeOK BY DEF Inv
<1> USE DEF clientVars, childVars, readVars, workVars, callVars
<1>1. /\ UNCHANGED <<clientVars, childVars, stdin, stdoutOpen, queue, queueOpen,
                     workVars, cancelled, waitpc, waitDone, callVars, panicked>>
  BY DEF Scan, ScanEnds, EnsureBegin
<1>2. /\ rpc \in {"scan", "queued"} /\ rpc' \in {"scan", "queued", "ensure", "done"}
      /\ rpc' \in {"none", "scan", "done"} => rpc \in {"none", "scan", "done"}
      /\ failed' \in BOOLEAN
      /\ (failed => failed')
      /\ \/ UNCHANGED <<stdout, scanned>>
         \/ scanned = <<>> /\ scanned' = stdout /\ stdout' = <<>>
  BY <1>t DEF Scan, ScanEnds, EnsureBegin, TypeOK
<1>3. TypeOK'
  <2>1. stdout' \in Seq(Lines) /\ scanned' \in Seq(Lines)
    BY <1>2, <1>t DEF TypeOK
  <2>2. /\ UNCHANGED <<clientVars, childVars, stdin, stdoutOpen, queueOpen, wreq,
                       cancelled, waitpc, waitDone, callVars>>
        /\ queue' \in Seq(ServerRequests) /\ panicked' \in BOOLEAN
        /\ workerCount' \in Nat
        /\ wpc' \in [Workers -> {"none", "receive", "handle"}]
    BY <1>1, <1>t DEF TypeOK
  <2> QED BY <1>2, <1>t, <2>1, <2>2, ReadLoopType
<1>4. PoolOK' BY <1>1, <1>2, <1>t, QuietPool
<1>5. FlowOK'
  <2>1. CASE UNCHANGED <<stdout, scanned>> BY <1>1, <1>t, <2>1, QuietFlow
  <2>2. CASE scanned = <<>> /\ scanned' = stdout /\ stdout' = <<>>
    <3>1. \A x : (Handled(x)' <=> Handled(x)) /\ (Answered(x)' <=> Answered(x))
      BY <1>1 DEF Handled, Answered
    <3> QED BY <1>1, <1>t, <2>2, <3>1, EmptyFacts DEF FlowOK
  <2> QED BY <1>2, <2>1, <2>2
<1>6. LifeOK'
  <2>1. rpc # "none" BY <1>2
  <2> QED BY <1>1, <1>2, <1>t, <2>1, ReadLoopLife
<1> QED BY <1>3, <1>4, <1>5, <1>6 DEF Inv

LEMMA ReadInv == ASSUME Inv, ReadRequest \/ ReadBad PROVE Inv'
<1>t. TypeOK /\ PoolOK /\ FlowOK /\ LifeOK BY DEF Inv
<1> USE DEF clientVars, childVars, readVars, workVars, callVars
<1>0. PICK line : line = Head(scanned) OBVIOUS
<1>1. /\ UNCHANGED <<clientVars, childVars, stdin, stdout, stdoutOpen, queueOpen,
                     workVars, cancelled, waitpc, waitDone, callVars>>
      /\ rpc = "scan" /\ scanned # <<>> /\ scanned' = Tail(scanned)
      /\ rpc' \in {"scan", "queued", "done"}
      /\ failed' \in BOOLEAN /\ panicked' \in BOOLEAN
      /\ (failed => failed')
      /\ \/ queue' = queue
         \/ /\ queue' = Append(queue, line) /\ rpc' = "queued"
            /\ line \in ServerRequests /\ Len(queue) < MaxServerRequestHandlers
  BY <1>0, <1>t DEF ReadRequest, ReadBad, TypeOK
<1>2. /\ line \in Lines /\ scanned' \in Seq(Lines) /\ In(line, scanned)
      /\ \A y : In(y, scanned') => In(y, scanned)
      /\ Once(scanned') /\ ~In(line, scanned')
  BY <1>0, <1>1, <1>t, TailFacts DEF TypeOK, FlowOK
<1>q. queue \in Seq(ServerRequests) /\ Len(queue) \in Nat BY <1>t DEF TypeOK
<1>3. TypeOK'
  <2>1. queue' \in Seq(ServerRequests) BY <1>1, <1>q
  <2>2. stdout' \in Seq(Lines) /\ workerCount' \in Nat
        /\ wpc' \in [Workers -> {"none", "receive", "handle"}]
    BY <1>1, <1>t DEF TypeOK
  <2> QED BY <1>1, <1>2, <1>t, <2>1, <2>2, ReadLoopType
<1>4. PoolOK'
  <2>1. CASE queue' = queue
    BY <1>1, <1>t, <2>1, QuietPool
  <2>2. CASE queue' = Append(queue, line) /\ rpc' = "queued"
             /\ line \in ServerRequests /\ Len(queue) < MaxServerRequestHandlers
    <3>1. Len(queue') = Len(queue) + 1 BY <1>q, <2>2
    <3>2. Len(queue') <= MaxServerRequestHandlers
      BY <1>q, <2>2, <3>1, AppServerAssumption
    <3>3. WorkersAlive' = WorkersAlive BY <1>1 DEF WorkersAlive
    <3> QED BY <1>1, <1>t, <2>2, <3>2, <3>3 DEF PoolOK
  <2> QED BY <1>1, <2>1, <2>2
<1>5. FlowOK'
  <2>1. \A x : (Handled(x)' <=> Handled(x)) /\ (Answered(x)' <=> Answered(x))
    BY <1>1 DEF Handled, Answered
  <2>2. /\ ~In(line, stdout) /\ ~In(line, queue)
        /\ ~Handled(line) /\ ~Answered(line) /\ line \in sent
    BY <1>2, <1>t DEF FlowOK
  <2>3. /\ \A y : In(y, queue') => In(y, queue) \/ y = line
        /\ Once(queue')
    <3>1. CASE queue' = queue BY <1>t, <3>1 DEF FlowOK
    <3>2. CASE queue' = Append(queue, line) /\ line \in ServerRequests
      BY <1>q, <1>t, <2>2, <3>2, AppendFacts DEF FlowOK
    <3> QED BY <1>1, <3>1, <3>2
  <2> QED BY <1>1, <1>2, <1>t, <2>1, <2>2, <2>3 DEF FlowOK
<1>6. LifeOK' BY <1>1, <1>t, ReadLoopLife
<1> QED BY <1>3, <1>4, <1>5, <1>6 DEF Inv

LEMMA AliveFinite ==
    /\ IsFiniteSet(WorkersAlive) /\ Cardinality(WorkersAlive) \in Nat
    /\ WorkersAlive = {} <=> Cardinality(WorkersAlive) = 0
    /\ WorkersAlive \subseteq Workers
<1>1. WorkersAlive \subseteq Workers BY DEF WorkersAlive
<1>2. IsFiniteSet(WorkersAlive) BY <1>1, AppServerAssumption, FS_Subset
<1> QED BY <1>1, <1>2, FS_CardinalityType, FS_EmptySet

LEMMA EnsureInv == ASSUME Inv, Ensure PROVE Inv'
<1>t. TypeOK /\ PoolOK /\ FlowOK /\ LifeOK BY DEF Inv
<1> USE DEF clientVars, childVars, readVars, workVars, callVars
<1>1. /\ UNCHANGED <<clientVars, childVars, stdin, stdout, stdoutOpen, scanned, queue,
                     queueOpen, wreq, cancelled, waitpc, waitDone, failed, callVars,
                     panicked>>
      /\ rpc = "ensure"
  BY DEF Ensure
<1>q. /\ queue \in Seq(ServerRequests) /\ Len(queue) \in Nat
      /\ workerCount \in Nat /\ workerCount = Cardinality(WorkersAlive)
      /\ MaxServerRequestHandlers \in Nat \ {0}
      /\ wpc \in [Workers -> {"none", "receive", "handle"}]
  BY <1>t, AppServerAssumption DEF TypeOK, PoolOK
<1>2. FlowOK' BY <1>1, <1>t, QuietFlow
<1>3. LifeOK' BY <1>1, <1>t, ReadLoopLife
<1>4. CASE ~MoreWorkers /\ rpc' = "scan" /\ UNCHANGED <<workerCount, wpc>>
  <2>1. WorkersAlive' = WorkersAlive BY <1>4 DEF WorkersAlive
  <2>2. workerCount # 0
    BY <1>4, <1>q DEF MoreWorkers
  <2>3. WorkersAlive # {} BY <1>q, <2>2, AliveFinite
  <2>4. PoolOK' BY <1>1, <1>4, <1>t, <2>1, <2>3 DEF PoolOK
  <2>5. TypeOK' BY <1>1, <1>4, <1>t DEF TypeOK
  <2> QED BY <1>2, <1>3, <2>4, <2>5 DEF Inv
<1>5. CASE /\ MoreWorkers /\ workerCount' = workerCount + 1 /\ UNCHANGED rpc
           /\ wpc' = [wpc EXCEPT ![CHOOSE w \in Workers : wpc[w] = "none"] = "receive"]
  <2>1. workerCount < MaxServerRequestHandlers BY <1>5 DEF MoreWorkers
  <2>2. \E w \in Workers : wpc[w] = "none"
    <3> SUFFICES ASSUME \A w \in Workers : wpc[w] # "none" PROVE FALSE OBVIOUS
    <3>1. WorkersAlive = Workers BY DEF WorkersAlive
    <3>2. Cardinality(Workers) = workerCount BY <1>q, <3>1
    <3> QED BY <1>q, <2>1, <3>2, AppServerAssumption
  <2>3. PICK new : new = CHOOSE w \in Workers : wpc[w] = "none" OBVIOUS
  <2>4. new \in Workers /\ wpc[new] = "none" BY <2>2, <2>3
  <2>5. wpc' = [wpc EXCEPT ![new] = "receive"] BY <1>5, <2>3
  <2>6. WorkersAlive' = WorkersAlive \cup {new} /\ new \notin WorkersAlive
    BY <1>q, <2>4, <2>5 DEF WorkersAlive
  <2>7. Cardinality(WorkersAlive') = Cardinality(WorkersAlive) + 1
    BY <2>6, AliveFinite, FS_AddElement
  <2>8. workerCount' = Cardinality(WorkersAlive') BY <1>5, <1>q, <2>7
  <2>9. workerCount' <= MaxServerRequestHandlers /\ workerCount' \in Nat
    BY <1>5, <1>q, <2>1
  <2>10. \A w \in Workers : wpc'[w] = "handle" <=> wpc[w] = "handle"
    BY <1>q, <2>4, <2>5
  <2>11. PoolOK'
    <3>1. rpc' = "ensure" BY <1>1, <1>5
    <3> QED BY <1>1, <1>t, <2>8, <2>9, <2>10, <3>1 DEF PoolOK
  <2>12. wpc' \in [Workers -> {"none", "receive", "handle"}]
    BY <1>q, <2>4, <2>5
  <2>13. TypeOK'
    <3>1. rpc' \in {"scan", "queued", "ensure", "done"} BY <1>1, <1>5
    <3>2. /\ stdout' \in Seq(Lines) /\ scanned' \in Seq(Lines)
          /\ queue' \in Seq(ServerRequests) /\ failed' \in BOOLEAN
          /\ panicked' \in BOOLEAN
      BY <1>1, <1>t DEF TypeOK
    <3> QED BY <1>1, <1>t, <2>9, <2>12, <3>1, <3>2, ReadLoopType
  <2> QED BY <1>2, <1>3, <2>11, <2>13 DEF Inv
<1> QED BY <1>4, <1>5 DEF Ensure

-----------------------------------------------------------------------------
(* The workers *)

LEMMA WorkerType ==
    ASSUME TypeOK, wpc' \in [Workers -> {"none", "receive", "handle"}],
           wreq' \in [Workers -> ServerRequests \cup {NoRequest}],
           queue' \in Seq(ServerRequests), workerCount' \in Nat,
           answered' \in [ServerRequests -> Nat],
           UNCHANGED <<clientVars, proc, signal, eof, sent, stdin, readVars, queueOpen,
                       cancelled, waitpc, waitDone, failed, callVars, panicked>>
    PROVE  TypeOK'
BY DEF TypeOK, clientVars, readVars, callVars

LEMMA WorkerLife ==
    ASSUME LifeOK,
           UNCHANGED <<clientVars, proc, readVars, waitpc, waitDone, failed, callVars>>
    PROVE  LifeOK'
BY QuietLife DEF clientVars, readVars, callVars

LEMMA ReceivesInv ==
    ASSUME Inv, NEW w \in Workers, WorkerReceives(w) PROVE Inv'
<1>t. TypeOK /\ PoolOK /\ FlowOK /\ LifeOK BY DEF Inv
<1>0. PICK x : x = Head(queue) OBVIOUS
<1>1. /\ UNCHANGED <<clientVars, childVars, stdin, readVars, queueOpen, workerCount,
                     cancelled, waitpc, waitDone, failed, callVars, panicked>>
      /\ wpc[w] = "receive" /\ queue # <<>> /\ queue' = Tail(queue)
      /\ wpc' = [wpc EXCEPT ![w] = "handle"] /\ wreq' = [wreq EXCEPT ![w] = x]
  BY <1>0 DEF WorkerReceives
<1>2. /\ queue \in Seq(ServerRequests) /\ Len(queue) \in Nat
      /\ wpc \in [Workers -> {"none", "receive", "handle"}]
      /\ wreq \in [Workers -> ServerRequests \cup {NoRequest}]
      /\ workerCount \in Nat /\ NoRequest \notin ServerRequests
      /\ MaxServerRequestHandlers \in Nat
  BY <1>t, AppServerAssumption DEF TypeOK
<1>3. /\ x \in ServerRequests /\ queue' \in Seq(ServerRequests) /\ In(x, queue)
      /\ Len(queue') = Len(queue) - 1 /\ Len(queue) \in Nat \ {0}
      /\ \A y : In(y, queue') => In(y, queue)
      /\ Once(queue') /\ ~In(x, queue')
  BY <1>0, <1>1, <1>2, <1>t, TailFacts DEF FlowOK
<1>4. TypeOK'
  <2>1. wpc' \in [Workers -> {"none", "receive", "handle"}]
        /\ wreq' \in [Workers -> ServerRequests \cup {NoRequest}]
    BY <1>1, <1>2, <1>3
  <2>2. answered' \in [ServerRequests -> Nat] BY <1>1, <1>t DEF TypeOK, childVars
  <2> QED BY <1>1, <1>2, <1>3, <1>t, <2>1, <2>2, WorkerType DEF childVars
<1>5. PoolOK'
  <2>1. WorkersAlive' = WorkersAlive BY <1>1, <1>2 DEF WorkersAlive
  <2>2. w \in WorkersAlive BY <1>1 DEF WorkersAlive
  <2>3. Len(queue') <= MaxServerRequestHandlers BY <1>2, <1>3, <1>t DEF PoolOK
  <2>4. \A v \in Workers : wpc'[v] = "handle" <=> wreq'[v] # NoRequest
    BY <1>1, <1>2, <1>3, <1>t DEF PoolOK
  <2> QED BY <1>1, <1>t, <2>1, <2>2, <2>3, <2>4 DEF PoolOK
<1>6. FlowOK'
  <2>1. wreq[w] = NoRequest BY <1>1, <1>t DEF PoolOK
  <2>2. \A v \in Workers : wreq'[v] = IF v = w THEN x ELSE wreq[v]
    BY <1>1, <1>2
  <2>3. \A y : Handled(y)' <=> Handled(y) \/ y = x
    BY <1>2, <1>3, <2>1, <2>2 DEF Handled
  <2>4. \A y : Answered(y)' <=> Answered(y) BY <1>1 DEF Answered, childVars
  <2>5. x \in Lines /\ ~Handled(x) /\ ~Answered(x) /\ ~In(x, stdout) /\ ~In(x, scanned)
        /\ x \in sent
    BY <1>3, <1>t DEF FlowOK, Lines
  <2>6. \A u, v \in Workers : wreq'[u] = wreq'[v] /\ wreq'[v] # NoRequest => u = v
    <3>1. \A v \in Workers : wreq[v] # x BY <1>3, <2>5 DEF Handled
    <3> QED BY <1>t, <2>2, <3>1 DEF FlowOK
  <2>7. UNCHANGED <<stdout, scanned, sent, answered>> BY <1>1 DEF childVars, readVars
  <2> QED BY <1>3, <1>t, <2>3, <2>4, <2>5, <2>6, <2>7 DEF FlowOK
<1>7. LifeOK' BY <1>1, <1>t, WorkerLife DEF childVars
<1> QED BY <1>4, <1>5, <1>6, <1>7 DEF Inv

LEMMA AnswersInv ==
    ASSUME Inv, NEW w \in Workers, WorkerAnswers(w) PROVE Inv'
<1>t. TypeOK /\ PoolOK /\ FlowOK /\ LifeOK BY DEF Inv
<1>0. PICK x : x = wreq[w] OBVIOUS
<1>1. /\ UNCHANGED <<clientVars, proc, signal, eof, sent, stdin, readVars, queue, queueOpen,
                     workerCount, cancelled, waitpc, waitDone, failed, callVars,
                     panicked>>
      /\ wpc[w] = "handle"
      /\ wpc' = [wpc EXCEPT ![w] = "receive"]
      /\ wreq' = [wreq EXCEPT ![w] = NoRequest]
      /\ answered' = answered \/ answered' = [answered EXCEPT ![x] = @ + 1]
  BY <1>0 DEF WorkerAnswers
<1>2. /\ queue \in Seq(ServerRequests) /\ answered \in [ServerRequests -> Nat]
      /\ wpc \in [Workers -> {"none", "receive", "handle"}]
      /\ wreq \in [Workers -> ServerRequests \cup {NoRequest}]
      /\ workerCount \in Nat /\ NoRequest \notin ServerRequests
  BY <1>t, AppServerAssumption DEF TypeOK
<1>3. x \in ServerRequests /\ x \in Lines /\ Handled(x)
  BY <1>0, <1>1, <1>2, <1>t DEF PoolOK, Handled, Lines
<1>4. TypeOK'
  <2>1. wpc' \in [Workers -> {"none", "receive", "handle"}]
        /\ wreq' \in [Workers -> ServerRequests \cup {NoRequest}]
    BY <1>1, <1>2
  <2>2. answered' \in [ServerRequests -> Nat] BY <1>1, <1>2, <1>3
  <2> QED BY <1>1, <1>2, <1>t, <2>1, <2>2, WorkerType
<1>5. PoolOK'
  <2>1. WorkersAlive' = WorkersAlive BY <1>1, <1>2 DEF WorkersAlive
  <2>2. \A v \in Workers : wpc'[v] = "handle" <=> wreq'[v] # NoRequest
    BY <1>1, <1>2, <1>t DEF PoolOK
  <2> QED BY <1>1, <1>t, <2>1, <2>2 DEF PoolOK, readVars
<1>6. FlowOK'
  <2>1. \A v \in Workers : wreq'[v] = IF v = w THEN NoRequest ELSE wreq[v]
    BY <1>1, <1>2
  <2>2. \A v \in Workers : v # w => wreq[v] # x
    BY <1>0, <1>2, <1>3, <1>t DEF FlowOK
  <2>3. \A y : Handled(y)' <=> Handled(y) /\ y # x
    BY <1>0, <1>2, <1>3, <2>1, <2>2 DEF Handled
  <2>4. ~Answered(x) /\ ~In(x, stdout) /\ ~In(x, scanned) /\ ~In(x, queue) /\ x \in sent
    BY <1>3, <1>t DEF FlowOK
  <2>5. answered[x] = 0 BY <1>3, <2>4 DEF Answered
  <2>6. \A r \in ServerRequests :
          answered'[r] = answered[r] \/ (r = x /\ answered'[r] = 1)
    BY <1>1, <1>2, <1>3, <2>5
  <2>7. \A y : Answered(y)' => Answered(y) \/ y = x BY <2>6 DEF Answered
  <2>8. \A r \in ServerRequests : answered'[r] \in {0, 1}
    BY <1>t, <2>6 DEF FlowOK
  <2>9. \A u, v \in Workers : wreq'[u] = wreq'[v] /\ wreq'[v] # NoRequest => u = v
    BY <1>t, <2>1 DEF FlowOK
  <2>10. UNCHANGED <<stdout, scanned, queue, sent>> BY <1>1 DEF readVars
  <2> QED BY <1>t, <2>3, <2>4, <2>7, <2>8, <2>9, <2>10 DEF FlowOK
<1>7. LifeOK' BY <1>1, <1>t, WorkerLife
<1> QED BY <1>4, <1>5, <1>6, <1>7 DEF Inv

LEMMA ExitsInv ==
    ASSUME Inv, NEW w \in Workers, WorkerExits(w) PROVE Inv'
<1>t. TypeOK /\ PoolOK /\ FlowOK /\ LifeOK BY DEF Inv
<1>1. /\ UNCHANGED <<clientVars, childVars, stdin, readVars, queue, queueOpen, wreq,
                     cancelled, waitpc, waitDone, failed, callVars, panicked>>
      /\ wpc[w] = "receive" /\ queue = <<>> /\ wpc' = [wpc EXCEPT ![w] = "none"]
      /\ workerCount' = workerCount - 1
  BY DEF WorkerExits
<1>2. /\ wpc \in [Workers -> {"none", "receive", "handle"}]
      /\ workerCount \in Nat /\ workerCount = Cardinality(WorkersAlive)
      /\ MaxServerRequestHandlers \in Nat /\ workerCount <= MaxServerRequestHandlers
  BY <1>t, AppServerAssumption DEF TypeOK, PoolOK
<1>3. w \in WorkersAlive /\ WorkersAlive' = WorkersAlive \ {w}
  BY <1>1, <1>2 DEF WorkersAlive
<1>4. Cardinality(WorkersAlive') = Cardinality(WorkersAlive) - 1
  BY <1>3, AliveFinite, FS_RemoveElement
<1>5. workerCount' = Cardinality(WorkersAlive') /\ workerCount' \in Nat
      /\ workerCount' <= MaxServerRequestHandlers
  <2>1. workerCount # 0 BY <1>2, <1>3, AliveFinite
  <2> QED BY <1>1, <1>2, <1>4, <2>1
<1>6. PoolOK'
  <2>1. \A v \in Workers : wpc'[v] = "handle" <=> wpc[v] = "handle"
    BY <1>1, <1>2
  <2> QED BY <1>1, <1>5, <1>t, <2>1 DEF PoolOK
<1>7. TypeOK'
  <2>1. wpc' \in [Workers -> {"none", "receive", "handle"}] BY <1>1, <1>2
  <2>2. /\ wreq' \in [Workers -> ServerRequests \cup {NoRequest}]
        /\ queue' \in Seq(ServerRequests)
        /\ answered' \in [ServerRequests -> Nat]
    BY <1>1, <1>t DEF TypeOK, childVars
  <2> QED BY <1>1, <1>5, <1>t, <2>1, <2>2, WorkerType DEF childVars
<1>8. FlowOK' BY <1>1, <1>t, QuietFlow DEF childVars, readVars
<1>9. LifeOK' BY <1>1, <1>t, WorkerLife DEF childVars
<1> QED BY <1>6, <1>7, <1>8, <1>9 DEF Inv

-----------------------------------------------------------------------------
LEMMA NextInv == Inv /\ [Next]_vars => Inv'
<1> SUFFICES ASSUME Inv, [Next]_vars PROVE Inv' OBVIOUS
<1>1. CASE UNCHANGED vars
  <2> USE DEF vars, clientVars, childVars, readVars, workVars, callVars
  <2>1. TypeOK' BY <1>1 DEF Inv, TypeOK
  <2>2. PoolOK' /\ FlowOK' /\ LifeOK'
    BY <1>1, QuietPool, QuietFlow, QuietLife DEF Inv
  <2> QED BY <2>1, <2>2 DEF Inv
<1> QED BY <1>1, CallersInv, ChildWritesInv, WaitLoopInv, ScanInv, ReadInv, EnsureInv,
           ReceivesInv, AnswersInv, ExitsInv DEF Next, ReadLoop

\* The state of the client is of its type, and what the pool, the flow of the
\* requests and the life of the process rest on holds, whatever Start, Close,
\* the child, the read loop, the wait loop and the workers do.
THEOREM Invariance == Spec => []Inv
BY InitInv, NextInv, PTL DEF Spec

\* Every value of the client stays of its type; in particular the worker that
\* ensureServerRequestWorkers starts exists.
THEOREM TypeCorrect == Spec => []TypeOK
<1>1. Inv => TypeOK BY DEF Inv
<1> QED BY <1>1, Invariance, PTL

\* Never more handlers run than the limit, for every limit and every number of
\* requests: workerCount counts the workers alive through every start and exit.
THEOREM HandlersAreBounded == Spec => []HandlersBounded
<1>1. Inv => HandlersBounded BY DEF Inv, PoolOK, HandlersBounded
<1> QED BY <1>1, Invariance, PTL

\* Whoever returns from a Close that found a process, first or concurrent,
\* leaves no zombie and a failed router, for every number of callers.
THEOREM ClosesReap == Spec => []CloseReaps
<1>1. Inv => CloseReaps BY DEF Inv, LifeOK, CloseReaps
<1> QED BY <1>1, Invariance, PTL

\* No server request is answered twice, is in two places, or is lost in the
\* queue when it is closed, for every number of requests, workers and limits.
THEOREM HandledAtMostOnce == Spec => []HandledOnce
<1>1. Inv => HandledOnce
  <2> SUFFICES ASSUME Inv PROVE HandledOnce OBVIOUS
  <2>t. TypeOK /\ PoolOK /\ FlowOK BY DEF Inv
  <2>1. ASSUME NEW r \in ServerRequests
        PROVE  answered[r] + Cardinality({w \in Workers : wreq[w] = r})
                 + Cardinality({i \in DOMAIN queue : queue[i] = r})
                 + Cardinality({i \in DOMAIN scanned : scanned[i] = r})
                 + Cardinality({i \in DOMAIN stdout : stdout[i] = r}) <= 1
    <3>1. Cardinality({w \in Workers : wreq[w] = r}) = IF Handled(r) THEN 1 ELSE 0
      <4>1. CASE Handled(r)
        <5>1. PICK w \in Workers : wreq[w] = r BY <4>1 DEF Handled
        <5>2. {v \in Workers : wreq[v] = r} = {w}
          BY <2>t, <5>1, AppServerAssumption DEF FlowOK
        <5> QED BY <4>1, <5>2, FS_Singleton
      <4>2. CASE ~Handled(r)
        <5>1. {w \in Workers : wreq[w] = r} = {} BY <4>2 DEF Handled
        <5> QED BY <4>2, <5>1, FS_EmptySet
      <4> QED BY <4>1, <4>2
    <3>2. /\ Cardinality({i \in DOMAIN queue : queue[i] = r})
               = IF In(r, queue) THEN 1 ELSE 0
          /\ Cardinality({i \in DOMAIN scanned : scanned[i] = r})
               = IF In(r, scanned) THEN 1 ELSE 0
          /\ Cardinality({i \in DOMAIN stdout : stdout[i] = r})
               = IF In(r, stdout) THEN 1 ELSE 0
      BY <2>t, CountOnce DEF FlowOK, TypeOK
    <3>3. answered[r] = IF Answered(r) THEN 1 ELSE 0
      BY <2>t DEF FlowOK, Answered
    <3>4. /\ In(r, stdout) => ~In(r, scanned) /\ ~In(r, queue)
                              /\ ~Handled(r) /\ ~Answered(r)
          /\ In(r, scanned) => ~In(r, queue) /\ ~Handled(r) /\ ~Answered(r)
          /\ In(r, queue) => ~Handled(r) /\ ~Answered(r)
          /\ Handled(r) => ~Answered(r)
      BY <2>t DEF FlowOK, Lines
    <3> QED BY <3>1, <3>2, <3>3, <3>4
  <2>2. waitDone /\ rpc \in {"scan", "done"} /\ WorkersAlive = {} => queue = <<>>
    BY <2>t DEF PoolOK
  <2> QED BY <2>1, <2>2 DEF HandledOnce
<1> QED BY <1>1, Invariance, PTL
=============================================================================
