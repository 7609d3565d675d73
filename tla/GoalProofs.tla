----------------------------- MODULE GoalProofs -----------------------------
(***************************************************************************)
(* Proofs about a goal operation.                                          *)
(*                                                                         *)
(* A caller that has a handle knows of a turn (HandleInv); a goal that was *)
(* cancelled is paused, so that no turn but the one that runs can still    *)
(* run (CancelInv); and the route loop hears of the goal's first turn      *)
(* before it hears of the goal's end (AheadInv).                           *)
(*                                                                         *)
(* That the stream is in order (OInv) is told in positions of the script:  *)
(* the stream has come to position p, the route loop to o, and each queue  *)
(* holds what concerns it from there to what was sent last (Lists).  Of    *)
(* the turns that the loop has been told of, those that come after the     *)
(* stream's are pending, in the order of the script (PendingAt), so that   *)
(* the first of them is the next.                                          *)
(***************************************************************************)
EXTENDS Goal, FiniteSetTheorems, SequenceTheorems, WellFoundedInduction, TLAPS

-----------------------------------------------------------------------------
LEMMA AppendIs ==
    ASSUME NEW S, NEW s \in Seq(S), NEW x \in S
    PROVE  /\ Append(s, x) \in Seq(S) /\ Len(Append(s, x)) = Len(s) + 1
           /\ \A i \in 1 .. Len(Append(s, x)) :
                 \/ i \in 1 .. Len(s) /\ Append(s, x)[i] = s[i]
                 \/ i = Len(s) + 1 /\ Append(s, x)[i] = x
OBVIOUS

GoalType ==
    /\ script \in Scripts /\ sent \in Nat
    /\ active \in Turns \cup {NoTurn} /\ goalQ \in Seq(Notifications)
    /\ got \in Notifications \cup {None}
    /\ {closed, down, cleared} \subseteq BOOLEAN
    /\ loop \in {"register", "observe"} \/ got = None

Starting == {"clear", "set", "await", "waitStart"}
Pulling  == {"idle", "read", "finish", "finishFailed", "continue", "waitTurn", "pop", "register"}

\* A caller that has the handle knows of a turn, and what is known of can be interrupted.
HandleInv ==
    /\ upc \in Pulling => logical # NoTurn
    /\ hpc = "none" /\ upc \notin Starting => logical # NoTurn
    /\ logical # NoTurn => last # NoTurn
    /\ hpc = "note" => target # NoTurn

\* A cancelled goal is paused, and no turn but the one that runs can run any more.
CancelInv ==
    /\ upc \in Starting => hpc = "none" /\ ~closed
    /\ cancelled = "yes" =>
          /\ hpc # "none" /\ last # NoTurn /\ (hpc # "pause" => goal = "paused")
          /\ hpc \in {"note", "again"} => active \in {target, NoTurn}
          /\ (hpc \in {"close", "join", "done"} /\ ~down) => active \in interrupted \cup {NoTurn}

\* The turn that was announced first is known, or the loop is to hear of it before it
\* hears of the goal's end.
Known == logical # NoTurn \/ Names(got)

\* The server has announced the end of the old goal, and the loop has not heard of the new.
OldIsOver == status = "none" /\ \E i \in 1 .. sent : script[i].s = "old"

AheadInv ==
    /\ (cleared \/ status \in Terminal) /\ ~OldIsOver => logical # NoTurn
    /\ Finishes(got) => Known
    /\ \A i \in 1 .. Len(goalQ) :
          Finishes(goalQ[i]) => Known \/ \E j \in 1 .. i : Names(goalQ[j])
    /\ \A i \in 1 .. sent :
          Names(script[i]) => Known \/ \E j \in 1 .. Len(goalQ) : Names(goalQ[j])

\* The end of the old goal is the first that the loop hears of.
OldInv ==
    /\ sent = 0 => goalQ = <<>> /\ got = None /\ status = "none"
    /\ \A i \in 1 .. Len(goalQ) : goalQ[i].s = "old" => i = 1 /\ got = None /\ OldIsOver
    /\ got.s = "old" => OldIsOver

\* The server names a turn before it ends the goal, and ends the old one before all that.
TurnsComeFirst == \A s \in Scripts : AnnouncesFirst(s)

FindInv ==
    TurnsComeFirst => closed \/ TurnsOf(script) = <<>> \/ (AheadInv /\ OldInv)

GInv == GoalType /\ HandleInv /\ CancelInv /\ FindInv

-----------------------------------------------------------------------------
\* What the invariant depends on, but for the caller's place and the server's.
observed == <<script, goalQ, got, logical, last, cleared, status, closed>>
talked   == <<sent, goal, active, interrupted, down>>
asked    == <<upc, hpc, target, cancelled>>

LEMMA GoalInit == ASSUME Init PROVE GInv
<1>1. <<>> \in Seq(Notifications)
  OBVIOUS
<1>2. GoalType
  BY <1>1 DEF GoalType, Init
<1>3. HandleInv /\ CancelInv
  BY DEF HandleInv, CancelInv, Init, Starting, Pulling
<1>4. FindInv
  <2>1. ~Finishes(None)
    BY DEF Finishes, None, Terminal
  <2>2. None.s # "old"
    BY DEF None
  <2> QED BY <2>1, <2>2 DEF FindInv, AheadInv, OldInv, Init, Terminal
<1> QED BY <1>2, <1>3, <1>4 DEF GInv

\* The server sends.
LEMMA ServerKeeps ==
    ASSUME GInv, Server PROVE GInv'
<1> PICK n : n = script[sent + 1]
  OBVIOUS
<1>1. /\ goal = "paused" => n.t = active \/ n.t = NoTurn
      /\ active' = CASE n.m = "started" -> n.t
                     [] n.m \in {"completed", "failed"} -> NoTurn
                     [] OTHER -> active
      /\ goalQ' = IF n.m # "item" /\ ~closed THEN Append(goalQ, n) ELSE goalQ
  BY DEF Server, Route
<1>2. /\ sent' = sent + 1 /\ sent < Len(script) /\ ~down
      /\ UNCHANGED <<script, goal, interrupted, down, loop, got, logical, last, cleared, status,
                     closed, upc, hpc, target, cancelled>>
  BY DEF Server, stateVars, loopVars, userVars, handleVars
<1>3. script \in Seq(Notifications) /\ sent \in Nat /\ sent + 1 \in 1 .. Len(script)
  BY <1>2, GoalAssumption DEF GInv, GoalType
<1>4. n \in Notifications
  BY <1>3
<1>5. n.m = "started" => n.t \in Turns /\ n.t # NoTurn
  BY <1>4, GoalAssumption DEF Notifications
<1>6. goalQ' \in Seq(Notifications)
  BY <1>1, <1>4, AppendIs DEF GInv, GoalType
<1>7. GoalType'
  BY <1>1, <1>2, <1>3, <1>5, <1>6 DEF GInv, GoalType
<1>8. HandleInv'
  BY <1>2 DEF GInv, HandleInv
<1>9. CancelInv'
  BY <1>1, <1>2, <1>5 DEF GInv, CancelInv
<1>10. ASSUME AheadInv, ~closed, TurnsOf(script) # <<>>, TurnsComeFirst PROVE AheadInv'
  <2>1. Known' = Known
    BY <1>2 DEF Known
  <2>2. goalQ \in Seq(Notifications)
    BY DEF GInv, GoalType
  <2>3. \A i \in 1 .. Len(goalQ) : i \in 1 .. Len(goalQ') /\ goalQ'[i] = goalQ[i]
    BY <1>1, <1>4, <2>2, AppendIs
  <2>4. \A i \in 1 .. Len(goalQ') : i \in 1 .. Len(goalQ) \/ (i = Len(goalQ) + 1 /\ goalQ'[i] = n)
    BY <1>1, <1>4, <2>2, AppendIs
  <2>5. Names(n) => \E i \in 1 .. Len(goalQ') : Names(goalQ'[i])
    <3>1. ASSUME Names(n) PROVE goalQ' = Append(goalQ, n)
      BY <1>1, <3>1, <1>10 DEF Names
    <3>2. ASSUME goalQ' = Append(goalQ, n)
          PROVE  Len(goalQ) + 1 \in 1 .. Len(goalQ') /\ goalQ'[Len(goalQ) + 1] = n
      BY <1>4, <2>2, <3>2
    <3> QED BY <3>1, <3>2
  <2>6. ASSUME NEW i \in 1 .. sent', Names(script[i])
        PROVE  Known \/ \E j \in 1 .. Len(goalQ') : Names(goalQ'[j])
    <3>1. CASE i \in 1 .. sent
      <4>1. Known \/ \E j \in 1 .. Len(goalQ) : Names(goalQ[j])
        BY <1>10, <2>6, <3>1 DEF AheadInv
      <4> QED BY <2>3, <4>1
    <3>2. CASE script[i] = n
      BY <2>5, <2>6, <3>2
    <3> QED BY <1>2, <1>3, <3>1, <3>2
  <2>7. ASSUME NEW i \in 1 .. Len(goalQ'), Finishes(goalQ'[i])
        PROVE  Known \/ \E j \in 1 .. i : Names(goalQ'[j])
    <3>1. CASE i \in 1 .. Len(goalQ)
      <4>1. Known \/ \E j \in 1 .. i : Names(goalQ[j])
        BY <1>10, <2>3, <2>7, <3>1 DEF AheadInv
      <4>2. \A j \in 1 .. i : goalQ'[j] = goalQ[j]
        BY <2>2, <2>3, <3>1
      <4> QED BY <4>1, <4>2
    <3>2. CASE i = Len(goalQ) + 1 /\ goalQ'[i] = n
      <4>1. PICK j \in 1 .. sent + 1 : Names(script[j])
        BY <1>3, <1>10, <2>7, <3>2 DEF TurnsComeFirst, AnnouncesFirst, GInv, GoalType
      <4>2. Known \/ \E k \in 1 .. Len(goalQ') : Names(goalQ'[k])
        BY <1>2, <2>6, <4>1
      <4>3. \A k \in 1 .. Len(goalQ') : k \in 1 .. i
        BY <2>2, <2>4, <3>2
      <4> QED BY <4>2, <4>3
    <3> QED BY <2>4, <3>1, <3>2
  <2>8. OldIsOver => OldIsOver'
    BY <1>2, <1>3 DEF OldIsOver
  <2>9. (cleared \/ status \in Terminal) /\ ~OldIsOver' => logical # NoTurn
    BY <2>8, <1>10 DEF AheadInv
  <2> QED BY <1>2, <2>1, <2>6, <2>7, <2>9, <1>10 DEF AheadInv
<1>11. ASSUME OldInv, ~closed, TurnsComeFirst PROVE OldInv'
  <2>1. goalQ \in Seq(Notifications)
    BY DEF GInv, GoalType
  <2>2. \A i \in 1 .. Len(goalQ') : \/ i \in 1 .. Len(goalQ) /\ goalQ'[i] = goalQ[i]
                                    \/ i = Len(goalQ) + 1 /\ goalQ'[i] = n
    BY <1>1, <1>4, <2>1, AppendIs
  <2>3. OldIsOver => OldIsOver'
    BY <1>2, <1>3 DEF OldIsOver
  <2>4. ASSUME n.s = "old" PROVE goalQ = <<>> /\ got = None /\ OldIsOver'
    <3>1. OldFirst(script)
      BY <1>11 DEF TurnsComeFirst, AnnouncesFirst, GInv, GoalType
    <3>2. sent + 1 = 1
      BY <1>3, <2>4, <3>1 DEF OldFirst
    <3>3. sent = 0 /\ sent' = 1 /\ script'[1] = n
      BY <1>2, <1>3, <3>2
    <3>4. goalQ = <<>> /\ got = None /\ status = "none"
      BY <1>11, <3>3 DEF OldInv
    <3> QED BY <1>2, <2>4, <3>3, <3>4 DEF OldIsOver
  <2>5. ASSUME NEW i \in 1 .. Len(goalQ'), goalQ'[i].s = "old"
        PROVE  i = 1 /\ got' = None /\ OldIsOver'
    <3>1. CASE i \in 1 .. Len(goalQ) /\ goalQ'[i] = goalQ[i]
      BY <1>2, <1>11, <2>3, <2>5, <3>1 DEF OldInv
    <3>2. CASE i = Len(goalQ) + 1 /\ goalQ'[i] = n
      <4>1. goalQ = <<>> /\ got = None /\ OldIsOver'
        BY <2>4, <2>5, <3>2
      <4> QED BY <1>2, <3>2, <4>1
    <3> QED BY <2>2, <3>1, <3>2
  <2> QED BY <1>2, <1>3, <1>11, <2>3, <2>5 DEF OldInv
<1>12. FindInv'
  BY <1>2, <1>10, <1>11 DEF GInv, FindInv, TurnsComeFirst
<1> QED BY <1>7, <1>8, <1>9, <1>12 DEF GInv

\* What changes neither the queue nor what is known.
LEMMA CallerKeeps ==
    ASSUME GInv, UNCHANGED <<observed, sent, active, down>>, HandleInv', CancelInv',
           loop \in {"register", "observe"} => loop' \in {"register", "observe"}
    PROVE  GInv'
<1>1. GoalType'
  BY DEF GInv, GoalType, observed
<1>2. AheadInv' = AheadInv /\ OldInv' = OldInv
  BY DEF AheadInv, OldInv, OldIsOver, Known, observed
<1>3. FindInv'
  BY <1>2 DEF GInv, FindInv, TurnsComeFirst, observed
<1> QED BY <1>1, <1>3 DEF GInv

LEMMA StartKeeps ==
    ASSUME GInv,
           \/ ClearGoal \/ SetGoal \/ StartFails \/ AwaitStart \/ StartSignalled
           \/ StartGivesUp
    PROVE  GInv'
<1>1. UNCHANGED <<observed, sent, active, down, loop, cancelled, target>>
  BY DEF observed, ClearGoal, SetGoal, StartFails, AwaitStart, StartSignalled,
         StartGivesUp, CleanUp, serverVars, stateVars, loopVars, handleVars
<1>2. /\ upc \in Starting
      /\ \/ upc' \in {"set", "await", "waitStart"} /\ hpc' = hpc
         \/ upc' = "idle" /\ logical # NoTurn /\ hpc' = hpc
         \/ upc' = "join" /\ hpc' = "pause"
  BY DEF ClearGoal, SetGoal, StartFails, AwaitStart, StartSignalled, StartGivesUp, CleanUp,
         Signalled, Goto, Starting, handleVars
<1>3. HandleInv' /\ CancelInv'
  BY <1>1, <1>2 DEF GInv, HandleInv, CancelInv, observed, Starting, Pulling
<1> QED BY <1>1, <1>3, CallerKeeps

LEMMA StreamKeeps ==
    ASSUME GInv,
           \/ StreamNext \/ StreamRead \/ StreamFails \/ FinishPhysicalTurn
           \/ AwaitContinuation \/ PopTurn \/ RegisterNext \/ ContinuationSignalled
           \/ StreamGivesUp
    PROVE  GInv'
<1>1. UNCHANGED <<observed, sent, active, down, loop, goal, interrupted, hpc, target, cancelled>>
  BY DEF observed, StreamNext, StreamRead, StreamFails, FinishPhysicalTurn,
         AwaitContinuation, PopTurn, RegisterNext, ContinuationSignalled, StreamGivesUp,
         serverVars, stateVars, loopVars, handleVars
<1>2. upc \in Pulling /\ upc' \in Pulling \cup {"close"}
  BY DEF StreamNext, StreamRead, StreamFails, FinishPhysicalTurn,
         AwaitContinuation, PopTurn, RegisterNext, ContinuationSignalled, StreamGivesUp,
         Goto, End, Signalled, Pulling
<1>3. HandleInv' /\ CancelInv'
  BY <1>1, <1>2 DEF GInv, HandleInv, CancelInv, observed, Starting, Pulling
<1> QED BY <1>1, <1>3, CallerKeeps

\* The goal is paused before its turns are interrupted.
LEMMA PauseKeeps == ASSUME GInv, CancelBegins \/ CloseBegins \/ PauseGoal PROVE GInv'
<1>1. UNCHANGED <<observed, sent, active, down, loop, interrupted, target>>
  BY DEF observed, CancelBegins, CloseBegins, Called, PauseGoal, serverVars, stateVars,
         loopVars
<1>2. CASE CancelBegins \/ CloseBegins
  <2>1. /\ hpc = "none" /\ upc \notin Starting /\ upc' \in {upc, "join"} /\ goal' = goal
        /\ \/ hpc' = "pause"
           \/ hpc' = "close" /\ cancelled' = cancelled
    BY <1>2 DEF CancelBegins, CloseBegins, Called, Starting, serverVars
  <2>2. logical # NoTurn /\ last # NoTurn
    BY <2>1 DEF GInv, HandleInv
  <2>3. HandleInv' /\ CancelInv'
    BY <1>1, <2>1, <2>2 DEF GInv, HandleInv, CancelInv, observed, Starting, Pulling
  <2> QED BY <1>1, <2>3, CallerKeeps
<1>3. CASE PauseGoal
  <2>1. /\ upc' = upc /\ hpc = "pause" /\ hpc' = "target"
        /\ cancelled' = "yes" => cancelled = "yes" /\ goal' = "paused"
    BY <1>3 DEF PauseGoal, Unheard, userVars
  <2>2. HandleInv' /\ CancelInv'
    BY <1>1, <2>1 DEF GInv, HandleInv, CancelInv, observed, Starting, Pulling
  <2> QED BY <1>1, <2>2, CallerKeeps
<1> QED BY <1>2, <1>3

\* What is known is interrupted, and then the turn that the server says it has.
LEMMA InterruptKeeps ==
    ASSUME GInv, InterruptTarget \/ Interrupt \/ InterruptAgain \/ InterruptFails PROVE GInv'
<1>1. UNCHANGED <<observed, sent, active, down, goal, loop, upc>> /\ interrupted \subseteq interrupted'
  BY DEF observed, InterruptTarget, Interrupt, InterruptAgain, InterruptFails, serverVars,
         stateVars, loopVars, userVars
<1>2. /\ hpc \in {"target", "interrupt", "again"} /\ hpc' \in {"interrupt", "close", "note"}
      /\ cancelled' \in {cancelled, "unheard"}
  BY DEF InterruptTarget, Interrupt, InterruptAgain, InterruptFails, HandleTo, Unheard
<1>3. hpc' = "note" => target' # NoTurn
  BY DEF InterruptTarget, Interrupt, InterruptAgain, InterruptFails, HandleTo
<1>4. HandleInv'
  BY <1>1, <1>2, <1>3 DEF GInv, HandleInv, observed
<1>5. CancelInv'
  <2>1. CASE InterruptTarget
    BY <1>1, <2>1 DEF GInv, CancelInv, observed, InterruptTarget, Starting, serverVars
  <2>2. CASE Interrupt
    BY <1>1, <2>2 DEF GInv, CancelInv, observed, Interrupt, HandleTo, Starting
  <2>3. CASE InterruptAgain
    BY <1>1, <2>3 DEF GInv, CancelInv, observed, InterruptAgain, HandleTo, Starting
  <2>4. CASE InterruptFails
    BY <1>1, <2>4 DEF GInv, CancelInv, observed, InterruptFails, Unheard, Starting, serverVars
  <2> QED BY <2>1, <2>2, <2>3, <2>4
<1> QED BY <1>1, <1>4, <1>5, CallerKeeps

\* The server's answer becomes the operation's turn.
LEMMA NoteKeeps == ASSUME GInv, NoteMismatch PROVE GInv'
<1>1. /\ UNCHANGED <<script, goalQ, got, loop, logical, cleared, status, closed, sent, active,
                     down, goal, interrupted, upc, target, cancelled>>
      /\ hpc = "note" /\ hpc' = "again" /\ last' = target
  BY DEF NoteMismatch, HandleTo, serverVars, loopVars, userVars
<1>2. GoalType'
  BY <1>1 DEF GInv, GoalType
<1>3. HandleInv' /\ CancelInv'
  BY <1>1 DEF GInv, HandleInv, CancelInv, Starting
<1>4. AheadInv' = AheadInv /\ OldInv' = OldInv
  BY <1>1 DEF AheadInv, OldInv, OldIsOver, Known
<1>5. FindInv'
  BY <1>1, <1>4 DEF GInv, FindInv, TurnsComeFirst
<1> QED BY <1>2, <1>3, <1>5 DEF GInv

\* The route is given up, or the transport fails.
LEMMA CloseKeeps == ASSUME GInv, Close \/ Join \/ TransportFails PROVE GInv'
<1>1. /\ UNCHANGED <<script, goalQ, got, loop, logical, last, cleared, status, sent, active,
                     interrupted, goal, target, cancelled>>
      /\ \/ down' = TRUE /\ UNCHANGED <<upc, hpc, closed>>
         \/ /\ down' = down /\ closed' = TRUE
            /\ \/ upc = "close" /\ upc' = "join" /\ hpc' = hpc
               \/ upc = "join" /\ upc' = "done" /\ hpc' = hpc
               \/ hpc = "close" /\ hpc' = "join" /\ upc' = upc
               \/ hpc = "join" /\ hpc' = "done" /\ upc' = upc
  <2>1. CASE Close
    BY <2>1 DEF Close, Goto, HandleTo, serverVars, stateVars, loopVars, userVars, handleVars
  <2>2. CASE Join
    BY <2>2 DEF Join, Goto, HandleTo, serverVars, stateVars, loopVars, userVars, handleVars,
                GInv, GoalType
  <2>3. CASE TransportFails
    BY <2>3 DEF TransportFails, stateVars, loopVars, userVars, handleVars
  <2> QED BY <2>1, <2>2, <2>3
<1>2. GoalType'
  BY <1>1 DEF GInv, GoalType
<1>3. HandleInv' /\ CancelInv'
  BY <1>1 DEF GInv, HandleInv, CancelInv, Starting, Pulling
<1>4. AheadInv' = AheadInv /\ OldInv' = OldInv
  BY <1>1 DEF AheadInv, OldInv, OldIsOver, Known
<1>5. FindInv'
  BY <1>1, <1>4 DEF GInv, FindInv, TurnsComeFirst
<1> QED BY <1>2, <1>3, <1>5 DEF GInv

\* The loop takes a notification from the queue ...
LEMMA ReceiveKeeps == ASSUME GInv, LoopReceive PROVE GInv'
<1>1. /\ UNCHANGED <<script, logical, last, cleared, status, closed, sent, active, down,
                     interrupted, goal, upc, hpc, target, cancelled>>
      /\ goalQ # <<>> /\ goalQ' = Tail(goalQ) /\ got' = Head(goalQ)
      /\ loop = "select" /\ loop' \in {"register", "observe"}
  BY DEF LoopReceive, serverVars, stateVars, userVars, handleVars
<1>2. /\ goalQ \in Seq(Notifications) /\ Tail(goalQ) \in Seq(Notifications)
      /\ Head(goalQ) \in Notifications /\ Head(goalQ) = goalQ[1] /\ 1 \in 1 .. Len(goalQ)
      /\ Len(goalQ) = Len(Tail(goalQ)) + 1
      /\ \A i \in 1 .. Len(Tail(goalQ)) : Tail(goalQ)[i] = goalQ[i + 1]
  BY <1>1 DEF GInv, GoalType
<1>3. GoalType'
  BY <1>1, <1>2 DEF GInv, GoalType
<1>4. HandleInv' /\ CancelInv'
  BY <1>1 DEF GInv, HandleInv, CancelInv
<1>5. ASSUME AheadInv PROVE AheadInv'
  <2>1. Known' <=> logical # NoTurn \/ Names(goalQ[1])
    BY <1>1, <1>2 DEF Known
  <2>2. Known => logical # NoTurn
    BY <1>1 DEF GInv, GoalType, Known, Names, None
  <2>3. Finishes(goalQ[1]) => Known'
    <3>1. ASSUME Finishes(goalQ[1]) PROVE Known \/ \E j \in 1 .. 1 : Names(goalQ[j])
      BY <1>2, <1>5, <3>1 DEF AheadInv
    <3> QED BY <2>1, <2>2, <3>1
  <2>4. \A j \in 1 .. Len(goalQ) : Names(goalQ[j]) =>
            Known' \/ (j - 1 \in 1 .. Len(goalQ') /\ Names(goalQ'[j - 1]))
    <3> SUFFICES ASSUME NEW j \in 1 .. Len(goalQ), Names(goalQ[j]), ~Known'
                 PROVE  j - 1 \in 1 .. Len(goalQ') /\ Names(goalQ'[j - 1])
      OBVIOUS
    <3>1. j # 1
      BY <2>1
    <3>2. j - 1 \in 1 .. Len(goalQ') /\ goalQ'[j - 1] = goalQ[j]
      BY <1>1, <1>2, <3>1
    <3> QED BY <3>2
  <2>5. ASSUME NEW i \in 1 .. Len(goalQ'), Finishes(goalQ'[i])
        PROVE  Known' \/ \E j \in 1 .. i : Names(goalQ'[j])
    <3>1. i + 1 \in 1 .. Len(goalQ) /\ Finishes(goalQ[i + 1]) /\ i \in Nat
      BY <1>1, <1>2, <2>5
    <3>2. Known \/ \E j \in 1 .. i + 1 : Names(goalQ[j])
      BY <1>5, <3>1 DEF AheadInv
    <3>3. ASSUME NEW j \in 1 .. i + 1, Names(goalQ[j]), ~Known'
          PROVE  j - 1 \in 1 .. i /\ Names(goalQ'[j - 1])
      <4>1. j \in 1 .. Len(goalQ)
        BY <1>2, <3>1
      <4>2. j - 1 \in 1 .. Len(goalQ') /\ Names(goalQ'[j - 1])
        BY <2>4, <3>3, <4>1
      <4> QED BY <3>1, <4>2
    <3> QED BY <2>1, <2>2, <3>2, <3>3
  <2>6. ASSUME NEW i \in 1 .. sent, Names(script[i])
        PROVE  Known' \/ \E j \in 1 .. Len(goalQ') : Names(goalQ'[j])
    <3>1. Known \/ \E j \in 1 .. Len(goalQ) : Names(goalQ[j])
      BY <1>5, <2>6 DEF AheadInv
    <3> QED BY <2>1, <2>2, <2>4, <3>1
  <2>7. got' = goalQ[1]
    BY <1>1, <1>2
  <2>8. OldIsOver' = OldIsOver
    BY <1>1 DEF OldIsOver
  <2> QED BY <1>1, <1>5, <2>3, <2>5, <2>6, <2>7, <2>8 DEF AheadInv
<1>6. ASSUME OldInv PROVE OldInv'
  <2>1. OldIsOver' = OldIsOver
    BY <1>1 DEF OldIsOver
  <2>2. sent' # 0
    BY <1>1, <1>6 DEF OldInv
  <2>3. got'.s = "old" => OldIsOver
    BY <1>1, <1>2, <1>6 DEF OldInv
  <2>4. ASSUME NEW i \in 1 .. Len(goalQ'), goalQ'[i].s = "old" PROVE FALSE
    <3>1. i + 1 \in 1 .. Len(goalQ) /\ goalQ[i + 1].s = "old" /\ i + 1 # 1
      BY <1>1, <1>2, <2>4
    <3> QED BY <1>6, <3>1 DEF OldInv
  <2> QED BY <2>1, <2>2, <2>3, <2>4 DEF OldInv
<1>7. FindInv'
  BY <1>1, <1>5, <1>6 DEF GInv, FindInv, TurnsComeFirst
<1> QED BY <1>3, <1>4, <1>7 DEF GInv

\* ... and tells the operation's state of it.
LEMMA ObserveKeeps == ASSUME GInv, LoopObserve PROVE GInv'
<1>1. /\ UNCHANGED <<script, goalQ, closed, sent, active, down, interrupted, goal, upc, hpc,
                     target, cancelled>>
      /\ got' = None /\ ObserveGoalNotification(got)
  BY DEF LoopObserve, serverVars, userVars, handleVars
<1>2. got \in Notifications
  BY <1>1 DEF GInv, GoalType, None, ObserveGoalNotification
<1>3. got.m \in {"updated", "cleared"} \/ got.s = "none"
  BY <1>2 DEF Notifications
<1>4. got.m \in {"started", "completed", "failed"} => got.t # NoTurn
  BY <1>2, GoalAssumption DEF Notifications
<1>5. /\ logical # NoTurn => logical' = logical
      /\ Names(got) => logical' # NoTurn
      /\ last' = last \/ (last' = got.t /\ got.t # NoTurn)
      /\ logical' = logical \/ last' # NoTurn
  BY <1>1, <1>4 DEF ObserveGoalNotification, NoteTurnID, Completed, Names
<1>6. /\ status' = status \/ (status' = got.s /\ got.m = "updated")
      /\ cleared' \in BOOLEAN
      /\ cleared' => cleared \/ got.m = "cleared"
  <2>1. CASE got.m = "updated" /\ got.s # "invalid"
    <3>1. status' = got.s /\ cleared' = (cleared /\ got.s # "active")
      BY <1>1, <2>1 DEF ObserveGoalNotification
    <3> QED BY <2>1, <3>1
  <2>2. CASE got.m # "updated" \/ got.s = "invalid"
    <3>1. status' = status /\ (cleared' = cleared \/ (cleared' = TRUE /\ got.m = "cleared"))
      BY <1>1, <2>2 DEF ObserveGoalNotification
    <3>2. cleared \in BOOLEAN
      BY DEF GInv, GoalType
    <3>3. CASE cleared' = cleared
      BY <3>1, <3>2, <3>3, Zenon
    <3>4. CASE cleared' = TRUE /\ got.m = "cleared"
      BY <3>1, <3>4, Zenon
    <3> QED BY <3>1, <3>3, <3>4, Zenon
  <2> QED BY <2>1, <2>2
<1>7. GoalType'
  BY <1>1, <1>6 DEF GInv, GoalType
<1>8. HandleInv' /\ CancelInv'
  BY <1>1, <1>5 DEF GInv, HandleInv, CancelInv
<1>9. ASSUME AheadInv, OldInv PROVE AheadInv'
  <2>1. Known => logical' # NoTurn
    BY <1>5 DEF Known
  <2>2. (cleared' \/ status' \in Terminal) /\ ~OldIsOver' => logical' # NoTurn
    <3>1. Finishes(got) => logical' # NoTurn
      BY <1>9, <2>1 DEF AheadInv
    <3>2. CASE got.m = "updated" /\ got.s # "invalid"
      <4>1. status' = got.s /\ (cleared' => got.s # "active")
        BY <1>1, <3>2 DEF ObserveGoalNotification
      <4>2. got.s \in {"active"} \cup Terminal
        BY <1>2, <3>2 DEF Notifications
      <4> QED BY <3>1, <4>1, <4>2 DEF Finishes, Terminal
    <3>3. CASE got.m = "cleared"
      <4>1. status' = status
        BY <1>1, <3>3 DEF ObserveGoalNotification
      <4>2. OldIsOver' = OldIsOver
        BY <1>1, <4>1 DEF OldIsOver
      <4> QED BY <1>9, <3>1, <3>3, <4>2 DEF OldInv, Finishes
    <3>4. CASE got.m \notin {"updated", "cleared"} \/ (got.m = "updated" /\ got.s = "invalid")
      <4>1. status' = status /\ cleared' = cleared
        BY <1>1, <3>4 DEF ObserveGoalNotification
      <4>2. OldIsOver' = OldIsOver
        BY <1>1, <4>1 DEF OldIsOver
      <4> QED BY <1>5, <1>9, <4>1, <4>2 DEF AheadInv
    <3> QED BY <3>2, <3>3, <3>4
  <2>3. ~Finishes(got')
    BY <1>1 DEF Finishes, None, Terminal
  <2>4. Known => Known'
    BY <2>1 DEF Known
  <2> QED BY <1>1, <1>9, <2>2, <2>3, <2>4 DEF AheadInv
<1>10. ASSUME OldInv PROVE OldInv'
  <2>1. got # None
    BY <1>2, GoalAssumption DEF None, Notifications
  <2>2. \A i \in 1 .. Len(goalQ) : goalQ[i].s # "old"
    BY <1>10, <2>1 DEF OldInv
  <2>3. sent # 0
    BY <1>10, <2>1 DEF OldInv
  <2> QED BY <1>1, <2>2, <2>3 DEF OldInv, None
<1>11. FindInv'
  BY <1>1, <1>9, <1>10 DEF GInv, FindInv, TurnsComeFirst
<1> QED BY <1>7, <1>8, <1>11 DEF GInv

LEMMA LoopKeeps ==
    ASSUME GInv, LoopCall \/ LoopRegister \/ LoopFails \/ LoopCancelled \/ UNCHANGED vars
    PROVE  GInv'
<1>1. /\ UNCHANGED <<observed, sent, active, down, interrupted, goal, upc, hpc, target,
                     cancelled>>
      /\ loop \in {"register", "observe"} => loop' \in {"register", "observe"}
  BY DEF observed, LoopCall, LoopRegister, LoopFails, LoopCancelled, serverVars,
         stateVars, loopVars, userVars, handleVars, vars
<1>2. HandleInv' /\ CancelInv'
  BY <1>1 DEF GInv, HandleInv, CancelInv, observed
<1> QED BY <1>1, <1>2, CallerKeeps

LEMMA GoalStepKeeps == GInv /\ [Next]_vars => GInv'
<1> SUFFICES ASSUME GInv, [Next]_vars PROVE GInv'
  OBVIOUS
<1>1. CASE Server \/ TransportFails
  BY <1>1, ServerKeeps, CloseKeeps
<1>2. CASE RouteLoop
  BY <1>2, LoopKeeps, ReceiveKeeps, ObserveKeeps DEF RouteLoop
<1>3. CASE Caller
  BY <1>3, StartKeeps, StreamKeeps DEF Caller
<1>4. CASE Closer
  BY <1>4, PauseKeeps, InterruptKeeps, NoteKeeps, CloseKeeps DEF Closer
<1>5. CASE Choices
  BY <1>5, StartKeeps, StreamKeeps, PauseKeeps DEF Choices
<1>6. CASE Returned \/ UNCHANGED vars
  BY <1>6, LoopKeeps DEF Returned
<1> QED BY <1>1, <1>2, <1>3, <1>4, <1>5, <1>6 DEF Next

\* A goal that was cancelled while the server answers leaves no turn running, however far
\* the route loop lags behind and whatever turns follow one another meanwhile.
THEOREM CancelsStopTurns == Spec => []CancelStopsTurns
<1>1. Init => GInv
  BY GoalInit
<1>2. GInv /\ [Next]_vars => GInv'
  BY GoalStepKeeps
<1>3. GInv => CancelStopsTurns
  BY DEF GInv, CancelInv, CancelStopsTurns
<1> QED BY <1>1, <1>2, <1>3, PTL DEF Spec

\* StartGoal reports that the goal ended without a turn only if it has none, however the
\* turn, the end of the goal, the route loop and awaitStart follow one another, provided that
\* the server announces a turn before the goal's end; or because of the end of the goal
\* that was cleared, and then only before the route loop has heard of the new one.
THEOREM StartsFindTurns ==
    ASSUME \A s \in Scripts : AnnouncesFirst(s)
    PROVE  Spec => StartFindsTurn
<1>1. Init => GInv
  BY GoalInit
<1>2. GInv /\ [Next]_vars => GInv'
  BY GoalStepKeeps
<1>3. GInv /\ [Next]_vars =>
         [outcome' = "no turn" /\ outcome # "no turn" =>
             \/ TurnsOf(script) = <<>>
             \/ status = "none" /\ \E i \in 1 .. sent : script[i].s = "old"]_vars
  <2> SUFFICES ASSUME GInv, Next, outcome' = "no turn", outcome # "no turn"
               PROVE  TurnsOf(script) = <<>> \/ OldIsOver
    BY DEF OldIsOver
  <2>1. upc = "await" /\ logical = NoTurn /\ Ended
    <3>1. CASE Server \/ TransportFails \/ RouteLoop \/ Closer \/ Returned
      <4>1. outcome' = outcome
        BY <3>1 DEF Server, TransportFails, RouteLoop, LoopCall, LoopReceive, LoopRegister,
           LoopObserve, LoopFails, LoopCancelled, Closer, PauseGoal, InterruptTarget, Interrupt,
           NoteMismatch, InterruptAgain, InterruptFails, Close, Join, Returned, Goto, userVars,
           vars
      <4> QED BY <4>1
    <3>2. CASE Caller
      <4>1. AwaitStart \/ outcome' \in {outcome, "error", "end"}
        BY <3>2 DEF Caller, ClearGoal, SetGoal, StartFails, StartSignalled, StreamNext,
           StreamRead, StreamFails, FinishPhysicalTurn, AwaitContinuation, PopTurn,
           RegisterNext, ContinuationSignalled, Goto, End, CleanUp, Signalled
      <4> QED BY <4>1 DEF AwaitStart, CleanUp, Goto
    <3>3. CASE Choices
      <4>1. outcome' \in {outcome, "error", "left"}
        BY <3>3 DEF Choices, StartGivesUp, StreamGivesUp, CancelBegins, CloseBegins, Called,
           CleanUp
      <4> QED BY <4>1
    <3> QED BY <3>1, <3>2, <3>3 DEF Next
  <2>2. ~closed
    BY <2>1 DEF GInv, CancelInv, Starting
  <2>3. TurnsOf(script) = <<>> \/ AheadInv
    BY <2>2 DEF GInv, FindInv, TurnsComeFirst
  <2> QED BY <2>1, <2>3 DEF AheadInv, Ended
<1> QED BY <1>1, <1>2, <1>3, PTL DEF Spec, StartFindsTurn

-----------------------------------------------------------------------------
(* Lists of positions *)

LEMMA RankIs ==
    ASSUME NEW S \in SUBSET Nat, IsFiniteSet(S), NEW k \in S
    PROVE  /\ Cardinality({j \in S : j =< k}) \in 1 .. Cardinality(S)
           /\ IsFiniteSet({j \in S : j =< k})
<1> DEFINE R == {j \in S : j =< k}
<1>1. R \subseteq S /\ k \in R
  OBVIOUS
<1> HIDE DEF R
<1>2. IsFiniteSet(R) /\ Cardinality(R) =< Cardinality(S)
  BY <1>1, FS_Subset
<1>3. Cardinality(R) \in Nat /\ Cardinality(S) \in Nat /\ Cardinality(R) # 0
  BY <1>1, <1>2, FS_CardinalityType, FS_EmptySet
<1>4. Cardinality(R) \in 1 .. Cardinality(S) /\ IsFiniteSet(R)
  BY <1>2, <1>3
<1> QED BY <1>4 DEF R

LEMMA ListsNone == Lists(<<>>, {})
BY FS_EmptySet DEF Lists

LEMMA ListsLen ==
    ASSUME NEW S \in SUBSET Nat, IsFiniteSet(S), NEW q, Lists(q, S)
    PROVE  Len(q) \in Nat /\ (Len(q) = 0 <=> S = {})
BY FS_EmptySet, FS_CardinalityType DEF Lists

\* What comes later is listed last.
LEMMA ListsAppend ==
    ASSUME NEW S \in SUBSET Nat, IsFiniteSet(S), NEW N, NEW q \in Seq(N), Lists(q, S),
           NEW k \in Nat, \A j \in S : j < k, script[k] \in N
    PROVE  Lists(Append(q, script[k]), S \cup {k})
<1> DEFINE U == S \cup {k}  a == Append(q, script[k])
<1>1. k \notin S
  OBVIOUS
<1>2. Cardinality(U) = Cardinality(S) + 1 /\ Cardinality(S) \in Nat /\ IsFiniteSet(U)
  BY <1>1, FS_AddElement, FS_CardinalityType
<1>3. Len(q) = Cardinality(S)
  BY DEF Lists
<1>4. Len(a) = Len(q) + 1 /\ a[Len(q) + 1] = script[k] /\ \A i \in 1 .. Len(q) : a[i] = q[i]
  BY AppendIs
<1>5. ASSUME NEW i \in S PROVE a[Cardinality({j \in U : j =< i})] = script[i]
  <2>1. {j \in U : j =< i} = {j \in S : j =< i}
    OBVIOUS
  <2>2. Cardinality({j \in S : j =< i}) \in 1 .. Len(q)
    BY <1>3, RankIs
  <2>3. q[Cardinality({j \in S : j =< i})] = script[i]
    BY DEF Lists
  <2> HIDE DEF a, U
  <2> QED BY <1>4, <2>1, <2>2, <2>3
<1>6. a[Cardinality({j \in U : j =< k})] = script[k]
  <2>1. {j \in U : j =< k} = U
    <3>1. \A j \in U : j =< k
      OBVIOUS
    <3> HIDE DEF U
    <3> QED BY <3>1
  <2> HIDE DEF a, U
  <2> QED BY <1>2, <1>3, <1>4, <2>1
<1>7. \A i \in U : a[Cardinality({j \in U : j =< i})] = script[i]
  BY <1>5, <1>6
<1> HIDE DEF a, U
<1>8. Lists(a, U)
  BY <1>2, <1>3, <1>4, <1>7 DEF Lists
<1> QED BY <1>8 DEF a, U

LEMMA LeastIs ==
    ASSUME NEW S \in SUBSET Nat, S # {} PROVE \E m \in S : \A j \in S : m =< j
<1>1. PICK i \in S : \A k \in S : ~(<<k, i>> \in OpToRel(<, Nat))
  BY NatLessThanWellFounded, WFMin, Zenon
<1>2. \A k \in S : ~(k < i)
  BY <1>1 DEF OpToRel
<1> QED BY <1>2

\* The first of a list is the least of its positions.
LEMMA ListsHead ==
    ASSUME NEW S \in SUBSET Nat, IsFiniteSet(S), NEW N, NEW q \in Seq(N), Lists(q, S), q # <<>>
    PROVE  \E m \in S : /\ \A j \in S : m =< j
                        /\ Head(q) = script[m] /\ Lists(Tail(q), S \ {m})
<1>1. Len(q) = Cardinality(S) /\ Len(q) \in Nat /\ Len(q) # 0
  BY DEF Lists
<1>2. S # {}
  BY <1>1, FS_EmptySet
<1>3. PICK m \in S : \A j \in S : m =< j
  BY <1>2, LeastIs
<1> DEFINE U == S \ {m}  a == Tail(q)
<1>4. Cardinality(U) = Cardinality(S) - 1 /\ IsFiniteSet(U) /\ U \subseteq Nat
  BY FS_RemoveElement
<1>5. Len(a) = Len(q) - 1 /\ Head(q) = q[1] /\ \A i \in 1 .. Len(q) - 1 : a[i] = q[i + 1]
  BY <1>1
<1>6. Head(q) = script[m]
  <2>1. {j \in S : j =< m} = {m}
    <3>1. \A j \in S : j =< m => j = m
      BY <1>3
    <3>2. m \in S /\ m =< m
      BY <1>3
    <3> QED BY <3>1, <3>2
  <2>2. Cardinality({j \in S : j =< m}) = 1
    BY <2>1, FS_Singleton
  <2> QED BY <1>5, <2>2 DEF Lists
<1>7. ASSUME NEW i \in U PROVE a[Cardinality({j \in U : j =< i})] = script[i]
  <2> DEFINE R == {j \in S : j =< i}
  <2>1. {j \in U : j =< i} = R \ {m}
    OBVIOUS
  <2>2. m \in R /\ i \in S /\ i \in Nat
    BY <1>3
  <2>3. Cardinality(R) \in 1 .. Len(q) /\ IsFiniteSet(R)
    BY <1>1, <2>2, RankIs
  <2>4. Cardinality(R \ {m}) = Cardinality(R) - 1
    <3> HIDE DEF R
    <3> QED BY <2>2, <2>3, FS_RemoveElement
  <2>5. Cardinality(R \ {m}) \in 1 .. Cardinality(U)
    <3>1. Cardinality({j \in U : j =< i}) \in 1 .. Cardinality(U)
      <4> HIDE DEF U
      <4> QED BY <1>4, RankIs
    <3> QED BY <2>1, <3>1
  <2>6. q[Cardinality(R)] = script[i]
    BY <2>2 DEF Lists
  <2> HIDE DEF a, U, R
  <2>7. Cardinality(R) - 1 \in 1 .. Len(q) - 1 /\ (Cardinality(R) - 1) + 1 = Cardinality(R)
    BY <1>1, <1>4, <2>3, <2>4, <2>5
  <2> QED BY <1>5, <2>1, <2>4, <2>6, <2>7
<1> HIDE DEF a, U
<1>8. Lists(a, U)
  BY <1>1, <1>4, <1>5, <1>7 DEF Lists
<1> QED BY <1>3, <1>6, <1>8 DEF a, U

-----------------------------------------------------------------------------
(* The turns of a script *)

TurnOf(k) == script[k].t
Positions == 1 .. Len(script)

\* Turn u comes before turn v.
Before(u, v) ==
    /\ u # v /\ u # NoTurn /\ v # NoTurn
    /\ \E i, j \in Positions : i < j /\ TurnOf(i) = u /\ TurnOf(j) = v

\* The server has named turn t up to position o.
NamedBy(t, o) == \E k \in 1 .. o : Names(script[k]) /\ TurnOf(k) = t

\* After position p nothing but turn t comes before the end of turn t.
AheadAt(t, p) ==
    \A j, k \in p + 1 .. Len(script) : j < k /\ TurnOf(k) = t => TurnOf(j) \in {NoTurn, t}

LEMMA BeforeAll ==
    ASSUME Orderly(script), Len(script) \in Nat, NEW u, NEW v, Before(u, v),
           NEW i \in Positions, NEW j \in Positions, TurnOf(i) = u, TurnOf(j) = v
    PROVE  i < j
<1>1. PICK a, b \in Positions : a < b /\ TurnOf(a) = u /\ TurnOf(b) = v
  BY DEF Before
<1>2. \A x, z \in Positions : x < z /\ TurnOf(x) = TurnOf(z) /\ TurnOf(x) # NoTurn =>
         \A y \in x .. z : TurnOf(y) \in {NoTurn, TurnOf(x)}
  BY DEF Orderly, Positions, TurnOf
<1>3. u # v /\ u # NoTurn /\ v # NoTurn
  BY DEF Before
<1>4. i # j
  BY <1>3
<1>5. ASSUME j < i PROVE FALSE
  <2>1. CASE j < a
    <3>1. TurnOf(a) \in {NoTurn, TurnOf(j)}
      <4>1. j < b /\ a \in j .. b
        BY <1>1, <2>1 DEF Positions
      <4> QED BY <1>1, <1>2, <1>3, <4>1
    <3> QED BY <1>1, <1>3, <3>1
  <2>2. CASE a < j
    <3>1. TurnOf(j) \in {NoTurn, TurnOf(a)}
      <4>1. a < i /\ j \in a .. i
        BY <1>1, <1>5, <2>2 DEF Positions
      <4> QED BY <1>1, <1>2, <1>3, <4>1
    <3> QED BY <1>1, <1>3, <3>1
  <2> QED BY <1>1, <1>3, <2>1, <2>2 DEF Positions
<1> QED BY <1>4, <1>5 DEF Positions

LEMMA BeforeAsym ==
    ASSUME Orderly(script), Len(script) \in Nat, NEW u, NEW v, Before(u, v) PROVE ~Before(v, u)
<1> SUFFICES ASSUME Before(v, u) PROVE FALSE
  OBVIOUS
<1>1. PICK a, b \in Positions : a < b /\ TurnOf(a) = v /\ TurnOf(b) = u
  BY DEF Before
<1>2. b < a
  BY <1>1, BeforeAll
<1> QED BY <1>1, <1>2 DEF Positions

LEMMA BeforeTrans ==
    ASSUME Orderly(script), Len(script) \in Nat, NEW u, NEW v, NEW w, Before(u, v), Before(v, w)
    PROVE  Before(u, w)
<1>1. PICK a, b \in Positions : a < b /\ TurnOf(a) = u /\ TurnOf(b) = v
  BY DEF Before
<1>2. PICK c, d \in Positions : c < d /\ TurnOf(c) = v /\ TurnOf(d) = w
  BY DEF Before
<1>3. b < d
  BY <1>1, <1>2, BeforeAll
<1>4. a < d
  BY <1>1, <1>3 DEF Positions
<1>5. u # w
  BY BeforeAsym
<1> QED BY <1>1, <1>2, <1>4, <1>5 DEF Before

\* Every turn of the script is named, in the order of the turns.
LEMMA NamedBefore ==
    ASSUME Orderly(script), Len(script) \in Nat, NEW o \in 0 .. Len(script),
           NEW u, NEW v, Before(u, v), NamedBy(v, o)
    PROVE  NamedBy(u, o)
<1>1. PICK a \in Positions : TurnOf(a) = u /\ u # NoTurn
  BY DEF Before
<1>2. PICK b \in Positions : Names(script[b]) /\ TurnOf(b) = u
  BY <1>1 DEF Orderly, Positions, TurnOf
<1>3. PICK c \in 1 .. o : Names(script[c]) /\ TurnOf(c) = v
  BY DEF NamedBy
<1>4. c \in Positions
  BY DEF Positions
<1>5. b < c
  BY <1>2, <1>3, <1>4, BeforeAll
<1>6. b \in 1 .. o
  BY <1>5 DEF Positions
<1> QED BY <1>2, <1>6 DEF NamedBy

\* A turn that has been named comes next if all that was named before it is over.
LEMMA NextAhead ==
    ASSUME Orderly(script), Len(script) \in Nat, NEW o \in 0 .. Len(script), NEW v, NamedBy(v, o),
           NEW p \in 0 .. Len(script),
           \A u : NamedBy(u, o) /\ Before(u, v) => \A j \in p + 1 .. Len(script) : TurnOf(j) # u
    PROVE  AheadAt(v, p)
<1> SUFFICES ASSUME NEW j \in p + 1 .. Len(script), NEW k \in p + 1 .. Len(script), j < k,
                    TurnOf(k) = v, TurnOf(j) # NoTurn, TurnOf(j) # v
             PROVE  FALSE
  BY DEF AheadAt
<1>1. j \in Positions /\ k \in Positions
  BY DEF Positions
<1>2. v # NoTurn
  BY DEF NamedBy, Names, TurnOf
<1>3. Before(TurnOf(j), v)
  BY <1>1, <1>2 DEF Before
<1>4. NamedBy(TurnOf(j), o)
  BY <1>3, NamedBefore
<1> QED BY <1>3, <1>4

-----------------------------------------------------------------------------
(* Where the stream is *)

Ending    == {"finish", "finishFailed", "continue", "waitTurn", "pop"}
Streaming == Starting \cup Ending \cup {"idle", "read", "register"}
Listening == {"register", "observe"}

\* The turn the stream is at, or goes on with.
Base == IF upc = "register" THEN next ELSE IF turn = NoTurn THEN logical ELSE turn

TurnAt(t, p) == {k \in p + 1 .. sent : TurnOf(k) = t}
GoalAt(r, z) == {k \in r + 1 .. z : script[k].m # "item"}

\* The stream has come to position p: each turn's mailbox has the turn's notifications after
\* p, and only a turn that is over has none.
QueuesAt(p) ==
    /\ turnQ \in [Turns -> Seq(Notifications)]
    /\ turnRoute \in [Turns -> {"none", "open", "closed"}]
    /\ \A t \in Turns : Lists(turnQ[t], TurnAt(t, p))
    /\ \A t \in Turns : turnRoute[t] = "closed" =>
          \E k \in 1 .. p : TurnOf(k) = t /\ script[k].m \in {"completed", "failed"}

\* The caller has got what is shown up to p, but for a turn's end that it works on; no other
\* turn comes before the one it is to read.
PlaceAt(p) ==
    /\ delivered \in Seq(Notifications) /\ {turn, next} \subseteq Turns \cup {NoTurn}
    /\ upc \notin Ending => Lists(delivered, Shown(p))
    /\ upc \in Ending =>
          /\ p # 0 /\ Lists(delivered, Shown(p - 1))
          /\ TurnOf(p) = turn
          /\ script[p].m = IF upc = "finishFailed" THEN "failed" ELSE "completed"
    /\ upc \in Starting => turn = NoTurn
    /\ upc \in Ending \cup {"read", "register"} => turn # NoTurn
    /\ upc = "register" => next # NoTurn /\ AheadAt(next, p)
    /\ turn = NoTurn => p = 0
    /\ turn # NoTurn => AheadAt(turn, p)
    /\ outcome = "none"

\* The goal has ended, or the old one has and the loop has not heard of the new one.
OverAt(i, o) ==
    \/ Finishes(script[i])
    \/ script[i].s = "old" /\ \A j \in i .. o : ~Renews(script[j])

\* The route loop has observed what the server sent up to o, and works on position r; what
\* was sent after position z has not been routed to it, as its route has been given up.
LoopAt(r, o) ==
    /\ \E z \in r .. sent : (closed \/ z = sent) /\ Lists(goalQ, GoalAt(r, z))
    /\ loop \notin Listening => o = r
    /\ loop \in Listening => r # 0 /\ o = r - 1 /\ got = script[r]
    /\ Ended => \E i \in 1 .. o : OverAt(i, o)

\* The first turn named is the logical turn's.
FirstAt(o) ==
    /\ logical \in Turns \cup {NoTurn}
    /\ logical = NoTurn => \A t : ~NamedBy(t, o)
    /\ logical # NoTurn =>
          NamedBy(logical, o) /\ \A t : NamedBy(t, o) => t = logical \/ Before(logical, t)

\* The turns that have been named and come after the stream's are pending, in order.
PendingAt(o) ==
    /\ pending \in Seq(Turns)
    /\ Base = NoTurn => pending = <<>>
    /\ Base # NoTurn => NamedBy(Base, o)
    /\ \A i \in 1 .. Len(pending) :
          NamedBy(pending[i], o) /\ (pending[i] = Base \/ Before(Base, pending[i]))
    /\ \A i, j \in 1 .. Len(pending) : i < j => Before(pending[i], pending[j])
    /\ \A t : NamedBy(t, o) =>
          t = Base \/ Before(t, Base) \/ \E i \in 1 .. Len(pending) : pending[i] = t
    /\ upc = "pop" => pending # <<>> /\ next = Head(pending) /\ next # turn

StreamAt(p, r, o) == QueuesAt(p) /\ PlaceAt(p) /\ LoopAt(r, o) /\ FirstAt(o) /\ PendingAt(o)

OInv ==
    /\ sent =< Len(script)
    /\ upc \in Streaming => \E p, r, o \in 0 .. sent : StreamAt(p, r, o)
    /\ upc \notin Streaming => InOrder

OrderlyServer == \A s \in Scripts : Orderly(s)

LEMMA ScriptIs ==
    ASSUME GInv, OrderlyServer
    PROVE  /\ script \in Seq(Notifications) /\ Orderly(script) /\ Len(script) \in Nat
           /\ \A k \in Positions : script[k] \in Notifications
<1>1. script \in Seq(Notifications)
  BY GoalAssumption DEF GInv, GoalType
<1> QED BY <1>1 DEF GInv, GoalType, OrderlyServer, Positions

\* What does not concern a part leaves it as it is.
LEMMA QueuesStay ==
    ASSUME NEW p, QueuesAt(p), UNCHANGED <<script, sent, turnQ>>,
           turnRoute' \in [Turns -> {"none", "open", "closed"}],
           \A t \in Turns : turnRoute'[t] = "closed" => turnRoute[t] = "closed"
    PROVE  QueuesAt(p)'
<1>1. ASSUME NEW t \in Turns PROVE Lists(turnQ[t], TurnAt(t, p))'
  <2>1. Lists(turnQ[t], TurnAt(t, p)) /\ TurnAt(t, p)' = TurnAt(t, p)
    BY DEF QueuesAt, TurnAt, TurnOf
  <2> QED BY <2>1 DEF Lists
<1>2. ASSUME NEW t \in Turns, turnRoute'[t] = "closed"
      PROVE  \E k \in 1 .. p : TurnOf(k)' = t /\ script'[k].m \in {"completed", "failed"}
  BY <1>2 DEF QueuesAt, TurnOf
<1>3. turnQ' \in [Turns -> Seq(Notifications)]
  BY DEF QueuesAt
<1> QED BY <1>1, <1>2, <1>3 DEF QueuesAt

LEMMA PlaceStays ==
    ASSUME NEW p, PlaceAt(p), UNCHANGED <<script, upc, turn, next, delivered, outcome>>
    PROVE  PlaceAt(p)'
BY DEF PlaceAt, Lists, Shown, TurnOf, AheadAt

LEMMA NamedStays ==
    ASSUME script' = script
    PROVE  /\ \A t, o : NamedBy(t, o)' = NamedBy(t, o)
           /\ \A u, v : Before(u, v)' = Before(u, v)
           /\ \A t, p : AheadAt(t, p)' = AheadAt(t, p)
           /\ \A q, S : Lists(q, S)' = Lists(q', S')
           /\ \A p : Shown(p)' = Shown(p)
           /\ \A i, o : OverAt(i, o)' = OverAt(i, o)
           /\ \A r, z : GoalAt(r, z)' = GoalAt(r, z)
BY DEF OverAt, GoalAt, NamedBy, Before, AheadAt, Lists, Shown, TurnOf, Positions

LEMMA LoopStays ==
    ASSUME NEW r, NEW o, LoopAt(r, o), UNCHANGED <<script, sent, goalQ, got, cleared, status>>,
           loop \in Listening <=> loop' \in Listening, closed => closed'
    PROVE  LoopAt(r, o)'
<1>1. PICK z \in r .. sent : (closed \/ z = sent) /\ Lists(goalQ, GoalAt(r, z))
  BY DEF LoopAt
<1>2. Lists(goalQ, GoalAt(r, z))'
  <2>1. GoalAt(r, z)' = GoalAt(r, z)
    BY DEF GoalAt
  <2> QED BY <1>1, <2>1 DEF Lists
<1>3. z \in r .. sent' /\ (closed' \/ z = sent')
  BY <1>1
<1>4. Ended' => \E i \in 1 .. o : OverAt(i, o)'
  BY DEF LoopAt, Ended, OverAt
<1> QED BY <1>2, <1>3, <1>4 DEF LoopAt

LEMMA PendingStays ==
    ASSUME NEW o, PendingAt(o), UNCHANGED <<script, pending>>, Base' = Base,
           upc' = "pop" => pending # <<>> /\ next' = Head(pending) /\ next' # turn'
    PROVE  PendingAt(o)'
BY NamedStays DEF PendingAt

LEMMA FirstStays ==
    ASSUME NEW o, FirstAt(o), UNCHANGED <<script, logical>> PROVE FirstAt(o)'
BY NamedStays DEF FirstAt

LEMMA StreamParts ==
    ASSUME NEW p, NEW r, NEW o, StreamAt(p, r, o)
    PROVE  QueuesAt(p) /\ PlaceAt(p) /\ LoopAt(r, o) /\ FirstAt(o) /\ PendingAt(o)
BY DEF StreamAt

LEMMA RangesAre ==
    ASSUME NEW a \in Nat, NEW b \in Nat, NEW S, \A k \in S : k \in a + 1 .. b
    PROVE  S \in SUBSET Nat /\ IsFiniteSet(S) /\ \A k \in S : k < b + 1
<1>1. IsFiniteSet(a + 1 .. b)
  BY FS_Interval
<1>2. S \in SUBSET (a + 1 .. b)
  OBVIOUS
<1>3. IsFiniteSet(S)
  BY <1>1, <1>2, FS_Subset
<1> QED BY <1>2, <1>3

LEMMA AtAre ==
    ASSUME sent \in Nat, NEW p \in 0 .. sent
    PROVE  /\ \A z \in p .. sent : /\ GoalAt(p, z) \in SUBSET Nat /\ IsFiniteSet(GoalAt(p, z))
                                   /\ \A k \in GoalAt(p, z) : k < z + 1
           /\ \A t : /\ TurnAt(t, p) \in SUBSET Nat /\ IsFiniteSet(TurnAt(t, p))
                    /\ \A k \in TurnAt(t, p) : k < sent + 1
<1>1. \A z \in p .. sent : z \in Nat /\ \A k \in GoalAt(p, z) : k \in p + 1 .. z
  BY DEF GoalAt
<1>2. \A t : \A k \in TurnAt(t, p) : k \in p + 1 .. sent
  BY DEF TurnAt
<1> QED BY <1>1, <1>2, RangesAre

\* The server sends: to a turn that is over it has nothing to send.
LEMMA ServerOrder ==
    ASSUME GInv, OrderlyServer, sent =< Len(script), upc \in Streaming, Server,
           NEW p \in 0 .. sent, NEW r \in 0 .. sent, NEW o \in 0 .. sent, StreamAt(p, r, o)
    PROVE  StreamAt(p, r, o)' /\ sent' =< Len(script') /\ sent' = sent + 1
<1> PICK n : n = script[sent + 1]
  OBVIOUS
<1>1. /\ sent < Len(script) /\ sent' = sent + 1
      /\ turnQ' = IF n.t \in Turns /\ turnRoute[n.t] # "closed"
                  THEN [turnQ EXCEPT ![n.t] = Append(@, n)] ELSE turnQ
      /\ goalQ' = IF n.m # "item" /\ ~closed THEN Append(goalQ, n) ELSE goalQ
  BY DEF Server, Route
<1>2. UNCHANGED <<script, turnRoute, logical, pending, cleared, status, loop, got, upc, turn, next,
                  delivered, outcome, closed>>
  BY DEF Server, stateVars, loopVars, userVars
<1>3. /\ script \in Seq(Notifications) /\ Orderly(script) /\ Len(script) \in Nat
      /\ \A k \in Positions : script[k] \in Notifications
  BY ScriptIs
<1>4. sent \in Nat /\ sent + 1 \in Positions /\ n \in Notifications
  BY <1>1, <1>3 DEF GInv, GoalType, Positions
<1>5. sent + 1 \in Nat /\ script[sent + 1] \in Notifications
  BY <1>4
<1>6. QueuesAt(p) /\ PlaceAt(p) /\ LoopAt(r, o) /\ FirstAt(o) /\ PendingAt(o)
  BY StreamParts
<1>7. QueuesAt(p)'
  <2>1. turnQ \in [Turns -> Seq(Notifications)]
    BY <1>6 DEF QueuesAt
  <2>2. ASSUME n.t \in Turns PROVE turnRoute[n.t] # "closed"
    <3> SUFFICES ASSUME turnRoute[n.t] = "closed" PROVE FALSE
      OBVIOUS
    <3>1. PICK k \in 1 .. p : TurnOf(k) = n.t /\ script[k].m \in {"completed", "failed"}
      BY <1>6, <2>2 DEF QueuesAt
    <3>2. k \in 1 .. Len(script) /\ sent + 1 \in 1 .. Len(script) /\ k < sent + 1
      BY <1>1, <1>4
    <3>3. script[sent + 1].t # script[k].t
      BY <1>3, <3>1, <3>2 DEF Orderly
    <3> QED BY <3>1, <3>3 DEF TurnOf
  <2>3. turnQ' \in [Turns -> Seq(Notifications)]
    <3>1. CASE turnQ' = turnQ
      BY <2>1, <3>1
    <3>2. CASE n.t \in Turns /\ turnQ' = [turnQ EXCEPT ![n.t] = Append(@, n)]
      <4>1. Append(turnQ[n.t], n) \in Seq(Notifications)
        BY <1>4, <2>1, <3>2, AppendIs
      <4> QED BY <2>1, <3>2, <4>1
    <3> QED BY <1>1, <3>1, <3>2
  <2>4. ASSUME NEW t \in Turns PROVE Lists(turnQ'[t], TurnAt(t, p)')
    <3>1. /\ Lists(turnQ[t], TurnAt(t, p)) /\ turnQ[t] \in Seq(Notifications)
          /\ TurnAt(t, p) \in SUBSET (p + 1 .. sent)
      BY <1>6, <2>1 DEF QueuesAt, TurnAt
    <3>2. /\ TurnAt(t, p) \in SUBSET Nat /\ IsFiniteSet(TurnAt(t, p))
          /\ \A j \in TurnAt(t, p) : j < sent + 1
      BY <1>4, AtAre
    <3>3. TurnAt(t, p)' = {k \in p + 1 .. sent + 1 : TurnOf(k) = t}
      BY <1>1, <1>2 DEF TurnAt, TurnOf
    <3>4. CASE n.t = t
      <4>1. turnQ'[t] = Append(turnQ[t], script[sent + 1])
        BY <1>1, <2>1, <2>2, <3>4
      <4>2. TurnAt(t, p)' = TurnAt(t, p) \cup {sent + 1}
        BY <1>4, <3>3, <3>4 DEF TurnAt, TurnOf
      <4>3. Lists(Append(turnQ[t], script[sent + 1]), TurnAt(t, p) \cup {sent + 1})
        BY <1>4, <1>5, <3>1, <3>2, ListsAppend
      <4> QED BY <4>1, <4>2, <4>3
    <3>5. CASE n.t # t
      <4>1. turnQ'[t] = turnQ[t]
        BY <1>1, <2>1, <3>5
      <4>2. TurnAt(t, p)' = TurnAt(t, p)
        BY <1>4, <3>3, <3>5 DEF TurnAt, TurnOf
      <4> QED BY <3>1, <4>1, <4>2
    <3> QED BY <3>4, <3>5
  <2>5. ASSUME NEW t \in Turns PROVE Lists(turnQ[t], TurnAt(t, p))'
    BY <1>2, <2>4 DEF Lists
  <2>6. \A t \in Turns : turnRoute'[t] = "closed" =>
            \E k \in 1 .. p : TurnOf(k)' = t /\ script'[k].m \in {"completed", "failed"}
    BY <1>2, <1>6 DEF QueuesAt, TurnOf
  <2> QED BY <1>2, <1>6, <2>3, <2>5, <2>6 DEF QueuesAt
<1>8. LoopAt(r, o)'
  <2>1. PICK z \in r .. sent : (closed \/ z = sent) /\ Lists(goalQ, GoalAt(r, z))
    BY <1>6 DEF LoopAt
  <2>2. goalQ \in Seq(Notifications) /\ GoalAt(r, z)' = GoalAt(r, z)
    BY <1>2, NamedStays DEF GInv, GoalType
  <2>3. GoalAt(r, z) \in SUBSET Nat /\ IsFiniteSet(GoalAt(r, z)) /\ \A j \in GoalAt(r, z) : j < z + 1
    BY <1>4, AtAre
  <2>4. \E y \in r .. sent + 1 : (closed \/ y = sent + 1) /\ Lists(goalQ, GoalAt(r, y))'
    <3>1. CASE closed
      <4>1. goalQ' = goalQ
        BY <1>1, <3>1
      <4>2. Lists(goalQ, GoalAt(r, z))'
        BY <1>2, <2>1, <2>2, <4>1, NamedStays
      <4>3. z \in r .. sent + 1
        BY <1>4
      <4> QED BY <3>1, <4>2, <4>3
    <3>2. CASE ~closed
      <4> PICK y : y = sent + 1
        OBVIOUS
      <4>1. z = sent /\ y \in r .. sent + 1
        BY <1>4, <2>1, <3>2
      <4>2. GoalAt(r, y)' = {k \in r + 1 .. sent + 1 : script[k].m # "item"}
        BY <1>1, <1>2 DEF GoalAt
      <4>3. CASE n.m # "item"
        <5>1. goalQ' = Append(goalQ, script[sent + 1])
          BY <1>1, <3>2, <4>3
        <5>2. GoalAt(r, y)' = GoalAt(r, z) \cup {sent + 1}
          BY <1>4, <4>1, <4>2, <4>3 DEF GoalAt
        <5>3. Lists(Append(goalQ, script[sent + 1]), GoalAt(r, z) \cup {sent + 1})
          BY <1>5, <2>1, <2>2, <2>3, <4>1, ListsAppend
        <5> QED BY <1>2, <4>1, <5>1, <5>2, <5>3, NamedStays
      <4>4. CASE n.m = "item"
        <5>1. goalQ' = goalQ
          BY <1>1, <4>4
        <5>2. GoalAt(r, y)' = GoalAt(r, z)
          BY <1>4, <4>1, <4>2, <4>4 DEF GoalAt
        <5> QED BY <1>2, <2>1, <4>1, <5>1, <5>2, NamedStays
      <4> QED BY <4>3, <4>4
    <3> QED BY <3>1, <3>2
  <2>5. \E y \in r .. sent' : (closed' \/ y = sent') /\ Lists(goalQ, GoalAt(r, y))'
    BY <1>1, <1>2, <2>4
  <2>6. Ended' => \E i \in 1 .. o : OverAt(i, o)'
    BY <1>2, <1>6, NamedStays DEF LoopAt, Ended
  <2>7. /\ loop' \notin Listening => o = r
        /\ loop' \in Listening => r # 0 /\ o = r - 1 /\ got' = script'[r]
    BY <1>2, <1>6 DEF LoopAt
  <2> QED BY <2>5, <2>6, <2>7 DEF LoopAt
<1>9. PlaceAt(p)' /\ FirstAt(o)'
  BY <1>2, <1>6, PlaceStays, FirstStays
<1>10. Base' = Base
  BY <1>2 DEF Base
<1>11. PendingAt(o)'
  <2>1. upc' = "pop" => pending # <<>> /\ next' = Head(pending) /\ next' # turn'
    BY <1>2, <1>6 DEF PendingAt
  <2> QED BY <1>2, <1>6, <1>10, <2>1, PendingStays
<1>12. sent' =< Len(script') /\ sent' = sent + 1
  BY <1>1, <1>2, <1>3, <1>4
<1> QED BY <1>7, <1>8, <1>9, <1>11, <1>12 DEF StreamAt

\* The loop takes the next notification that concerns the goal.
LEMMA ReceiveOrder ==
    ASSUME GInv, OrderlyServer, sent =< Len(script), upc \in Streaming, LoopReceive,
           NEW p \in 0 .. sent, NEW r \in 0 .. sent, NEW o \in 0 .. sent, StreamAt(p, r, o)
    PROVE  \E m \in 1 .. sent : StreamAt(p, m, m - 1)'
<1>1. /\ loop = "select" /\ goalQ # <<>> /\ goalQ' = Tail(goalQ) /\ got' = Head(goalQ)
      /\ loop' \in Listening
      /\ UNCHANGED <<script, sent, turnQ, turnRoute, logical, pending, cleared, status, upc, turn,
                     next, delivered, outcome, closed>>
  BY DEF LoopReceive, serverVars, stateVars, userVars, Listening
<1>2. QueuesAt(p) /\ PlaceAt(p) /\ LoopAt(r, o) /\ FirstAt(o) /\ PendingAt(o)
  BY StreamParts
<1>3. /\ sent \in Nat /\ Len(script) \in Nat /\ goalQ \in Seq(Notifications) /\ o = r
  BY <1>1, <1>2, ScriptIs DEF GInv, GoalType, LoopAt, Listening
<1>4. PICK z \in r .. sent : (closed \/ z = sent) /\ Lists(goalQ, GoalAt(r, z))
  BY <1>2 DEF LoopAt
<1> DEFINE G == GoalAt(r, z)
<1>5. PICK m \in G : /\ \A j \in G : m =< j
                     /\ Head(goalQ) = script[m] /\ Lists(Tail(goalQ), G \ {m})
  <2>1. G \in SUBSET Nat /\ IsFiniteSet(G)
    BY <1>3, AtAre
  <2> HIDE DEF G
  <2> QED BY <1>1, <1>3, <1>4, <2>1, ListsHead DEF G
<1>6. /\ m \in r + 1 .. z /\ z \in m .. sent /\ m \in 1 .. sent /\ m - 1 \in 0 .. sent
      /\ m \in Nat /\ r \in Nat /\ r =< m - 1
  BY <1>3 DEF GoalAt
<1>7. ASSUME NEW k \in r + 1 .. m - 1 PROVE script[k].m = "item"
  <2>1. k \in r + 1 .. z /\ ~(m =< k)
    BY <1>3, <1>6
  <2> QED BY <1>5, <2>1 DEF GoalAt
<1>8. LoopAt(m, m - 1)'
  <2>1. GoalAt(m, z) = G \ {m}
    BY <1>3, <1>5, <1>6 DEF GoalAt
  <2>2. Lists(goalQ, GoalAt(m, z))'
    BY <1>1, <1>5, <2>1, NamedStays
  <2>3. Ended => \E i \in 1 .. m - 1 : OverAt(i, m - 1)
    <3> SUFFICES ASSUME Ended PROVE \E i \in 1 .. m - 1 : OverAt(i, m - 1)
      OBVIOUS
    <3>1. PICK i \in 1 .. r : OverAt(i, r)
      BY <1>2, <1>3 DEF LoopAt
    <3>2. \A j \in i .. m - 1 : j \in i .. r \/ ~Renews(script[j])
      BY <1>6, <1>7 DEF Renews
    <3>3. i \in 1 .. m - 1
      BY <1>6
    <3> QED BY <3>1, <3>2, <3>3 DEF OverAt
  <2>4. Ended' => \E i \in 1 .. m - 1 : OverAt(i, m - 1)'
    BY <1>1, <2>3, NamedStays DEF Ended
  <2>5. z \in m .. sent' /\ (closed' \/ z = sent')
    BY <1>1, <1>4, <1>6
  <2> QED BY <1>1, <1>5, <1>6, <2>2, <2>4, <2>5 DEF LoopAt
<1>9. \A t : NamedBy(t, m - 1) <=> NamedBy(t, o)
  <2>1. \A k \in 1 .. m - 1 : k \in 1 .. r \/ ~Names(script[k])
    BY <1>6, <1>7 DEF Names
  <2>2. \A k \in 1 .. r : k \in 1 .. m - 1
    BY <1>6
  <2> QED BY <1>3, <2>1, <2>2 DEF NamedBy
<1>10. FirstAt(m - 1) /\ PendingAt(m - 1)
  <2>1. FirstAt(m - 1)
    BY <1>2, <1>9 DEF FirstAt
  <2>2. PendingAt(m - 1)
    BY <1>2, <1>9 DEF PendingAt
  <2> QED BY <2>1, <2>2
<1>11. Base' = Base /\ (upc' = "pop" => pending # <<>> /\ next' = Head(pending) /\ next' # turn')
  BY <1>1, <1>2 DEF Base, PendingAt
<1>12. PendingAt(m - 1)' /\ FirstAt(m - 1)'
  BY <1>1, <1>10, <1>11, PendingStays, FirstStays
<1>13. QueuesAt(p)' /\ PlaceAt(p)'
  BY <1>1, <1>2, QueuesStay, PlaceStays DEF QueuesAt
<1> QED BY <1>6, <1>8, <1>12, <1>13 DEF StreamAt

\* The rest of the loop, and the transport, change nothing the stream depends on.
LEMMA SilentOrder ==
    ASSUME upc \in Streaming, NEW p, NEW r, NEW o, StreamAt(p, r, o),
           \/ LoopCall \/ LoopRegister \/ LoopFails \/ LoopCancelled \/ TransportFails
           \/ (CancelBegins \/ CloseBegins \/ Closer \/ Returned \/ UNCHANGED vars) /\ upc' = upc
    PROVE  StreamAt(p, r, o)' /\ UNCHANGED <<script, sent, upc>>
<1>1. /\ UNCHANGED <<script, sent, turnQ, goalQ, got, logical, pending, cleared, status, upc, turn,
                     next, delivered, outcome>>
      /\ loop \in Listening <=> loop' \in Listening
      /\ closed => closed'
  <2>1. CASE \/ LoopCall \/ LoopRegister \/ LoopFails \/ LoopCancelled \/ TransportFails
             \/ Returned \/ UNCHANGED vars
    BY <2>1 DEF LoopCall, LoopRegister, LoopFails, LoopCancelled, TransportFails, Returned, vars,
       serverVars, stateVars, loopVars, userVars, Listening
  <2>2. CASE (CancelBegins \/ CloseBegins) /\ upc' = upc
    BY <2>2 DEF CancelBegins, CloseBegins, Called, serverVars, stateVars, loopVars, Streaming,
       Starting, Ending
  <2>3. CASE PauseGoal \/ InterruptTarget \/ Interrupt \/ NoteMismatch
    BY <2>3 DEF PauseGoal, InterruptTarget, Interrupt, NoteMismatch, serverVars, stateVars,
       loopVars, userVars
  <2>4. CASE (InterruptAgain \/ InterruptFails \/ Close \/ Join) /\ upc' = upc
    BY <2>4 DEF InterruptAgain, InterruptFails, Close, Join, Goto, HandleTo, serverVars, stateVars,
       loopVars, userVars
  <2> QED BY <2>1, <2>2, <2>3, <2>4 DEF Closer
<1>2. QueuesAt(p) /\ PlaceAt(p) /\ LoopAt(r, o) /\ FirstAt(o) /\ PendingAt(o)
  BY StreamParts
<1>3. /\ turnRoute' \in [Turns -> {"none", "open", "closed"}]
      /\ \A t \in Turns : turnRoute'[t] = "closed" => turnRoute[t] = "closed"
  <2>1. turnRoute \in [Turns -> {"none", "open", "closed"}]
    BY <1>2 DEF QueuesAt
  <2>2. turnRoute' = turnRoute \/ turnRoute' = [turnRoute EXCEPT ![got.t] = "open"]
    BY DEF LoopCall, LoopRegister, RegisterTurn, LoopFails, LoopCancelled, TransportFails,
       CancelBegins, CloseBegins, Called, Closer, PauseGoal, InterruptTarget, Interrupt,
       NoteMismatch, InterruptAgain, InterruptFails, Close, Join, Returned, vars
  <2> QED BY <2>1, <2>2
<1>4. Base' = Base /\ (upc' = "pop" => pending # <<>> /\ next' = Head(pending) /\ next' # turn')
  BY <1>1, <1>2 DEF Base, PendingAt
<1>5. QueuesAt(p)' /\ PlaceAt(p)'
  BY <1>1, <1>2, <1>3, QueuesStay, PlaceStays
<1>6. LoopAt(r, o)' /\ FirstAt(o)'
  BY <1>1, <1>2, LoopStays, FirstStays
<1>7. PendingAt(o)'
  BY <1>1, <1>2, <1>4, PendingStays
<1> QED BY <1>1, <1>5, <1>6, <1>7 DEF StreamAt

\* What an observation makes of the operation's state.
LEMMA ObservedIs ==
    ASSUME GInv, LoopObserve
    PROVE  /\ got \in Notifications
           /\ Ended' => Finishes(got) \/ got.s = "old" \/ (Ended /\ ~Renews(got))
           /\ ~Names(got) => UNCHANGED <<logical, pending>>
           /\ Names(got) => NoteTurnID(got.t) /\ got.t \in Turns
<1>1. ObserveGoalNotification(got)
  BY DEF LoopObserve
<1>2. got \in Notifications
  BY <1>1 DEF LoopObserve, GInv, GoalType, None, ObserveGoalNotification
<1>3. /\ got.m \notin {"updated", "cleared"} => got.s = "none"
      /\ got.m \in {"started", "completed", "failed"} => got.t \in Turns
      /\ got.t \in Turns \cup {NoTurn}
  BY <1>2 DEF Notifications
<1>4. NoTurn \notin Turns
  BY GoalAssumption
<1>5. ~Names(got) => UNCHANGED <<logical, pending>>
  BY <1>1, <1>3, <1>4 DEF ObserveGoalNotification, Names
<1>6. Names(got) => NoteTurnID(got.t) /\ got.t \in Turns
  BY <1>1, <1>3, <1>4 DEF ObserveGoalNotification, Names
<1>7. Ended' => Finishes(got) \/ got.s = "old" \/ (Ended /\ ~Renews(got))
  <2>1. CASE got.m = "updated" /\ got.s # "invalid"
    <3>1. status' = got.s /\ (cleared' => got.s # "active")
      BY <1>1, <2>1 DEF ObserveGoalNotification
    <3>2. got.s \in {"active"} \cup Terminal
      BY <1>2, <2>1 DEF Notifications
    <3> QED BY <3>1, <3>2 DEF Ended, Finishes, Terminal
  <2>2. CASE got.m = "cleared"
    BY <2>2 DEF Finishes
  <2>3. CASE got.m \notin {"updated", "cleared"} \/ (got.m = "updated" /\ got.s = "invalid")
    <3>1. status' = status /\ cleared' = cleared
      BY <1>1, <2>3 DEF ObserveGoalNotification
    <3>2. Ended' = Ended
      BY <3>1 DEF Ended
    <3> QED BY <2>3, <3>2 DEF Renews
  <2> QED BY <2>1, <2>2, <2>3
<1> QED BY <1>2, <1>5, <1>6, <1>7

\* The loop tells the operation's state of a notification: a turn it has not named before
\* comes after all that it has.
LEMMA ObserveOrder ==
    ASSUME GInv, OrderlyServer, sent =< Len(script), upc \in Streaming, LoopObserve,
           NEW p \in 0 .. sent, NEW r \in 0 .. sent, NEW o \in 0 .. sent, StreamAt(p, r, o)
    PROVE  StreamAt(p, r, r)'
<1>1. /\ loop = "observe" /\ loop' = "call"
      /\ UNCHANGED <<script, sent, turnQ, turnRoute, goalQ, upc, turn, next, delivered, outcome,
                     closed>>
  BY DEF LoopObserve, serverVars, userVars
<1>2. QueuesAt(p) /\ PlaceAt(p) /\ LoopAt(r, o) /\ FirstAt(o) /\ PendingAt(o)
  BY StreamParts
<1>3. /\ sent \in Nat /\ Len(script) \in Nat
      /\ r # 0 /\ o = r - 1 /\ got = script[r] /\ (Ended => \E i \in 1 .. o : OverAt(i, o))
  BY <1>1, <1>2, ScriptIs DEF GInv, GoalType, LoopAt, Listening
<1>4. r \in Positions /\ r \in 1 .. r /\ \A k \in 1 .. r : (k \in 1 .. o /\ k < r) \/ k = r
  BY <1>3 DEF Positions
<1>5. \A k \in 1 .. o : k \in 1 .. r /\ k \in Positions /\ k < r
  BY <1>3 DEF Positions
<1>6. /\ Ended' => Finishes(got) \/ got.s = "old" \/ (Ended /\ ~Renews(got))
      /\ ~Names(got) => UNCHANGED <<logical, pending>>
      /\ Names(got) => NoteTurnID(got.t) /\ got.t \in Turns
  BY ObservedIs
<1>7. LoopAt(r, r)'
  <2>1. \E z \in r .. sent' : (closed' \/ z = sent') /\ Lists(goalQ, GoalAt(r, z))'
    BY <1>1, <1>2, NamedStays DEF LoopAt
  <2>2. ASSUME Ended' PROVE \E i \in 1 .. r : OverAt(i, r)
    <3>1. CASE Finishes(got)
      BY <1>3, <1>4, <3>1 DEF OverAt
    <3>2. CASE got.s = "old" /\ ~Finishes(got)
      <4>1. ~Renews(script[r]) /\ script[r].s = "old"
        BY <1>3, <3>2, ObservedIs DEF Renews, Notifications, Terminal
      <4>2. OverAt(r, r)
        BY <1>3, <4>1 DEF OverAt
      <4> QED BY <1>4, <4>2
    <3>3. CASE Ended /\ ~Renews(got)
      <4>1. PICK i \in 1 .. o : OverAt(i, o)
        BY <1>3, <3>3
      <4>2. \A j \in i .. r : j \in i .. o \/ j = r
        BY <1>3
      <4>3. OverAt(i, r)
        BY <1>3, <3>3, <4>1, <4>2 DEF OverAt
      <4> QED BY <1>5, <4>3
    <3> QED BY <1>6, <2>2, <3>1, <3>2, <3>3
  <2>3. Ended' => \E i \in 1 .. r : OverAt(i, r)'
    BY <1>1, <2>2, NamedStays
  <2> QED BY <1>1, <2>1, <2>3 DEF LoopAt, Listening
<1>8. QueuesAt(p)' /\ PlaceAt(p)'
  BY <1>1, <1>2, QueuesStay, PlaceStays DEF QueuesAt
<1>9. CASE ~Names(got)
  <2>1. \A t : NamedBy(t, r) <=> NamedBy(t, o)
    BY <1>3, <1>4, <1>5, <1>9 DEF NamedBy
  <2>2. FirstAt(r)
    BY <1>2, <2>1 DEF FirstAt
  <2>3. PendingAt(r)
    BY <1>2, <2>1 DEF PendingAt
  <2>4. Base' = Base /\ (upc' = "pop" => pending # <<>> /\ next' = Head(pending) /\ next' # turn')
    BY <1>1, <1>2, <1>6, <1>9 DEF Base, PendingAt
  <2>5. FirstAt(r)' /\ PendingAt(r)'
    BY <1>1, <1>6, <1>9, <2>2, <2>3, <2>4, FirstStays, PendingStays
  <2> QED BY <1>7, <1>8, <2>5 DEF StreamAt
<1>10. CASE Names(got)
  <2> PICK t : t = got.t
    OBVIOUS
  <2>1. /\ t \in Turns /\ t # NoTurn
        /\ logical' = IF logical = NoTurn THEN t ELSE logical
        /\ pending' = IF logical \in {NoTurn, t} \/ \E i \in DOMAIN pending : pending[i] = t
                      THEN pending ELSE Append(pending, t)
    BY <1>6, <1>10, GoalAssumption DEF NoteTurnID
  <2>2. \A u : NamedBy(u, r) <=> NamedBy(u, o) \/ u = t
    BY <1>3, <1>4, <1>5, <1>10 DEF NamedBy, TurnOf
  <2>3. ASSUME NEW u, NamedBy(u, o), u # t PROVE Before(u, t)
    <3>1. PICK k \in 1 .. o : Names(script[k]) /\ TurnOf(k) = u
      BY <2>3 DEF NamedBy
    <3>2. k \in Positions /\ k < r /\ TurnOf(r) = t /\ u # NoTurn
      BY <1>3, <1>5, <3>1 DEF Names, TurnOf
    <3> QED BY <1>4, <2>1, <2>3, <3>1, <3>2 DEF Before
  <2>4. CASE logical = NoTurn
    <3>1. upc \in Starting /\ turn = NoTurn
      BY <1>2, <2>4 DEF GInv, HandleInv, Pulling, Streaming, Starting, Ending, PlaceAt
    <3>2. Base = NoTurn /\ Base' = t /\ upc' # "pop"
      BY <1>1, <2>1, <2>4, <3>1 DEF Base, Starting
    <3>3. pending = <<>> /\ pending' = <<>> /\ \A u : ~NamedBy(u, o)
      BY <1>2, <2>1, <2>4, <3>2 DEF PendingAt, FirstAt
    <3>4. \A u : NamedBy(u, r)' <=> u = t
      BY <1>1, <2>2, <3>3, NamedStays
    <3>5. FirstAt(r)'
      BY <2>1, <2>4, <3>4 DEF FirstAt
    <3>6. PendingAt(r)'
      <4>1. <<>> \in Seq(Turns) /\ Len(<<>>) = 0
        OBVIOUS
      <4> QED BY <2>1, <3>2, <3>3, <3>4, <4>1 DEF PendingAt
    <3> QED BY <1>7, <1>8, <3>5, <3>6 DEF StreamAt
  <2>5. CASE logical # NoTurn
    <3>1. logical' = logical /\ Base' = Base
      BY <1>1, <2>1, <2>5 DEF Base
    <3>2. Base # NoTurn
      BY <1>2, <2>5 DEF Base, PlaceAt
    <3>3. FirstAt(r)'
      <4>1. FirstAt(r)
        BY <1>2, <2>2, <2>3, <2>5 DEF FirstAt
      <4> QED BY <1>1, <3>1, <4>1, FirstStays
    <3>4. /\ pending \in Seq(Turns) /\ NamedBy(Base, o)
          /\ \A i \in 1 .. Len(pending) :
                NamedBy(pending[i], o) /\ (pending[i] = Base \/ Before(Base, pending[i]))
          /\ \A i, j \in 1 .. Len(pending) : i < j => Before(pending[i], pending[j])
          /\ \A u : NamedBy(u, o) =>
                u = Base \/ Before(u, Base) \/ \E i \in 1 .. Len(pending) : pending[i] = u
          /\ upc = "pop" => pending # <<>> /\ next = Head(pending) /\ next # turn
      BY <1>2, <3>2 DEF PendingAt
    <3>5. CASE pending' = pending /\ (logical = t \/ \E i \in DOMAIN pending : pending[i] = t)
      <4>1. NamedBy(logical, o) /\ DOMAIN pending = 1 .. Len(pending)
        BY <1>2, <2>5, <3>4 DEF FirstAt
      <4>2. NamedBy(t, o)
        BY <3>4, <3>5, <4>1
      <4>3. \A u : NamedBy(u, r) <=> NamedBy(u, o)
        BY <2>2, <4>2
      <4>4. PendingAt(r)
        BY <1>2, <4>3 DEF PendingAt
      <4>5. PendingAt(r)'
        BY <1>1, <3>1, <3>4, <3>5, <4>4, PendingStays
      <4> QED BY <1>7, <1>8, <3>3, <4>5 DEF StreamAt
    <3>6. CASE pending' = Append(pending, t) /\ ~\E i \in DOMAIN pending : pending[i] = t
      <4>0. DOMAIN pending = 1 .. Len(pending) /\ Len(pending) \in Nat
        BY <3>4
      <4>1. /\ pending' \in Seq(Turns) /\ Len(pending') = Len(pending) + 1
            /\ \A i \in 1 .. Len(pending') : \/ i \in 1 .. Len(pending) /\ pending'[i] = pending[i]
                                             \/ i = Len(pending) + 1 /\ pending'[i] = t
        BY <2>1, <3>4, <3>6, AppendIs
      <4>2. \A i \in 1 .. Len(pending) :
               i \in 1 .. Len(pending') /\ pending'[i] = pending[i] /\ pending[i] # t
        BY <3>6, <4>0, <4>1
      <4>3. Len(pending) + 1 \in 1 .. Len(pending') /\ pending'[Len(pending) + 1] = t
        BY <4>0, <4>1
      <4>4. ASSUME NEW i \in 1 .. Len(pending')
            PROVE  NamedBy(pending'[i], r) /\ (pending'[i] = Base \/ Before(Base, pending'[i]))
        <5>1. CASE i \in 1 .. Len(pending) /\ pending'[i] = pending[i]
          BY <2>2, <3>4, <5>1
        <5>2. CASE pending'[i] = t
          BY <2>2, <2>3, <3>4, <5>2
        <5> QED BY <4>1, <5>1, <5>2
      <4>5. ASSUME NEW i \in 1 .. Len(pending'), NEW j \in 1 .. Len(pending'), i < j
            PROVE  Before(pending'[i], pending'[j])
        <5>1. i \in 1 .. Len(pending) /\ pending'[i] = pending[i]
          BY <4>0, <4>1, <4>5
        <5>2. CASE j \in 1 .. Len(pending) /\ pending'[j] = pending[j]
          BY <3>4, <4>5, <5>1, <5>2
        <5>3. CASE pending'[j] = t
          BY <2>3, <3>4, <4>2, <5>1, <5>3
        <5> QED BY <4>1, <5>2, <5>3
      <4>6. ASSUME NEW u, NamedBy(u, r)
            PROVE  u = Base \/ Before(u, Base) \/ \E i \in 1 .. Len(pending') : pending'[i] = u
        <5>1. CASE u = t
          BY <4>3, <5>1
        <5>2. CASE NamedBy(u, o)
          BY <3>4, <4>2, <5>2
        <5> QED BY <2>2, <4>6, <5>1, <5>2
      <4>7. upc' = "pop" => pending' # <<>> /\ next' = Head(pending') /\ next' # turn'
        <5> SUFFICES ASSUME upc = "pop"
                     PROVE  pending' # <<>> /\ next' = Head(pending') /\ next' # turn'
          BY <1>1
        <5>1. pending # <<>> /\ next = Head(pending) /\ next # turn
          BY <3>4
        <5>2. /\ Head(pending') = pending'[1] /\ Head(pending) = pending[1]
              /\ pending' # <<>> /\ 1 \in 1 .. Len(pending)
          BY <3>4, <4>0, <4>1, <5>1
        <5> QED BY <1>1, <4>2, <5>1, <5>2
      <4>8. NamedBy(Base, r)
        BY <2>2, <3>4
      <4>9. PendingAt(r)'
        BY <1>1, <3>1, <3>2, <4>1, <4>4, <4>5, <4>6, <4>7, <4>8, NamedStays DEF PendingAt
      <4> QED BY <1>7, <1>8, <3>3, <4>9 DEF StreamAt
    <3> QED BY <2>1, <2>5, <3>5, <3>6
  <2> QED BY <2>4, <2>5
<1> QED BY <1>9, <1>10

-----------------------------------------------------------------------------
(* The caller's steps *)

\* A step of the caller that the loop has nothing to do with.
LEMMA CallerMoves ==
    ASSUME NEW p, NEW q, NEW r, NEW o, StreamAt(p, r, o), QueuesAt(q)', PlaceAt(q)',
           UNCHANGED <<script, sent, goalQ, got, loop, cleared, status, logical, pending,
                       closed>>,
           Base' = Base,
           upc' = "pop" => pending # <<>> /\ next' = Head(pending) /\ next' # turn'
    PROVE  StreamAt(q, r, o)'
<1>1. LoopAt(r, o) /\ FirstAt(o) /\ PendingAt(o)
  BY StreamParts
<1>2. LoopAt(r, o)' /\ FirstAt(o)'
  BY <1>1, LoopStays, FirstStays
<1>3. PendingAt(o)'
  BY <1>1, PendingStays
<1> QED BY <1>2, <1>3 DEF StreamAt

\* The caller has got what is shown up to some position, also when it gives up.
LEMMA Leaves ==
    ASSUME sent \in Nat, NEW p \in 0 .. sent, PlaceAt(p), UNCHANGED <<script, sent, delivered>>,
           outcome' # "end"
    PROVE  InOrder'
<1>1. \E q \in 0 .. sent : Lists(delivered, Shown(q))
  <2>1. CASE upc \in Ending
    <3>1. p - 1 \in 0 .. sent /\ Lists(delivered, Shown(p - 1))
      BY <2>1 DEF PlaceAt
    <3> QED BY <3>1
  <2> QED BY <2>1 DEF PlaceAt
<1>2. PICK q \in 0 .. sent : Lists(delivered, Shown(q))
  BY <1>1
<1>3. Shown(q)' = Shown(q)
  BY DEF Shown
<1>4. Lists(delivered, Shown(q))'
  BY <1>2, <1>3 DEF Lists
<1> QED BY <1>4 DEF InOrder

LEMMA StartOrder ==
    ASSUME GInv, OrderlyServer, upc \in Streaming, NEW p \in 0 .. sent, NEW r, NEW o,
           StreamAt(p, r, o),
           \/ ClearGoal \/ SetGoal \/ StartFails \/ AwaitStart \/ StartSignalled \/ StartGivesUp
    PROVE  /\ upc' \in Streaming => StreamAt(p, r, o)'
           /\ upc' \notin Streaming => InOrder'
           /\ UNCHANGED <<script, sent>>
<1>1. /\ UNCHANGED <<script, sent, turnQ, turnRoute, goalQ, got, loop, logical, pending, cleared,
                     status, turn, next, delivered, closed>>
      /\ upc \in Starting
      /\ \/ upc' \in Starting \cup {"idle"} /\ outcome' = outcome
         \/ upc' = "join" /\ outcome' # "end"
  BY DEF CleanUp, ClearGoal, SetGoal, StartFails, AwaitStart, StartSignalled, StartGivesUp,
         Signalled, Goto, serverVars, stateVars, loopVars, Starting
<1>2. QueuesAt(p) /\ PlaceAt(p) /\ sent \in Nat
  BY StreamParts DEF GInv, GoalType
<1>3. CASE upc' \in Starting \cup {"idle"} /\ outcome' = outcome
  <2>1. PlaceAt(p)'
    <3>1. upc' \notin Ending \cup {"read", "register"} /\ upc \notin Ending /\ turn = NoTurn
      BY <1>1, <1>2, <1>3 DEF Starting, Ending, PlaceAt
    <3>2. Lists(delivered, Shown(p))'
      BY <1>1, <1>2, <3>1 DEF PlaceAt, Lists, Shown
    <3> QED BY <1>1, <1>2, <1>3, <3>1, <3>2 DEF PlaceAt
  <2>2. QueuesAt(p)'
    BY <1>1, <1>2, QueuesStay DEF QueuesAt
  <2>3. Base' = Base /\ upc' # "pop"
    BY <1>1, <1>3 DEF Base, Starting
  <2>4. StreamAt(p, r, o)'
    BY <1>1, <2>1, <2>2, <2>3, CallerMoves
  <2> QED BY <1>1, <1>3, <2>4 DEF Streaming
<1>4. CASE upc' = "join" /\ outcome' # "end"
  <2>1. InOrder'
    BY <1>1, <1>2, <1>4, Leaves
  <2> QED BY <1>1, <1>4, <2>1 DEF Streaming, Starting, Ending
<1> QED BY <1>1, <1>3, <1>4

\* The stream begins with the first turn.
LEMMA FirstAhead ==
    ASSUME Orderly(script), Len(script) \in Nat, NEW o \in 0 .. Len(script), FirstAt(o),
           logical # NoTurn
    PROVE  AheadAt(logical, 0)
<1>1. NamedBy(logical, o) /\ 0 \in 0 .. Len(script)
  BY DEF FirstAt
<1>2. \A u : NamedBy(u, o) => ~Before(u, logical)
  <2> SUFFICES ASSUME NEW u, NamedBy(u, o), Before(u, logical) PROVE FALSE
    OBVIOUS
  <2>1. u = logical \/ Before(logical, u)
    BY DEF FirstAt
  <2> QED BY <2>1, BeforeAsym
<1> QED BY <1>1, <1>2, NextAhead

LEMMA StreamNextOrder ==
    ASSUME GInv, OrderlyServer, sent =< Len(script), NEW p \in 0 .. sent, NEW r,
           NEW o \in 0 .. sent, StreamAt(p, r, o), StreamNext
    PROVE  StreamAt(p, r, o)'
<1>1. /\ UNCHANGED <<script, sent, turnQ, turnRoute, goalQ, got, loop, logical, pending, cleared,
                     status, next, delivered, outcome, closed>>
      /\ upc = "idle" /\ upc' = "read" /\ turn' = IF turn = NoTurn THEN logical ELSE turn
  BY DEF StreamNext, serverVars, stateVars, loopVars
<1>2. QueuesAt(p) /\ PlaceAt(p) /\ FirstAt(o) /\ sent \in Nat
  BY StreamParts DEF GInv, GoalType
<1>3. Orderly(script) /\ Len(script) \in Nat /\ o \in 0 .. Len(script)
  BY <1>2, ScriptIs
<1>4. logical # NoTurn /\ logical \in Turns \cup {NoTurn}
  BY <1>1, <1>2 DEF GInv, HandleInv, Pulling, FirstAt
<1>5. AheadAt(logical, 0)
  BY <1>2, <1>3, <1>4, FirstAhead
<1>6. turn' # NoTurn /\ turn' \in Turns \cup {NoTurn} /\ AheadAt(turn', p)
  BY <1>1, <1>2, <1>4, <1>5 DEF PlaceAt
<1>7. PlaceAt(p)'
  <2>1. Lists(delivered, Shown(p))'
    BY <1>1, <1>2 DEF PlaceAt, Lists, Shown, Ending
  <2>2. AheadAt(turn, p)'
    BY <1>1, <1>6 DEF AheadAt, TurnOf
  <2> QED BY <1>1, <1>2, <1>6, <2>1, <2>2 DEF PlaceAt, Starting, Ending
<1>8. QueuesAt(p)'
  BY <1>1, <1>2, QueuesStay DEF QueuesAt
<1>9. Base' = Base /\ upc' # "pop"
  BY <1>1, <1>4 DEF Base
<1> QED BY <1>1, <1>7, <1>8, <1>9, CallerMoves

\* What is shown up to m, if nothing of a turn lies between p and m.
LEMMA ShownTo ==
    ASSUME NEW p \in Nat, NEW m \in Nat, p < m, \A j \in p + 1 .. m - 1 : TurnOf(j) = NoTurn
    PROVE  /\ Shown(m - 1) = Shown(p)
           /\ m \in Shown(m) => Shown(m) = Shown(p) \cup {m}
           /\ m \notin Shown(m) => Shown(m) = Shown(p)
<1>1. \A k \in 1 .. m - 1 : k \in 1 .. p \/ TurnOf(k) = NoTurn
  OBVIOUS
<1>2. \A k : k \in Shown(m - 1) <=> k \in Shown(p)
  BY <1>1 DEF Shown, TurnOf
<1>3. \A k : k \in Shown(m) <=> k \in Shown(m - 1) \/ (k = m /\ m \in Shown(m))
  <2>1. \A k : k \in 1 .. m <=> k \in 1 .. m - 1 \/ k = m
    OBVIOUS
  <2> QED BY <2>1 DEF Shown
<1> QED BY <1>2, <1>3

LEMMA ShownIs ==
    ASSUME NEW p \in Nat
    PROVE  Shown(p) \in SUBSET Nat /\ IsFiniteSet(Shown(p)) /\ \A k \in Shown(p) : k =< p
<1>1. \A k \in Shown(p) : k \in 0 + 1 .. p
  BY DEF Shown
<1>2. Shown(p) \in SUBSET Nat /\ IsFiniteSet(Shown(p))
  BY <1>1, RangesAre
<1> QED BY <1>1, <1>2

\* The next notification of the turn the stream reads: none of another turn lies between.
LEMMA ReadNext ==
    ASSUME GInv, OrderlyServer, sent =< Len(script), NEW p \in 0 .. sent, QueuesAt(p), PlaceAt(p),
           upc = "read", turnQ[turn] # <<>>
    PROVE  \E m \in p + 1 .. sent :
              /\ turn \in Turns /\ turn # NoTurn
              /\ m \in Positions /\ p \in Nat /\ m \in Nat /\ p < m
              /\ Head(turnQ[turn]) = script[m] /\ TurnOf(m) = turn
              /\ Lists(Tail(turnQ[turn]), TurnAt(turn, m))
              /\ \A j \in p + 1 .. m - 1 : TurnOf(j) = NoTurn
              /\ \A t \in Turns : t # turn => TurnAt(t, m) = TurnAt(t, p)
              /\ AheadAt(turn, m)
<1>1. sent \in Nat /\ Len(script) \in Nat
  BY ScriptIs DEF GInv, GoalType
<1>2. turn \in Turns /\ turn # NoTurn /\ AheadAt(turn, p)
  BY DEF PlaceAt
<1>3. Lists(turnQ[turn], TurnAt(turn, p)) /\ turnQ[turn] \in Seq(Notifications)
  BY <1>2 DEF QueuesAt
<1>4. TurnAt(turn, p) \in SUBSET Nat /\ IsFiniteSet(TurnAt(turn, p))
  BY <1>1, AtAre
<1>5. PICK m \in TurnAt(turn, p) :
         /\ \A j \in TurnAt(turn, p) : m =< j
         /\ Head(turnQ[turn]) = script[m] /\ Lists(Tail(turnQ[turn]), TurnAt(turn, p) \ {m})
  BY <1>3, <1>4, ListsHead
<1>6. m \in p + 1 .. sent /\ m \in Positions /\ TurnOf(m) = turn /\ p \in Nat /\ m \in Nat /\ p < m
  BY <1>1 DEF TurnAt, Positions
<1>7. \A j \in p + 1 .. m - 1 : TurnOf(j) = NoTurn
  <2> SUFFICES ASSUME NEW j \in p + 1 .. m - 1 PROVE TurnOf(j) = NoTurn
    OBVIOUS
  <2>1. j \in p + 1 .. Len(script) /\ m \in p + 1 .. Len(script) /\ j < m /\ j \in p + 1 .. sent
    BY <1>1, <1>6
  <2>2. TurnOf(j) \in {NoTurn, turn}
    BY <1>2, <1>6, <2>1 DEF AheadAt
  <2>3. TurnOf(j) # turn
    BY <1>5, <1>6, <2>1 DEF TurnAt
  <2> QED BY <2>2, <2>3
<1>8. TurnAt(turn, m) = TurnAt(turn, p) \ {m}
  <2>1. \A k \in TurnAt(turn, p) : k # m => k \in m + 1 .. sent
    BY <1>1, <1>5, <1>6 DEF TurnAt
  <2>2. \A k \in m + 1 .. sent : k \in p + 1 .. sent /\ k # m
    BY <1>1, <1>6
  <2> QED BY <2>1, <2>2 DEF TurnAt
<1>9. ASSUME NEW t \in Turns, t # turn PROVE TurnAt(t, m) = TurnAt(t, p)
  <2>1. \A k \in p + 1 .. sent : k \in m + 1 .. sent \/ k = m \/ k \in p + 1 .. m - 1
    BY <1>1, <1>6
  <2>2. \A k \in m + 1 .. sent : k \in p + 1 .. sent
    BY <1>1, <1>6
  <2>3. t # NoTurn
    BY GoalAssumption
  <2> QED BY <1>6, <1>7, <1>9, <2>1, <2>2, <2>3 DEF TurnAt
<1>10. AheadAt(turn, m)
  <2>1. \A k \in m + 1 .. Len(script) : k \in p + 1 .. Len(script)
    BY <1>1, <1>6
  <2> QED BY <1>2, <2>1 DEF AheadAt
<1> QED BY <1>2, <1>5, <1>6, <1>7, <1>8, <1>9, <1>10

\* Every event of the turn but the beginning of a later turn and the end is handed out.
LEMMA ReadOrder ==
    ASSUME GInv, OrderlyServer, sent =< Len(script), NEW p \in 0 .. sent, NEW r,
           NEW o \in 0 .. sent, StreamAt(p, r, o), StreamRead
    PROVE  \E q \in 0 .. sent : StreamAt(q, r, o)'
<1>1. QueuesAt(p) /\ PlaceAt(p) /\ FirstAt(o) /\ PendingAt(o) /\ sent \in Nat
  BY StreamParts DEF GInv, GoalType
<1>2. /\ UNCHANGED <<script, sent, goalQ, got, loop, logical, pending, cleared, status, next, turn,
                     closed>>
      /\ upc = "read" /\ turnQ[turn] # <<>>
  BY DEF StreamRead, serverVars, stateVars, loopVars
<1>3. PICK m \in p + 1 .. sent :
              /\ turn \in Turns /\ turn # NoTurn
              /\ m \in Positions /\ p \in Nat /\ m \in Nat /\ p < m
              /\ Head(turnQ[turn]) = script[m] /\ TurnOf(m) = turn
              /\ Lists(Tail(turnQ[turn]), TurnAt(turn, m))
              /\ \A j \in p + 1 .. m - 1 : TurnOf(j) = NoTurn
              /\ \A t \in Turns : t # turn => TurnAt(t, m) = TurnAt(t, p)
              /\ AheadAt(turn, m)
  BY <1>1, <1>2, ReadNext
<1>4. /\ Orderly(script) /\ Len(script) \in Nat /\ script[m] \in Notifications
      /\ o \in 0 .. Len(script) /\ m \in 0 .. sent
  BY <1>1, <1>3, ScriptIs
<1> PICK n : n = script[m]
  OBVIOUS
<1>5. \/ /\ n.m = "started" /\ turn # logical
         /\ turnQ' = [turnQ EXCEPT ![turn] = Tail(@)]
         /\ UNCHANGED <<turnRoute, upc, delivered, outcome>>
      \/ /\ n.m \in {"updated", "item"} \/ (n.m = "started" /\ turn = logical)
         /\ turnQ' = [turnQ EXCEPT ![turn] = Tail(@)]
         /\ delivered' = Append(delivered, n) /\ upc' = "idle"
         /\ UNCHANGED <<turnRoute, outcome>>
      \/ /\ n.m \in {"completed", "failed"}
         /\ turnRoute' = [turnRoute EXCEPT ![turn] = "closed"]
         /\ turnQ' = [turnQ EXCEPT ![turn] = <<>>]
         /\ upc' = IF n.m = "failed" THEN "finishFailed" ELSE "finish"
         /\ UNCHANGED <<delivered, outcome>>
  BY <1>3 DEF StreamRead, UnregisterTurn
<1>6. /\ Lists(delivered, Shown(p)) /\ delivered \in Seq(Notifications)
      /\ {turn, next} \subseteq Turns \cup {NoTurn} /\ outcome = "none"
  BY <1>1, <1>2 DEF PlaceAt, Ending
<1>7. /\ turnQ \in [Turns -> Seq(Notifications)]
      /\ turnRoute \in [Turns -> {"none", "open", "closed"}]
      /\ \A t \in Turns : Lists(turnQ[t], TurnAt(t, p))
      /\ \A t \in Turns : turnRoute[t] = "closed" =>
            \E k \in 1 .. p : TurnOf(k) = t /\ script[k].m \in {"completed", "failed"}
  BY <1>1 DEF QueuesAt
<1>8. /\ Shown(m - 1) = Shown(p)
      /\ m \in Shown(m) => Shown(m) = Shown(p) \cup {m}
      /\ m \notin Shown(m) => Shown(m) = Shown(p)
  BY <1>3, ShownTo
<1>9. m \in Shown(m) <=>
         /\ n.m = "started" => \A j \in 1 .. m : TurnOf(j) \in {NoTurn, turn}
         /\ n.m = "completed" => \A j \in m .. Len(script) : TurnOf(j) \in {NoTurn, turn}
  BY <1>3 DEF Shown, TurnOf
<1>10. \A k \in 1 .. p : k \in 1 .. m
  BY <1>3
<1>11. CASE n.m \notin {"completed", "failed"}
  <2>1. turnQ' = [turnQ EXCEPT ![turn] = Tail(@)] /\ turnRoute' = turnRoute
    BY <1>5, <1>11
  <2>2. QueuesAt(m)'
    <3>1. Tail(turnQ[turn]) \in Seq(Notifications)
      BY <1>2, <1>3, <1>7
    <3>2. turnQ' \in [Turns -> Seq(Notifications)]
      BY <1>7, <2>1, <3>1
    <3>3. ASSUME NEW t \in Turns PROVE Lists(turnQ[t], TurnAt(t, m))'
      <4>1. Lists(turnQ'[t], TurnAt(t, m))
        BY <1>3, <1>7, <2>1
      <4>2. TurnAt(t, m)' = TurnAt(t, m)
        BY <1>2 DEF TurnAt, TurnOf
      <4> QED BY <1>2, <4>1, <4>2 DEF Lists
    <3>4. \A t \in Turns : turnRoute'[t] = "closed" =>
            \E k \in 1 .. m : TurnOf(k)' = t /\ script'[k].m \in {"completed", "failed"}
      BY <1>2, <1>7, <1>10, <2>1 DEF TurnOf
    <3> QED BY <1>7, <2>1, <3>2, <3>3, <3>4 DEF QueuesAt
  <2>3. CASE n.m = "started" /\ turn # logical
    <3>1. UNCHANGED <<upc, delivered, outcome>>
      BY <1>5, <2>3
    <3>2. logical # NoTurn
      BY <1>2 DEF GInv, HandleInv, Pulling
    <3>3. Before(logical, turn)
      <4>1. NamedBy(turn, o)
        BY <1>1, <1>2, <1>3 DEF PendingAt, Base
      <4> QED BY <1>1, <2>3, <3>2, <4>1 DEF FirstAt
    <3>4. PICK i \in Positions : TurnOf(i) = logical
      BY <3>3 DEF Before
    <3>5. i < m
      BY <1>3, <1>4, <3>3, <3>4, BeforeAll
    <3>6. i \in 1 .. m
      BY <1>3, <3>5 DEF Positions
    <3>7. m \notin Shown(m)
      BY <1>9, <2>3, <3>2, <3>4, <3>6
    <3>8. Lists(delivered, Shown(m))'
      <4>1. Shown(m)' = Shown(m)
        BY <1>2 DEF Shown
      <4> QED BY <1>2, <1>6, <1>8, <3>1, <3>7, <4>1 DEF Lists
    <3>9. AheadAt(turn, m)'
      BY <1>2, <1>3 DEF AheadAt, TurnOf
    <3>10. PlaceAt(m)'
      BY <1>2, <1>3, <1>6, <3>1, <3>8, <3>9 DEF PlaceAt, Starting, Ending
    <3>11. Base' = Base /\ upc' # "pop"
      BY <1>2, <3>1 DEF Base
    <3>12. StreamAt(m, r, o)'
      BY <1>2, <2>2, <3>10, <3>11, CallerMoves
    <3> QED BY <1>4, <3>12
  <2>4. CASE n.m \in {"updated", "item"} \/ (n.m = "started" /\ turn = logical)
    <3>1. delivered' = Append(delivered, n) /\ upc' = "idle" /\ UNCHANGED outcome
      BY <1>5, <2>4
    <3>2. m \in Shown(m)
      <4>1. CASE n.m = "started"
        <5>1. AheadAt(turn, 0)
          BY <1>1, <1>3, <1>4, <2>4, <4>1, FirstAhead
        <5>2. \A j \in 1 .. m : (j \in 0 + 1 .. Len(script) /\ j < m) \/ j = m
          BY <1>3, <1>4 DEF Positions
        <5>3. m \in 0 + 1 .. Len(script)
          BY <1>3 DEF Positions
        <5>4. \A j \in 1 .. m : TurnOf(j) \in {NoTurn, turn}
          BY <1>3, <5>1, <5>2, <5>3 DEF AheadAt
        <5> QED BY <1>9, <4>1, <5>4
      <4> QED BY <1>9, <2>4, <4>1
    <3>3. Lists(Append(delivered, n), Shown(p) \cup {m})
      <4>1. Shown(p) \in SUBSET Nat /\ IsFiniteSet(Shown(p)) /\ \A k \in Shown(p) : k =< p
        BY <1>3, ShownIs
      <4>2. \A k \in Shown(p) : k < m
        BY <1>3, <4>1
      <4> QED BY <1>3, <1>4, <1>6, <4>1, <4>2, ListsAppend
    <3>4. Lists(delivered, Shown(m))'
      <4>1. Shown(m)' = Shown(p) \cup {m}
        BY <1>2, <1>8, <3>2 DEF Shown
      <4> QED BY <1>2, <3>1, <3>3, <4>1 DEF Lists
    <3>5. AheadAt(turn, m)'
      BY <1>2, <1>3 DEF AheadAt, TurnOf
    <3>6. delivered' \in Seq(Notifications)
      BY <1>4, <1>6, <3>1, AppendIs
    <3>7. PlaceAt(m)'
      BY <1>2, <1>3, <1>6, <3>1, <3>4, <3>5, <3>6 DEF PlaceAt, Starting, Ending
    <3>8. Base' = Base /\ upc' # "pop"
      BY <1>2, <3>1 DEF Base
    <3>9. StreamAt(m, r, o)'
      BY <1>2, <2>2, <3>7, <3>8, CallerMoves
    <3> QED BY <1>4, <3>9
  <2> QED BY <1>5, <1>11, <2>3, <2>4
<1>12. CASE n.m \in {"completed", "failed"}
  <2>1. /\ turnRoute' = [turnRoute EXCEPT ![turn] = "closed"]
        /\ turnQ' = [turnQ EXCEPT ![turn] = <<>>]
        /\ upc' = IF n.m = "failed" THEN "finishFailed" ELSE "finish"
        /\ UNCHANGED <<delivered, outcome>>
    BY <1>5, <1>12
  <2>2. TurnAt(turn, m) = {}
    <3> SUFFICES ASSUME NEW k \in m + 1 .. sent, TurnOf(k) = turn PROVE FALSE
      BY DEF TurnAt
    <3>1. k \in 1 .. Len(script) /\ m \in 1 .. Len(script) /\ m < k
      BY <1>1, <1>3, <1>4 DEF Positions
    <3>2. script[k].t # script[m].t
      BY <1>4, <1>12, <3>1 DEF Orderly
    <3> QED BY <1>3, <3>2 DEF TurnOf
  <2>3. QueuesAt(m)'
    <3>1. <<>> \in Seq(Notifications)
      OBVIOUS
    <3>2. /\ turnQ' \in [Turns -> Seq(Notifications)]
          /\ turnRoute' \in [Turns -> {"none", "open", "closed"}]
      BY <1>7, <2>1, <3>1
    <3>3. ASSUME NEW t \in Turns PROVE Lists(turnQ[t], TurnAt(t, m))'
      <4>1. Lists(turnQ'[t], TurnAt(t, m))
        <5>1. CASE t = turn
          BY <1>3, <1>7, <2>1, <2>2, <5>1, ListsNone
        <5>2. CASE t # turn
          BY <1>3, <1>7, <2>1, <5>2
        <5> QED BY <5>1, <5>2
      <4>2. TurnAt(t, m)' = TurnAt(t, m)
        BY <1>2 DEF TurnAt, TurnOf
      <4> QED BY <1>2, <4>1, <4>2 DEF Lists
    <3>4. ASSUME NEW t \in Turns, turnRoute'[t] = "closed"
          PROVE  \E k \in 1 .. m : TurnOf(k)' = t /\ script'[k].m \in {"completed", "failed"}
      <4>1. CASE t = turn
        <5>1. m \in 1 .. m
          BY <1>3
        <5> QED BY <1>2, <1>3, <1>12, <4>1, <5>1 DEF TurnOf
      <4>2. CASE t # turn
        BY <1>2, <1>3, <1>7, <1>10, <2>1, <3>4, <4>2 DEF TurnOf
      <4> QED BY <4>1, <4>2
    <3> QED BY <3>2, <3>3, <3>4 DEF QueuesAt
  <2>4. PlaceAt(m)'
    <3>1. Lists(delivered, Shown(m - 1))'
      <4>1. Shown(m - 1)' = Shown(p)
        BY <1>2, <1>8 DEF Shown
      <4> QED BY <1>2, <1>6, <2>1, <4>1 DEF Lists
    <3>2. AheadAt(turn, m)'
      BY <1>2, <1>3 DEF AheadAt, TurnOf
    <3>3. m # 0 /\ TurnOf(m)' = turn' /\ upc' \in Ending
          /\ script'[m].m = IF upc' = "finishFailed" THEN "failed" ELSE "completed"
      BY <1>2, <1>3, <1>12, <2>1 DEF TurnOf, Ending
    <3> QED BY <1>2, <1>3, <1>6, <2>1, <3>1, <3>2, <3>3 DEF PlaceAt, Starting
  <2>5. Base' = Base /\ upc' # "pop"
    BY <1>2, <1>3, <2>1 DEF Base
  <2>6. StreamAt(m, r, o)'
    BY <1>2, <2>3, <2>4, <2>5, CallerMoves
  <2> QED BY <1>4, <2>6
<1> QED BY <1>11, <1>12

\* The end of a turn after which there is none is the end of the stream.
LEMMA EndIs ==
    ASSUME GInv, OrderlyServer, sent =< Len(script), NEW p \in 0 .. sent, PlaceAt(p),
           upc \in Ending, \A j \in p + 1 .. Len(script) : TurnOf(j) = NoTurn,
           UNCHANGED <<script, sent>>, delivered' = Append(delivered, script[p])
    PROVE  InOrder'
<1>1. /\ sent \in Nat /\ Len(script) \in Nat /\ p \in Positions /\ p \in Nat /\ p - 1 \in Nat
      /\ script[p] \in Notifications
  <2>1. sent \in Nat /\ Len(script) \in Nat /\ p # 0
    BY ScriptIs DEF GInv, GoalType, PlaceAt
  <2>2. p \in Positions
    BY <2>1 DEF Positions
  <2> QED BY <2>1, <2>2, ScriptIs
<1>2. /\ Lists(delivered, Shown(p - 1)) /\ delivered \in Seq(Notifications)
      /\ TurnOf(p) = turn /\ turn # NoTurn /\ script[p].m \in {"failed", "completed"}
  BY DEF PlaceAt
<1>3. p \in Shown(p)
  <2>1. \A j \in p .. Len(script) : j = p \/ TurnOf(j) = NoTurn
    BY <1>1
  <2> QED BY <1>1, <1>2, <2>1 DEF Shown, TurnOf, Positions
<1>4. Shown(p) = Shown(p - 1) \cup {p}
  <2>1. p - 1 < p /\ \A j \in (p - 1) + 1 .. p - 1 : TurnOf(j) = NoTurn
    BY <1>1
  <2> QED BY <1>1, <1>3, <2>1, ShownTo
<1>5. Shown(Len(script)) = Shown(p)
  <2>1. \A k \in 1 .. Len(script) : k \in 1 .. p \/ TurnOf(k) = NoTurn
    BY <1>1
  <2>2. \A k \in 1 .. p : k \in 1 .. Len(script)
    BY <1>1
  <2> QED BY <2>1, <2>2 DEF Shown, TurnOf
<1>6. Lists(Append(delivered, script[p]), Shown(p - 1) \cup {p})
  <2>1. /\ Shown(p - 1) \in SUBSET Nat /\ IsFiniteSet(Shown(p - 1))
        /\ \A k \in Shown(p - 1) : k =< p - 1
    BY <1>1, ShownIs
  <2>2. \A k \in Shown(p - 1) : k < p
    BY <1>1, <2>1
  <2> QED BY <1>1, <1>2, <2>1, <2>2, ListsAppend
<1>7. Lists(delivered, Shown(p))' /\ Lists(delivered, Shown(Len(script)))'
  <2>1. Shown(p)' = Shown(p) /\ Shown(Len(script))' = Shown(Len(script))
    BY DEF Shown
  <2> QED BY <1>4, <1>5, <1>6, <2>1 DEF Lists
<1> QED BY <1>7 DEF InOrder

\* Steps between the end of a turn and the decision what comes next.
LEMMA EndingMoves ==
    ASSUME NEW p, NEW r, NEW o, StreamAt(p, r, o), upc \in Ending, upc' \in Ending,
           upc # "finishFailed", upc' # "finishFailed",
           UNCHANGED <<script, sent, goalQ, turnQ, turnRoute, got, loop, cleared, status, logical,
                       pending, turn, delivered, outcome, closed>>,
           next' \in Turns \cup {NoTurn},
           upc' = "pop" => pending # <<>> /\ next' = Head(pending) /\ next' # turn'
    PROVE  StreamAt(p, r, o)'
<1>1. QueuesAt(p) /\ PlaceAt(p)
  BY StreamParts
<1>2. QueuesAt(p)'
  BY <1>1, QueuesStay DEF QueuesAt
<1>3. PlaceAt(p)'
  <2>1. Lists(delivered, Shown(p - 1))'
    BY <1>1 DEF PlaceAt, Lists, Shown
  <2>2. AheadAt(turn, p)'
    BY <1>1 DEF PlaceAt, AheadAt, TurnOf
  <2>3. TurnOf(p)' = turn' /\ script'[p].m = "completed" /\ p # 0 /\ turn # NoTurn
    BY <1>1 DEF PlaceAt, TurnOf
  <2>4. upc' \notin Starting \cup {"register", "read"}
    BY DEF Starting, Ending
  <2> QED BY <1>1, <2>1, <2>2, <2>3, <2>4 DEF PlaceAt
<1>4. Base' = Base
  BY DEF Base, Ending
<1> QED BY <1>2, <1>3, <1>4, CallerMoves

LEMMA FinishOrder ==
    ASSUME GInv, OrderlyServer, sent =< Len(script), NEW p \in 0 .. sent, NEW r,
           NEW o \in 0 .. sent, StreamAt(p, r, o), FinishPhysicalTurn
    PROVE  \/ upc' \in Streaming /\ StreamAt(p, r, o)'
           \/ upc' \notin Streaming /\ InOrder'
<1>1. /\ UNCHANGED <<script, sent, goalQ, turnQ, turnRoute, got, loop, cleared, status, logical,
                     pending, next, turn, closed>>
      /\ upc \in Ending
      /\ \/ upc = "finish" /\ upc' = "continue" /\ UNCHANGED <<delivered, outcome>>
         \/ /\ upc = "finishFailed" /\ upc' = "close"
            /\ delivered' = Append(delivered, [m |-> "failed", t |-> turn, s |-> "none"])
  BY DEF FinishPhysicalTurn, Goto, serverVars, stateVars, loopVars, Ending
<1>2. PlaceAt(p)
  BY StreamParts
<1>3. CASE upc = "finish" /\ upc' = "continue" /\ UNCHANGED <<delivered, outcome>>
  <2>1. next' \in Turns \cup {NoTurn}
    BY <1>1, <1>2 DEF PlaceAt
  <2>2. upc' \in Ending
    BY <1>3 DEF Ending
  <2>3. StreamAt(p, r, o)'
    BY <1>1, <1>3, <2>1, <2>2, EndingMoves
  <2> QED BY <2>2, <2>3 DEF Streaming
<1>4. CASE /\ upc = "finishFailed" /\ upc' = "close"
           /\ delivered' = Append(delivered, [m |-> "failed", t |-> turn, s |-> "none"])
  <2>1. sent \in Nat /\ Len(script) \in Nat /\ p # 0 /\ TurnOf(p) = turn /\ script[p].m = "failed"
    BY <1>1, <1>2, <1>4, ScriptIs DEF GInv, GoalType, PlaceAt
  <2>2. p \in Positions
    BY <2>1 DEF Positions
  <2>3. script[p] \in Notifications /\ Orderly(script)
    BY <2>2, ScriptIs
  <2>4. script[p] = [m |-> "failed", t |-> turn, s |-> "none"]
    BY <2>1, <2>3 DEF Notifications, TurnOf
  <2>5. \A j \in p + 1 .. Len(script) : TurnOf(j) = NoTurn
    <3> SUFFICES ASSUME NEW j \in p + 1 .. Len(script) PROVE TurnOf(j) = NoTurn
      OBVIOUS
    <3>1. p \in 1 .. Len(script) /\ j \in 1 .. Len(script) /\ p < j
      BY <2>1, <2>2 DEF Positions
    <3> QED BY <2>1, <2>3, <3>1 DEF Orderly, TurnOf
  <2>6. InOrder'
    BY <1>1, <1>2, <1>4, <2>4, <2>5, EndIs
  <2> QED BY <1>4, <2>6 DEF Streaming, Starting, Ending
<1> QED BY <1>1, <1>3, <1>4

\* When the goal has ended and no turn is pending, no turn is to come: the server has named
\* them all.
LEMMA NoneAfter ==
    ASSUME GInv, OrderlyServer, sent =< Len(script), NEW p \in 0 .. sent, NEW r,
           NEW o \in 0 .. sent, StreamAt(p, r, o), upc = "continue", Ended, pending = <<>>
    PROVE  \A j \in p + 1 .. Len(script) : TurnOf(j) = NoTurn
<1>1. PlaceAt(p) /\ LoopAt(r, o) /\ PendingAt(o)
  BY StreamParts
<1>2. /\ sent \in Nat /\ Len(script) \in Nat /\ Orderly(script)
      /\ p # 0 /\ TurnOf(p) = turn /\ turn # NoTurn /\ script[p].m = "completed"
  BY <1>1, ScriptIs DEF GInv, GoalType, PlaceAt, Ending
<1>4. Base = turn /\ Len(pending) = 0
  BY <1>2 DEF Base
<1>3. PICK i \in 1 .. o : Finishes(script[i])
  <2>1. PICK i \in 1 .. o : OverAt(i, o)
    BY <1>1 DEF LoopAt
  <2>2. PICK k \in 1 .. o : Names(script[k])
    BY <1>1, <1>2, <1>4 DEF PendingAt, NamedBy
  <2>3. i \in 1 .. Len(script) /\ k \in 1 .. Len(script)
    BY <1>2
  <2>4. script[i].s = "old" => \E j \in i .. k : Renews(script[j])
    BY <1>2, <2>2, <2>3 DEF Orderly
  <2>5. \A j \in i .. k : j \in i .. o
    OBVIOUS
  <2> QED BY <2>1, <2>4, <2>5 DEF OverAt
<1> SUFFICES ASSUME NEW j \in p + 1 .. Len(script), TurnOf(j) # NoTurn PROVE FALSE
  OBVIOUS
<1>5. p \in Positions /\ j \in Positions /\ i \in 1 .. Len(script) /\ p < j
  BY <1>2 DEF Positions
<1>6. NamedBy(TurnOf(j), o)
  <2>1. PICK k \in 1 .. i : Names(script[k]) /\ script[k].t = script[j].t
    BY <1>2, <1>3, <1>5 DEF Orderly, Positions, TurnOf
  <2>2. k \in 1 .. o
    OBVIOUS
  <2> QED BY <2>1, <2>2 DEF NamedBy, TurnOf
<1>7. TurnOf(j) = turn \/ Before(TurnOf(j), turn)
  <2>1. \A k \in 1 .. Len(pending) : FALSE
    BY <1>4
  <2> QED BY <1>1, <1>4, <1>6, <2>1 DEF PendingAt
<1>8. TurnOf(j) # turn
  BY <1>2, <1>5 DEF Orderly, TurnOf, Positions
<1>9. j < p
  BY <1>2, <1>5, <1>7, <1>8, BeforeAll
<1> QED BY <1>5, <1>9 DEF Positions

LEMMA ContinuationOrder ==
    ASSUME GInv, OrderlyServer, sent =< Len(script), NEW p \in 0 .. sent, NEW r,
           NEW o \in 0 .. sent, StreamAt(p, r, o), AwaitContinuation \/ ContinuationSignalled
    PROVE  \/ upc' \in Streaming /\ StreamAt(p, r, o)'
           \/ upc' \notin Streaming /\ InOrder'
<1>1. /\ UNCHANGED <<script, sent, goalQ, turnQ, turnRoute, got, loop, cleared, status, logical,
                     pending, turn, closed>>
      /\ upc \in {"continue", "waitTurn"}
      /\ \/ upc' = "close" /\ outcome' = "error" /\ UNCHANGED <<next, delivered>>
         \/ /\ NextPending \notin {NoTurn, turn} /\ next' = NextPending /\ upc' = "pop"
            /\ UNCHANGED <<delivered, outcome>>
         \/ /\ upc = "continue" /\ NextPending = NoTurn /\ Ended /\ upc' = "close"
            /\ delivered' = Append(delivered, [m |-> "completed", t |-> turn, s |-> "none"])
         \/ upc' \in {"continue", "waitTurn"} /\ UNCHANGED <<next, delivered, outcome>>
  BY DEF AwaitContinuation, ContinuationSignalled, Signalled, Goto, End, serverVars, stateVars,
         loopVars
<1>2. PlaceAt(p) /\ PendingAt(o)
  BY StreamParts
<1>3. upc \in Ending /\ upc # "finishFailed" /\ "close" \notin Streaming
  BY <1>1 DEF Starting, Ending, Streaming
<1>4. CASE upc' = "close" /\ outcome' = "error" /\ UNCHANGED <<next, delivered>>
  <2>1. sent \in Nat
    BY DEF GInv, GoalType
  <2>2. InOrder'
    BY <1>1, <1>2, <1>4, <2>1, Leaves
  <2> QED BY <1>3, <1>4, <2>2
<1>5. CASE /\ NextPending \notin {NoTurn, turn} /\ next' = NextPending /\ upc' = "pop"
           /\ UNCHANGED <<delivered, outcome>>
  <2>1. /\ pending \in Seq(Turns) /\ pending # <<>> /\ next' = Head(pending) /\ next' # turn'
    BY <1>1, <1>2, <1>5 DEF PendingAt, NextPending
  <2>2. next' \in Turns \cup {NoTurn} /\ upc' \in Ending /\ upc' # "finishFailed"
    BY <1>5, <2>1 DEF Ending
  <2>3. StreamAt(p, r, o)'
    BY <1>1, <1>3, <1>5, <2>1, <2>2, EndingMoves
  <2> QED BY <2>2, <2>3 DEF Streaming
<1>6. CASE /\ upc = "continue" /\ NextPending = NoTurn /\ Ended /\ upc' = "close"
           /\ delivered' = Append(delivered, [m |-> "completed", t |-> turn, s |-> "none"])
  <2>1. pending = <<>>
    <3>1. pending \in Seq(Turns) /\ (pending # <<>> => Head(pending) \in Turns)
      BY <1>2 DEF PendingAt
    <3> QED BY <1>6, <3>1, GoalAssumption DEF NextPending
  <2>2. \A j \in p + 1 .. Len(script) : TurnOf(j) = NoTurn
    BY <1>6, <2>1, NoneAfter
  <2>3. /\ sent \in Nat /\ Len(script) \in Nat /\ p # 0 /\ TurnOf(p) = turn
        /\ script[p].m = "completed"
    BY <1>2, <1>3, ScriptIs DEF GInv, GoalType, PlaceAt
  <2>4. p \in Positions
    BY <2>3 DEF Positions
  <2>5. script[p] \in Notifications
    BY <2>4, ScriptIs
  <2>6. script[p] = [m |-> "completed", t |-> turn, s |-> "none"]
    BY <2>3, <2>5 DEF Notifications, TurnOf
  <2>7. InOrder'
    BY <1>1, <1>2, <1>3, <1>6, <2>2, <2>6, EndIs
  <2> QED BY <1>3, <1>6, <2>7
<1>7. CASE upc' \in {"continue", "waitTurn"} /\ UNCHANGED <<next, delivered, outcome>>
  <2>1. next' \in Turns \cup {NoTurn}
    BY <1>2, <1>7 DEF PlaceAt
  <2>2. upc' \in Ending /\ upc' # "finishFailed" /\ upc' # "pop"
    BY <1>7 DEF Ending
  <2>3. StreamAt(p, r, o)'
    BY <1>1, <1>3, <1>7, <2>1, <2>2, EndingMoves
  <2> QED BY <2>2, <2>3 DEF Streaming
<1> QED BY <1>1, <1>4, <1>5, <1>6, <1>7

\* The turn that is taken from the list is the next: what was named before it is over.
LEMMA PopOrder ==
    ASSUME GInv, OrderlyServer, sent =< Len(script), NEW p \in 0 .. sent, NEW r,
           NEW o \in 0 .. sent, StreamAt(p, r, o), PopTurn
    PROVE  upc' \in Streaming /\ StreamAt(p, r, o)'
<1>1. /\ UNCHANGED <<script, sent, goalQ, turnQ, turnRoute, got, loop, cleared, status, logical,
                     next, turn, delivered, outcome, closed>>
      /\ upc = "pop" /\ upc' = "register"
      /\ pending' = IF NextPending = next THEN Tail(pending) ELSE pending
  BY DEF PopTurn, Goto, serverVars, loopVars
<1>2. QueuesAt(p) /\ PlaceAt(p) /\ LoopAt(r, o) /\ FirstAt(o) /\ PendingAt(o)
  BY StreamParts
<1>3. /\ sent \in Nat /\ Len(script) \in Nat /\ Orderly(script) /\ upc \in Ending
      /\ p # 0 /\ TurnOf(p) = turn /\ turn # NoTurn /\ script[p].m = "completed"
      /\ Lists(delivered, Shown(p - 1))
  BY <1>1, <1>2, ScriptIs DEF GInv, GoalType, PlaceAt, Ending
<1>4. /\ p \in Positions /\ p \in Nat /\ p - 1 \in Nat
      /\ o \in 0 .. Len(script) /\ p \in 0 .. Len(script)
  BY <1>3 DEF Positions
<1>5. Base = turn /\ Base' = next
  BY <1>1, <1>3 DEF Base
<1>6. /\ pending \in Seq(Turns) /\ pending # <<>> /\ next = Head(pending) /\ next # turn
      /\ \A i \in 1 .. Len(pending) :
            NamedBy(pending[i], o) /\ (pending[i] = turn \/ Before(turn, pending[i]))
      /\ \A i, j \in 1 .. Len(pending) : i < j => Before(pending[i], pending[j])
      /\ \A t : NamedBy(t, o) =>
            t = turn \/ Before(t, turn) \/ \E i \in 1 .. Len(pending) : pending[i] = t
  BY <1>1, <1>2, <1>5 DEF PendingAt
<1>7. /\ pending' = Tail(pending) /\ next = pending[1] /\ 1 \in 1 .. Len(pending) /\ next \in Turns
      /\ Tail(pending) \in Seq(Turns) /\ Len(pending) \in Nat
      /\ \A i \in 1 .. Len(Tail(pending)) :
            i + 1 \in 1 .. Len(pending) /\ 1 < i + 1 /\ Tail(pending)[i] = pending[i + 1]
      /\ \A i \in 1 .. Len(pending) :
            i = 1 \/ (i - 1 \in 1 .. Len(Tail(pending)) /\ Tail(pending)[i - 1] = pending[i])
  BY <1>1, <1>6 DEF NextPending
<1>8. next # NoTurn /\ NamedBy(next, o) /\ Before(turn, next)
  BY <1>6, <1>7, GoalAssumption
<1>9. ASSUME NEW t, NamedBy(t, o)
      PROVE  \/ t = next \/ t = turn \/ Before(t, turn)
             \/ Before(next, t) /\ \E i \in 1 .. Len(Tail(pending)) : Tail(pending)[i] = t
  <2>1. CASE \E i \in 1 .. Len(pending) : pending[i] = t
    <3>1. PICK i \in 1 .. Len(pending) : pending[i] = t
      BY <2>1
    <3>2. CASE i = 1
      BY <1>7, <3>1, <3>2
    <3>3. CASE i # 1
      <4>1. 1 < i /\ i - 1 \in 1 .. Len(Tail(pending)) /\ Tail(pending)[i - 1] = t
        BY <1>7, <3>1, <3>3
      <4>2. Before(pending[1], pending[i])
        BY <1>6, <1>7, <4>1
      <4> QED BY <1>7, <3>1, <4>1, <4>2
    <3> QED BY <3>2, <3>3
  <2> QED BY <1>6, <1>9, <2>1
<1>10. AheadAt(next, p)
  <2>1. ASSUME NEW u, NamedBy(u, o), Before(u, next), NEW j \in p + 1 .. Len(script), TurnOf(j) = u
        PROVE  FALSE
    <3>1. u = turn \/ Before(u, turn)
      <4>1. u # next
        BY <2>1 DEF Before
      <4>2. ~Before(next, u)
        BY <1>3, <2>1, BeforeAsym
      <4> QED BY <1>9, <2>1, <4>1, <4>2
    <3>2. j \in Positions /\ p < j
      BY <1>3, <1>4 DEF Positions
    <3>3. u # turn
      BY <1>3, <1>4, <2>1, <3>2 DEF Orderly, TurnOf, Positions
    <3>4. j < p
      BY <1>3, <1>4, <2>1, <3>1, <3>2, <3>3, BeforeAll
    <3> QED BY <3>2, <3>4 DEF Positions
  <2> QED BY <1>3, <1>4, <1>8, <2>1, NextAhead
<1>11. p \notin Shown(p)
  <2>1. PICK k \in 1 .. o : TurnOf(k) = next
    BY <1>8 DEF NamedBy
  <2>2. k \in Positions
    BY <1>3, <1>4 DEF Positions
  <2>3. p < k
    BY <1>3, <1>4, <1>8, <2>1, <2>2, BeforeAll
  <2>4. k \in p .. Len(script)
    BY <1>4, <2>2, <2>3 DEF Positions
  <2> QED BY <1>3, <1>6, <1>8, <2>1, <2>4 DEF Shown, TurnOf
<1>12. Lists(delivered, Shown(p))'
  <2>1. p - 1 < p /\ \A j \in (p - 1) + 1 .. p - 1 : TurnOf(j) = NoTurn
    BY <1>4
  <2>2. Shown(p) = Shown(p - 1)
    BY <1>4, <1>11, <2>1, ShownTo
  <2>3. Shown(p)' = Shown(p)
    BY <1>1 DEF Shown
  <2> QED BY <1>1, <1>3, <2>2, <2>3 DEF Lists
<1>13. PlaceAt(p)'
  <2>1. AheadAt(next, p)' /\ AheadAt(turn, p)'
    BY <1>1, <1>2, <1>3, <1>10 DEF PlaceAt, AheadAt, TurnOf
  <2>2. upc' \notin Ending /\ upc' \notin Starting
    BY <1>1 DEF Starting, Ending
  <2> QED BY <1>1, <1>2, <1>3, <1>8, <1>12, <2>1, <2>2 DEF PlaceAt
<1>14. PendingAt(o)'
  <2>1. ASSUME NEW i \in 1 .. Len(pending')
        PROVE  NamedBy(pending'[i], o) /\ Before(next, pending'[i])
    BY <1>6, <1>7
  <2>2. ASSUME NEW i \in 1 .. Len(pending'), NEW j \in 1 .. Len(pending'), i < j
        PROVE  Before(pending'[i], pending'[j])
    <3>1. i + 1 < j + 1 /\ i + 1 \in 1 .. Len(pending) /\ j + 1 \in 1 .. Len(pending)
      BY <1>7, <2>2
    <3> QED BY <1>6, <1>7, <3>1
  <2>3. ASSUME NEW t, NamedBy(t, o)
        PROVE  t = next \/ Before(t, next) \/ \E i \in 1 .. Len(pending') : pending'[i] = t
    <3>1. Before(t, turn) => Before(t, next)
      BY <1>3, <1>8, BeforeTrans
    <3> QED BY <1>7, <1>8, <1>9, <2>3, <3>1
  <2>4. pending' \in Seq(Turns) /\ Base' = next /\ next # NoTurn /\ NamedBy(next, o) /\ upc' # "pop"
    BY <1>1, <1>5, <1>7, <1>8
  <2>5. /\ NamedBy(next, o)'
        /\ \A i \in 1 .. Len(pending') : NamedBy(pending[i], o)' /\ Before(next, pending[i])'
    BY <1>1, <2>1, <2>4, NamedStays
  <2>6. \A i, j \in 1 .. Len(pending') : i < j => Before(pending[i], pending[j])'
    <3> SUFFICES ASSUME NEW i \in 1 .. Len(pending'), NEW j \in 1 .. Len(pending'), i < j
                 PROVE  Before(pending[i], pending[j])'
      OBVIOUS
    <3>1. Before(pending'[i], pending'[j])
      BY <2>2
    <3> QED BY <1>1, <3>1, NamedStays
  <2>7. \A t : NamedBy(t, o)' =>
           t = next \/ Before(t, next)' \/ \E i \in 1 .. Len(pending') : pending'[i] = t
    BY <1>1, <2>3, NamedStays
  <2> QED BY <1>1, <2>4, <2>5, <2>6, <2>7 DEF PendingAt
<1>15. QueuesAt(p)' /\ LoopAt(r, o)' /\ FirstAt(o)'
  <2>1. QueuesAt(p)'
    BY <1>1, <1>2, QueuesStay DEF QueuesAt
  <2> QED BY <1>1, <1>2, <2>1, LoopStays, FirstStays
<1> QED BY <1>1, <1>13, <1>14, <1>15 DEF StreamAt, Streaming

LEMMA RegisterOrder ==
    ASSUME NEW p, NEW r, NEW o, StreamAt(p, r, o), RegisterNext
    PROVE  upc' \in Streaming /\ StreamAt(p, r, o)'
<1>1. /\ UNCHANGED <<script, sent, goalQ, turnQ, got, loop, cleared, status, logical, pending,
                     delivered, outcome, closed>>
      /\ upc = "register" /\ upc' = "read" /\ turn' = next /\ next' = NoTurn
      /\ turnRoute' = IF down THEN turnRoute ELSE [turnRoute EXCEPT ![next] = "open"]
  BY DEF RegisterNext, RegisterTurn, serverVars, stateVars, loopVars
<1>2. QueuesAt(p) /\ PlaceAt(p)
  BY StreamParts
<1>3. next \in Turns /\ next # NoTurn /\ AheadAt(next, p) /\ turn # NoTurn
  BY <1>1, <1>2 DEF PlaceAt
<1>4. QueuesAt(p)'
  <2>1. turnRoute \in [Turns -> {"none", "open", "closed"}]
    BY <1>2 DEF QueuesAt
  <2>2. /\ turnRoute' \in [Turns -> {"none", "open", "closed"}]
        /\ \A t \in Turns : turnRoute'[t] = "closed" => turnRoute[t] = "closed"
    BY <1>1, <1>3, <2>1
  <2> QED BY <1>1, <1>2, <2>2, QueuesStay
<1>5. PlaceAt(p)'
  <2>1. upc' \notin Ending /\ upc' \notin Starting /\ upc \notin Ending
    BY <1>1 DEF Starting, Ending
  <2>2. Lists(delivered, Shown(p))'
    BY <1>1, <1>2, <2>1 DEF PlaceAt, Lists, Shown
  <2>3. AheadAt(turn, p)'
    BY <1>1, <1>3 DEF AheadAt, TurnOf
  <2> QED BY <1>1, <1>2, <1>3, <2>1, <2>2, <2>3 DEF PlaceAt
<1>6. Base' = Base /\ upc' # "pop"
  BY <1>1, <1>3 DEF Base
<1>7. StreamAt(p, r, o)'
  BY <1>1, <1>4, <1>5, <1>6, CallerMoves
<1> QED BY <1>1, <1>7 DEF Streaming

LEMMA LeaveOrder ==
    ASSUME GInv, OrderlyServer, NEW p \in 0 .. sent, NEW r, NEW o, StreamAt(p, r, o),
           \/ StreamFails \/ StreamGivesUp
           \/ (CancelBegins \/ CloseBegins) /\ upc' # upc
    PROVE  upc' \notin Streaming /\ InOrder' /\ UNCHANGED <<script, sent>>
<1>1. /\ UNCHANGED <<script, sent, delivered>>
      /\ upc' \in {"close", "join"} /\ outcome' \in {"error", "left"}
  BY DEF StreamFails, StreamGivesUp, CancelBegins, CloseBegins, Called, serverVars
<1>2. PlaceAt(p) /\ sent \in Nat
  BY StreamParts DEF GInv, GoalType
<1>3. InOrder'
  BY <1>1, <1>2, Leaves
<1> QED BY <1>1, <1>3 DEF Streaming, Starting, Ending

\* While there is a stream, every step leaves it at some position.
LEMMA StreamingStep ==
    ASSUME GInv, OrderlyServer, sent =< Len(script), upc \in Streaming,
           NEW p \in 0 .. sent, NEW r \in 0 .. sent, NEW o \in 0 .. sent, StreamAt(p, r, o),
           [Next]_vars
    PROVE  OInv'
<1>1. sent \in Nat /\ Len(script) \in Nat
  BY ScriptIs DEF GInv, GoalType
<1>2. ASSUME UNCHANGED <<script, sent>>, NEW q \in 0 .. sent, NEW k \in 0 .. sent,
             NEW l \in 0 .. sent, StreamAt(q, k, l)', upc' \in Streaming
      PROVE  OInv'
  BY <1>2 DEF OInv
<1>3. ASSUME UNCHANGED <<script, sent>>, upc' \notin Streaming, InOrder' PROVE OInv'
  BY <1>3 DEF OInv
<1>4. CASE Server
  <2>1. StreamAt(p, r, o)' /\ sent' =< Len(script') /\ sent' = sent + 1
    BY <1>4, ServerOrder
  <2>2. p \in 0 .. sent' /\ r \in 0 .. sent' /\ o \in 0 .. sent'
    BY <1>1, <2>1
  <2>3. upc' \in Streaming
    BY <1>4 DEF Server, userVars
  <2> QED BY <2>1, <2>2, <2>3 DEF OInv
<1>5. CASE LoopReceive
  <2>1. PICK m \in 1 .. sent : StreamAt(p, m, m - 1)'
    BY <1>5, ReceiveOrder
  <2>2. m \in 0 .. sent /\ m - 1 \in 0 .. sent
    BY <1>1
  <2>3. UNCHANGED <<script, sent, upc>>
    BY <1>5 DEF LoopReceive, serverVars, userVars
  <2> QED BY <1>2, <2>1, <2>2, <2>3
<1>6. CASE LoopObserve
  <2>1. StreamAt(p, r, r)'
    BY <1>6, ObserveOrder
  <2>2. UNCHANGED <<script, sent, upc>>
    BY <1>6 DEF LoopObserve, serverVars, userVars
  <2> QED BY <1>2, <2>1, <2>2
<1>7. CASE \/ LoopCall \/ LoopRegister \/ LoopFails \/ LoopCancelled \/ TransportFails
           \/ (CancelBegins \/ CloseBegins \/ Closer \/ Returned \/ UNCHANGED vars) /\ upc' = upc
  <2>1. StreamAt(p, r, o)' /\ UNCHANGED <<script, sent, upc>>
    BY <1>7, SilentOrder
  <2> QED BY <1>2, <2>1
<1>8. CASE \/ ClearGoal \/ SetGoal \/ StartFails \/ AwaitStart \/ StartSignalled \/ StartGivesUp
  <2>1. /\ upc' \in Streaming => StreamAt(p, r, o)'
        /\ upc' \notin Streaming => InOrder'
        /\ UNCHANGED <<script, sent>>
    BY <1>8, StartOrder
  <2> QED BY <1>2, <1>3, <2>1
<1>9. CASE StreamNext
  <2>1. StreamAt(p, r, o)'
    BY <1>9, StreamNextOrder
  <2>2. UNCHANGED <<script, sent>> /\ upc' \in Streaming
    BY <1>9 DEF StreamNext, serverVars, Streaming
  <2> QED BY <1>2, <2>1, <2>2
<1>10. CASE StreamRead
  <2>1. PICK q \in 0 .. sent : StreamAt(q, r, o)'
    BY <1>10, ReadOrder
  <2>2. UNCHANGED <<script, sent>> /\ upc' \in Streaming
    BY <1>10 DEF StreamRead, serverVars, Streaming, Ending
  <2> QED BY <1>2, <2>1, <2>2
<1>11. CASE \/ FinishPhysicalTurn \/ AwaitContinuation \/ ContinuationSignalled \/ PopTurn
            \/ RegisterNext
  <2>1. \/ upc' \in Streaming /\ StreamAt(p, r, o)'
        \/ upc' \notin Streaming /\ InOrder'
    BY <1>11, FinishOrder, ContinuationOrder, PopOrder, RegisterOrder
  <2>2. UNCHANGED <<script, sent>>
    BY <1>11 DEF FinishPhysicalTurn, AwaitContinuation, ContinuationSignalled, PopTurn,
                 RegisterNext, serverVars
  <2> QED BY <1>2, <1>3, <2>1, <2>2
<1>12. CASE \/ StreamFails \/ StreamGivesUp
            \/ (CancelBegins \/ CloseBegins) /\ upc' # upc
  BY <1>3, <1>12, LeaveOrder
<1>13. Closer \/ Returned \/ UNCHANGED vars => upc' = upc
  BY DEF Closer, PauseGoal, InterruptTarget, Interrupt, NoteMismatch, InterruptAgain,
         InterruptFails, Close, Join, Returned, Streaming, Starting, Ending, userVars, vars
<1> QED BY <1>4, <1>5, <1>6, <1>7, <1>8, <1>9, <1>10, <1>11, <1>12, <1>13
        DEF Next, RouteLoop, Caller, Choices

\* Once the stream is over, nothing is handed out and the outcome is no normal end unless
\* it was one.
LEMMA OutsideStep ==
    ASSUME GInv, OrderlyServer, sent =< Len(script), upc \notin Streaming, InOrder, [Next]_vars
    PROVE  OInv'
<1>1. /\ UNCHANGED <<script, delivered>> /\ upc' \notin Streaming
      /\ outcome' = "end" => outcome = "end"
      /\ sent' = sent \/ (sent' = sent + 1 /\ sent < Len(script))
  <2>1. CASE Server \/ TransportFails \/ RouteLoop \/ UNCHANGED vars
    BY <2>1 DEF Server, TransportFails, RouteLoop, LoopCall, LoopReceive, LoopRegister, LoopObserve,
                LoopFails, LoopCancelled, vars, serverVars, userVars
  <2>2. CASE Closer
    BY <2>2 DEF Closer, PauseGoal, InterruptTarget, Interrupt, NoteMismatch, InterruptAgain,
                InterruptFails, Close, Join, Goto, HandleTo, serverVars, userVars, Streaming,
                Starting, Ending
  <2>3. CASE CancelBegins \/ CloseBegins \/ Returned
    BY <2>3 DEF CancelBegins, CloseBegins, Called, Returned, vars, serverVars, userVars, Streaming,
                Starting, Ending
  <2>4. CASE \/ ClearGoal \/ SetGoal \/ StartFails \/ AwaitStart \/ StartSignalled \/ StartGivesUp
             \/ StreamNext \/ StreamRead \/ StreamFails \/ FinishPhysicalTurn
             \/ AwaitContinuation \/ PopTurn \/ RegisterNext \/ ContinuationSignalled
             \/ StreamGivesUp
    BY <2>4 DEF ClearGoal, SetGoal, StartFails, AwaitStart, StartSignalled, StartGivesUp, StreamNext,
                StreamRead, StreamFails, FinishPhysicalTurn, AwaitContinuation, PopTurn,
                RegisterNext, ContinuationSignalled, StreamGivesUp, Signalled, Streaming, Starting, Ending
  <2> QED BY <2>1, <2>2, <2>3, <2>4 DEF Next, Caller, Choices
<1>2. sent \in Nat /\ Len(script) \in Nat
  BY ScriptIs DEF GInv, GoalType
<1>3. \A k : Shown(k)' = Shown(k)
  BY <1>1 DEF Shown
<1>4. PICK q \in 0 .. sent : Lists(delivered, Shown(q))
  BY DEF InOrder
<1>5. q \in 0 .. sent' /\ sent' =< Len(script')
  BY <1>1, <1>2
<1>6. Lists(delivered, Shown(q))'
  BY <1>1, <1>3, <1>4 DEF Lists
<1>7. ASSUME outcome = "end" PROVE Lists(delivered, Shown(Len(script)))'
  <2>1. Lists(delivered, Shown(Len(script))) /\ Shown(Len(script))' = Shown(Len(script))
    BY <1>1, <1>7 DEF InOrder, Shown
  <2> QED BY <1>1, <2>1 DEF Lists
<1>8. InOrder'
  BY <1>1, <1>5, <1>6, <1>7 DEF InOrder
<1> QED BY <1>1, <1>5, <1>8 DEF OInv

LEMMA OrderInit == ASSUME OrderlyServer, Init PROVE OInv
<1>1. /\ script \in Scripts /\ sent = 0 /\ goalQ = <<>> /\ turnQ = [t \in Turns |-> <<>>]
      /\ turnRoute = [t \in Turns |-> "none"] /\ logical = NoTurn /\ pending = <<>>
      /\ status = "none" /\ cleared = FALSE /\ loop = "call" /\ closed = FALSE
      /\ upc = "clear" /\ next = NoTurn /\ turn = NoTurn /\ delivered = <<>> /\ outcome = "none"
  BY DEF Init
<1>2. Len(script) \in Nat /\ \A k : k \notin 1 .. 0
  BY <1>1, ScriptIs, GoalInit
<1>3. Shown(0) = {} /\ GoalAt(0, 0) = {} /\ \A t : TurnAt(t, 0) = {} /\ ~NamedBy(t, 0)
  BY <1>1, <1>2 DEF Shown, GoalAt, TurnAt, NamedBy
<1>4. <<>> \in Seq(Notifications) /\ <<>> \in Seq(Turns) /\ Len(<<>>) = 0
  OBVIOUS
<1>5. QueuesAt(0)
  BY <1>1, <1>3, <1>4, ListsNone DEF QueuesAt
<1>6. PlaceAt(0)
  BY <1>1, <1>3, <1>4, ListsNone DEF PlaceAt, Starting, Ending
<1>7. LoopAt(0, 0)
  <2>1. Lists(goalQ, GoalAt(0, 0)) /\ 0 \in 0 .. sent /\ 0 = sent
    <3>1. Lists(goalQ, GoalAt(0, 0))
      BY <1>1, <1>3, ListsNone, Zenon
    <3> QED BY <1>1, <3>1
  <2>2. ~Ended
    BY <1>1 DEF Ended, Terminal
  <2> QED BY <1>1, <2>1, <2>2 DEF LoopAt, Listening
<1>8. FirstAt(0)
  BY <1>1, <1>3 DEF FirstAt
<1>9. PendingAt(0)
  BY <1>1, <1>2, <1>3, <1>4 DEF PendingAt, Base
<1>10. StreamAt(0, 0, 0)
  BY <1>5, <1>6, <1>7, <1>8, <1>9 DEF StreamAt
<1>11. 0 \in 0 .. sent /\ sent =< Len(script) /\ upc \in Streaming
  BY <1>1, <1>2 DEF Streaming, Starting
<1> QED BY <1>10, <1>11 DEF OInv

\* "multiple runtime continuation turns are exposed as one logical goal stream in order":
\* whatever the route loop and the stream see first, and however the transport, the caller's
\* context and whoever cancels or closes the goal interfere, the events the caller gets are
\* those of the server, in order and without a gap, and a stream that ends normally ends after
\* the last of them.  The server is orderly: it works on one turn after the other, has none
\* after one that failed, ends the goal only when it has named all its turns, and gives the
\* goal's status before a turn if it announces the end of the goal that was cleared.  How and
\* how often it names a turn is left open.
THEOREM StreamsInOrder ==
    ASSUME \A s \in Scripts : Orderly(s)
    PROVE  Spec => []InOrder
<1>1. OrderlyServer
  BY DEF OrderlyServer
<1>2. Init => GInv /\ OInv
  BY <1>1, GoalInit, OrderInit
<1>3. GInv /\ OInv /\ [Next]_vars => (GInv /\ OInv)'
  <2> SUFFICES ASSUME GInv, OInv, [Next]_vars PROVE GInv' /\ OInv'
    OBVIOUS
  <2>1. GInv'
    BY GoalStepKeeps
  <2>2. CASE upc \in Streaming
    <3>1. sent =< Len(script) /\ \E p, r, o \in 0 .. sent : StreamAt(p, r, o)
      BY <2>2 DEF OInv
    <3>2. PICK p, r, o \in 0 .. sent : StreamAt(p, r, o)
      BY <3>1
    <3> QED BY <1>1, <2>1, <2>2, <3>1, <3>2, StreamingStep
  <2>3. CASE upc \notin Streaming
    BY <1>1, <2>1, <2>3, OutsideStep DEF OInv
  <2> QED BY <2>1, <2>2, <2>3
<1>4. GInv /\ OInv => InOrder
  <2> SUFFICES ASSUME GInv, OInv, upc \in Streaming PROVE InOrder
    BY DEF OInv
  <2>1. PICK p, r, o \in 0 .. sent : StreamAt(p, r, o)
    BY DEF OInv
  <2>2. PlaceAt(p) /\ sent \in Nat
    BY <2>1, StreamParts DEF GInv, GoalType
  <2>3. CASE upc \in Ending
    <3>1. p - 1 \in 0 .. sent /\ Lists(delivered, Shown(p - 1)) /\ outcome = "none"
      BY <2>2, <2>3 DEF PlaceAt
    <3> QED BY <3>1 DEF InOrder
  <2>4. CASE upc \notin Ending
    BY <2>2, <2>4 DEF PlaceAt, InOrder
  <2> QED BY <2>3, <2>4
<1> QED BY <1>2, <1>3, <1>4, PTL DEF Spec

-----------------------------------------------------------------------------
(* Types *)

\* The turns that the code takes for granted: that of a stream that reads or has read an end,
\* the one to go on with or to interrupt, the one the loop registers.
TurnsKnown ==
    /\ upc \in {"read", "finish", "finishFailed", "continue", "waitTurn", "pop", "register"} =>
          turn # NoTurn
    /\ upc \in {"pop", "register"} => next # NoTurn
    /\ hpc \in {"interrupt", "note", "again"} => target # NoTurn
    /\ loop = "register" => got.t # NoTurn
    /\ loop \in {"register", "observe"} => got \in Notifications

FlagsOK == {cleared, failed, signal, closed, streaming, down} \subseteq BOOLEAN

QueuesOK ==
    /\ script \in Scripts /\ sent \in 0 .. Len(script)
    /\ goalQ \in Seq(Notifications) /\ turnQ \in [Turns -> Seq(Notifications)]
    /\ turnRoute \in [Turns -> {"none", "open", "closed"}]
    /\ pending \in Seq(Turns) /\ delivered \in Seq(Notifications)

TurnsOK ==
    /\ {active, logical, current, last, next, turn, target} \subseteq Turns \cup {NoTurn}
    /\ interrupted \subseteq Turns /\ registered \subseteq Turns
    /\ got \in Notifications \cup {None}

PlacesOK ==
    /\ goal \in {"unset", "active", "paused"} /\ status \in {"none", "active"} \cup Terminal
    /\ loop \in {"call", "select", "register", "observe", "done"}
    /\ upc \in {"clear", "set", "await", "waitStart", "idle", "read", "finish",
                "finishFailed", "continue", "waitTurn", "pop", "register", "close",
                "join", "done"}
    /\ outcome \in {"none", "error", "no turn", "end", "left"}
    /\ hpc \in {"none", "pause", "target", "interrupt", "note", "again", "close", "join",
                "done"}
    /\ cancelled \in {"no", "yes", "unheard"}

TInv == FlagsOK /\ QueuesOK /\ TurnsOK /\ PlacesOK /\ TurnsKnown

LEMMA TypesInit == ASSUME Init PROVE TInv
<1>1. script \in Seq(Notifications) /\ <<>> \in Seq(Notifications) /\ <<>> \in Seq(Turns)
  BY GoalAssumption DEF Init
<1>2. sent \in 0 .. Len(script)
  BY <1>1 DEF Init
<1>3. QueuesOK
  BY <1>1, <1>2 DEF Init, QueuesOK
<1>4. FlagsOK /\ TurnsOK /\ PlacesOK /\ TurnsKnown
  BY DEF Init, FlagsOK, TurnsOK, PlacesOK, TurnsKnown
<1> QED BY <1>3, <1>4 DEF TInv

LEMMA FlagsKept == ASSUME GInv, FlagsOK, [Next]_vars PROVE FlagsOK'
<1> USE DEF FlagsOK, serverVars, stateVars, loopVars, userVars, handleVars
<1>1. cleared' \in BOOLEAN
  BY GoalStepKeeps DEF GInv, GoalType
<1>2. CASE Server \/ TransportFails \/ Returned \/ UNCHANGED vars
  BY <1>2 DEF Server, TransportFails, Returned, vars
<1>3. CASE RouteLoop
  <2>1. UNCHANGED <<closed, streaming, down>> /\ {failed, signal}' \subseteq BOOLEAN
    BY <1>3 DEF RouteLoop, LoopCall, LoopReceive, LoopRegister, LoopObserve, LoopFails,
                LoopCancelled, ObserveGoalNotification, Notify
  <2> QED BY <1>1, <2>1
<1>4. CASE ClearGoal \/ SetGoal \/ StartFails \/ AwaitStart \/ StartSignalled \/ StartGivesUp
  BY <1>4 DEF ClearGoal, SetGoal, StartFails, AwaitStart, StartSignalled, StartGivesUp, Signalled,
              Goto, CleanUp
<1>5. CASE StreamNext \/ StreamRead \/ StreamFails \/ StreamGivesUp \/ FinishPhysicalTurn
  BY <1>5 DEF StreamNext, StreamRead, StreamFails, StreamGivesUp, FinishPhysicalTurn, Goto, Notify
<1>6. CASE AwaitContinuation \/ ContinuationSignalled \/ PopTurn \/ RegisterNext
  BY <1>6 DEF AwaitContinuation, ContinuationSignalled, PopTurn, RegisterNext, Signalled, Goto, End
<1>7. CASE \/ CancelBegins \/ CloseBegins \/ PauseGoal \/ InterruptTarget \/ Interrupt
           \/ NoteMismatch \/ InterruptAgain \/ InterruptFails
  BY <1>7 DEF CancelBegins, CloseBegins, Called, PauseGoal, InterruptTarget, Interrupt,
              NoteMismatch, InterruptAgain, InterruptFails
<1>8. CASE Close \/ Join
  BY <1>8 DEF Close, Join, Goto, HandleTo
<1> QED BY <1>2, <1>3, <1>4, <1>5, <1>6, <1>7, <1>8 DEF Next, Caller, Closer, Choices

LEMMA PlacesKept == ASSUME TInv, [Next]_vars PROVE PlacesOK'
<1> USE DEF TInv, PlacesOK, serverVars, stateVars, loopVars, userVars, handleVars
<1>1. CASE Server \/ TransportFails \/ Returned \/ UNCHANGED vars
  BY <1>1 DEF Server, TransportFails, Returned, vars
<1>2. CASE LoopCall \/ LoopReceive \/ LoopRegister \/ LoopFails \/ LoopCancelled
  BY <1>2 DEF LoopCall, LoopReceive, LoopRegister, LoopFails, LoopCancelled
<1>3. CASE LoopObserve
  <2>1. got \in Notifications
    BY <1>3 DEF LoopObserve, TurnsKnown
  <2>2. got.m = "updated" /\ got.s # "invalid" => got.s \in {"active"} \cup Terminal
    BY <2>1 DEF Notifications
  <2>3. status' = status \/ (got.m = "updated" /\ got.s # "invalid" /\ status' = got.s)
    BY <1>3 DEF LoopObserve, ObserveGoalNotification
  <2>4. status' \in {"none", "active"} \cup Terminal
    BY <2>2, <2>3
  <2>5. loop' = "call" /\ UNCHANGED <<goal, upc, outcome, hpc, cancelled>>
    BY <1>3 DEF LoopObserve
  <2> QED BY <2>4, <2>5
<1>4. CASE ClearGoal \/ SetGoal \/ StartFails \/ AwaitStart \/ StartSignalled \/ StartGivesUp
  BY <1>4 DEF ClearGoal, SetGoal, StartFails, AwaitStart, StartSignalled, StartGivesUp, Signalled,
              Goto, CleanUp
<1>5. CASE StreamNext \/ StreamRead \/ StreamFails \/ StreamGivesUp \/ FinishPhysicalTurn
  BY <1>5 DEF StreamNext, StreamRead, StreamFails, StreamGivesUp, FinishPhysicalTurn, Goto
<1>6. CASE AwaitContinuation \/ ContinuationSignalled \/ PopTurn \/ RegisterNext
  BY <1>6 DEF AwaitContinuation, ContinuationSignalled, PopTurn, RegisterNext, Signalled, Goto, End
<1>7. CASE \/ CancelBegins \/ CloseBegins \/ PauseGoal \/ InterruptTarget \/ Interrupt
           \/ NoteMismatch \/ InterruptAgain \/ InterruptFails
  BY <1>7 DEF CancelBegins, CloseBegins, Called, PauseGoal, InterruptTarget, Interrupt,
              NoteMismatch, InterruptAgain, InterruptFails, HandleTo, Unheard
<1>8. CASE Close \/ Join
  BY <1>8 DEF Close, Join, Goto, HandleTo
<1> QED BY <1>1, <1>2, <1>3, <1>4, <1>5, <1>6, <1>7, <1>8 DEF Next, RouteLoop, Caller, Closer, Choices

LEMMA TurnsKept == ASSUME GInv, TInv, [Next]_vars PROVE TurnsOK' /\ TurnsKnown'
<1> USE DEF TInv, TurnsOK, TurnsKnown, serverVars, stateVars, loopVars, userVars, handleVars
<1>1. CASE Server
  <2>1. script[sent + 1] \in Notifications
    BY <1>1, GoalAssumption DEF Server, QueuesOK
  <2>2. script[sent + 1].m = "started" => script[sent + 1].t \in Turns
    BY <2>1 DEF Notifications
  <2>3. active' \in Turns \cup {NoTurn}
    BY <1>1, <2>2 DEF Server
  <2> QED BY <1>1, <2>3 DEF Server
<1>2. CASE TransportFails \/ Returned \/ UNCHANGED vars
  BY <1>2 DEF TransportFails, Returned, vars
<1>3. CASE LoopCall \/ LoopFails \/ LoopCancelled
  BY <1>3 DEF LoopCall, LoopFails, LoopCancelled
<1>4. CASE LoopReceive
  <2>1. got' \in Notifications
    BY <1>4 DEF LoopReceive, QueuesOK
  <2>2. got'.t \in Turns \cup {NoTurn}
    BY <2>1 DEF Notifications
  <2>3. /\ registered' \subseteq Turns /\ loop' \in {"register", "observe"}
        /\ loop' = "register" => got'.t # NoTurn
    BY <1>4, <2>2, GoalAssumption DEF LoopReceive
  <2> QED BY <1>4, <2>1, <2>3 DEF LoopReceive
<1>5. CASE LoopRegister
  BY <1>5 DEF LoopRegister
<1>6. CASE LoopObserve
  <2>1. got \in Notifications /\ got' = None /\ loop' = "call"
    BY <1>6 DEF LoopObserve
  <2>2. got.t \in Turns \cup {NoTurn}
    BY <2>1 DEF Notifications
  <2>3. {logical, current, last}' \subseteq Turns \cup {NoTurn}
    BY <1>6, <2>2 DEF LoopObserve, ObserveGoalNotification, NoteTurnID, Completed
  <2> QED BY <1>6, <2>1, <2>3 DEF LoopObserve
<1>7. CASE ClearGoal \/ SetGoal \/ StartFails \/ AwaitStart \/ StartSignalled \/ StartGivesUp
  BY <1>7 DEF ClearGoal, SetGoal, StartFails, AwaitStart, StartSignalled, StartGivesUp, Signalled,
              Goto, CleanUp
<1>8. CASE StreamNext
  <2>1. logical # NoTurn
    BY <1>8 DEF StreamNext, GInv, HandleInv, Pulling
  <2> QED BY <1>8, <2>1 DEF StreamNext
<1>9. CASE StreamRead \/ StreamFails \/ StreamGivesUp \/ FinishPhysicalTurn
  BY <1>9 DEF StreamRead, StreamFails, StreamGivesUp, FinishPhysicalTurn, Goto
<1>10. CASE AwaitContinuation
  <2>1. NextPending \in Turns \cup {NoTurn}
    BY DEF NextPending, QueuesOK
  <2> QED BY <1>10, <2>1 DEF AwaitContinuation, Goto, End
<1>11. CASE ContinuationSignalled \/ PopTurn \/ RegisterNext
  BY <1>11 DEF ContinuationSignalled, PopTurn, RegisterNext, Signalled, Goto
<1>12. CASE \/ CancelBegins \/ CloseBegins \/ PauseGoal \/ InterruptTarget \/ NoteMismatch
            \/ InterruptFails \/ Close \/ Join
  BY <1>12 DEF CancelBegins, CloseBegins, Called, PauseGoal, InterruptTarget, NoteMismatch,
               InterruptFails, Close, Join, Goto, HandleTo
<1>13. CASE Interrupt \/ InterruptAgain
  <2>1. interrupted' = interrupted \cup ({target} \cap {active}) /\ hpc \in {"interrupt", "again"}
    BY <1>13 DEF Interrupt, InterruptAgain
  <2>2. {target} \cap {active} \subseteq Turns
    <3>1. target \in Turns \cup {NoTurn} /\ target # NoTurn
      BY <2>1
    <3> QED BY <3>1
  <2> QED BY <1>13, <2>1, <2>2 DEF Interrupt, InterruptAgain, HandleTo
<1> QED BY <1>1, <1>2, <1>3, <1>4, <1>5, <1>6, <1>7, <1>8, <1>9, <1>10, <1>11, <1>12, <1>13
        DEF Next, RouteLoop, Caller, Closer, Choices

\* Nobody but the server puts anything into a mailbox, and a turn that is given up leaves its
\* mailbox empty.
LEMMA ClosedQueues ==
    ASSUME QueuesOK, NEW t \in Turns, UnregisterTurn(t)
    PROVE  /\ turnQ' \in [Turns -> Seq(Notifications)]
           /\ turnRoute' \in [Turns -> {"none", "open", "closed"}]
<1>1. <<>> \in Seq(Notifications)
  OBVIOUS
<1> QED BY <1>1 DEF QueuesOK, UnregisterTurn

LEMMA QueuesKept == ASSUME TInv, [Next]_vars PROVE QueuesOK'
<1> USE DEF TInv, serverVars, stateVars, loopVars, userVars
<1>1. CASE Server
  <2> PICK n : n = script[sent + 1]
    OBVIOUS
  <2>1. /\ turnQ' = IF n.t \in Turns /\ turnRoute[n.t] # "closed"
                    THEN [turnQ EXCEPT ![n.t] = Append(@, n)] ELSE turnQ
        /\ goalQ' = IF n.m # "item" /\ ~closed THEN Append(goalQ, n) ELSE goalQ
        /\ sent' = sent + 1 /\ sent < Len(script)
        /\ UNCHANGED <<script, turnRoute, pending, delivered>>
    BY <1>1 DEF Server, Route
  <2>2. script \in Seq(Notifications) /\ sent \in 0 .. Len(script)
    BY GoalAssumption DEF QueuesOK
  <2>3. n \in Notifications /\ sent' \in 0 .. Len(script')
    BY <2>1, <2>2
  <2>4. goalQ' \in Seq(Notifications)
    <3>1. goalQ \in Seq(Notifications)
      BY DEF QueuesOK
    <3> QED BY <2>1, <2>3, <3>1, AppendIs
  <2>5. turnQ' \in [Turns -> Seq(Notifications)]
    <3>1. turnQ \in [Turns -> Seq(Notifications)]
      BY DEF QueuesOK
    <3>2. ASSUME n.t \in Turns PROVE Append(turnQ[n.t], n) \in Seq(Notifications)
      BY <2>3, <3>1, <3>2, AppendIs
    <3> QED BY <2>1, <3>1, <3>2
  <2>6. /\ UNCHANGED <<script, turnRoute, pending, delivered>>
        /\ script \in Scripts /\ turnRoute \in [Turns -> {"none", "open", "closed"}]
        /\ pending \in Seq(Turns) /\ delivered \in Seq(Notifications)
    BY <2>1 DEF QueuesOK
  <2>7. /\ script' \in Scripts /\ turnRoute' \in [Turns -> {"none", "open", "closed"}]
        /\ pending' \in Seq(Turns) /\ delivered' \in Seq(Notifications)
    BY <2>6
  <2> QED BY <2>3, <2>4, <2>5, <2>7, Zenon DEF QueuesOK
<1>2. CASE TransportFails \/ Returned \/ UNCHANGED vars
  BY <1>2 DEF TransportFails, Returned, vars, QueuesOK
<1>3. CASE LoopCall \/ LoopReceive \/ LoopFails \/ LoopCancelled
  <2>1. CASE LoopReceive
    <3>1. goalQ' = Tail(goalQ) /\ goalQ # <<>>
      BY <2>1 DEF LoopReceive
    <3>2. goalQ' \in Seq(Notifications)
      <4>1. goalQ \in Seq(Notifications)
        BY DEF QueuesOK
      <4> QED BY <3>1, <4>1
    <3> QED BY <2>1, <3>2 DEF LoopReceive, QueuesOK
  <2>2. CASE LoopCall \/ LoopFails \/ LoopCancelled
    BY <2>2 DEF LoopCall, LoopFails, LoopCancelled, QueuesOK
  <2> QED BY <1>3, <2>1, <2>2
<1>4. CASE LoopRegister
  <2>1. got.t \in Turns
    <3>1. got \in Notifications /\ got.t # NoTurn
      BY <1>4 DEF LoopRegister, TurnsKnown
    <3> QED BY <3>1 DEF Notifications
  <2> QED BY <1>4, <2>1 DEF LoopRegister, RegisterTurn, QueuesOK
<1>5. CASE LoopObserve
  <2>1. got \in Notifications
    BY <1>5 DEF LoopObserve, TurnsKnown
  <2>2. got.t \in Turns \cup {NoTurn} /\ (got.m = "started" => got.t \in Turns)
    BY <2>1 DEF Notifications
  <2>3. pending' = pending \/ (got.t \in Turns /\ pending' = Append(pending, got.t))
    BY <1>5, <2>2 DEF LoopObserve, ObserveGoalNotification, NoteTurnID
  <2>4. pending' \in Seq(Turns)
    <3>1. pending \in Seq(Turns)
      BY DEF QueuesOK
    <3> QED BY <2>3, <3>1, AppendIs
  <2> QED BY <1>5, <2>4 DEF LoopObserve, QueuesOK
<1>6. CASE ClearGoal \/ SetGoal \/ StartFails \/ AwaitStart
  BY <1>6 DEF ClearGoal, SetGoal, StartFails, AwaitStart, CleanUp, Goto, QueuesOK
<1>7. CASE StartSignalled \/ StartGivesUp \/ StreamNext
  BY <1>7 DEF StartSignalled, StartGivesUp, StreamNext, CleanUp, Signalled, Goto, QueuesOK
<1>8. CASE StreamRead
  <2>1. turn \in Turns
    BY <1>8 DEF StreamRead, TurnsOK, TurnsKnown
  <2>2. turnQ[turn] \in Seq(Notifications) /\ turnQ[turn] # <<>>
    BY <1>8, <2>1 DEF StreamRead, QueuesOK
  <2>3. Tail(turnQ[turn]) \in Seq(Notifications) /\ Head(turnQ[turn]) \in Notifications
    BY <2>2
  <2>4. \/ /\ turnQ' = [turnQ EXCEPT ![turn] = Tail(@)] /\ turnRoute' = turnRoute
           /\ delivered' = delivered \/ delivered' = Append(delivered, Head(turnQ[turn]))
        \/ UnregisterTurn(turn) /\ delivered' = delivered
    BY <1>8 DEF StreamRead
  <2>5. delivered' \in Seq(Notifications)
    <3>1. delivered \in Seq(Notifications)
      BY DEF QueuesOK
    <3> QED BY <2>3, <2>4, <3>1, AppendIs
  <2>6. /\ turnQ' \in [Turns -> Seq(Notifications)]
        /\ turnRoute' \in [Turns -> {"none", "open", "closed"}]
    <3>1. CASE turnQ' = [turnQ EXCEPT ![turn] = Tail(@)] /\ turnRoute' = turnRoute
      BY <2>3, <3>1 DEF QueuesOK
    <3>2. CASE UnregisterTurn(turn)
      BY <2>1, <3>2, ClosedQueues
    <3> QED BY <2>4, <3>1, <3>2
  <2> QED BY <1>8, <2>5, <2>6 DEF StreamRead, QueuesOK
<1>9. CASE StreamFails \/ StreamGivesUp
  <2>1. upc = "read" => turn \in Turns
    BY DEF TurnsOK, TurnsKnown
  <2>2. \/ turn \in Turns /\ UnregisterTurn(turn)
        \/ UNCHANGED <<turnQ, turnRoute>>
    BY <1>9, <2>1 DEF StreamFails, StreamGivesUp
  <2>3. /\ turnQ' \in [Turns -> Seq(Notifications)]
        /\ turnRoute' \in [Turns -> {"none", "open", "closed"}]
    <3>1. CASE turn \in Turns /\ UnregisterTurn(turn)
      BY <3>1, ClosedQueues
    <3> QED BY <2>2, <3>1 DEF QueuesOK
  <2> QED BY <1>9, <2>3 DEF StreamFails, StreamGivesUp, QueuesOK
<1>10. CASE FinishPhysicalTurn \/ AwaitContinuation
  <2>1. turn \in Turns
    BY <1>10 DEF FinishPhysicalTurn, AwaitContinuation, TurnsOK, TurnsKnown
  <2>2. \A m \in {"completed", "failed"} : [m |-> m, t |-> turn, s |-> "none"] \in Notifications
    BY <2>1 DEF Notifications
  <2>3. \/ delivered' = delivered
        \/ \E m \in {"completed", "failed"} :
              delivered' = Append(delivered, [m |-> m, t |-> turn, s |-> "none"])
    BY <1>10 DEF FinishPhysicalTurn, AwaitContinuation, Goto, End
  <2>4. delivered' \in Seq(Notifications)
    <3>1. delivered \in Seq(Notifications)
      BY DEF QueuesOK
    <3> QED BY <2>2, <2>3, <3>1, AppendIs
  <2> QED BY <1>10, <2>4 DEF FinishPhysicalTurn, AwaitContinuation, QueuesOK
<1>11. CASE PopTurn
  <2>1. pending \in Seq(Turns) /\ (NextPending = next => pending # <<>>)
    BY <1>11 DEF PopTurn, QueuesOK, TurnsKnown, NextPending
  <2>2. pending' \in Seq(Turns)
    BY <1>11, <2>1 DEF PopTurn
  <2> QED BY <1>11, <2>2 DEF PopTurn, Goto, QueuesOK
<1>12. CASE RegisterNext
  <2>1. next \in Turns
    BY <1>12 DEF RegisterNext, TurnsOK, TurnsKnown
  <2> QED BY <1>12, <2>1 DEF RegisterNext, RegisterTurn, QueuesOK
<1>13. CASE ContinuationSignalled \/ CancelBegins \/ CloseBegins \/ PauseGoal
  BY <1>13 DEF ContinuationSignalled, CancelBegins, CloseBegins, Called, PauseGoal, Signalled, Goto,
               QueuesOK
<1>14. CASE \/ InterruptTarget \/ Interrupt \/ NoteMismatch \/ InterruptAgain \/ InterruptFails
            \/ Close \/ Join
  BY <1>14 DEF InterruptTarget, Interrupt, NoteMismatch, InterruptAgain, InterruptFails, Close,
               Join, Goto, QueuesOK
<1> QED BY <1>1, <1>2, <1>3, <1>4, <1>5, <1>6, <1>7, <1>8, <1>9, <1>10, <1>11, <1>12, <1>13, <1>14
        DEF Next, RouteLoop, Caller, Closer, Choices

\* A goal operation keeps its types for every set of turns and every script: among others, a
\* stream reads, registers and unregisters only turns it knows, and nothing is taken from an
\* empty list of turns.
THEOREM TypeCorrect == Spec => []TypeOK
<1>1. Init => GInv /\ TInv
  BY GoalInit, TypesInit
<1>2. GInv /\ TInv /\ [Next]_vars => (GInv /\ TInv)'
  <2> SUFFICES ASSUME GInv, TInv, [Next]_vars PROVE GInv' /\ TInv'
    OBVIOUS
  <2>1. GInv'
    BY GoalStepKeeps
  <2>2. FlagsOK'
    BY FlagsKept DEF TInv
  <2>3. QueuesOK' /\ TurnsOK' /\ PlacesOK' /\ TurnsKnown'
    BY QueuesKept, TurnsKept, PlacesKept
  <2> QED BY <2>1, <2>2, <2>3 DEF TInv
<1>3. TInv => TypeOK
  BY DEF TInv, TypeOK, FlagsOK, QueuesOK, TurnsOK, PlacesOK
<1> QED BY <1>1, <1>2, <1>3, PTL DEF Spec

=============================================================================
