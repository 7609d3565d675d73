-------------------------- MODULE OperationProofs --------------------------
(***************************************************************************)
(* Proofs about the operations of a client that wait for the server.       *)
(*                                                                         *)
(* A turn (Turn): what waits in its route is what the server has sent and  *)
(* Next has not returned (FlowInv), for as long as Next can still read;    *)
(* once Next has returned an end it reads no more (EndInv).                *)
(*                                                                         *)
(* A compaction (Compaction): everything from which the call that is being *)
(* made could take a compaction for the one it waits for, the route, the   *)
(* channels of its goroutines, the snapshots minus the baseline, holds     *)
(* only what has been completed since it began (CallInv).                  *)
(***************************************************************************)
EXTENDS Turn, Compaction, FiniteSetTheorems, SequenceTheorems, WellFoundedInduction, TLAPS

TypeS ==
    /\ turn \in {"none", "running", "ended"} /\ sent \in Seq(Notifications)
    /\ route \in {"none", "open", "closed"} /\ box \in Seq(Notifications \cup {Failure})
    /\ failed \in {"no", "fault", "overflow"}
    /\ start \in {"idle", "sent", "handle", "error"} /\ mode \in {"no", "stream", "run"}
    /\ reader \in {"ready", "lookup", "try", "tryFailed", "select"}
    /\ terminalErr \in (Ends \ {"EOF", "closed"}) \cup {"none"}
    /\ terminalEOF \in BOOLEAN /\ closed \in BOOLEAN /\ latestUsage \in Texts
    /\ closer \in {"idle", "marked", "returned"}
    /\ got \in Seq(Notifications) /\ ends \in Seq(Ends)
    /\ ret \in {"none", "ok", "failed", "error"}

\* A route is closed, and Next called, only through the handle.
LifeInv ==
    /\ start # "handle" => route = "none" /\ mode = "no"
    /\ mode = "no" => closer = "idle" /\ reader = "ready"

\* The position of what waits in the route.
Waits(i) == \/ box[i] = Failure /\ failed # "no"
            \/ Len(got) + i <= Len(sent) /\ box[i] = sent[Len(got) + i]

FlowInv ==
    /\ Len(got) <= Len(sent) /\ \A i \in 1 .. Len(got) : got[i] = sent[i]
    /\ terminalErr = "none" => \A i \in 1 .. Len(box) : Waits(i)
    /\ (terminalErr = "none" /\ failed = "no" /\ route # "closed") =>
          Len(got) + Len(box) = Len(sent)

EndInv ==
    /\ reader # "ready" => terminalErr = "none" /\ ~terminalEOF /\ ends = <<>> /\ ret = "none"
    /\ \A i \in 1 .. Len(ends) : ends[i] = End
    /\ terminalEOF => got # <<>> /\ Terminal(got[Len(got)])

TInv == TypeS /\ LifeInv /\ FlowInv /\ EndInv

-----------------------------------------------------------------------------
LEMMA AppendIs ==
    ASSUME NEW S, NEW s \in Seq(S), NEW x \in S
    PROVE  /\ Append(s, x) \in Seq(S) /\ Len(Append(s, x)) = Len(s) + 1
           /\ \A i \in 1 .. Len(Append(s, x)) :
                 \/ i \in 1 .. Len(s) /\ Append(s, x)[i] = s[i]
                 \/ i = Len(s) + 1 /\ Append(s, x)[i] = x
OBVIOUS

LEMMA NoteIs ==
    ASSUME NEW m \in Notifications PROVE m.kind # "failure" /\ m # Failure
BY DEF Notifications, Failure

LEMMA EndIs ==
    ASSUME TypeS
    PROVE  End = IF terminalErr # "none" THEN terminalErr
                 ELSE IF terminalEOF THEN "EOF" ELSE IF closed THEN "closed" ELSE "none"
BY DEF TypeS, End

\* A step of the handle or the transport: neither the reader nor the queue moves.
LEMMA QuietKeeps ==
    ASSUME TInv, TypeS', LifeInv',
           UNCHANGED <<sent, box, failed, reader, terminalErr, terminalEOF, got, ends>>,
           route' = route \/ route' = "closed" \/ route = "none",
           closed' = closed \/ closed' = TRUE, ret' = ret \/ reader = "ready"
    PROVE  FlowInv' /\ EndInv'
<1>1. FlowInv'
  BY DEF TInv, FlowInv, Waits, TypeS
<1>2. ASSUME NEW i \in 1 .. Len(ends) PROVE ends[i] = End'
  <2>1. ends[i] = End /\ ends # <<>> /\ ends[i] \in Ends
    BY DEF TInv, EndInv, TypeS
  <2> QED BY <2>1, EndIs DEF TInv, TypeS, Ends, End
<1>3. EndInv'
  BY <1>2 DEF TInv, EndInv
<1> QED BY <1>1, <1>3

LEMMA InitKeeps == Init => TInv
<1> SUFFICES ASSUME Init PROVE TInv
  OBVIOUS
<1>1. TypeS
  <2>1. None \in Texts
    BY TurnAssumption DEF None, Texts
  <2>2. <<>> \in Seq(Notifications) /\ <<>> \in Seq(Notifications \cup {Failure}) /\ <<>> \in Seq(Ends)
    OBVIOUS
  <2>3. sent = <<>> /\ box = <<>> /\ got = <<>> /\ ends = <<>> /\ latestUsage = None
    BY DEF Init
  <2>4. /\ turn = "none" /\ route = "none" /\ failed = "no" /\ start = "idle" /\ mode = "no"
        /\ reader = "ready" /\ terminalErr = "none" /\ terminalEOF = FALSE /\ closed = FALSE
        /\ closer = "idle" /\ ret = "none"
    BY DEF Init
  <2> QED BY <2>1, <2>2, <2>3, <2>4 DEF TypeS
<1>2. LifeInv /\ FlowInv /\ EndInv
  BY DEF Init, LifeInv, FlowInv, EndInv
<1> QED BY <1>1, <1>2 DEF TInv

\* What the server sends waits behind what is there, in a route that is not closed.
LEMMA SendsKeeps == ASSUME TInv, ServerSends PROVE TInv'
<1> USE DEF TInv, serverVars, streamVars, runVars
<1>1. PICK m \in Notifications : /\ sent' = Append(sent, m)
                                 /\ turn' = IF m.kind = "turn" THEN "ended" ELSE turn
                                 /\ Deliver(m)
  BY DEF ServerSends
<1>2. UNCHANGED <<route, failed, start, mode, reader, streamVars, closer, got, ends, runVars>>
  BY DEF ServerSends
<1>3. failed = "no"
  BY DEF ServerSends
<1>4. sent' \in Seq(Notifications) /\ Len(sent') = Len(sent) + 1 /\ sent'[Len(sent) + 1] = m
      /\ \A i \in 1 .. Len(sent) : sent'[i] = sent[i]
  BY <1>1 DEF TypeS
<1>5. \/ route = "closed" /\ box' = box
      \/ route # "closed" /\ box' = Append(box, m)
  BY <1>1 DEF Deliver
<1>6. TypeS'
  <2>1. box' \in Seq(Notifications \cup {Failure})
    BY <1>5 DEF TypeS
  <2> QED BY <1>1, <1>2, <1>4, <2>1 DEF TypeS
<1>7. LifeInv'
  BY <1>2 DEF LifeInv
<1>8. EndInv'
  BY <1>2 DEF EndInv, End
<1>9. FlowInv'
  <2>1. Len(got') <= Len(sent') /\ \A i \in 1 .. Len(got') : got'[i] = sent'[i]
    <3>1. Len(got) \in Nat /\ Len(sent) \in Nat /\ got' = got
      BY <1>2 DEF TypeS
    <3> QED BY <1>4, <3>1 DEF FlowInv
  <2>2. ASSUME terminalErr = "none", NEW i \in 1 .. Len(box') PROVE Waits(i)'
    <3>0. Len(got) \in Nat /\ Len(sent) \in Nat /\ Len(box) \in Nat
      BY DEF TypeS
    <3>1. CASE i \in 1 .. Len(box) /\ box'[i] = box[i]
      <4>1. Waits(i)
        BY <2>2, <3>1 DEF FlowInv
      <4>2. Len(got) + i <= Len(sent) /\ box[i] = sent[Len(got) + i]
        BY <1>3, <4>1 DEF Waits
      <4>3. Len(got) + i \in 1 .. Len(sent) /\ Len(got) + i <= Len(sent) + 1
        BY <3>0, <3>1, <4>2
      <4> QED BY <1>2, <1>4, <3>1, <4>2, <4>3 DEF Waits
    <3>2. CASE route # "closed" /\ i = Len(box) + 1
      <4>1. Len(got) + Len(box) = Len(sent)
        BY <1>3, <2>2, <3>2 DEF FlowInv
      <4>2. box'[i] = m
        BY <1>5, <3>2 DEF TypeS
      <4>3. Len(got) + i = Len(sent) + 1
        BY <3>0, <3>2, <4>1
      <4> QED BY <1>2, <1>4, <4>2, <4>3 DEF Waits
    <3>3. CASE route = "closed" /\ box' = box
      BY <3>1, <3>3
    <3>4. CASE route # "closed" /\ box' = Append(box, m)
      <4>1. (i \in 1 .. Len(box) /\ box'[i] = box[i]) \/ i = Len(box) + 1
        <5>1. box \in Seq(Notifications \cup {Failure}) /\ m \in Notifications \cup {Failure}
          BY DEF TypeS
        <5> QED BY <3>4, <5>1, AppendIs
      <4> QED BY <3>1, <3>2, <3>4, <4>1
    <3> QED BY <1>5, <3>3, <3>4
  <2>3. (terminalErr = "none" /\ route # "closed") => Len(got) + Len(box') = Len(sent')
    BY <1>3, <1>4, <1>5 DEF FlowInv, TypeS
  <2> QED BY <1>2, <2>1, <2>2, <2>3 DEF FlowInv
<1> QED BY <1>6, <1>7, <1>8, <1>9

\* FailAll: its error is the last thing to wait.
LEMMA FailKeeps ==
    ASSUME TInv, failed = "no", NEW cause \in {"fault", "overflow"}, Fail(cause) PROVE TInv'
<1> USE DEF TInv, serverVars, streamVars, runVars
<1>0. box \in Seq(Notifications \cup {Failure}) /\ Failure \in Notifications \cup {Failure}
  BY DEF TypeS
<1>1. /\ UNCHANGED <<serverVars, route, start, mode, reader, streamVars, closer, got, ends, runVars>>
      /\ failed' = cause /\ (box' = box \/ box' = Append(box, Failure))
  BY DEF Fail
<1>2. TypeS'
  <2>1. box' \in Seq(Notifications \cup {Failure})
    BY <1>1, <1>0, AppendIs
  <2> QED BY <1>1, <2>1 DEF TypeS
<1>3. LifeInv' /\ EndInv'
  BY <1>1 DEF LifeInv, EndInv, End
<1>4. FlowInv'
  <2>1. ASSUME terminalErr = "none", NEW i \in 1 .. Len(box') PROVE Waits(i)'
    <3>1. CASE i \in 1 .. Len(box) /\ box'[i] = box[i]
      <4>1. Waits(i)
        BY <2>1, <3>1 DEF FlowInv
      <4> QED BY <1>1, <3>1, <4>1 DEF Waits
    <3>2. CASE box'[i] = Failure
      BY <1>1, <3>2 DEF Waits
    <3>3. (i \in 1 .. Len(box) /\ box'[i] = box[i]) \/ box'[i] = Failure
      BY <1>0, <1>1, AppendIs
    <3> QED BY <3>1, <3>2, <3>3
  <2>2. failed' # "no"
    BY <1>1
  <2> QED BY <1>1, <2>1, <2>2 DEF FlowInv
<1> QED BY <1>2, <1>3, <1>4

\* Next returns an error: it is kept, and Next reads no more.
LEMMA NextFailsKeeps ==
    ASSUME TInv, reader # "ready", NEW err \in Ends \ {"EOF", "closed"}, NextFails(err),
           UNCHANGED <<serverVars, failed, start, mode, closer, runVars>>,
           box' \in Seq(Notifications \cup {Failure})
    PROVE  TInv'
<1> USE DEF TInv, serverVars, streamVars, runVars
<1>1. /\ reader' = "ready" /\ terminalErr' = err /\ closed' = TRUE
      /\ route' = IF closed THEN route ELSE "closed"
      /\ ends' = Append(ends, err) /\ UNCHANGED <<terminalEOF, latestUsage, got>>
  BY DEF NextFails, Close
<1>2. ends = <<>> /\ err # "none" /\ mode # "no" /\ ~terminalEOF
  BY DEF EndInv, Ends, LifeInv
<1>3. ends' = <<err>>
  BY <1>1, <1>2 DEF TypeS
<1>4. TypeS'
  BY <1>1, <1>3 DEF TypeS
<1>5. LifeInv'
  BY <1>1, <1>2 DEF LifeInv
<1>6. FlowInv'
  BY <1>1, <1>2 DEF FlowInv
<1>7. End' = err
  BY <1>1, <1>2 DEF End
<1>8. EndInv'
  BY <1>1, <1>2, <1>3, <1>7 DEF EndInv
<1> QED BY <1>4, <1>5, <1>6, <1>8

LEMMA TailIs ==
    ASSUME NEW S, NEW s \in Seq(S), s # <<>>
    PROVE  /\ Tail(s) \in Seq(S) /\ Len(Tail(s)) = Len(s) - 1 /\ Head(s) = s[1] /\ Head(s) \in S
           /\ 1 \in 1 .. Len(s)
           /\ \A i \in 1 .. Len(Tail(s)) : i + 1 \in 1 .. Len(s) /\ Tail(s)[i] = s[i + 1]
OBVIOUS

\* Next returns the head of the queue: the next thing the server has sent.
LEMMA EventKeeps ==
    ASSUME TInv, reader # "ready", box # <<>>, box' = Tail(box), NEW m, m = Head(box),
           m.kind # "failure",
           reader' = "ready", got' = Append(got, m), latestUsage' \in Texts,
           terminalEOF' = Terminal(m), UNCHANGED <<route, terminalErr, closed, ends>>,
           UNCHANGED <<serverVars, failed, start, mode, closer, runVars>>
    PROVE  /\ TInv' /\ m \in Notifications
           /\ Len(got) + 1 <= Len(sent) /\ m = sent[Len(got) + 1]
<1> USE DEF TInv, serverVars, runVars
<1>1. /\ Tail(box) \in Seq(Notifications \cup {Failure}) /\ Len(Tail(box)) = Len(box) - 1
      /\ m = box[1] /\ m \in Notifications \cup {Failure} /\ 1 \in 1 .. Len(box)
      /\ \A i \in 1 .. Len(Tail(box)) : i + 1 \in 1 .. Len(box) /\ Tail(box)[i] = box[i + 1]
  BY TailIs DEF TypeS
<1>2. m \in Notifications
  BY <1>1 DEF Failure
<1>3. terminalErr = "none" /\ ~terminalEOF /\ ends = <<>>
  BY DEF EndInv
<1>4. Len(got) + 1 <= Len(sent) /\ m = sent[Len(got) + 1]
  BY <1>1, <1>2, <1>3, NoteIs DEF FlowInv, Waits
<1>5. /\ got' \in Seq(Notifications) /\ Len(got') = Len(got) + 1
      /\ \A i \in 1 .. Len(got') : \/ i \in 1 .. Len(got) /\ got'[i] = got[i]
                                   \/ i = Len(got) + 1 /\ got'[i] = m
  BY <1>2, AppendIs DEF TypeS
<1>6. got'[Len(got')] = m /\ got' # <<>>
  BY <1>2 DEF TypeS
<1>7. TypeS'
  BY <1>1, <1>5 DEF TypeS, Terminal
<1>8. LifeInv'
  BY DEF LifeInv
<1>9. FlowInv'
  <2>0. Len(got) \in Nat /\ Len(sent) \in Nat /\ Len(box) \in Nat
    BY DEF TypeS
  <2>1. Len(got') <= Len(sent) /\ \A i \in 1 .. Len(got') : got'[i] = sent[i]
    BY <1>4, <1>5 DEF FlowInv
  <2>2. ASSUME NEW i \in 1 .. Len(box') PROVE Waits(i)'
    <3>1. i + 1 \in 1 .. Len(box) /\ box'[i] = box[i + 1]
      BY <1>1
    <3>2. Waits(i + 1)
      BY <1>3, <3>1 DEF FlowInv
    <3>3. Len(got) + (i + 1) = Len(got') + i
      BY <1>5, <2>0
    <3> QED BY <3>1, <3>2, <3>3 DEF Waits
  <2>3. (failed = "no" /\ route # "closed") => Len(got') + Len(box') = Len(sent)
    BY <1>1, <1>3, <1>5, <2>0 DEF FlowInv
  <2> QED BY <2>1, <2>2, <2>3 DEF FlowInv
<1>10. EndInv'
  BY <1>3, <1>6 DEF EndInv
<1> QED BY <1>2, <1>4, <1>7, <1>8, <1>9, <1>10

LEMMA ReceivesKeeps == ASSUME TInv, NextReceives PROVE TInv'
<1> PICK m : m = Head(box)
  OBVIOUS
<1>1. /\ reader # "ready" /\ box # <<>> /\ box' = Tail(box)
      /\ UNCHANGED <<serverVars, failed, start, mode, closer, runVars>>
  BY DEF NextReceives
<1>2. m \in Notifications \cup {Failure} /\ box' \in Seq(Notifications \cup {Failure})
  BY <1>1, TailIs DEF TInv, TypeS
<1>3. CASE NextFails("failure") \/ NextFails("malformed")
  BY <1>1, <1>2, <1>3, NextFailsKeeps DEF Ends
<1>4. CASE /\ m.kind # "failure"
           /\ reader' = "ready" /\ got' = Append(got, m)
           /\ latestUsage' = IF m.kind = "usage" /\ m.n # None THEN m.n ELSE latestUsage
           /\ terminalEOF' = Terminal(m)
           /\ UNCHANGED <<route, terminalErr, closed, ends>>
  <2>1. m \in Notifications
    BY <1>2, <1>4 DEF Failure
  <2>2. m.kind = "usage" => m.n \in Texts
    BY <2>1 DEF Notifications, Texts
  <2>3. latestUsage' \in Texts
    BY <1>4, <2>2 DEF TInv, TypeS
  <2> QED BY <1>1, <1>4, <2>3, EventKeeps
<1> QED BY <1>3, <1>4 DEF NextReceives

LEMMA EndsKeeps == ASSUME TInv, NextEnds PROVE TInv'
<1> USE DEF TInv, serverVars, streamVars, runVars
<1>1. /\ UNCHANGED <<serverVars, route, box, failed, start, mode, reader, streamVars, closer, got,
                     runVars>>
      /\ reader = "ready" /\ End # "none" /\ ends' = Append(ends, End)
  BY DEF NextEnds
<1>2. End \in Ends /\ End' = End
  BY <1>1, EndIs DEF TypeS, Ends, End
<1>3. ends' \in Seq(Ends) /\ \A i \in 1 .. Len(ends') : ends'[i] = End
  BY <1>1, <1>2, AppendIs DEF TypeS, EndInv
<1>4. TypeS' /\ LifeInv'
  BY <1>1, <1>3 DEF TypeS, LifeInv
<1>5. FlowInv' /\ EndInv'
  BY <1>1, <1>2, <1>3 DEF FlowInv, Waits, EndInv
<1> QED BY <1>4, <1>5

LEMMA CallsKeeps ==
    ASSUME TInv, UNCHANGED <<serverVars, route, box, failed, start, mode, streamVars, closer, got,
                             ends, runVars>>,
           reader' \in {"lookup", "try", "tryFailed", "select"}, mode # "no",
           terminalErr = "none" /\ ~terminalEOF /\ ends = <<>> /\ ret = "none"
    PROVE  TInv'
<1> USE DEF TInv, serverVars, streamVars, runVars
<1>1. TypeS' /\ LifeInv'
  BY DEF TypeS, LifeInv
<1>2. FlowInv' /\ EndInv'
  BY DEF FlowInv, Waits, EndInv, End
<1> QED BY <1>1, <1>2

LEMMA ReaderKeeps ==
    ASSUME TInv, NextEnds \/ NextCalls \/ NextLooksUp \/ NextTries \/ NextReceives \/ NextCancelled
    PROVE  TInv'
<1>1. CASE NextCalls
  <2>1. End = "none" /\ ret = "none" /\ mode # "no"
    BY <1>1 DEF NextCalls
  <2>2. terminalErr = "none" /\ ~terminalEOF
    BY <2>1, EndIs DEF TInv, TypeS
  <2>3. ends = <<>>
    <3> SUFFICES ASSUME ends # <<>> PROVE FALSE
      OBVIOUS
    <3>1. 1 \in 1 .. Len(ends) /\ ends[1] \in Ends
      BY DEF TInv, TypeS
    <3> QED BY <2>1, <3>1 DEF TInv, EndInv, Ends
  <2> QED BY <1>1, <2>1, <2>2, <2>3, CallsKeeps DEF NextCalls
<1>2. ASSUME reader # "ready"
      PROVE  mode # "no" /\ terminalErr = "none" /\ ~terminalEOF /\ ends = <<>> /\ ret = "none"
             /\ box \in Seq(Notifications \cup {Failure})
  BY <1>2 DEF TInv, EndInv, LifeInv, TypeS
<1>3. CASE NextLooksUp
  <2>1. CASE NextFails("unregistered")
    BY <1>2, <1>3, <2>1, NextFailsKeeps DEF NextLooksUp, Ends
  <2>2. CASE /\ reader' = IF failed = "no" THEN "try" ELSE "tryFailed"
             /\ UNCHANGED <<route, streamVars, got, ends>>
    BY <1>2, <1>3, <2>2, CallsKeeps DEF NextLooksUp
  <2> QED BY <1>3, <2>1, <2>2 DEF NextLooksUp
<1>4. CASE NextTries
  <2>1. CASE NextFails("failure")
    BY <1>2, <1>4, <2>1, NextFailsKeeps DEF NextTries, Ends
  <2>2. CASE reader' = "select" /\ UNCHANGED <<route, streamVars, got, ends>>
    BY <1>2, <1>4, <2>2, CallsKeeps DEF NextTries
  <2> QED BY <1>4, <2>1, <2>2 DEF NextTries
<1>5. CASE NextCancelled
  BY <1>2, <1>5, NextFailsKeeps DEF NextCancelled, Ends
<1> QED BY <1>1, <1>3, <1>4, <1>5, EndsKeeps, ReceivesKeeps

\* The steps of the handle, of Close and of RunContext.
LEMMA HandleKeeps ==
    ASSUME TInv,
           \/ ServerStarts \/ StartTurn \/ RegisterTurn \/ StartTurnFails
           \/ Stream("stream") \/ Stream("run") \/ CloseMarks \/ CloseUnregisters
           \/ Collect \/ RunCancelled
    PROVE  TInv'
<1> USE DEF serverVars, streamVars, runVars
<1>1. CASE ServerStarts \/ StartTurn \/ StartTurnFails
  <2>1. TypeS'
    BY <1>1 DEF TInv, TypeS, ServerStarts, StartTurn, StartTurnFails
  <2>2. LifeInv'
    BY <1>1 DEF TInv, LifeInv, ServerStarts, StartTurn, StartTurnFails
  <2>3. UNCHANGED <<sent, route, box, failed, reader, streamVars, got, ends, ret>>
    BY <1>1 DEF ServerStarts, StartTurn, StartTurnFails
  <2> QED BY <2>1, <2>2, <2>3, QuietKeeps DEF TInv
<1>2. CASE RegisterTurn
  <2>1. TypeS'
    BY <1>2 DEF TInv, TypeS, RegisterTurn
  <2>2. LifeInv' /\ route = "none"
    BY <1>2 DEF TInv, LifeInv, RegisterTurn
  <2>3. UNCHANGED <<sent, box, failed, reader, streamVars, got, ends, ret>>
    BY <1>2 DEF RegisterTurn
  <2> QED BY <2>1, <2>2, <2>3, QuietKeeps DEF TInv
<1>3. CASE Stream("stream") \/ Stream("run")
  <2>1. TypeS'
    BY <1>3 DEF TInv, TypeS, Stream
  <2>2. LifeInv'
    BY <1>3 DEF TInv, LifeInv, Stream
  <2>3. UNCHANGED <<sent, route, box, failed, reader, streamVars, got, ends, ret>>
    BY <1>3 DEF Stream
  <2> QED BY <2>1, <2>2, <2>3, QuietKeeps DEF TInv
<1>4. CASE CloseMarks \/ CloseUnregisters
  <2>1. TypeS'
    BY <1>4 DEF TInv, TypeS, CloseMarks, CloseUnregisters
  <2>2. LifeInv'
    BY <1>4 DEF TInv, LifeInv, CloseMarks, CloseUnregisters
  <2>3. /\ UNCHANGED <<sent, box, failed, reader, terminalErr, terminalEOF, got, ends, ret>>
        /\ (route' = route \/ route' = "closed") /\ (closed' = closed \/ closed' = TRUE)
    BY <1>4 DEF CloseMarks, CloseUnregisters
  <2> QED BY <2>1, <2>2, <2>3, QuietKeeps DEF TInv
<1>5. CASE Collect \/ RunCancelled
  <2>1. /\ UNCHANGED <<serverVars, box, failed, start, mode, reader, terminalErr, terminalEOF,
                       latestUsage, closer, got, ends>>
        /\ mode = "run" /\ reader = "ready" /\ closed' = TRUE
        /\ route' = route \/ route' = "closed"
        /\ ret' \in {"none", "ok", "failed", "error"}
    BY <1>5 DEF Collect, RunCancelled, Close
  <2>2. TypeS'
    BY <2>1 DEF TInv, TypeS
  <2>3. LifeInv'
    BY <2>1 DEF TInv, LifeInv
  <2> QED BY <2>1, <2>2, <2>3, QuietKeeps DEF TInv
<1> QED BY <1>1, <1>2, <1>3, <1>4, <1>5

LEMMA TurnStepKeeps == TInv /\ [Next]_vars => TInv'
<1> SUFFICES ASSUME TInv, [Next]_vars PROVE TInv'
  OBVIOUS
<1>1. CASE RouteOverflows \/ TransportFails
  BY <1>1, FailKeeps DEF RouteOverflows, TransportFails
<1>2. CASE UNCHANGED vars
  <2> USE DEF vars, serverVars, streamVars, runVars
  <2>1. TypeS' /\ LifeInv'
    BY <1>2 DEF TInv, TypeS, LifeInv
  <2>2. FlowInv' /\ EndInv'
    BY <1>2 DEF TInv, FlowInv, Waits, EndInv, End
  <2> QED BY <2>1, <2>2 DEF TInv
<1>3. CASE ServerSends
  BY <1>3, SendsKeeps
<1>4. CASE \/ ServerStarts \/ StartTurn \/ RegisterTurn \/ StartTurnFails
           \/ Stream("stream") \/ Stream("run") \/ CloseMarks \/ CloseUnregisters
           \/ Collect \/ RunCancelled
  BY <1>4, HandleKeeps, Zenon
<1>5. CASE NextEnds \/ NextCalls \/ NextLooksUp \/ NextTries \/ NextReceives \/ NextCancelled
  BY <1>5, ReaderKeeps, Zenon
<1> QED BY <1>1, <1>2, <1>3, <1>4, <1>5 DEF Next, Reader

\* The events of a TurnStream are the turn's notifications from the first on, in order
\* and without a gap, wherever the registration, Close and the end of the transport
\* fall: for any number of notifications and any limit of the route.
THEOREM EventsInOrder == Spec => []InOrder
<1>1. TInv => InOrder
  <2> SUFFICES ASSUME TInv PROVE InOrder
    OBVIOUS
  <2>1. /\ got \in Seq(Notifications) /\ sent \in Seq(Notifications) /\ Len(got) <= Len(sent)
        /\ \A i \in 1 .. Len(got) : got[i] = sent[i]
    BY DEF TInv, TypeS, FlowInv
  <2>2. SubSeq(got, 1, Len(got)) = SubSeq(sent, 1, Len(got))
    BY <2>1
  <2> QED BY <2>1, <2>2 DEF InOrder, IsPrefix
<1> QED BY <1>1, InitKeeps, TurnStepKeeps, PTL DEF Spec

\* Whatever Next has returned as the end of a stream that its caller has not closed, it
\* returns from then on.
THEOREM EndsAreStable == Spec => []StableEnd
<1>1. TInv => StableEnd
  BY DEF TInv, EndInv, StableEnd
<1> QED BY <1>1, InitKeeps, TurnStepKeeps, PTL DEF Spec

-----------------------------------------------------------------------------
(* The result of RunContext: recursion along a sequence. *)

\* A set of numbers with 0 and with the successor of each of its members has them all.
LEMMA Induct ==
    ASSUME NEW S, 0 \in S, \A n \in Nat : n \in S => n + 1 \in S
    PROVE  \A n \in Nat : n \in S
<1> DEFINE T == Nat \ S
<1> SUFFICES ASSUME T # {} PROVE FALSE
  OBVIOUS
<1>1. T \subseteq Nat
  OBVIOUS
<1>2. PICK i \in T : \A k \in T : ~(<<k, i>> \in OpToRel(<, Nat))
  <2> HIDE DEF T
  <2> QED BY <1>1, NatLessThanWellFounded, WFMin, Zenon
<1>3. \A k \in T : ~(k < i)
  BY <1>2 DEF OpToRel
<1>4. i \in Nat /\ i # 0
  OBVIOUS
<1>5. i - 1 \in Nat /\ i - 1 < i /\ (i - 1) + 1 = i
  BY <1>4
<1>6. i - 1 \in S
  BY <1>3, <1>5
<1> QED BY <1>5, <1>6

\* Up to n, f begins at a and goes on as h says.
Follows(f, n, S, a, h) ==
    /\ f \in [0 .. n -> S] /\ f[0] = a
    /\ \A k \in 1 .. n : f[k] = h[<<k, f[k - 1]>>]

LEMMA Recursion ==
    ASSUME NEW S, NEW a \in S, NEW h \in [Nat \X S -> S]
    PROVE  \A n \in Nat : \E f : Follows(f, n, S, a, h)
<1> DEFINE N == {n \in Nat : \E f : Follows(f, n, S, a, h)}
<1>1. 0 \in N
  <2> DEFINE g == [k \in 0 .. 0 |-> a]
  <2>1. Follows(g, 0, S, a, h)
    BY DEF Follows
  <2> QED BY <2>1
<1>2. ASSUME NEW n \in Nat, n \in N PROVE n + 1 \in N
  <2> PICK g : Follows(g, n, S, a, h)
    BY <1>2
  <2> DEFINE f == [k \in 0 .. n + 1 |-> IF k = n + 1 THEN h[<<n + 1, g[n]>>] ELSE g[k]]
  <2>1. f \in [0 .. n + 1 -> S]
    <3>1. g[n] \in S /\ h[<<n + 1, g[n]>>] \in S
      BY DEF Follows
    <3>2. ASSUME NEW k \in 0 .. n + 1, k # n + 1 PROVE g[k] \in S
      <4>1. k \in 0 .. n
        BY <3>2
      <4> QED BY <4>1 DEF Follows
    <3> QED BY <3>1, <3>2
  <2>2. f[0] = a
    BY DEF Follows
  <2>3. ASSUME NEW k \in 1 .. n + 1 PROVE f[k] = h[<<k, f[k - 1]>>]
    <3>1. CASE k = n + 1
      <4>1. k \in 0 .. n + 1 /\ k - 1 \in 0 .. n + 1 /\ k - 1 # n + 1 /\ k - 1 = n
        BY <3>1
      <4> QED BY <3>1, <4>1
    <3>2. CASE k # n + 1
      <4>1. k \in 1 .. n /\ k - 1 \in 0 .. n + 1 /\ k - 1 # n + 1 /\ k \in 0 .. n + 1
        BY <3>2
      <4>2. g[k] = h[<<k, g[k - 1]>>]
        BY <4>1 DEF Follows
      <4> QED BY <3>2, <4>1, <4>2
    <3> QED BY <3>1, <3>2
  <2> HIDE DEF f
  <2>4. Follows(f, n + 1, S, a, h)
    BY <2>1, <2>2, <2>3 DEF Follows
  <2> QED BY <2>4
<1> HIDE DEF N
<1>3. \A n \in Nat : n \in N
  BY <1>1, <1>2, Induct
<1> QED BY <1>3 DEF N

ItemNotes == {m \in Notifications : m.kind = "item"}

\* The items of the first i events.
ItemsUpTo(f, s) ==
    /\ f \in [0 .. Len(s) -> Seq(ItemNotes)] /\ f[0] = <<>>
    /\ \A i \in 1 .. Len(s) :
          f[i] = IF s[i].kind = "item" THEN Append(f[i - 1], s[i]) ELSE f[i - 1]

LEMMA ItemsExist ==
    ASSUME NEW s \in Seq(Notifications) PROVE \E f : ItemsUpTo(f, s)
<1> DEFINE h == [x \in Nat \X Seq(ItemNotes) |->
                   IF x[1] \in 1 .. Len(s) /\ s[x[1]].kind = "item"
                   THEN Append(x[2], s[x[1]]) ELSE x[2]]
<1>1. h \in [Nat \X Seq(ItemNotes) -> Seq(ItemNotes)]
  <2>1. ASSUME NEW k \in Nat, NEW t \in Seq(ItemNotes), k \in 1 .. Len(s) /\ s[k].kind = "item"
        PROVE  Append(t, s[k]) \in Seq(ItemNotes)
    <3>1. s[k] \in ItemNotes
      BY <2>1 DEF ItemNotes
    <3> QED BY <3>1, AppendIs
  <2> QED BY <2>1
<1>2. <<>> \in Seq(ItemNotes) /\ Len(s) \in Nat
  OBVIOUS
<1>3. \A k \in Nat, t \in Seq(ItemNotes) :
         h[<<k, t>>] = IF k \in 1 .. Len(s) /\ s[k].kind = "item" THEN Append(t, s[k]) ELSE t
  OBVIOUS
<1> HIDE DEF h
<1>4. PICK f : Follows(f, Len(s), Seq(ItemNotes), <<>>, h)
  BY <1>1, <1>2, Recursion
<1>5. ASSUME NEW i \in 1 .. Len(s)
      PROVE  f[i] = IF s[i].kind = "item" THEN Append(f[i - 1], s[i]) ELSE f[i - 1]
  <2>1. i - 1 \in 0 .. Len(s) /\ i \in Nat
    BY <1>2
  <2>2. f[i - 1] \in Seq(ItemNotes) /\ f[i] = h[<<i, f[i - 1]>>]
    BY <1>4, <2>1 DEF Follows
  <2> QED BY <1>3, <2>1, <2>2
<1> QED BY <1>4, <1>5 DEF ItemsUpTo, Follows

\* Items is what its definition says.
LEMMA ItemsAre ==
    ASSUME NEW s \in Seq(Notifications)
    PROVE  \E f : ItemsUpTo(f, s) /\ Items(s) = f[Len(s)]
<1> DEFINE Solves(f) == f = [i \in 0 .. Len(s) |->
                               IF i = 0 THEN <<>>
                               ELSE IF s[i].kind = "item" THEN Append(f[i - 1], s[i]) ELSE f[i - 1]]
           u == CHOOSE f : Solves(f)
<1>0. Len(s) \in Nat
  OBVIOUS
<1>1. Items(s) = u[Len(s)]
  BY DEF Items
<1>2. PICK g : ItemsUpTo(g, s)
  BY ItemsExist
<1>3. Solves(g)
  <2>1. g = [i \in 0 .. Len(s) |-> g[i]]
    BY <1>2 DEF ItemsUpTo
  <2>2. ASSUME NEW i \in 0 .. Len(s)
        PROVE  g[i] = IF i = 0 THEN <<>>
                      ELSE IF s[i].kind = "item" THEN Append(g[i - 1], s[i]) ELSE g[i - 1]
    <3>1. i = 0 \/ i \in 1 .. Len(s)
      BY <1>0
    <3> QED BY <1>2, <3>1 DEF ItemsUpTo
  <2> QED BY <2>1, <2>2
<1> HIDE DEF Solves
<1>4. Solves(u)
  BY <1>3
<1> HIDE DEF u
<1>5. /\ u[0] = <<>>
      /\ \A i \in 1 .. Len(s) :
            u[i] = IF s[i].kind = "item" THEN Append(u[i - 1], s[i]) ELSE u[i - 1]
  <2>1. u[0] = <<>>
    BY <1>0, <1>4 DEF Solves
  <2>2. ASSUME NEW i \in 1 .. Len(s)
        PROVE  u[i] = IF s[i].kind = "item" THEN Append(u[i - 1], s[i]) ELSE u[i - 1]
    <3>1. i \in 0 .. Len(s) /\ i # 0
      BY <1>0
    <3> QED BY <1>4, <3>1 DEF Solves
  <2> QED BY <2>1, <2>2
<1>6. \A i \in 0 .. Len(s) : u[i] = g[i]
  <2> DEFINE N == {i \in Nat : i <= Len(s) => u[i] = g[i]}
  <2>1. 0 \in N
    BY <1>2, <1>5 DEF ItemsUpTo
  <2>2. ASSUME NEW n \in Nat, n \in N PROVE n + 1 \in N
    <3> SUFFICES ASSUME n + 1 <= Len(s) PROVE u[n + 1] = g[n + 1]
      OBVIOUS
    <3>1. n + 1 \in 1 .. Len(s) /\ (n + 1) - 1 = n /\ n <= Len(s)
      BY <1>0
    <3>2. u[n] = g[n]
      BY <2>2, <3>1
    <3> QED BY <1>2, <1>5, <3>1, <3>2 DEF ItemsUpTo
  <2> HIDE DEF N
  <2>3. \A n \in Nat : n \in N
    BY <2>1, <2>2, Induct
  <2> QED BY <2>3, <1>0 DEF N
<1>7. u[Len(s)] = g[Len(s)]
  BY <1>0, <1>6
<1> QED BY <1>1, <1>2, <1>7

LEMMA ItemNoteIs ==
    ASSUME NEW m \in ItemNotes PROVE m.kind = "item" /\ m.n \in Texts /\ m.phase \in Phases
BY DEF ItemNotes, Notifications, Texts

Seen == [done : BOOLEAN, text : Texts]

\* What a round of finalAssistantResponse does.
LEMMA LookIs ==
    ASSUME NEW v \in Seen, NEW m \in ItemNotes
    PROVE  /\ Look(v, m) \in Seen
           /\ v.done => Look(v, m) = v
           /\ (~v.done /\ m.phase = "final") => Look(v, m).done /\ Look(v, m).text = m.n
           /\ (~v.done /\ m.phase # "final") =>
                 /\ ~Look(v, m).done
                 /\ Look(v, m).text = IF m.phase = "plain" /\ v.text = None THEN m.n ELSE v.text
<1>1. m.n \in Texts
  BY ItemNoteIs
<1>2. CASE v.done
  BY <1>2 DEF Look
<1>3. CASE ~v.done /\ m.phase = "final"
  <2>1. Look(v, m) = [done |-> TRUE, text |-> m.n]
    BY <1>3 DEF Look
  <2> QED BY <1>1, <1>3, <2>1 DEF Seen
<1>4. CASE ~v.done /\ m.phase # "final" /\ m.phase = "plain" /\ v.text = None
  <2>1. Look(v, m) = [done |-> FALSE, text |-> m.n]
    BY <1>4 DEF Look
  <2> QED BY <1>1, <1>4, <2>1 DEF Seen
<1>5. CASE ~v.done /\ m.phase # "final" /\ ~(m.phase = "plain" /\ v.text = None)
  <2>1. Look(v, m) = v
    BY <1>5 DEF Look
  <2> QED BY <1>5, <2>1 DEF Seen
<1> QED BY <1>2, <1>3, <1>4, <1>5 DEF Seen

\* After j rounds over the items.
Looks(f, it) ==
    /\ f \in [0 .. Len(it) -> Seen] /\ f[0] = [done |-> FALSE, text |-> None]
    /\ \A j \in 1 .. Len(it) : f[j] = Look(f[j - 1], it[Len(it) + 1 - j])

LEMMA LooksExist ==
    ASSUME NEW it \in Seq(ItemNotes) PROVE \E f : Looks(f, it)
<1> DEFINE a == [done |-> FALSE, text |-> None]
           h == [x \in Nat \X Seen |->
                   IF x[1] \in 1 .. Len(it) THEN Look(x[2], it[Len(it) + 1 - x[1]]) ELSE x[2]]
<1>0. Len(it) \in Nat
  OBVIOUS
<1>1. \A k \in 1 .. Len(it) : it[Len(it) + 1 - k] \in ItemNotes
  BY <1>0
<1>2. h \in [Nat \X Seen -> Seen]
  BY <1>1, LookIs
<1>3. a \in Seen
  BY TurnAssumption DEF Seen, Texts, None
<1>4. \A k \in 1 .. Len(it), v \in Seen : h[<<k, v>>] = Look(v, it[Len(it) + 1 - k])
  BY <1>0
<1> HIDE DEF h, a
<1>5. PICK f : Follows(f, Len(it), Seen, a, h)
  BY <1>0, <1>2, <1>3, Recursion
<1>6. ASSUME NEW j \in 1 .. Len(it) PROVE f[j] = Look(f[j - 1], it[Len(it) + 1 - j])
  <2>1. j - 1 \in 0 .. Len(it)
    BY <1>0
  <2>2. f[j - 1] \in Seen /\ f[j] = h[<<j, f[j - 1]>>]
    BY <1>5, <2>1 DEF Follows
  <2> QED BY <1>4, <2>2
<1> QED BY <1>5, <1>6 DEF Looks, Follows, a

\* finalAssistantResponse is what its loop computes.
LEMMA FinalIsLoop ==
    ASSUME NEW it \in Seq(ItemNotes)
    PROVE  \E f : Looks(f, it) /\ FinalAssistantResponse(it) = f[Len(it)].text
<1> DEFINE Solves(f) ==
              f = [j \in 0 .. Len(it) |-> IF j = 0 THEN [done |-> FALSE, text |-> None]
                                          ELSE Look(f[j - 1], it[Len(it) + 1 - j])]
           u == CHOOSE f : Solves(f)
<1>0. Len(it) \in Nat
  OBVIOUS
<1>1. FinalAssistantResponse(it) = u[Len(it)].text
  BY DEF FinalAssistantResponse
<1>2. PICK g : Looks(g, it)
  BY LooksExist
<1>3. Solves(g)
  <2>1. g = [j \in 0 .. Len(it) |-> g[j]]
    BY <1>2 DEF Looks
  <2>2. ASSUME NEW j \in 0 .. Len(it)
        PROVE  g[j] = IF j = 0 THEN [done |-> FALSE, text |-> None]
                      ELSE Look(g[j - 1], it[Len(it) + 1 - j])
    <3>1. j = 0 \/ j \in 1 .. Len(it)
      BY <1>0
    <3> QED BY <1>2, <3>1 DEF Looks
  <2> QED BY <2>1, <2>2
<1> HIDE DEF Solves
<1>4. Solves(u)
  BY <1>3
<1> HIDE DEF u
<1>5. /\ u[0] = [done |-> FALSE, text |-> None]
      /\ \A j \in 1 .. Len(it) : u[j] = Look(u[j - 1], it[Len(it) + 1 - j])
  <2>1. u[0] = [done |-> FALSE, text |-> None]
    BY <1>0, <1>4 DEF Solves
  <2>2. ASSUME NEW j \in 1 .. Len(it) PROVE u[j] = Look(u[j - 1], it[Len(it) + 1 - j])
    <3>1. j \in 0 .. Len(it) /\ j # 0
      BY <1>0
    <3> QED BY <1>4, <3>1 DEF Solves
  <2> QED BY <2>1, <2>2
<1>6. \A j \in 0 .. Len(it) : u[j] = g[j]
  <2> DEFINE N == {j \in Nat : j <= Len(it) => u[j] = g[j]}
  <2>1. 0 \in N
    BY <1>2, <1>5 DEF Looks
  <2>2. ASSUME NEW n \in Nat, n \in N PROVE n + 1 \in N
    <3> SUFFICES ASSUME n + 1 <= Len(it) PROVE u[n + 1] = g[n + 1]
      OBVIOUS
    <3>1. n + 1 \in 1 .. Len(it) /\ (n + 1) - 1 = n /\ n <= Len(it)
      BY <1>0
    <3>2. u[n] = g[n]
      BY <2>2, <3>1
    <3> QED BY <1>2, <1>5, <3>1, <3>2 DEF Looks
  <2> HIDE DEF N
  <2>3. \A n \in Nat : n \in N
    BY <2>1, <2>2, Induct
  <2> QED BY <2>3, <1>0 DEF N
<1>7. u[Len(it)] = g[Len(it)]
  BY <1>0, <1>6
<1> QED BY <1>1, <1>2, <1>7

\* A message the final response may be taken from, and the latest one of the first n.
Answer(m, x) == m.kind = "item" /\ m.phase = x /\ (x = "plain" => m.n # None)
Latest(s, n, x, p) ==
    p \in 1 .. n /\ Answer(s[p], x) /\ \A k \in 1 .. n : k > p => ~Answer(s[k], x)
Nowhere(s, n, x) == \A k \in 1 .. n : ~Answer(s[k], x)

LEMMA LatestOne ==
    ASSUME NEW s, NEW n \in Nat, NEW x, NEW p, NEW q, Latest(s, n, x, p), Latest(s, n, x, q)
    PROVE  p = q
BY DEF Latest

\* What finalAssistantResponse finds among the items.
LEMMA FinalIs ==
    ASSUME NEW it \in Seq(ItemNotes)
    PROVE  /\ \A p : Latest(it, Len(it), "final", p) => FinalAssistantResponse(it) = it[p].n
           /\ Nowhere(it, Len(it), "final") =>
                 /\ \A p : Latest(it, Len(it), "plain", p) => FinalAssistantResponse(it) = it[p].n
                 /\ Nowhere(it, Len(it), "plain") => FinalAssistantResponse(it) = None
<1> PICK L \in Nat : L = Len(it)
  OBVIOUS
<1>1. PICK f : Looks(f, it) /\ FinalAssistantResponse(it) = f[L].text
  BY FinalIsLoop
<1> DEFINE Done(j) == \E p \in 1 .. L : Latest(it, L, "final", p) /\ f[j].text = it[p].n
           NoFinal(j) == \A k \in 1 .. L : k > L - j => ~Answer(it[k], "final")
           Spoke(j) == \/ f[j].text = None /\ \A k \in 1 .. L : k > L - j => ~Answer(it[k], "plain")
                       \/ \E p \in 1 .. L : /\ p > L - j /\ Latest(it, L, "plain", p)
                                            /\ f[j].text = it[p].n
           Holds(j) == IF f[j].done THEN Done(j) ELSE NoFinal(j) /\ Spoke(j)
           N == {j \in Nat : j <= L => Holds(j)}
<1>2. \A k \in 1 .. L : it[k] \in ItemNotes
  OBVIOUS
<1>3. 0 \in N
  <2>1. ~f[0].done /\ f[0].text = None
    BY <1>1 DEF Looks
  <2>2. NoFinal(0) /\ Spoke(0)
    BY <2>1
  <2> QED BY <2>1, <2>2
<1>4. ASSUME NEW j \in Nat, j \in N PROVE j + 1 \in N
  <2> SUFFICES ASSUME j + 1 <= L PROVE Holds(j + 1)
    OBVIOUS
  <2> PICK m : m = it[L - j]
    OBVIOUS
  <2>1. /\ j + 1 \in 1 .. L /\ j \in 0 .. L /\ (j + 1) - 1 = j /\ L + 1 - (j + 1) = L - j
        /\ L - j \in 1 .. L /\ j <= L
    OBVIOUS
  <2>2. f[j] \in Seen /\ f[j + 1] = Look(f[j], m) /\ m \in ItemNotes /\ m.kind = "item"
    BY <1>1, <1>2, <2>1, ItemNoteIs DEF Looks
  <2>3. Holds(j)
    BY <1>4, <2>1
  <2>4. CASE f[j].done
    <3>1. f[j + 1] = f[j]
      BY <2>2, <2>4, LookIs
    <3> QED BY <2>3, <2>4, <3>1
  <2>5. \A k \in 1 .. L : k > L - (j + 1) <=> (k > L - j \/ k = L - j)
    OBVIOUS
  <2>6. CASE ~f[j].done /\ m.phase = "final"
    <3>1. f[j + 1].done /\ f[j + 1].text = m.n
      BY <2>2, <2>6, LookIs
    <3>2. Latest(it, L, "final", L - j)
      BY <2>1, <2>2, <2>3, <2>6 DEF Latest, Answer
    <3>3. Done(j + 1)
      BY <2>1, <3>1, <3>2
    <3> QED BY <3>1, <3>3
  <2>7. CASE ~f[j].done /\ m.phase # "final"
    <3>1. /\ ~f[j + 1].done
          /\ f[j + 1].text = IF m.phase = "plain" /\ f[j].text = None THEN m.n ELSE f[j].text
      BY <2>2, <2>7, LookIs
    <3>2. NoFinal(j + 1)
      BY <2>3, <2>5, <2>7 DEF Answer
    <3>3. Spoke(j + 1)
      <4>1. CASE Answer(m, "plain") /\ f[j].text = None
        <5>1. m.phase = "plain" /\ m.n # None /\ f[j + 1].text = m.n
          BY <3>1, <4>1 DEF Answer
        <5>2. \A k \in 1 .. L : k > L - j => ~Answer(it[k], "plain")
          <6>1. ASSUME NEW p \in 1 .. L, Latest(it, L, "plain", p), f[j].text = it[p].n PROVE FALSE
            BY <4>1, <6>1 DEF Latest, Answer
          <6> QED BY <2>3, <2>7, <6>1
        <5>3. Latest(it, L, "plain", L - j)
          BY <2>1, <4>1, <5>2 DEF Latest
        <5>4. L - j > L - (j + 1)
          OBVIOUS
        <5> QED BY <2>1, <5>1, <5>3, <5>4
      <4>2. CASE ~Answer(m, "plain") /\ f[j].text = None
        <5>1. f[j + 1].text = None
          BY <2>2, <3>1, <4>2 DEF Answer
        <5>2. \A k \in 1 .. L : k > L - j => ~Answer(it[k], "plain")
          <6>1. ASSUME NEW p \in 1 .. L, Latest(it, L, "plain", p), f[j].text = it[p].n PROVE FALSE
            BY <4>2, <6>1 DEF Latest, Answer
          <6> QED BY <2>3, <2>7, <6>1
        <5> QED BY <2>5, <4>2, <5>1, <5>2
      <4>3. CASE f[j].text # None
        <5>1. PICK p \in 1 .. L : p > L - j /\ Latest(it, L, "plain", p) /\ f[j].text = it[p].n
          BY <2>3, <2>7, <4>3
        <5>2. f[j + 1].text = it[p].n /\ p > L - (j + 1)
          BY <3>1, <4>3, <5>1
        <5> QED BY <5>1, <5>2
      <4> QED BY <4>1, <4>2, <4>3
    <3> QED BY <3>1, <3>2, <3>3
  <2> QED BY <2>4, <2>6, <2>7
<1> HIDE DEF N
<1>5. \A j \in Nat : j \in N
  BY <1>3, <1>4, Induct
<1>6. Holds(L)
  BY <1>5 DEF N
<1>7. \A k \in 1 .. L : k > L - L
  OBVIOUS
<1>8. ASSUME NEW p, Latest(it, L, "final", p) PROVE f[L].text = it[p].n
  <2>1. p \in 1 .. L /\ Answer(it[p], "final")
    BY <1>8 DEF Latest
  <2>2. f[L].done
    BY <1>6, <1>7, <2>1
  <2>3. PICK q \in 1 .. L : Latest(it, L, "final", q) /\ f[L].text = it[q].n
    BY <1>6, <2>2
  <2> QED BY <1>8, <2>3, LatestOne
<1>9. ASSUME Nowhere(it, L, "final") PROVE ~f[L].done
  BY <1>6, <1>9 DEF Nowhere, Latest
<1>10. ASSUME Nowhere(it, L, "final"), NEW p, Latest(it, L, "plain", p) PROVE f[L].text = it[p].n
  <2>1. p \in 1 .. L /\ Answer(it[p], "plain")
    BY <1>10 DEF Latest
  <2>2. PICK q \in 1 .. L : Latest(it, L, "plain", q) /\ f[L].text = it[q].n
    BY <1>6, <1>7, <1>9, <1>10, <2>1
  <2> QED BY <1>10, <2>2, LatestOne
<1>11. ASSUME Nowhere(it, L, "final"), Nowhere(it, L, "plain") PROVE f[L].text = None
  BY <1>6, <1>9, <1>11 DEF Nowhere, Latest
<1> QED BY <1>1, <1>8, <1>10, <1>11

\* One more event, which is or is not the latest answer.
LEMMA LatestAppend ==
    ASSUME NEW t \in Seq(ItemNotes), NEW m \in ItemNotes, NEW x
    PROVE  /\ Answer(m, x) => Latest(Append(t, m), Len(t) + 1, x, Len(t) + 1)
           /\ ~Answer(m, x) => \A q : Latest(t, Len(t), x, q) =>
                 Latest(Append(t, m), Len(t) + 1, x, q) /\ Append(t, m)[q] = t[q]
           /\ (~Answer(m, x) /\ Nowhere(t, Len(t), x)) => Nowhere(Append(t, m), Len(t) + 1, x)
<1> PICK u : u = Append(t, m)
  OBVIOUS
<1>1. /\ Len(t) \in Nat /\ u[Len(t) + 1] = m
      /\ \A k \in 1 .. Len(t) : u[k] = t[k]
  OBVIOUS
<1>2. \A k \in 1 .. Len(t) + 1 : k \in 1 .. Len(t) \/ k = Len(t) + 1
  BY <1>1
<1>3. Answer(m, x) => Latest(u, Len(t) + 1, x, Len(t) + 1)
  BY <1>1 DEF Latest
<1>4. ASSUME ~Answer(m, x), NEW q, Latest(t, Len(t), x, q)
      PROVE  Latest(u, Len(t) + 1, x, q) /\ u[q] = t[q]
  <2>1. q \in 1 .. Len(t) /\ q \in 1 .. Len(t) + 1
    BY <1>1, <1>4 DEF Latest
  <2> QED BY <1>1, <1>2, <1>4, <2>1 DEF Latest
<1>5. (~Answer(m, x) /\ Nowhere(t, Len(t), x)) => Nowhere(u, Len(t) + 1, x)
  BY <1>1, <1>2 DEF Nowhere
<1> QED BY <1>3, <1>4, <1>5

\* The latest answer of the events is the latest of the items.
Agree(s, it, x) ==
    /\ Nowhere(s, Len(s), x) => Nowhere(it, Len(it), x)
    /\ \A p : Latest(s, Len(s), x, p) => \E q : Latest(it, Len(it), x, q) /\ it[q] = s[p]

LEMMA ItemsAgree ==
    ASSUME NEW s \in Seq(Notifications), NEW x
    PROVE  Items(s) \in Seq(ItemNotes) /\ Agree(s, Items(s), x)
<1> PICK L \in Nat : L = Len(s)
  OBVIOUS
<1>1. PICK f : ItemsUpTo(f, s) /\ Items(s) = f[L]
  BY ItemsAre
<1> DEFINE Agrees(i) ==
              /\ Nowhere(s, i, x) => Nowhere(f[i], Len(f[i]), x)
              /\ \A p : Latest(s, i, x, p) => \E q : Latest(f[i], Len(f[i]), x, q) /\ f[i][q] = s[p]
           N == {i \in Nat : i <= L => Agrees(i)}
<1>2. 0 \in N
  BY <1>1 DEF ItemsUpTo, Nowhere, Latest
<1>3. ASSUME NEW n \in Nat, n \in N PROVE n + 1 \in N
  <2> SUFFICES ASSUME n + 1 <= L PROVE Agrees(n + 1)
    OBVIOUS
  <2> PICK m : m = s[n + 1]
    OBVIOUS
  <2>1. /\ n + 1 \in 1 .. L /\ (n + 1) - 1 = n /\ n \in 0 .. L /\ n <= L
        /\ \A k \in 1 .. n + 1 : k \in 1 .. n \/ k = n + 1
        /\ \A k \in 1 .. n : k \in 1 .. n + 1 /\ ~(k > n)
    OBVIOUS
  <2>2. /\ f[n] \in Seq(ItemNotes) /\ m \in Notifications
        /\ f[n + 1] = IF m.kind = "item" THEN Append(f[n], m) ELSE f[n]
    BY <1>1, <2>1 DEF ItemsUpTo
  <2>3. Agrees(n)
    BY <1>3, <2>1
  <2>4. CASE Answer(m, x)
    <3>1. f[n + 1] = Append(f[n], m) /\ m \in ItemNotes
      BY <2>2, <2>4 DEF Answer, ItemNotes
    <3> PICK t : t = f[n]
      OBVIOUS
    <3>2. /\ Latest(Append(t, m), Len(t) + 1, x, Len(t) + 1)
          /\ Len(Append(t, m)) = Len(t) + 1 /\ Append(t, m)[Len(t) + 1] = m
      BY <2>2, <2>4, <3>1, LatestAppend
    <3>3. ASSUME NEW p, Latest(s, n + 1, x, p) PROVE p = n + 1
      <4>1. Latest(s, n + 1, x, n + 1)
        BY <2>1, <2>4 DEF Latest
      <4> QED BY <3>3, <4>1, LatestOne
    <3>4. ~Nowhere(s, n + 1, x)
      BY <2>1, <2>4 DEF Nowhere
    <3> QED BY <3>1, <3>2, <3>3, <3>4
  <2>5. CASE ~Answer(m, x)
    <3>1. ASSUME Nowhere(s, n + 1, x) PROVE Nowhere(s, n, x)
      BY <2>1, <3>1 DEF Nowhere
    <3>2. ASSUME NEW p, Latest(s, n + 1, x, p) PROVE Latest(s, n, x, p)
      BY <2>1, <2>5, <3>2 DEF Latest
    <3>3. CASE m.kind # "item"
      BY <2>2, <2>3, <3>1, <3>2, <3>3
    <3>4. CASE m.kind = "item"
      <4> PICK t : t = f[n]
        OBVIOUS
      <4>1. /\ f[n + 1] = Append(t, m) /\ m \in ItemNotes /\ Len(Append(t, m)) = Len(t) + 1
            /\ t \in Seq(ItemNotes)
        BY <2>2, <3>4 DEF ItemNotes
      <4>2. /\ \A q : Latest(t, Len(t), x, q) =>
                  Latest(Append(t, m), Len(t) + 1, x, q) /\ Append(t, m)[q] = t[q]
            /\ Nowhere(t, Len(t), x) => Nowhere(Append(t, m), Len(t) + 1, x)
        BY <2>2, <2>5, <4>1, LatestAppend
      <4>3. Nowhere(s, n + 1, x) => Nowhere(f[n + 1], Len(f[n + 1]), x)
        BY <2>3, <3>1, <4>1, <4>2
      <4>4. ASSUME NEW p, Latest(s, n + 1, x, p)
            PROVE  \E q : Latest(f[n + 1], Len(f[n + 1]), x, q) /\ f[n + 1][q] = s[p]
        <5>1. PICK q : Latest(t, Len(t), x, q) /\ t[q] = s[p]
          BY <2>3, <3>2, <4>4
        <5> QED BY <4>1, <4>2, <5>1
      <4> QED BY <4>3, <4>4
    <3> QED BY <3>3, <3>4
  <2> QED BY <2>4, <2>5
<1> HIDE DEF N
<1>4. \A n \in Nat : n \in N
  BY <1>2, <1>3, Induct
<1>5. Agrees(L)
  BY <1>4 DEF N
<1>6. f[L] \in Seq(ItemNotes)
  BY <1>1 DEF ItemsUpTo
<1> HIDE DEF Agrees
<1>7. Agree(s, f[L], x)
  BY <1>5 DEF Agrees, Agree
<1> QED BY <1>1, <1>6, <1>7

LEMMA MaxIs ==
    ASSUME NEW n \in Nat, NEW S \in SUBSET (1 .. n), S # {}
    PROVE  Max(S) \in S /\ \A y \in S : Max(S) >= y
<1> DEFINE T == {k \in Nat : k <= n /\ n - k \in S}
<1>1. T \subseteq Nat /\ T # {}
  <2>1. PICK y \in S : TRUE
    OBVIOUS
  <2>2. n - y \in Nat /\ n - y <= n /\ n - (n - y) = y
    BY <2>1
  <2> QED BY <2>1, <2>2
<1>2. PICK i \in T : \A k \in T : ~(<<k, i>> \in OpToRel(<, Nat))
  <2> HIDE DEF T
  <2> QED BY <1>1, NatLessThanWellFounded, WFMin, Zenon
<1>3. \A k \in T : ~(k < i)
  BY <1>2 DEF OpToRel
<1>4. ASSUME NEW y \in S PROVE n - i >= y
  <2>1. n - y \in Nat /\ n - y <= n /\ n - (n - y) = y /\ y \in Nat
    OBVIOUS
  <2>2. n - y \in T
    BY <2>1
  <2>3. i \in Nat /\ ~(n - y < i)
    BY <1>3, <2>2
  <2> QED BY <2>1, <2>3
<1>5. n - i \in S
  OBVIOUS
<1> QED BY <1>4, <1>5 DEF Max

\* finalAssistantResponse on the items of what the server has sent: the latest
\* final_answer, or else the latest message without a phase that says something.
LEMMA FinalRight ==
    ASSUME NEW s \in Seq(Notifications), NEW A, NEW B,
           A = {i \in 1 .. Len(s) : Answer(s[i], "final")},
           B = {i \in 1 .. Len(s) : Answer(s[i], "plain")}
    PROVE  FinalAssistantResponse(Items(s)) =
              IF A # {} THEN s[Max(A)].n ELSE IF B # {} THEN s[Max(B)].n ELSE None
<1> PICK it : it = Items(s)
  OBVIOUS
<1>0. Len(s) \in Nat /\ it \in Seq(ItemNotes)
  BY ItemsAgree
<1>1. CASE A # {}
  <2> PICK a : a = Max(A)
    OBVIOUS
  <2>1. Latest(s, Len(s), "final", a)
    <3>1. a \in A /\ \A y \in A : a >= y
      BY <1>0, <1>1, MaxIs
    <3>2. \A k \in 1 .. Len(s) : k > a => ~(a >= k)
      BY <1>0, <3>1
    <3> QED BY <3>1, <3>2 DEF Latest
  <2>2. PICK q : Latest(it, Len(it), "final", q) /\ it[q] = s[a]
    <3>1. Agree(s, it, "final")
      BY ItemsAgree
    <3> QED BY <2>1, <3>1, Zenon DEF Agree
  <2> QED BY <1>0, <1>1, <2>2, FinalIs
<1>2. ASSUME A = {} PROVE Nowhere(it, Len(it), "final")
  <2>1. Nowhere(s, Len(s), "final")
    BY <1>2 DEF Nowhere
  <2>2. Agree(s, it, "final")
    BY ItemsAgree
  <2> QED BY <2>1, <2>2 DEF Agree
<1>3. CASE A = {} /\ B # {}
  <2> PICK a : a = Max(B)
    OBVIOUS
  <2>1. Latest(s, Len(s), "plain", a)
    <3>1. a \in B /\ \A y \in B : a >= y
      BY <1>0, <1>3, MaxIs
    <3>2. \A k \in 1 .. Len(s) : k > a => ~(a >= k)
      BY <1>0, <3>1
    <3> QED BY <3>1, <3>2 DEF Latest
  <2>2. PICK q : Latest(it, Len(it), "plain", q) /\ it[q] = s[a]
    <3>1. Agree(s, it, "plain")
      BY ItemsAgree
    <3> QED BY <2>1, <3>1, Zenon DEF Agree
  <2> QED BY <1>0, <1>2, <1>3, <2>2, FinalIs
<1>4. CASE A = {} /\ B = {}
  <2>1. Nowhere(s, Len(s), "plain")
    BY <1>4 DEF Nowhere
  <2>2. Nowhere(it, Len(it), "plain")
    <3>1. Agree(s, it, "plain")
      BY ItemsAgree
    <3> QED BY <2>1, <3>1 DEF Agree
  <2> QED BY <1>0, <1>2, <1>4, <2>2, FinalIs
<1> QED BY <1>1, <1>3, <1>4

-----------------------------------------------------------------------------
(* The result of RunContext: what it is collected from. *)

\* The end of the turn is the last thing sent, and a later usage is a larger one.
SentInv ==
    \A i \in 1 .. Len(sent) :
        /\ sent[i].kind = "turn" => i = Len(sent) /\ turn = "ended"
        /\ sent[i].kind = "usage" => sent[i].n \in {None, i}

UsageInv ==
    \A i \in 1 .. Len(got) : got[i].kind = "usage" /\ got[i].n # None => latestUsage >= got[i].n

RunInv ==
    /\ ret = "ok" => /\ got = sent /\ turn = "ended" /\ Last(sent).status # "failed"
                     /\ result = [items |-> Items(sent),
                                  final |-> FinalAssistantResponse(Items(sent)),
                                  usage |-> latestUsage, status |-> Last(sent).status]
    /\ ret = "failed" => turn = "ended" /\ Last(sent).status = "failed"

RInv == SentInv /\ UsageInv /\ RunInv

LEMMA RunStays ==
    ASSUME RInv, UNCHANGED <<sent, got, latestUsage>>, turn' = turn \/ turn = "none",
           UNCHANGED <<ret, result>> \/ ret' = "error"
    PROVE  RInv'
<1>1. SentInv' /\ UsageInv'
  BY DEF RInv, SentInv, UsageInv
<1>2. RunInv'
  BY DEF RInv, RunInv
<1> QED BY <1>1, <1>2 DEF RInv

LEMMA SendsRun == ASSUME TInv, RInv, ServerSends PROVE RInv'
<1>1. PICK m \in Notifications : /\ sent' = Append(sent, m)
                                 /\ turn' = IF m.kind = "turn" THEN "ended" ELSE turn
                                 /\ m.kind \in {"item", "usage"} => m.n \in {None, Len(sent) + 1}
  BY DEF ServerSends
<1>2. turn = "running" /\ UNCHANGED <<got, latestUsage, ret, result>>
  BY DEF ServerSends, streamVars, runVars
<1>3. SentInv'
  <2>1. sent \in Seq(Notifications)
    BY DEF TInv, TypeS
  <2>2. /\ Len(sent') = Len(sent) + 1
        /\ \A i \in 1 .. Len(sent') : \/ i \in 1 .. Len(sent) /\ sent'[i] = sent[i]
                                      \/ i = Len(sent) + 1 /\ sent'[i] = m
    BY <1>1, <2>1, AppendIs
  <2>3. \A i \in 1 .. Len(sent) : sent[i].kind # "turn"
    BY <1>2 DEF RInv, SentInv
  <2> QED BY <1>1, <2>2, <2>3 DEF RInv, SentInv
<1>4. UsageInv'
  BY <1>2 DEF RInv, UsageInv
<1>5. RunInv'
  BY <1>2 DEF RInv, RunInv
<1> QED BY <1>3, <1>4, <1>5 DEF RInv

LEMMA ReceivesRun == ASSUME TInv, RInv, NextReceives PROVE RInv'
<1> PICK m : m = Head(box)
  OBVIOUS
<1>1. /\ reader # "ready" /\ box # <<>> /\ box' = Tail(box)
      /\ UNCHANGED <<serverVars, failed, start, mode, closer, runVars>>
  BY DEF NextReceives
<1>2. ret = "none" /\ ret' = "none" /\ UNCHANGED <<sent, turn>>
  BY <1>1 DEF TInv, EndInv, runVars, serverVars
<1>3. CASE NextFails("failure") \/ NextFails("malformed")
  BY <1>1, <1>3, RunStays DEF NextFails, serverVars, runVars
<1>4. CASE /\ m.kind # "failure"
           /\ reader' = "ready" /\ got' = Append(got, m)
           /\ latestUsage' = IF m.kind = "usage" /\ m.n # None THEN m.n ELSE latestUsage
           /\ terminalEOF' = Terminal(m)
           /\ UNCHANGED <<route, terminalErr, closed, ends>>
  <2>1. latestUsage' \in Texts
    <3>1. m \in Notifications \cup {Failure}
      BY <1>1, TailIs DEF TInv, TypeS
    <3>2. m \in Notifications
      BY <1>4, <3>1 DEF Failure
    <3>3. m.kind = "usage" => m.n \in Texts
      BY <3>2 DEF Notifications, Texts
    <3> QED BY <1>4, <3>3 DEF TInv, TypeS
  <2>2. m \in Notifications /\ Len(got) + 1 <= Len(sent) /\ m = sent[Len(got) + 1]
    BY <1>1, <1>4, <2>1, EventKeeps
  <2>3. /\ Len(got) \in Nat /\ Len(sent) \in Nat /\ latestUsage \in Texts /\ got \in Seq(Notifications)
        /\ Len(got) <= Len(sent) /\ \A i \in 1 .. Len(got) : got[i] = sent[i]
    BY DEF TInv, TypeS, FlowInv
  <2>4. \A i \in 1 .. Len(got') : \/ i \in 1 .. Len(got) /\ got'[i] = got[i]
                                  \/ i = Len(got) + 1 /\ got'[i] = m
    BY <1>4, <2>2, <2>3, AppendIs
  <2>5. UsageInv'
    <3> SUFFICES ASSUME NEW i \in 1 .. Len(got'), got'[i].kind = "usage", got'[i].n # None
                 PROVE  latestUsage' >= got'[i].n
      BY DEF UsageInv
    <3>1. CASE i = Len(got) + 1 /\ got'[i] = m
      <4>1. latestUsage' = m.n /\ m.n \in Texts
        BY <1>4, <2>1, <3>1
      <4> QED BY <3>1, <4>1 DEF Texts
    <3>2. CASE i \in 1 .. Len(got) /\ got'[i] = got[i]
      <4>1. i \in 1 .. Len(sent) /\ got[i] = sent[i]
        BY <2>3, <3>2
      <4>2. got[i].n = i /\ latestUsage >= i
        BY <3>2, <4>1 DEF RInv, SentInv, UsageInv
      <4>3. CASE m.kind = "usage" /\ m.n # None
        <5>1. m.n = Len(got) + 1
          BY <2>2, <2>3, <4>3 DEF RInv, SentInv
        <5> QED BY <1>4, <2>3, <3>2, <4>2, <4>3, <5>1
      <4>4. CASE ~(m.kind = "usage" /\ m.n # None)
        BY <1>4, <3>2, <4>2, <4>4
      <4> QED BY <4>3, <4>4
    <3> QED BY <2>4, <3>1, <3>2
  <2>6. SentInv' /\ RunInv'
    BY <1>2 DEF RInv, SentInv, RunInv
  <2> QED BY <2>5, <2>6 DEF RInv
<1> QED BY <1>3, <1>4 DEF NextReceives

\* collectTurnResult has seen the end of the turn, and so everything.
LEMMA CollectRun == ASSUME TInv, RInv, Collect PROVE RInv'
<1>1. /\ UNCHANGED <<turn, sent, got, latestUsage>> /\ ret = "none" /\ ends # <<>>
  BY DEF Collect, serverVars
<1>2. CASE Last(ends) # "EOF"
  BY <1>1, <1>2, RunStays DEF Collect
<1>3. CASE Last(ends) = "EOF"
  <2>1. terminalEOF
    <3>1. Len(ends) \in 1 .. Len(ends)
      BY <1>1 DEF TInv, TypeS
    <3>2. End = "EOF"
      BY <1>3, <3>1 DEF TInv, EndInv, Last
    <3> QED BY <3>2, EndIs DEF TInv, TypeS, Ends
  <2>2. got # <<>> /\ got[Len(got)].kind = "turn"
    BY <2>1 DEF TInv, EndInv, Terminal
  <2>3. /\ Len(got) \in 1 .. Len(got) /\ Len(got) \in 1 .. Len(sent)
        /\ got \in Seq(Notifications) /\ sent \in Seq(Notifications)
        /\ \A i \in 1 .. Len(got) : got[i] = sent[i]
    BY <2>2 DEF TInv, FlowInv, TypeS
  <2>4. Len(got) = Len(sent) /\ turn = "ended"
    BY <2>2, <2>3 DEF RInv, SentInv
  <2>5. got = sent
    BY <2>3, <2>4
  <2>6. SentInv' /\ UsageInv'
    BY <1>1 DEF RInv, SentInv, UsageInv
  <2>7. CASE Last(got).status = "failed"
    <3>1. ret' = "failed" /\ Last(sent').status = "failed" /\ turn' = "ended"
      BY <1>1, <1>3, <2>4, <2>5, <2>7 DEF Collect
    <3> QED BY <2>6, <3>1 DEF RInv, RunInv
  <2>8. CASE Last(got).status # "failed"
    <3>1. /\ ret' = "ok"
          /\ result' = [items |-> Items(got), final |-> FinalAssistantResponse(Items(got)),
                        usage |-> latestUsage, status |-> Last(got).status]
      BY <1>3, <2>8 DEF Collect
    <3>2. RunInv'
      BY <1>1, <2>4, <2>5, <2>8, <3>1 DEF RunInv
    <3> QED BY <2>6, <3>2 DEF RInv
  <2> QED BY <2>7, <2>8
<1> QED BY <1>2, <1>3

LEMMA RunStepKeeps == TInv /\ RInv /\ [Next]_vars => RInv'
<1> SUFFICES ASSUME TInv, RInv, [Next]_vars PROVE RInv'
  OBVIOUS
<1> USE DEF serverVars, streamVars, runVars
<1>1. CASE \/ ServerStarts \/ StartTurn \/ RegisterTurn \/ StartTurnFails
           \/ Stream("stream") \/ Stream("run") \/ CloseMarks \/ CloseUnregisters
  BY <1>1, RunStays DEF ServerStarts, StartTurn, RegisterTurn, StartTurnFails, Stream, CloseMarks,
                        CloseUnregisters
<1>2. CASE RouteOverflows \/ TransportFails
  BY <1>2, RunStays DEF RouteOverflows, TransportFails, Fail
<1>3. CASE NextEnds \/ NextCalls \/ NextLooksUp \/ NextTries \/ NextCancelled
  BY <1>3, RunStays DEF NextEnds, NextCalls, NextLooksUp, NextTries, NextCancelled, NextFails
<1>4. CASE RunCancelled
  BY <1>4, RunStays DEF RunCancelled
<1>5. CASE UNCHANGED vars
  BY <1>5, RunStays DEF vars
<1>6. CASE ServerSends \/ NextReceives \/ Collect
  BY <1>6, SendsRun, ReceivesRun, CollectRun
<1> QED BY <1>1, <1>2, <1>3, <1>4, <1>5, <1>6 DEF Next, Reader

\* What RunContext returns is what the server has sent: every item, the latest usage,
\* the status of the turn and the final response, whatever the messages and their order;
\* and a failed turn is an error.
THEOREM ResultsAreRight == Spec => []ResultRight
<1>1. Init => TInv /\ RInv
  <2>1. Init => RInv
    BY DEF Init, RInv, SentInv, UsageInv, RunInv
  <2> QED BY <2>1, InitKeeps
<1>2. (TInv /\ RInv) /\ [Next]_vars => (TInv /\ RInv)'
  BY TurnStepKeeps, RunStepKeeps
<1>3. TInv /\ RInv => ResultRight
  <2> SUFFICES ASSUME TInv, RInv PROVE ResultRight
    OBVIOUS
  <2>1. ASSUME ret = "ok"
        PROVE  /\ turn = "ended" /\ result.status = Last(sent).status /\ result.status # "failed"
               /\ result.items = Items(sent)
               /\ result.final = IF Answers("final") # {} THEN sent[Max(Answers("final"))].n
                                 ELSE IF Spoken("plain") # {} THEN sent[Max(Spoken("plain"))].n
                                 ELSE None
               /\ \A i \in 1 .. Len(sent) :
                    sent[i].kind = "usage" /\ sent[i].n # None => result.usage >= sent[i].n
    <3>1. /\ got = sent /\ turn = "ended" /\ Last(sent).status # "failed"
          /\ result = [items |-> Items(sent), final |-> FinalAssistantResponse(Items(sent)),
                       usage |-> latestUsage, status |-> Last(sent).status]
      BY <2>1 DEF RInv, RunInv
    <3>2. /\ result.items = Items(sent) /\ result.final = FinalAssistantResponse(Items(sent))
          /\ result.usage = latestUsage /\ result.status = Last(sent).status
      BY <3>1
    <3>3. /\ Answers("final") = {i \in 1 .. Len(sent) : Answer(sent[i], "final")}
          /\ Spoken("plain") = {i \in 1 .. Len(sent) : Answer(sent[i], "plain")}
      BY DEF Answers, Spoken, Answer
    <3>4. FinalAssistantResponse(Items(sent)) =
             IF Answers("final") # {} THEN sent[Max(Answers("final"))].n
             ELSE IF Spoken("plain") # {} THEN sent[Max(Spoken("plain"))].n ELSE None
      BY <3>3, FinalRight DEF TInv, TypeS
    <3>5. \A i \in 1 .. Len(sent) :
             sent[i].kind = "usage" /\ sent[i].n # None => result.usage >= sent[i].n
      BY <3>1, <3>2 DEF RInv, UsageInv
    <3> QED BY <3>1, <3>2, <3>4, <3>5
  <2>2. ret = "failed" => turn = "ended" /\ Last(sent).status = "failed"
    BY DEF RInv, RunInv
  <2> QED BY <2>1, <2>2 DEF ResultRight
<1> QED BY <1>1, <1>2, <1>3, PTL DEF Spec

-----------------------------------------------------------------------------
(* CompactThreadAndWait *)

\* The server completes what it has started, one after the other.
ServerInv ==
    /\ started \in Nat /\ notifies \in BOOLEAN
    /\ completed = 1 .. started \/ (started # 0 /\ completed = 1 .. started - 1)

CallType ==
    /\ compactionRoute \in {"none", "open", "closed"} /\ mail \in Seq(Nat)
    /\ call \in 0 .. MaxCalls /\ fallback \in BOOLEAN
    /\ pc \in {"idle", "baseline", "request", "wait", "unregister"}
    /\ done0 \in [Calls -> SUBSET Nat]
    /\ accepted \in [Calls -> BOOLEAN] /\ confirmed \in [Calls -> Nat]
    /\ listener \in [Calls -> {"none", "new", "try", "select", "done"}]
    /\ poller \in [Calls -> {"none", "read", "tick", "done"}]
    /\ heard \in [Calls -> SUBSET Nat] /\ seen \in [Calls -> SUBSET Nat]

\* The compaction route is registered while a call runs; it keeps what is announced
\* before the first call and nothing between two calls.
MailInv ==
    /\ pc = "idle" <=> compactionRoute # "open"
    /\ compactionRoute = "closed" => mail = <<>>
    /\ compactionRoute = "none" <=> call = 0
    /\ mail # <<>> => notifies
    /\ \A i \in 1 .. Len(mail) : mail[i] \in completed

\* What call k has to go by is new to it, or was kept for it; a call that is to come
\* has nothing.
NewTo(k) == {i \in completed : i \in done0[k] => Kept(k, i)}

CallInv(k) ==
    /\ confirmed[k] # NoId => accepted[k] /\ confirmed[k] \in NewTo(k)
    /\ k > call => confirmed[k] = NoId
    /\ k = call => /\ \A i \in 1 .. Len(mail) : mail[i] \in NewTo(k)
                   /\ heard[k] \cup seen[k] \subseteq NewTo(k)
                   /\ pc = "wait" => accepted[k]
                   /\ poller[k] # "none" => done0[k] \subseteq baseline
                   /\ (pc = "request" /\ fallback) => done0[k] \subseteq baseline
    /\ (k > call \/ (k = call /\ pc \in {"baseline", "request"})) =>
          /\ listener[k] = "none" /\ poller[k] = "none"
          /\ heard[k] = {} /\ seen[k] = {}

\* What had been completed when a call began still is.
DoneInv == \A k \in Calls : done0[k] \subseteq completed

CInv == ServerInv /\ CallType /\ MailInv /\ DoneInv /\ \A k \in Calls : CallInv(k)

LEMMA CallsAre ==
    MaxCalls \in Nat /\ Calls = 1 .. MaxCalls
BY CompactionAssumption DEF Calls

\* How many compactions the server has completed.
LEMMA CompletedCount ==
    ASSUME ServerInv
    PROVE  /\ started = Cardinality(completed) => completed = 1 .. started
           /\ started > Cardinality(completed) => completed = 1 .. started - 1 /\ started # 0
<1>1. Cardinality(1 .. started) = started
  BY FS_Interval DEF ServerInv
<1>2. started # 0 => Cardinality(1 .. started - 1) = started - 1
  BY FS_Interval DEF ServerInv
<1> QED BY <1>1, <1>2 DEF ServerInv

LEMMA MinIs ==
    ASSUME NEW S \in SUBSET Nat, S # {}, NEW m, m = CHOOSE x \in S : \A y \in S : x =< y
    PROVE  m \in S
<1>1. PICK i \in S : \A k \in S : ~(<<k, i>> \in OpToRel(<, Nat))
  BY NatLessThanWellFounded, WFMin, Zenon
<1>2. \A k \in S : ~(k < i)
  BY <1>1 DEF OpToRel
<1>3. \A k \in S : i =< k
  BY <1>2
<1> QED BY <1>3

LEMMA CInit == CompactionInit => CInv
<1> SUFFICES ASSUME CompactionInit PROVE CInv
  OBVIOUS
<1>1. ServerInv
  BY DEF CompactionInit, ServerInv
<1>2. CallType
  <2>1. 0 \in 0 .. MaxCalls
    BY CallsAre
  <2>2. /\ done0 = [k \in Calls |-> {}] /\ accepted = [k \in Calls |-> FALSE]
        /\ confirmed = [k \in Calls |-> 0] /\ listener = [k \in Calls |-> "none"]
        /\ poller = [k \in Calls |-> "none"]
        /\ heard = [k \in Calls |-> {}] /\ seen = [k \in Calls |-> {}]
    BY DEF CompactionInit, NoId
  <2>3. compactionRoute = "none" /\ mail = <<>> /\ call = 0 /\ fallback = FALSE /\ pc = "idle"
    BY DEF CompactionInit
  <2>4. <<>> \in Seq(Nat)
    OBVIOUS
  <2> QED BY <2>1, <2>2, <2>3, <2>4 DEF CallType
<1>3. MailInv /\ DoneInv
  BY DEF CompactionInit, MailInv, DoneInv
<1>4. ASSUME NEW k \in Calls PROVE CallInv(k)
  <2>1. k # 0
    BY CallsAre
  <2> QED BY <2>1 DEF CompactionInit, CallInv, NoId
<1> QED BY <1>1, <1>2, <1>3, <1>4 DEF CInv

\* What a goroutine's step changes when it tells its call nothing.
calling == <<notifies, started, completed, compactionRoute, mail, call, pc, baseline, fallback, done0,
             accepted, confirmed, heard, seen>>

LEMMA SilentKeeps ==
    ASSUME CInv, UNCHANGED calling,
           listener' \in [Calls -> {"none", "new", "try", "select", "done"}],
           poller' \in [Calls -> {"none", "read", "tick", "done"}],
           \A k \in Calls : listener[k] = "none" => listener'[k] = "none",
           \A k \in Calls : poller'[k] = "none" <=> poller[k] = "none"
    PROVE  CInv'
<1>1. ServerInv' /\ MailInv' /\ DoneInv'
  BY DEF CInv, ServerInv, MailInv, DoneInv, calling
<1>2. CallType'
  BY DEF CInv, CallType, calling
<1>3. ASSUME NEW k \in Calls PROVE CallInv(k)'
  BY DEF CInv, CallInv, NewTo, Kept, calling, NoId
<1> QED BY <1>1, <1>2, <1>3 DEF CInv

LEMMA GoroutineKeeps ==
    ASSUME CInv, NEW k \in Calls,
           \/ ListenerCalls(k) \/ ListenerWaits(k) \/ ListenerEnds(k)
           \/ PollerFails(k) \/ PollerTicks(k) \/ PollerEnds(k)
    PROVE  CInv'
<1>1. CASE ListenerCalls(k) \/ ListenerWaits(k) \/ ListenerEnds(k)
  <2>1. UNCHANGED calling /\ poller' = poller
    BY <1>1 DEF ListenerCalls, ListenerWaits, ListenerEnds, calling, compactorVars, callVars
  <2>2. PICK l \in {"try", "select", "done"} : listener' = [listener EXCEPT ![k] = l]
    BY <1>1 DEF ListenerCalls, ListenerWaits, ListenerEnds
  <2>3. listener[k] # "none"
    BY <1>1 DEF ListenerCalls, ListenerWaits, ListenerEnds
  <2> QED BY <2>1, <2>2, <2>3, SilentKeeps DEF CInv, CallType
<1>2. CASE PollerFails(k) \/ PollerTicks(k) \/ PollerEnds(k)
  <2>1. UNCHANGED calling /\ listener' = listener
    BY <1>2 DEF PollerFails, PollerTicks, PollerEnds, calling, compactorVars, callVars
  <2>2. PICK l \in {"read", "tick", "done"} : poller' = [poller EXCEPT ![k] = l]
    BY <1>2 DEF PollerFails, PollerTicks, PollerEnds
  <2>3. poller[k] # "none"
    BY <1>2 DEF PollerFails, PollerTicks, PollerEnds
  <2> QED BY <2>1, <2>2, <2>3, SilentKeeps DEF CInv, CallType
<1> QED BY <1>1, <1>2

\* A listener takes the head of the route's queue, which is new to the call that runs.
LEMMA HearKeeps ==
    ASSUME CInv, NEW k \in Calls, ListenerReceives(k) PROVE CInv'
<1>1. /\ UNCHANGED <<notifies, started, completed, compactionRoute, call, pc, baseline, fallback, done0,
                     accepted, confirmed, poller, seen>>
      /\ heard' = [heard EXCEPT ![k] = {Head(mail)}] /\ mail' = Tail(mail)
      /\ listener' = [listener EXCEPT ![k] = "done"] /\ listener[k] # "none"
      /\ compactionRoute = "open" /\ mail # <<>>
  BY DEF ListenerReceives, HasMail, compactorVars, callVars
<1>2. /\ mail \in Seq(Nat) /\ Tail(mail) \in Seq(Nat) /\ Head(mail) = mail[1] /\ Head(mail) \in Nat
      /\ 1 \in 1 .. Len(mail)
      /\ \A i \in 1 .. Len(Tail(mail)) : i + 1 \in 1 .. Len(mail) /\ Tail(mail)[i] = mail[i + 1]
  BY <1>1 DEF CInv, CallType
<1>3. ServerInv' /\ MailInv' /\ DoneInv'
  <2>1. MailInv'
    BY <1>1, <1>2 DEF CInv, MailInv
  <2> QED BY <1>1, <2>1 DEF CInv, ServerInv, DoneInv
<1>4. CallType'
  BY <1>1, <1>2 DEF CInv, CallType
<1>5. ASSUME NEW j \in Calls PROVE CallInv(j)'
  <2>1. CallInv(j) /\ NewTo(j)' = NewTo(j)
    BY <1>1 DEF CInv, NewTo, Kept
  <2>2. j # k => heard'[j] = heard[j] /\ listener'[j] = listener[j]
    BY <1>1 DEF CInv, CallType
  <2>3. heard'[k] = {Head(mail)}
    BY <1>1 DEF CInv, CallType
  <2>4. CASE j = k /\ k = call
    <3>1. \A i \in 1 .. Len(mail') : mail'[i] \in NewTo(j)
      BY <1>1, <1>2, <2>1, <2>4 DEF CallInv
    <3>2. Head(mail) \in NewTo(j)
      BY <1>2, <2>1, <2>4 DEF CallInv
    <3>3. ~(pc \in {"baseline", "request"}) /\ ~(j > call)
      BY <1>1, <2>1, <2>4 DEF CallInv, CInv, CallType
    <3> QED BY <1>1, <2>1, <2>3, <2>4, <3>1, <3>2, <3>3 DEF CallInv, NoId
  <2>5. CASE j = k /\ k # call
    <3>1. ~(j > call)
      BY <1>1, <2>1, <2>5 DEF CallInv
    <3> QED BY <1>1, <2>1, <2>5, <3>1 DEF CallInv, NoId
  <2>6. CASE j # k
    <3>1. j = call => \A i \in 1 .. Len(mail') : mail'[i] \in NewTo(j)
      BY <1>1, <1>2, <2>1 DEF CallInv
    <3> QED BY <1>1, <2>1, <2>2, <2>6, <3>1 DEF CallInv, NoId
  <2> QED BY <2>4, <2>5, <2>6
<1> QED BY <1>3, <1>4, <1>5 DEF CInv

\* A poller tells its call of a compaction the baseline does not have.
LEMMA SeeKeeps ==
    ASSUME CInv, NEW k \in Calls, PollerReads(k) PROVE CInv'
<1>1. CASE NewTurns = {}
  <2>1. UNCHANGED calling /\ listener' = listener
    BY <1>1 DEF PollerReads, calling, compactorVars, callVars
  <2>2. poller' = [poller EXCEPT ![k] = "tick"] /\ poller[k] # "none"
    BY <1>1 DEF PollerReads
  <2> QED BY <2>1, <2>2, SilentKeeps DEF CInv, CallType
<1>2. CASE NewTurns # {}
  <2> PICK m : m = CHOOSE x \in NewTurns : \A y \in NewTurns : x =< y
    OBVIOUS
  <2>1. /\ UNCHANGED <<notifies, started, completed, compactionRoute, mail, call, pc, baseline,
                       fallback, done0, accepted, confirmed, listener, heard>>
        /\ seen' = [seen EXCEPT ![k] = {m}]
        /\ poller' = [poller EXCEPT ![k] = "done"] /\ poller[k] # "none" /\ k = call
    BY <1>2 DEF PollerReads, compactorVars, callVars, Min
  <2>2. completed \subseteq Nat
    BY DEF CInv, ServerInv
  <2>3. m \in completed /\ m \notin baseline /\ m \in Nat
    BY <1>2, <2>2, MinIs DEF NewTurns
  <2>4. m \in NewTo(k)
    BY <2>1, <2>3 DEF CInv, CallInv, NewTo, Kept
  <2>5. ServerInv' /\ MailInv' /\ DoneInv'
    BY <2>1 DEF CInv, ServerInv, MailInv, DoneInv
  <2>6. CallType'
    BY <2>1, <2>3 DEF CInv, CallType
  <2>7. ASSUME NEW j \in Calls PROVE CallInv(j)'
    <3>1. CallInv(j) /\ NewTo(j)' = NewTo(j)
      BY <2>1 DEF CInv, NewTo, Kept
    <3>2. j # k => seen'[j] = seen[j] /\ poller'[j] = poller[j]
      BY <2>1 DEF CInv, CallType
    <3>3. seen'[k] = {m} /\ poller'[k] = "done"
      BY <2>1 DEF CInv, CallType
    <3>4. CASE j = k
      <4>1. ~(pc \in {"baseline", "request"}) /\ ~(j > call)
        BY <2>1, <3>1, <3>4 DEF CallInv
      <4> QED BY <2>1, <2>4, <3>1, <3>3, <3>4, <4>1 DEF CallInv, NoId
    <3>5. CASE j # k
      BY <2>1, <3>1, <3>2, <3>5 DEF CallInv, NoId
    <3> QED BY <3>4, <3>5
  <2> QED BY <2>5, <2>6, <2>7 DEF CInv
<1> QED BY <1>1, <1>2

\* The server starts one more.
LEMMA StartsKeeps ==
    ASSUME CInv, ServerCompacts PROVE CInv'
<1>1. /\ UNCHANGED <<notifies, completed, compactionRoute, mail, call, pc, baseline, fallback, done0,
                     accepted, confirmed, listener, poller, heard, seen>>
      /\ started' = started + 1 /\ started = Cardinality(completed)
  BY DEF ServerCompacts, callVars
<1>2. completed = 1 .. started /\ started \in Nat
  BY <1>1, CompletedCount DEF CInv, ServerInv
<1>3. ServerInv'
  BY <1>1, <1>2 DEF CInv, ServerInv
<1>4. CallType'
  BY <1>1 DEF CInv, CallType
<1>5. MailInv' /\ DoneInv'
  BY <1>1 DEF CInv, MailInv, DoneInv
<1>6. ASSUME NEW k \in Calls PROVE CallInv(k)'
  BY <1>1 DEF CInv, CallInv, NewTo, Kept, NoId
<1> QED BY <1>3, <1>4, <1>5, <1>6 DEF CInv

\* What it completes had not been completed, and is announced to a route that is not closed.
LEMMA CompletesKeeps ==
    ASSUME CInv, ServerCompletes PROVE CInv'
<1>1. /\ UNCHANGED <<notifies, started, compactionRoute, call, pc, baseline, fallback, done0,
                     accepted, confirmed, listener, poller, heard, seen>>
      /\ completed' = completed \cup {started} /\ started > Cardinality(completed)
      /\ mail' = IF notifies /\ compactionRoute # "closed" THEN Append(mail, started) ELSE mail
  BY DEF ServerCompletes, Routed, callVars
<1>2. completed = 1 .. started - 1 /\ started # 0 /\ started \in Nat
  BY <1>1, CompletedCount DEF CInv, ServerInv
<1>3. started \notin completed /\ completed' = 1 .. started
  BY <1>1, <1>2
<1>4. ServerInv'
  BY <1>1, <1>2, <1>3 DEF CInv, ServerInv
<1>5. \/ mail' = mail
      \/ notifies /\ compactionRoute # "closed" /\ mail' = Append(mail, started)
  BY <1>1
<1>6. CallType'
  <2>1. mail \in Seq(Nat)
    BY DEF CInv, CallType
  <2>2. Append(mail, started) \in Seq(Nat)
    BY <1>2, <2>1, AppendIs
  <2>3. mail' \in Seq(Nat)
    BY <1>5, <2>1, <2>2
  <2> QED BY <1>1, <2>3 DEF CInv, CallType
<1>7. MailInv'
  <2>1. CASE mail' = mail
    BY <1>1, <2>1 DEF CInv, MailInv
  <2>2. CASE mail' = Append(mail, started) /\ notifies /\ compactionRoute # "closed"
    <3>1. mail \in Seq(Nat)
      BY DEF CInv, CallType
    <3>2. \A i \in 1 .. Len(mail') :
            (i \in 1 .. Len(mail) /\ mail'[i] = mail[i]) \/ mail'[i] = started
      BY <1>2, <2>2, <3>1
    <3>3. \A i \in 1 .. Len(mail') : mail'[i] \in completed'
      BY <1>1, <3>2 DEF CInv, MailInv
    <3> QED BY <1>1, <2>2, <3>3 DEF CInv, MailInv
  <2> QED BY <1>5, <2>1, <2>2
<1>8. ASSUME NEW k \in Calls PROVE CallInv(k)'
  <2>1. CallInv(k)
    BY DEF CInv
  <2>2. NewTo(k) \subseteq NewTo(k)' /\ (started \notin done0[k] => started \in NewTo(k)')
    BY <1>1, <1>3 DEF NewTo, Kept
  <2>3. ASSUME k = call, NEW i \in 1 .. Len(mail') PROVE mail'[i] \in NewTo(k)'
    <3>1. mail \in Seq(Nat) /\ \A n \in 1 .. Len(mail) : mail[n] \in NewTo(k)
      BY <2>1, <2>3 DEF CInv, CallType, CallInv
    <3>2. CASE mail' = mail
      BY <2>2, <2>3, <3>1, <3>2
    <3>3. CASE mail' = Append(mail, started)
      <4>1. (i \in 1 .. Len(mail) /\ mail'[i] = mail[i]) \/ mail'[i] = started
        BY <1>2, <2>3, <3>1, <3>3
      <4>2. started \notin done0[k]
        BY <1>3, <2>3 DEF CInv, DoneInv
      <4> QED BY <2>2, <3>1, <4>1, <4>2
    <3> QED BY <1>5, <3>2, <3>3
  <2>4. (k = call => heard[k] \cup seen[k] \subseteq NewTo(k)')
        /\ (confirmed[k] # NoId => confirmed[k] \in NewTo(k)')
    BY <2>1, <2>2 DEF CallInv
  <2> QED BY <1>1, <2>1, <2>3, <2>4 DEF CallInv, NoId
<1>9. DoneInv'
  BY <1>1 DEF CInv, DoneInv
<1> QED BY <1>4, <1>6, <1>7, <1>8, <1>9 DEF CInv

\* A call registers a route that is empty, but for what was kept for the first call, and
\* nothing else that was completed is new to it.
LEMMA RegisterKeeps ==
    ASSUME CInv, Register PROVE CInv'
<1> PICK c : c = call + 1
  OBVIOUS
<1>1. /\ UNCHANGED <<notifies, started, completed, mail, baseline, fallback, accepted, confirmed,
                     listener, poller, heard, seen>>
      /\ pc = "idle" /\ call < MaxCalls /\ call' = c /\ compactionRoute' = "open"
      /\ done0' = [done0 EXCEPT ![c] = completed] /\ pc' = "baseline"
  BY DEF Register, Goto, compactorVars
<1>2. /\ call \in Nat /\ c \in Calls /\ c \in 0 .. MaxCalls /\ c > call /\ c # 0
      /\ mail # <<>> => c = 1 /\ notifies
  <2>1. /\ call \in 0 .. MaxCalls /\ compactionRoute # "open"
        /\ mail # <<>> => call = 0 /\ notifies
    BY <1>1 DEF CInv, CallType, MailInv
  <2>2. MaxCalls \in Nat /\ Calls = 1 .. MaxCalls
    BY CallsAre
  <2> QED BY <1>1, <2>1, <2>2
<1>3. ServerInv' /\ completed \subseteq Nat
  BY <1>1 DEF CInv, ServerInv
<1>4. CallType'
  BY <1>1, <1>2, <1>3 DEF CInv, CallType
<1>5. MailInv'
  BY <1>1, <1>2 DEF CInv, MailInv
<1>6. ASSUME NEW k \in Calls PROVE CallInv(k)'
  <2>1. CallInv(k) /\ k \in Nat /\ CallInv(c)
    BY <1>2, CallsAre DEF CInv
  <2>2. CASE k = c
    <3>1. confirmed[k] = NoId /\ heard[k] = {} /\ seen[k] = {} /\ listener[k] = "none"
          /\ poller[k] = "none"
      BY <1>2, <2>1, <2>2 DEF CallInv
    <3>2. \A i \in 1 .. Len(mail) : mail[i] \in completed /\ c = 1 /\ notifies
      <4>1. mail \in Seq(Nat)
        BY DEF CInv, CallType
      <4>2. ASSUME NEW i \in 1 .. Len(mail) PROVE mail # <<>>
        BY <4>1
      <4> QED BY <1>2, <4>2 DEF CInv, MailInv
    <3>3. \A i \in 1 .. Len(mail') : mail'[i] \in NewTo(k)'
      BY <1>1, <2>2, <3>2 DEF NewTo, Kept
    <3> QED BY <1>1, <1>2, <2>2, <3>1, <3>3 DEF CallInv, NoId
  <2>3. CASE k # c
    <3>1. done0'[k] = done0[k] /\ NewTo(k)' = NewTo(k)
      BY <1>1, <2>3 DEF CInv, CallType, NewTo, Kept
    <3>2. k > c => k > call
      BY <1>2, <2>1
    <3> QED BY <1>1, <2>1, <2>3, <3>1, <3>2 DEF CallInv, NoId
  <2> QED BY <2>2, <2>3
<1>7. DoneInv'
  BY <1>1 DEF CInv, DoneInv, CallType
<1> QED BY <1>3, <1>4, <1>5, <1>6, <1>7 DEF CInv

\* The baseline is what has been completed by then.
LEMMA BaselineKeeps == ASSUME CInv, Baseline PROVE CInv'
<1>1. /\ UNCHANGED <<notifies, started, completed, compactionRoute, mail, call, done0, accepted,
                     confirmed, listener, poller, heard, seen>>
      /\ pc = "baseline" /\ pc' = "request" /\ fallback' \in BOOLEAN
      /\ fallback' => baseline' = completed
  BY DEF Baseline, Goto, compactorVars
<1>2. ServerInv' /\ MailInv' /\ DoneInv'
  BY <1>1 DEF CInv, ServerInv, MailInv, DoneInv
<1>3. CallType'
  BY <1>1 DEF CInv, CallType
<1>4. ASSUME NEW k \in Calls PROVE CallInv(k)'
  <2>1. CallInv(k) /\ NewTo(k)' = NewTo(k) /\ done0[k] \subseteq completed
    BY <1>1 DEF CInv, NewTo, Kept, DoneInv
  <2> QED BY <1>1, <2>1 DEF CallInv, NoId
<1> QED BY <1>2, <1>3, <1>4 DEF CInv

\* The server takes the request and the goroutines are started.
LEMMA RequestKeeps ==
    ASSUME CInv, Request PROVE CInv'
<1>1. /\ UNCHANGED <<notifies, completed, compactionRoute, mail, call, baseline, fallback, done0,
                     confirmed, heard, seen>>
      /\ pc = "request" /\ pc' = "wait" /\ started' = started + 1
      /\ started = Cardinality(completed)
      /\ accepted' = [accepted EXCEPT ![call] = TRUE]
      /\ listener' = [listener EXCEPT ![call] = "new"]
      /\ poller' = IF fallback THEN [poller EXCEPT ![call] = "read"] ELSE poller
  BY DEF Request, Goto
<1>2. completed = 1 .. started /\ started \in Nat
  BY <1>1, CompletedCount DEF CInv, ServerInv
<1>3. ServerInv' /\ DoneInv'
  BY <1>1, <1>2 DEF CInv, ServerInv, DoneInv
<1>4. compactionRoute = "open" /\ MailInv'
  BY <1>1 DEF CInv, MailInv, CallType
<1>5. call \in Calls
  BY <1>4, CallsAre DEF CInv, CallType, MailInv
<1>6. CallType'
  BY <1>1, <1>5 DEF CInv, CallType
<1>7. ASSUME NEW k \in Calls PROVE CallInv(k)'
  <2>1. CallInv(k) /\ NewTo(k)' = NewTo(k)
    BY <1>1 DEF CInv, NewTo, Kept
  <2>2. CASE k = call
    <3>1. accepted'[k] = TRUE /\ (poller'[k] # "none" => fallback \/ poller[k] # "none")
      BY <1>1, <1>5, <2>2 DEF CInv, CallType
    <3>2. ~(k > call)
      BY <1>5, <2>2, CallsAre
    <3> QED BY <1>1, <2>1, <2>2, <3>1, <3>2 DEF CallInv, NoId
  <2>3. CASE k # call
    <3>1. accepted'[k] = accepted[k] /\ listener'[k] = listener[k] /\ poller'[k] = poller[k]
      BY <1>1, <2>3 DEF CInv, CallType
    <3> QED BY <1>1, <2>1, <2>3, <3>1 DEF CallInv, NoId
  <2> QED BY <2>2, <2>3
<1> QED BY <1>3, <1>4, <1>6, <1>7 DEF CInv

LEMMA WaitKeeps ==
    ASSUME CInv, WaitEnds \/ WaitCancelled \/ RequestFails
    PROVE  CInv'
<1>1. /\ UNCHANGED <<notifies, started, completed, compactionRoute, mail, call, baseline, fallback,
                     done0, accepted, listener, poller, heard, seen>>
      /\ pc \in {"wait", "request"} /\ pc' = "unregister"
      /\ \/ confirmed' = confirmed
         \/ pc = "wait" /\ \E i \in heard[call] \cup seen[call] :
                               confirmed' = [confirmed EXCEPT ![call] = i]
  BY DEF WaitEnds, WaitCancelled, RequestFails, Goto, compactorVars
<1>2. ServerInv' /\ MailInv' /\ DoneInv'
  BY <1>1 DEF CInv, ServerInv, MailInv, DoneInv
<1>3. call \in Calls
  BY <1>1, CallsAre DEF CInv, CallType, MailInv
<1>4. CallType'
  BY <1>1, <1>3 DEF CInv, CallType
<1>5. ASSUME NEW k \in Calls PROVE CallInv(k)'
  <2>1. CallInv(k) /\ NewTo(k)' = NewTo(k)
    BY <1>1 DEF CInv, NewTo, Kept
  <2>2. CASE confirmed'[k] = confirmed[k]
    BY <1>1, <2>1, <2>2 DEF CallInv, NoId
  <2>3. CASE confirmed'[k] # confirmed[k]
    <3>1. /\ pc = "wait" /\ k = call /\ confirmed'[k] \in heard[call] \cup seen[call]
      BY <1>1, <1>3, <2>3 DEF CInv, CallType
    <3>2. accepted[k] /\ confirmed'[k] \in NewTo(k)
      BY <2>1, <3>1 DEF CallInv
    <3> QED BY <1>1, <2>1, <3>1, <3>2 DEF CallInv, NoId
  <2> QED BY <2>2, <2>3
<1> QED BY <1>2, <1>4, <1>5 DEF CInv

LEMMA UnregisterKeeps ==
    ASSUME CInv, Unregister PROVE CInv'
<1>1. /\ UNCHANGED <<notifies, started, completed, call, baseline, fallback, done0, accepted,
                     confirmed, listener, poller, heard, seen>>
      /\ pc = "unregister" /\ pc' = "idle" /\ compactionRoute' = "closed" /\ mail' = <<>>
  BY DEF Unregister, Goto, compactorVars
<1>2. ServerInv' /\ DoneInv'
  BY <1>1 DEF CInv, ServerInv, DoneInv
<1>3. MailInv'
  BY <1>1 DEF CInv, MailInv
<1>4. CallType'
  <2>1. <<>> \in Seq(Nat)
    OBVIOUS
  <2> QED BY <1>1, <2>1 DEF CInv, CallType
<1>5. ASSUME NEW k \in Calls PROVE CallInv(k)'
  <2>1. CallInv(k) /\ NewTo(k)' = NewTo(k)
    BY <1>1 DEF CInv, NewTo, Kept
  <2> QED BY <1>1, <2>1 DEF CallInv, NoId
<1> QED BY <1>2, <1>3, <1>4, <1>5 DEF CInv

\* CompactThreadAndWait confirms only a compaction that has completed since the call
\* began, whatever the goroutines of earlier calls do and whatever the server announces on
\* its own account; the first call may also take what was announced before it, which is
\* what compaction_kept.cfg shows.
THEOREM ConfirmsOnlyNew == CompactionSpec => []ConfirmsNew
<1>1. CompactionInit => CInv
  BY CInit
<1>2. CInv /\ [CompactionNext]_compactionVars => CInv'
  <2> SUFFICES ASSUME CInv, [CompactionNext]_compactionVars PROVE CInv'
    OBVIOUS
  <2>1. CASE ServerCompacts \/ ServerCompletes
    BY <2>1, StartsKeeps, CompletesKeeps
  <2>2. CASE Caller \/ RequestFails \/ WaitCancelled
    BY <2>2, RegisterKeeps, BaselineKeeps, RequestKeeps, WaitKeeps, UnregisterKeeps DEF Caller
  <2>3. ASSUME NEW k \in Calls, Listener(k) \/ Poller(k) PROVE CInv'
    BY <2>3, GoroutineKeeps, HearKeeps, SeeKeeps DEF Listener, Poller
  <2>4. CASE UNCHANGED compactionVars
    <3>1. UNCHANGED calling /\ listener' = listener /\ poller' = poller
      BY <2>4 DEF compactionVars, compactorVars, callVars, calling
    <3> QED BY <3>1, SilentKeeps DEF CInv, CallType
  <2> QED BY <2>1, <2>2, <2>3, <2>4 DEF CompactionNext
<1>3. CInv => ConfirmsNew
  BY DEF CInv, CallInv, ConfirmsNew, NewTo
<1> QED BY <1>1, <1>2, <1>3, PTL DEF CompactionSpec

-----------------------------------------------------------------------------
(* Types of a turn *)

Results == [items : Seq(Notifications), final : Texts, usage : Texts, status : Statuses]

\* A route holds no more than its limit, and what is collected of the events of a turn that
\* has ended is a result.
HeldInv == Len(box) <= RouteLimit /\ result \in Results

LEMMA ResultIs ==
    ASSUME TInv, RInv, Collect, ret' = "ok" PROVE result' \in Results
<1>1. /\ result' = [items |-> Items(got), final |-> FinalAssistantResponse(Items(got)),
                    usage |-> latestUsage, status |-> Last(got).status]
      /\ got \in Seq(Notifications) /\ latestUsage \in Texts
      /\ ends # <<>> /\ Last(ends) = "EOF"
  BY DEF Collect, TInv, TypeS
<1>2. Items(got) \in Seq(ItemNotes)
  BY <1>1, ItemsAgree
<1>3. Items(got) \in Seq(Notifications)
  BY <1>2 DEF ItemNotes
<1>4. FinalAssistantResponse(Items(got)) \in Texts
  <2>1. PICK f : Looks(f, Items(got)) /\ FinalAssistantResponse(Items(got)) = f[Len(Items(got))].text
    BY <1>2, FinalIsLoop
  <2>2. Len(Items(got)) \in 0 .. Len(Items(got))
    BY <1>2
  <2>3. f[Len(Items(got))] \in Seen
    BY <2>1, <2>2 DEF Looks
  <2> QED BY <2>1, <2>3 DEF Seen
<1>5. Last(got).status \in Statuses
  <2>1. terminalEOF
    <3>1. Len(ends) \in 1 .. Len(ends)
      BY <1>1 DEF TInv, TypeS
    <3>2. End = "EOF"
      BY <1>1, <3>1 DEF TInv, EndInv, Last
    <3> QED BY <3>2, EndIs DEF TInv, TypeS, Ends
  <2>2. got # <<>> /\ got[Len(got)].kind = "turn"
    BY <2>1 DEF TInv, EndInv, Terminal
  <2>3. got[Len(got)] \in Notifications
    BY <1>1, <2>2
  <2> QED BY <2>2, <2>3 DEF Last, Notifications
<1> QED BY <1>1, <1>3, <1>4, <1>5 DEF Results

LEMMA HeldInit == ASSUME Init PROVE HeldInv
<1>1. <<>> \in Seq(Notifications) /\ None \in Texts /\ RouteLimit \in Nat
  BY TurnAssumption DEF Texts, None
<1>2. result \in Results
  BY <1>1 DEF Init, Results, Statuses
<1> QED BY <1>1, <1>2 DEF Init, HeldInv

LEMMA HeldKeeps == ASSUME TInv, RInv, HeldInv, [Next]_vars PROVE HeldInv'
<1> USE DEF serverVars, streamVars, runVars
<1>0. box \in Seq(Notifications \cup {Failure}) /\ Len(box) \in Nat /\ RouteLimit \in Nat
  BY TurnAssumption DEF TInv, TypeS
<1>1. CASE ServerSends
  <2>1. /\ box' = box \/ \E m \in Notifications : Len(box) < RouteLimit /\ box' = Append(box, m)
        /\ result' = result
    BY <1>1 DEF ServerSends, Deliver
  <2> QED BY <1>0, <2>1 DEF HeldInv
<1>2. CASE RouteOverflows \/ TransportFails
  <2>1. /\ box' = box \/ (Len(box) < RouteLimit /\ box' = Append(box, Failure))
        /\ result' = result
    BY <1>2 DEF RouteOverflows, TransportFails, Fail
  <2> QED BY <1>0, <2>1 DEF HeldInv
<1>3. CASE NextReceives
  <2>1. box' = Tail(box) /\ box # <<>> /\ result' = result
    BY <1>3 DEF NextReceives
  <2> QED BY <1>0, <2>1 DEF HeldInv
<1>4. CASE Collect
  <2>1. box' = box /\ (result' = result \/ ret' = "ok")
    BY <1>4 DEF Collect
  <2> QED BY <1>4, <2>1, ResultIs DEF HeldInv
<1>5. CASE \/ ServerStarts \/ StartTurn \/ RegisterTurn \/ StartTurnFails
           \/ Stream("stream") \/ Stream("run") \/ CloseMarks \/ CloseUnregisters
  BY <1>5 DEF HeldInv, ServerStarts, StartTurn, RegisterTurn, StartTurnFails, Stream, CloseMarks,
              CloseUnregisters
<1>6. CASE \/ NextEnds \/ NextCalls \/ NextLooksUp \/ NextTries \/ NextCancelled
           \/ RunCancelled \/ UNCHANGED vars
  BY <1>6 DEF HeldInv, NextEnds, NextCalls, NextLooksUp, NextTries, NextCancelled, RunCancelled, vars
<1> QED BY <1>1, <1>2, <1>3, <1>4, <1>5, <1>6 DEF Next, Reader

\* A turn keeps its types for any number of notifications and any limit of the route: among
\* others, a route never holds more than its limit, the error of FailAll included, and a
\* result has a final response and the status of a turn that has ended.
THEOREM TurnTypeCorrect == Spec => []TypeOK
<1>1. Init => TInv /\ RInv /\ HeldInv
  <2>1. Init => RInv
    BY DEF Init, RInv, SentInv, UsageInv, RunInv
  <2> QED BY <2>1, InitKeeps, HeldInit
<1>2. (TInv /\ RInv /\ HeldInv) /\ [Next]_vars => (TInv /\ RInv /\ HeldInv)'
  BY TurnStepKeeps, RunStepKeeps, HeldKeeps
<1>3. TInv /\ HeldInv => TypeOK
  <2> SUFFICES ASSUME TInv, HeldInv PROVE TypeOK
    OBVIOUS
  <2>1. {terminalEOF, closed} \subseteq BOOLEAN
    BY DEF TInv, TypeS
  <2> QED BY <2>1 DEF TInv, TypeS, HeldInv, Results, TypeOK
<1> QED BY <1>1, <1>2, <1>3, PTL DEF Spec

-----------------------------------------------------------------------------
(* Types of CompactThreadAndWait *)

\* The compactions the server has started on its own account.
NoCalls(n, o) == {i \in 1 .. n : \A k \in Calls : o[k] # i}
Unasked == NoCalls(started, own)

PlacesInv ==
    /\ compactionRoute \in {"none", "open", "closed"} /\ fallback \in BOOLEAN
    /\ pc \in {"idle", "baseline", "request", "wait", "unregister"}
    /\ call \in 0 .. MaxCalls /\ (pc # "idle" => call \in Calls)
    /\ accepted \in [Calls -> BOOLEAN] /\ holds \in [Calls -> 0 .. MaxCalls]
    /\ listener \in [Calls -> {"none", "new", "try", "select", "done"}]
    /\ poller \in [Calls -> {"none", "read", "tick", "done"}]

\* Each call asks for one compaction at the most: what the server has not started on its own
\* account, no more than MaxOwn, is that of a call.
OwnInv ==
    /\ own \in [Calls -> Nat] /\ Cardinality(Unasked) <= MaxOwn
    /\ \A k \in Calls : k > call \/ (k = call /\ pc \in {"baseline", "request"}) => own[k] = NoId

KnownInv ==
    /\ mail \in Seq(Ids) /\ baseline \subseteq Ids
    /\ done0 \in [Calls -> SUBSET Ids] /\ own \in [Calls -> Ids \cup {NoId}]
    /\ confirmed \in [Calls -> Ids \cup {NoId}]
    /\ heard \in [Calls -> SUBSET Ids] /\ seen \in [Calls -> SUBSET Ids]

WaitInv == ServerInv /\ PlacesInv /\ OwnInv /\ KnownInv

LEMMA UnaskedIs ==
    ASSUME NEW n \in Nat, NEW o
    PROVE  IsFiniteSet(NoCalls(n, o)) /\ Cardinality(NoCalls(n, o)) \in Nat
<1>1. IsFiniteSet(1 .. n)
  BY FS_Interval
<1>2. NoCalls(n, o) \in SUBSET (1 .. n)
  BY DEF NoCalls
<1>3. IsFiniteSet(NoCalls(n, o))
  BY <1>1, <1>2, FS_Subset
<1> QED BY <1>3, FS_CardinalityType

\* The server starts no more than is asked for and MaxOwn.
LEMMA StartedBound ==
    ASSUME NEW n \in Nat, NEW o \in [Calls -> Nat], Cardinality(NoCalls(n, o)) <= MaxOwn
    PROVE  n <= MaxCalls + MaxOwn
<1> PICK U : U = NoCalls(n, o)
  OBVIOUS
<1> PICK A : A = {o[k] : k \in Calls}
  OBVIOUS
<1>1. MaxCalls \in Nat /\ MaxOwn \in Nat /\ Calls = 1 .. MaxCalls
  BY CompactionAssumption, CallsAre
<1>2. IsFiniteSet(Calls) /\ Cardinality(Calls) = MaxCalls
  BY <1>1, FS_Interval
<1>3. o \in Surjection(Calls, A)
  BY DEF Surjection
<1>4. IsFiniteSet(A) /\ Cardinality(A) <= MaxCalls
  BY <1>2, <1>3, FS_Surjection
<1>5. Cardinality(A) \in Nat
  BY <1>4, FS_CardinalityType
<1>6. IsFiniteSet(U) /\ Cardinality(U) \in Nat
  BY UnaskedIs
<1>7. /\ IsFiniteSet(U \cup A)
      /\ Cardinality(U \cup A) <= Cardinality(U) + Cardinality(A)
  <2>1. /\ IsFiniteSet(U \cup A)
        /\ Cardinality(U \cup A)
             = Cardinality(U) + Cardinality(A) - Cardinality(U \cap A)
    BY <1>4, <1>6, FS_Union
  <2>2. U \cap A \in SUBSET A
    OBVIOUS
  <2>3. Cardinality(U \cap A) \in Nat
    BY <1>4, <2>2, FS_Subset, FS_CardinalityType
  <2> QED BY <1>5, <1>6, <2>1, <2>3
<1>8. 1 .. n \in SUBSET (U \cup A)
  BY DEF NoCalls
<1>9. Cardinality(1 .. n) <= Cardinality(U \cup A)
  BY <1>7, <1>8, FS_Subset
<1>10. Cardinality(1 .. n) = n
  BY FS_Interval
<1>11. Cardinality(U \cup A) \in Nat
  BY <1>7, FS_CardinalityType
<1> QED BY <1>1, <1>4, <1>5, <1>6, <1>7, <1>9, <1>10, <1>11

LEMMA WaitInit == ASSUME CompactionInit PROVE WaitInv
<1>1. started = 0 /\ ServerInv
  BY DEF CompactionInit, ServerInv
<1>2. PlacesInv
  <2>1. 0 \in 0 .. MaxCalls
    BY CallsAre
  <2> QED BY <2>1 DEF CompactionInit, PlacesInv
<1>3. OwnInv
  <2>1. Unasked = {}
    BY <1>1 DEF Unasked, NoCalls
  <2>2. Cardinality(Unasked) = 0
    BY <2>1, FS_EmptySet
  <2> QED BY <2>2, CompactionAssumption DEF CompactionInit, OwnInv, NoId
<1>4. KnownInv
  <2>1. <<>> \in Seq(Ids)
    OBVIOUS
  <2> QED BY <2>1 DEF CompactionInit, KnownInv, NoId
<1> QED BY <1>1, <1>2, <1>3, <1>4 DEF WaitInv

\* A step that starts nothing: a call may end or begin.
LEMMA SameOwn ==
    ASSUME WaitInv, UNCHANGED <<notifies, started, completed, own>>,
           call' = call \/ call' = call + 1,
           call' = call => pc' = pc \/ pc \in {"baseline", "wait", "unregister"} \/ pc' = "unregister",
           (call' = call /\ pc' = "baseline") => pc = "baseline",
           (call' = call /\ pc' = "request") => pc \in {"baseline", "request"}
    PROVE  ServerInv' /\ OwnInv'
<1>1. ServerInv'
  BY DEF WaitInv, ServerInv
<1>2. Unasked' = Unasked
  BY DEF Unasked, NoCalls
<1>3. call \in Nat /\ Calls \subseteq Nat
  BY CallsAre DEF WaitInv, PlacesInv
<1>4. ASSUME NEW k \in Calls, k > call' \/ (k = call' /\ pc' \in {"baseline", "request"})
      PROVE  own'[k] = NoId
  BY <1>3, <1>4 DEF WaitInv, OwnInv, NoId
<1> QED BY <1>1, <1>2, <1>4 DEF WaitInv, OwnInv, NoId

LEMMA OwnKept ==
    ASSUME WaitInv, [CompactionNext]_compactionVars
    PROVE  ServerInv' /\ OwnInv'
<1> USE DEF compactorVars, callVars, compactionVars
<1>0. started \in Nat /\ own \in [Calls -> Nat] /\ MaxOwn \in Nat
  BY CompactionAssumption DEF WaitInv, ServerInv, OwnInv
<1>1. CASE ServerCompacts
  <2>1. /\ UNCHANGED <<notifies, completed, own, call, pc>> /\ started' = started + 1
        /\ started = Cardinality(completed) /\ Cardinality(Unasked) < MaxOwn
    BY <1>1 DEF ServerCompacts, Unasked, NoCalls
  <2>2. ServerInv'
    BY <2>1, CompletedCount DEF WaitInv, ServerInv
  <2>3. Cardinality(Unasked') <= MaxOwn
    <3>1. IsFiniteSet(Unasked) /\ Cardinality(Unasked) \in Nat
      BY <1>0, UnaskedIs DEF Unasked
    <3>2. Unasked' \in SUBSET (Unasked \cup {started + 1})
      BY <1>0, <2>1 DEF Unasked, NoCalls
    <3>3. /\ IsFiniteSet(Unasked \cup {started + 1})
          /\ Cardinality(Unasked \cup {started + 1}) <= Cardinality(Unasked) + 1
          /\ Cardinality(Unasked \cup {started + 1}) \in Nat
      BY <3>1, FS_AddElement
    <3>4. Cardinality(Unasked') <= Cardinality(Unasked \cup {started + 1})
          /\ Cardinality(Unasked') \in Nat
      BY <3>2, <3>3, FS_Subset, FS_CardinalityType
    <3> QED BY <1>0, <2>1, <3>1, <3>3, <3>4
  <2> QED BY <2>1, <2>2, <2>3 DEF WaitInv, OwnInv, NoId
<1>2. CASE ServerCompletes
  <2>1. /\ UNCHANGED <<notifies, started, own, call, pc>>
        /\ completed' = completed \cup {started} /\ started > Cardinality(completed)
    BY <1>2 DEF ServerCompletes
  <2>2. ServerInv'
    BY <1>0, <2>1, CompletedCount DEF WaitInv, ServerInv
  <2>3. Unasked' = Unasked
    BY <2>1 DEF Unasked, NoCalls
  <2> QED BY <2>1, <2>2, <2>3 DEF WaitInv, OwnInv, NoId
<1>3. CASE Request
  <2>1. /\ UNCHANGED <<notifies, completed, call>> /\ started' = started + 1
        /\ own' = [own EXCEPT ![call] = started + 1]
        /\ started = Cardinality(completed) /\ pc = "request" /\ pc' = "wait"
    BY <1>3 DEF Request, Goto
  <2>2. ServerInv'
    BY <2>1, CompletedCount DEF WaitInv, ServerInv
  <2>3. call \in Calls /\ own[call] = 0 /\ own' \in [Calls -> Nat]
    BY <1>0, <2>1 DEF WaitInv, PlacesInv, OwnInv, NoId
  <2>4. own'[call] = started + 1 /\ \A k \in Calls : k # call => own'[k] = own[k]
    BY <1>0, <2>1, <2>3
  <2>5. Unasked' = Unasked
    <3>1. ASSUME NEW i \in Unasked' PROVE i \in Unasked
      <4>1. i \in 1 .. started + 1 /\ i # started + 1 /\ \A k \in Calls : own'[k] # i
        BY <2>1, <2>3, <2>4, <3>1 DEF Unasked, NoCalls
      <4>2. i \in 1 .. started /\ i # 0
        BY <1>0, <4>1
      <4> QED BY <2>3, <2>4, <4>1, <4>2 DEF Unasked, NoCalls
    <3>2. ASSUME NEW i \in Unasked PROVE i \in Unasked'
      <4>1. i \in 1 .. started /\ i \in 1 .. started + 1 /\ i # started + 1
            /\ \A k \in Calls : own[k] # i
        BY <1>0, <3>2 DEF Unasked, NoCalls
      <4> QED BY <2>1, <2>4, <4>1 DEF Unasked, NoCalls
    <3> QED BY <3>1, <3>2
  <2>6. ASSUME NEW k \in Calls, k > call' \/ (k = call' /\ pc' \in {"baseline", "request"})
        PROVE  own'[k] = NoId
    <3>1. k > call /\ k # call
      BY <2>1, <2>3, <2>6, CallsAre
    <3> QED BY <2>4, <3>1 DEF WaitInv, OwnInv
  <2>7. Cardinality(Unasked') <= MaxOwn
    BY <2>5 DEF WaitInv, OwnInv
  <2> QED BY <2>2, <2>3, <2>6, <2>7 DEF OwnInv
<1>4. CASE Register
  BY <1>4, SameOwn DEF Register, Goto
<1>5. CASE Baseline \/ WaitEnds \/ WaitCancelled \/ RequestFails \/ Unregister
  BY <1>5, SameOwn DEF Baseline, WaitEnds, WaitCancelled, RequestFails, Unregister, Goto
<1>6. ASSUME NEW k \in Calls, Listener(k) \/ Poller(k) PROVE ServerInv' /\ OwnInv'
  <2>1. UNCHANGED <<notifies, started, completed, own, call, pc>>
    BY <1>6 DEF Listener, ListenerCalls, ListenerReceives, ListenerWaits, ListenerEnds,
                Poller, PollerReads, PollerFails, PollerTicks, PollerEnds
  <2> QED BY <2>1, SameOwn
<1>7. CASE UNCHANGED compactionVars
  BY <1>7, SameOwn
<1> QED BY <1>1, <1>2, <1>3, <1>4, <1>5, <1>6, <1>7 DEF CompactionNext, Caller

LEMMA PlacesKept ==
    ASSUME WaitInv, [CompactionNext]_compactionVars
    PROVE  PlacesInv'
<1> USE DEF compactorVars, callVars, compactionVars, WaitInv
<1>0. MaxCalls \in Nat /\ Calls = 1 .. MaxCalls
  BY CallsAre
<1>1. CASE ServerCompacts \/ ServerCompletes \/ UNCHANGED compactionVars
  BY <1>1 DEF ServerCompacts, ServerCompletes, PlacesInv
<1>2. CASE Register
  BY <1>0, <1>2 DEF Register, Goto, PlacesInv
<1>3. CASE Baseline \/ WaitEnds \/ WaitCancelled \/ RequestFails \/ Unregister
  BY <1>3 DEF Baseline, WaitEnds, WaitCancelled, RequestFails, Unregister, Goto, PlacesInv
<1>4. CASE Request
  BY <1>4 DEF Request, Goto, PlacesInv
<1>5. ASSUME NEW k \in Calls, Listener(k) PROVE PlacesInv'
  <2>1. UNCHANGED <<compactionRoute, callVars, poller>>
    BY <1>5 DEF Listener, ListenerCalls, ListenerReceives, ListenerWaits, ListenerEnds
  <2>2. PICK l \in {"try", "select", "done"} : listener' = [listener EXCEPT ![k] = l]
    BY <1>5 DEF Listener, ListenerCalls, ListenerReceives, ListenerWaits, ListenerEnds
  <2>3. holds' = holds \/ holds' = [holds EXCEPT ![k] = call]
    BY <1>5 DEF Listener, ListenerCalls, ListenerReceives, ListenerWaits, ListenerEnds
  <2> QED BY <2>1, <2>2, <2>3 DEF PlacesInv
<1>6. ASSUME NEW k \in Calls, Poller(k) PROVE PlacesInv'
  <2>1. UNCHANGED <<compactionRoute, callVars, listener, holds>>
    BY <1>6 DEF Poller, PollerReads, PollerFails, PollerTicks, PollerEnds
  <2>2. PICK l \in {"read", "tick", "done"} : poller' = [poller EXCEPT ![k] = l]
    BY <1>6 DEF Poller, PollerReads, PollerFails, PollerTicks, PollerEnds
  <2> QED BY <2>1, <2>2 DEF PlacesInv
<1> QED BY <1>1, <1>2, <1>3, <1>4, <1>5, <1>6 DEF CompactionNext, Caller

LEMMA KnownKept ==
    ASSUME WaitInv, [CompactionNext]_compactionVars, ServerInv', OwnInv'
    PROVE  KnownInv'
<1> USE DEF compactorVars, callVars, compactionVars, WaitInv
<1>0. completed \subseteq Ids /\ started \in 0 .. MaxCalls + MaxOwn
  <2>1. started <= MaxCalls + MaxOwn
    BY StartedBound DEF ServerInv, OwnInv, Unasked
  <2> QED BY <2>1, CompactionAssumption DEF ServerInv, Ids
<1>1. CASE ServerCompletes
  <2>1. UNCHANGED <<baseline, done0, own, confirmed, heard, seen>> /\ started \in Ids
    BY <1>0, <1>1, CompletedCount DEF ServerCompletes, Ids
  <2>2. mail' = mail \/ mail' = Append(mail, started)
    BY <1>1 DEF ServerCompletes, Routed
  <2>3. mail' \in Seq(Ids)
    <3>1. mail \in Seq(Ids)
      BY DEF KnownInv
    <3> QED BY <2>1, <2>2, <3>1, AppendIs
  <2> QED BY <2>1, <2>3 DEF KnownInv
<1>2. CASE \/ ServerCompacts \/ RequestFails \/ WaitCancelled
           \/ UNCHANGED compactionVars
  <2>1. UNCHANGED <<mail, baseline, done0, own, confirmed, heard, seen>>
    BY <1>2 DEF ServerCompacts, RequestFails, WaitCancelled
  <2> QED BY <2>1 DEF KnownInv
<1>3. CASE Request
  <2>1. /\ UNCHANGED <<mail, baseline, done0, confirmed, heard, seen>>
        /\ started' = started + 1 /\ own' = [own EXCEPT ![call] = started + 1]
    BY <1>3 DEF Request
  <2>2. started' <= MaxCalls + MaxOwn
    BY StartedBound DEF ServerInv, OwnInv, Unasked
  <2>3. started + 1 \in Ids
    BY <1>0, <2>1, <2>2, CompactionAssumption DEF Ids
  <2> QED BY <2>1, <2>3 DEF KnownInv
<1>4. CASE Register \/ Baseline
  BY <1>0, <1>4 DEF Register, Baseline, KnownInv
<1>5. CASE WaitEnds
  <2>1. call \in Calls
    BY <1>5 DEF WaitEnds, PlacesInv
  <2> QED BY <1>5, <2>1 DEF WaitEnds, KnownInv
<1>6. CASE Unregister
  <2>1. <<>> \in Seq(Ids)
    OBVIOUS
  <2> QED BY <1>6, <2>1 DEF Unregister, KnownInv
<1>7. ASSUME NEW k \in Calls, Listener(k) PROVE KnownInv'
  <2>1. CASE ListenerReceives(k)
    <3>1. /\ UNCHANGED <<baseline, done0, own, confirmed, seen>> /\ mail # <<>>
          /\ mail' = Tail(mail) /\ heard' = [heard EXCEPT ![k] = {Head(mail)}]
      BY <2>1 DEF ListenerReceives, HasMail
    <3>2. Tail(mail) \in Seq(Ids) /\ Head(mail) \in Ids
      <4>1. mail \in Seq(Ids)
        BY DEF KnownInv
      <4> QED BY <3>1, <4>1
    <3> QED BY <3>1, <3>2 DEF KnownInv
  <2>2. CASE ListenerCalls(k) \/ ListenerWaits(k) \/ ListenerEnds(k)
    <3>1. UNCHANGED <<mail, baseline, done0, own, confirmed, heard, seen>>
      BY <2>2 DEF ListenerCalls, ListenerWaits, ListenerEnds
    <3> QED BY <3>1 DEF KnownInv
  <2> QED BY <1>7, <2>1, <2>2 DEF Listener
<1>8. ASSUME NEW k \in Calls, Poller(k) PROVE KnownInv'
  <2>1. UNCHANGED <<mail, baseline, done0, own, confirmed, heard>>
    BY <1>8 DEF Poller, PollerReads, PollerFails, PollerTicks, PollerEnds
  <2>2. seen' = seen \/ (NewTurns # {} /\ seen' = [seen EXCEPT ![k] = {Min(NewTurns)}])
    BY <1>8 DEF Poller, PollerReads, PollerFails, PollerTicks, PollerEnds
  <2>3. ASSUME NewTurns # {} PROVE Min(NewTurns) \in Ids
    <3>1. NewTurns \in SUBSET Nat /\ NewTurns \in SUBSET Ids
      <4>1. completed \subseteq Nat
        BY DEF ServerInv
      <4> QED BY <1>0, <4>1 DEF NewTurns
    <3> QED BY <2>3, <3>1, MinIs DEF Min
  <2> QED BY <2>1, <2>2, <2>3 DEF KnownInv
<1> QED BY <1>1, <1>2, <1>3, <1>4, <1>5, <1>6, <1>7, <1>8 DEF CompactionNext, Caller

\* CompactThreadAndWait keeps its types for any number of calls, whether or not the server
\* compacts on its own account and announces it: a result names a compaction that the server
\* has started, and there are no more of those than were asked for and MaxOwn.
THEOREM CompactionTypeCorrect == CompactionSpec => []CompactionTypeOK
<1>1. CompactionInit => WaitInv
  BY WaitInit
<1>2. WaitInv /\ [CompactionNext]_compactionVars => WaitInv'
  <2> SUFFICES ASSUME WaitInv, [CompactionNext]_compactionVars PROVE WaitInv'
    OBVIOUS
  <2>1. ServerInv' /\ OwnInv'
    BY OwnKept
  <2> QED BY <2>1, PlacesKept, KnownKept DEF WaitInv
<1>3. WaitInv => CompactionTypeOK
  <2> SUFFICES ASSUME WaitInv PROVE CompactionTypeOK
    OBVIOUS
  <2>1. started <= MaxCalls + MaxOwn
    BY StartedBound DEF WaitInv, ServerInv, OwnInv, Unasked
  <2>2. completed \subseteq Ids /\ started \in 0 .. MaxCalls + MaxOwn
    BY <2>1, CompactionAssumption DEF WaitInv, ServerInv, Ids
  <2> QED BY <2>2 DEF WaitInv, ServerInv, PlacesInv, KnownInv, CompactionTypeOK
<1> QED BY <1>1, <1>2, <1>3, PTL DEF CompactionSpec
=============================================================================
