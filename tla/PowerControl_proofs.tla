-------------------------- MODULE PowerControl_proofs --------------------------
(***************************************************************************)
(* Proofs about PowerControl, for any pool size, any set of power actions  *)
(* and any bounds.                                                         *)
(***************************************************************************)
EXTENDS PowerControl, FiniteSets, FiniteSetTheorems, SequenceTheorems, TLAPS

\* A worker holding _busy is alone and finds it set; a halt that was issued
\* keeps _busy set with no worker holding it.
LatchInv ==
  /\ \A v, w \in Workers : pc[v] \in Holding /\ pc[w] \in Holding => v = w
  /\ \A w \in Workers : pc[w] \in Holding => busy
  /\ issued => busy /\ \A w \in Workers : pc[w] \notin Holding

\* After the announcement a state topic that is not idle is owed an idle, by
\* the worker holding _busy or by one that has cleared it, unless it was lost.
ShowInv ==
  main \notin {"down", "connecting"} /\ ~idleLost =>
    \/ power = "idle"
    \/ busy
    \/ \E w \in Workers : pc[w] \in {"notify", "notifying"}

\* Without a session, or past its final offline, the daemon shows offline.
GoneInv ==
  /\ link => NetworkUp
  /\ ~link /\ ~late => status = "offline"
  /\ main = "leaving" /\ ~late => status = "offline"

\* The workers with a command in hand that has not run; with those still queued and
\* those that have, there are no more commands than live presses.
Unrun == {w \in Workers : pc[w] \in {"claim", "ack", "acking", "run"}}
CountInv ==
  /\ IsFiniteSet(Unrun)
  /\ ran + Len(queue) + Cardinality(Unrun) <= pressed

USE PowerAssumption DEF PowerAssumption

-------------------------------------------------------------------------------

\* The type invariant holds in every reachable state (all of local_control.py).
THEOREM TypeCorrect == Spec => []TypeOK
<1>1. Init => TypeOK
  <2> SUFFICES ASSUME Init PROVE TypeOK
    OBVIOUS
  <2>1. queue \in Seq(Actions)
    BY EmptySeq DEF Init
  <2>2. job \in [Workers -> Actions]
    <3>1. (CHOOSE a \in Actions : TRUE) \in Actions
      OBVIOUS
    <3> QED
      BY <3>1 DEF Init
  <2> QED
    BY <2>1, <2>2 DEF Init, TypeOK, MainPc, WorkerPc
<1>2. TypeOK /\ [Next]_vars => TypeOK'
  <2> SUFFICES ASSUME TypeOK, [Next]_vars PROVE TypeOK'
    OBVIOUS
  <2> USE DEF TypeOK, MainPc, WorkerPc, mainVars, poolVars, topicVars, histVars, bounds
  <2>1. CASE Announce
    BY <2>1 DEF Announce
  <2>2. CASE Heartbeat
    BY <2>2 DEF Heartbeat
  <2>3. CASE LeaveLoop
    BY <2>3 DEF LeaveLoop
  <2>4. CASE CloseOffline
    BY <2>4 DEF CloseOffline
  <2>5. CASE Disconnect
    BY <2>5 DEF Disconnect
  <2>6. CASE Exit
    BY <2>6, EmptySeq DEF Exit, Forget
  <2>7. CASE Start
    BY <2>7 DEF Start
  <2>8. CASE Signal
    BY <2>8 DEF Signal
  <2>9. CASE Crash
    BY <2>9, EmptySeq DEF Crash, Forget
  <2>10. CASE Connect
    BY <2>10 DEF Connect
  <2>11. CASE LinkDown
    <3>1. drops' \in Nat /\ starts' \in Nat /\ pressed' \in Nat /\ ran' \in Nat
      BY <2>11 DEF LinkDown
    <3>2. link' \in BOOLEAN /\ status' \in {"online", "offline"}
      BY <2>11 DEF LinkDown
    <3> QED
      BY <2>11, <3>1, <3>2, Zenon DEF LinkDown
  <2>12. ASSUME NEW m \in Messages, Deliver(m) PROVE TypeOK'
    BY <2>12 DEF Deliver, Accepted, Messages
  <2>13. ASSUME NEW w \in Workers, Worker(w) PROVE TypeOK'
    <3>1. CASE Take(w)
      BY <3>1 DEF Take, Goto
    <3>2. CASE Claim(w)
      BY <3>2 DEF Claim, Goto
    <3>3. CASE Ack(w)
      BY <3>3 DEF Ack, Goto
    <3>4. CASE PublishAck(w)
      BY <3>4 DEF PublishAck, Goto
    <3>5. CASE RunOk(w)
      BY <3>5 DEF RunOk, Goto
    <3>6. CASE RunFails(w)
      BY <3>6 DEF RunFails, Goto
    <3>7. CASE ClearBusy(w)
      BY <3>7 DEF ClearBusy, Goto
    <3>8. CASE Notify(w)
      BY <3>8 DEF Notify, Goto
    <3>9. CASE PublishIdle(w)
      BY <3>9 DEF PublishIdle, Goto
    <3> QED
      BY <2>13, <3>1, <3>2, <3>3, <3>4, <3>5, <3>6, <3>7, <3>8, <3>9 DEF Worker
  <2>14. CASE UNCHANGED vars
    BY <2>14 DEF vars
  <2> QED
    BY <2>1, <2>2, <2>3, <2>4, <2>5, <2>6, <2>7, <2>8, <2>9, <2>10, <2>11, <2>12,
       <2>13, <2>14 DEF Next, MainThread, Environment
<1> QED
  BY <1>1, <1>2, PTL DEF Spec

-------------------------------------------------------------------------------

\* The steps that leave the latch and every worker's place alone.
LEMMA LatchUntouched ==
  ASSUME LatchInv, UNCHANGED << busy, pc, issued >>
  PROVE  LatchInv'
BY DEF LatchInv

\* The death of the process opens the latch and leaves no worker.
LEMMA LatchForgotten ==
  ASSUME Forget PROVE LatchInv'
BY DEF Forget, LatchInv, Holding

\* LatchInv is inductive on top of the types.
LEMMA LatchStep ==
  ASSUME TypeOK, LatchInv, [Next]_vars PROVE LatchInv'
<1> USE DEF mainVars, poolVars, topicVars, histVars, bounds
<1>1. CASE MainThread
  <2>1. CASE Exit
    BY <2>1, LatchForgotten DEF Exit
  <2>2. CASE ~Exit
    BY <1>1, <2>2, LatchUntouched
       DEF MainThread, Announce, Heartbeat, LeaveLoop, CloseOffline, Disconnect
  <2> QED
    BY <2>1, <2>2
<1>2. CASE Environment
  <2>1. CASE Crash
    BY <2>1, LatchForgotten DEF Crash
  <2>2. CASE ~Crash
    BY <1>2, <2>2, LatchUntouched
       DEF Environment, Start, Signal, Connect, LinkDown, Deliver
  <2> QED
    BY <2>1, <2>2
<1>3. ASSUME NEW w \in Workers, Worker(w) PROVE LatchInv'
  <2> USE DEF TypeOK, LatchInv, Holding, Goto
  <2>1. CASE Take(w)
    BY <2>1 DEF Take
  <2>2. CASE Claim(w)
    BY <2>2 DEF Claim
  <2>3. CASE Ack(w)
    BY <2>3 DEF Ack
  <2>4. CASE PublishAck(w)
    BY <2>4 DEF PublishAck
  <2>5. CASE RunOk(w)
    BY <2>5 DEF RunOk
  <2>6. CASE RunFails(w)
    BY <2>6 DEF RunFails
  <2>7. CASE ClearBusy(w)
    BY <2>7 DEF ClearBusy
  <2>8. CASE Notify(w)
    BY <2>8 DEF Notify
  <2>9. CASE PublishIdle(w)
    BY <2>9 DEF PublishIdle
  <2> QED
    BY <1>3, <2>1, <2>2, <2>3, <2>4, <2>5, <2>6, <2>7, <2>8, <2>9 DEF Worker
<1>4. CASE UNCHANGED vars
  BY <1>4, LatchUntouched DEF vars
<1> QED
  BY <1>1, <1>2, <1>3, <1>4 DEF Next

LEMMA LatchCorrect == Spec => []LatchInv
<1>1. Init => LatchInv
  BY DEF Init, LatchInv, Holding
<1> QED
  BY <1>1, LatchStep, TypeCorrect, PTL DEF Spec

\* Once a command has returned 0 no other is acknowledged or run by the same
\* process (L149-L184).
THEOREM HaltIsLastHolds == Spec => []HaltIsLast
<1>1. LatchInv => HaltIsLast
  BY DEF LatchInv, HaltIsLast, Holders
<1> QED
  BY <1>1, LatchCorrect, PTL

-------------------------------------------------------------------------------

\* ShowInv is inductive on top of the types and the latch: an acknowledgement is
\* published by the holder of _busy, and whoever clears _busy publishes idle.
LEMMA ShowStep ==
  ASSUME TypeOK, LatchInv, ShowInv, [Next]_vars PROVE ShowInv'
<1> USE DEF TypeOK, LatchInv, ShowInv, Holding, mainVars, poolVars, topicVars,
            histVars, bounds
<1>1. CASE MainThread
  <2>1. CASE Announce
    BY <2>1 DEF Announce
  <2>2. CASE Heartbeat
    BY <2>2 DEF Heartbeat
  <2>3. CASE LeaveLoop
    BY <2>3 DEF LeaveLoop
  <2>4. CASE CloseOffline
    BY <2>4 DEF CloseOffline
  <2>5. CASE Disconnect
    BY <2>5 DEF Disconnect
  <2>6. CASE Exit
    BY <2>6 DEF Exit, Forget
  <2> QED
    BY <1>1, <2>1, <2>2, <2>3, <2>4, <2>5, <2>6 DEF MainThread
<1>2. CASE Environment
  <2>1. CASE Start
    BY <2>1 DEF Start
  <2>2. CASE Signal
    BY <2>2 DEF Signal
  <2>3. CASE Crash
    BY <2>3 DEF Crash, Forget
  <2>4. CASE Connect
    BY <2>4 DEF Connect
  <2>5. CASE LinkDown
    BY <2>5 DEF LinkDown
  <2>6. ASSUME NEW m \in Messages, Deliver(m) PROVE ShowInv'
    BY <2>6 DEF Deliver
  <2> QED
    BY <1>2, <2>1, <2>2, <2>3, <2>4, <2>5, <2>6 DEF Environment
<1>3. ASSUME NEW w \in Workers, Worker(w) PROVE ShowInv'
  <2>1. CASE Take(w)
    BY <2>1 DEF Take, Goto
  <2>2. CASE Claim(w)
    BY <2>2 DEF Claim, Goto
  <2>3. CASE Ack(w)
    BY <2>3 DEF Ack, Goto
  <2>4. CASE PublishAck(w)
    BY <2>4 DEF PublishAck, Goto
  <2>5. CASE RunOk(w)
    BY <2>5 DEF RunOk, Goto
  <2>6. CASE RunFails(w)
    BY <2>6 DEF RunFails, Goto
  <2>7. CASE ClearBusy(w)
    BY <2>7 DEF ClearBusy, Goto
  <2>8. CASE Notify(w)
    BY <2>8 DEF Notify, Goto
  <2>9. CASE PublishIdle(w)
    BY <2>9 DEF PublishIdle, Goto
  <2> QED
    BY <1>3, <2>1, <2>2, <2>3, <2>4, <2>5, <2>6, <2>7, <2>8, <2>9 DEF Worker
<1>4. CASE UNCHANGED vars
  BY <1>4 DEF vars
<1> QED
  BY <1>1, <1>2, <1>3, <1>4 DEF Next

\* In a quiet daemon that accepts commands the state topic says idle, unless
\* the last idle was lost on the way (L161-L195, L271-L275).
THEOREM QuietShowsIdleHolds == Spec => []QuietShowsIdle
<1>1. Init => ShowInv
  BY DEF Init, ShowInv
<1>2. ShowInv => QuietShowsIdle
  BY DEF ShowInv, QuietShowsIdle, AllIdle
<1> QED
  BY <1>1, <1>2, ShowStep, LatchCorrect, TypeCorrect, PTL DEF Spec

-------------------------------------------------------------------------------

\* GoneInv is inductive on top of the types.
LEMMA GoneStep ==
  ASSUME TypeOK, GoneInv, [Next]_vars PROVE GoneInv'
<1> USE DEF TypeOK, GoneInv, NetworkUp, mainVars, poolVars, topicVars, histVars, bounds
<1>1. CASE MainThread
  <2>1. CASE Announce
    BY <2>1 DEF Announce
  <2>2. CASE Heartbeat
    BY <2>2 DEF Heartbeat
  <2>3. CASE LeaveLoop
    BY <2>3 DEF LeaveLoop
  <2>4. CASE CloseOffline
    BY <2>4 DEF CloseOffline
  <2>5. CASE Disconnect
    BY <2>5 DEF Disconnect
  <2>6. CASE Exit
    BY <2>6 DEF Exit, Forget
  <2> QED
    BY <1>1, <2>1, <2>2, <2>3, <2>4, <2>5, <2>6 DEF MainThread
<1>2. CASE Environment
  <2>1. CASE Start
    BY <2>1 DEF Start
  <2>2. CASE Signal
    BY <2>2 DEF Signal
  <2>3. CASE Crash
    BY <2>3 DEF Crash, Forget
  <2>4. CASE Connect
    BY <2>4 DEF Connect
  <2>5. CASE LinkDown
    BY <2>5 DEF LinkDown
  <2>6. ASSUME NEW m \in Messages, Deliver(m) PROVE GoneInv'
    BY <2>6 DEF Deliver
  <2> QED
    BY <1>2, <2>1, <2>2, <2>3, <2>4, <2>5, <2>6 DEF Environment
<1>3. ASSUME NEW w \in Workers, Worker(w) PROVE GoneInv'
  <2>1. CASE Take(w)
    BY <2>1 DEF Take, Goto
  <2>2. CASE Claim(w)
    BY <2>2 DEF Claim, Goto
  <2>3. CASE Ack(w)
    BY <2>3 DEF Ack, Goto
  <2>4. CASE PublishAck(w)
    BY <2>4 DEF PublishAck, Goto
  <2>5. CASE RunOk(w)
    BY <2>5 DEF RunOk, Goto
  <2>6. CASE RunFails(w)
    BY <2>6 DEF RunFails, Goto
  <2>7. CASE ClearBusy(w)
    BY <2>7 DEF ClearBusy, Goto
  <2>8. CASE Notify(w)
    BY <2>8 DEF Notify, Goto
  <2>9. CASE PublishIdle(w)
    BY <2>9 DEF PublishIdle, Goto
  <2> QED
    BY <1>3, <2>1, <2>2, <2>3, <2>4, <2>5, <2>6, <2>7, <2>8, <2>9 DEF Worker
<1>4. CASE UNCHANGED vars
  BY <1>4 DEF vars
<1> QED
  BY <1>1, <1>2, <1>3, <1>4 DEF Next

\* A daemon that is gone shows offline, however it went (L316-L323).
THEOREM GoneShowsOfflineHolds == Spec => []GoneShowsOffline
<1>1. Init => GoneInv
  BY DEF Init, GoneInv
<1>2. GoneInv => GoneShowsOffline
  BY DEF GoneInv, GoneShowsOffline, NetworkUp
<1> QED
  BY <1>1, <1>2, GoneStep, TypeCorrect, PTL DEF Spec

-------------------------------------------------------------------------------

\* Where a command leaves a worker's hands unrun, or none does, no more are owed.
LEMMA CountShrinks ==
  ASSUME TypeOK, CountInv, Unrun' \subseteq Unrun, ran' = ran, pressed' = pressed,
         Len(queue') = Len(queue)
  PROVE  CountInv'
<1>1. IsFiniteSet(Unrun') /\ Cardinality(Unrun') <= Cardinality(Unrun)
  BY FS_Subset DEF CountInv
<1>2. Cardinality(Unrun) \in Nat /\ Cardinality(Unrun') \in Nat /\ Len(queue) \in Nat
  BY <1>1, FS_CardinalityType, LenProperties DEF CountInv, TypeOK
<1> QED
  BY <1>1, <1>2 DEF CountInv, TypeOK

\* The death of the process forgets the commands that have not run.
LEMMA CountForgotten ==
  ASSUME TypeOK, CountInv, Forget, ran' = ran, pressed' = pressed PROVE CountInv'
<1>1. Unrun' = {} /\ Len(queue') = 0
  BY DEF Forget, Unrun
<1>2. Cardinality(Unrun) \in Nat /\ Len(queue) \in Nat
  BY FS_CardinalityType, LenProperties DEF CountInv, TypeOK
<1>3. ran <= pressed
  BY <1>2 DEF CountInv, TypeOK
<1> QED
  BY <1>1, <1>3, FS_EmptySet DEF CountInv, TypeOK

\* A worker that runs its command has no more in hand.
LEMMA CountRuns ==
  ASSUME TypeOK, CountInv, NEW w \in Workers, pc[w] = "run", NEW to,
         to \in {"idle", "reset"}, pc' = [pc EXCEPT ![w] = to],
         ran' = ran + 1, UNCHANGED << queue, pressed >>
  PROVE  CountInv'
<1>1. w \in Unrun /\ Unrun' = Unrun \ {w}
  BY DEF Unrun, TypeOK
<1>2. IsFiniteSet(Unrun') /\ Cardinality(Unrun') = Cardinality(Unrun) - 1
  BY <1>1, FS_RemoveElement DEF CountInv
<1>3. Cardinality(Unrun) \in Nat /\ Len(queue) \in Nat
  BY FS_CardinalityType, LenProperties DEF CountInv, TypeOK
<1> QED
  BY <1>2, <1>3 DEF CountInv, TypeOK

\* CountInv is inductive on top of the types: a press adds one command to the queue,
\* which passes to one worker, which runs it at most once.
LEMMA CountStep ==
  ASSUME TypeOK, CountInv, [Next]_vars PROVE CountInv'
<1> USE DEF mainVars, poolVars, topicVars, histVars, bounds
<1>1. CASE MainThread
  <2>1. CASE Exit
    BY <2>1, CountForgotten DEF Exit
  <2>2. CASE ~Exit
    BY <1>1, <2>2, CountShrinks
       DEF MainThread, Announce, Heartbeat, LeaveLoop, CloseOffline, Disconnect, Unrun
  <2> QED
    BY <2>1, <2>2
<1>2. CASE Start \/ Signal \/ Connect \/ LinkDown \/ UNCHANGED vars
  BY <1>2, CountShrinks DEF Start, Signal, Connect, LinkDown, vars, Unrun
<1>3. CASE Crash
  BY <1>3, CountForgotten DEF Crash
<1>4. ASSUME NEW m \in Messages, Deliver(m) PROVE CountInv'
  <2>1. Unrun' = Unrun /\ ran' = ran
    BY <1>4 DEF Deliver, Unrun
  <2>2. Cardinality(Unrun) \in Nat /\ Len(queue) \in Nat
    BY FS_CardinalityType, LenProperties DEF CountInv, TypeOK
  <2>3. CASE Accepted(m)
    <3>1. pressed' = pressed + 1
      BY <1>4, <2>3 DEF Deliver, Accepted, LivePress
    <3>2. Len(queue') \in {Len(queue), Len(queue) + 1}
      BY <1>4, <2>3, AppendProperties DEF Deliver, Accepted, TypeOK
    <3> QED
      BY <2>1, <2>2, <3>1, <3>2 DEF CountInv, TypeOK
  <2>4. CASE ~Accepted(m)
    <3>1. queue' = queue /\ pressed' \in {pressed, pressed + 1}
      BY <1>4, <2>4 DEF Deliver
    <3> QED
      BY <2>1, <2>2, <3>1 DEF CountInv, TypeOK
  <2> QED
    BY <2>3, <2>4
<1>5. ASSUME NEW w \in Workers, Worker(w) PROVE CountInv'
  <2> USE DEF Goto
  <2>1. CASE Take(w)
    <3>1. w \notin Unrun /\ Unrun' = Unrun \cup {w}
      BY <2>1 DEF Take, Unrun, TypeOK
    <3>2. IsFiniteSet(Unrun') /\ Cardinality(Unrun') = Cardinality(Unrun) + 1
      BY <3>1, FS_AddElement DEF CountInv
    <3>3. Len(queue') = Len(queue) - 1
      BY <2>1, HeadTailProperties DEF Take, TypeOK
    <3>4. Cardinality(Unrun) \in Nat /\ Len(queue) \in Nat
      BY FS_CardinalityType, LenProperties DEF CountInv, TypeOK
    <3> QED
      BY <2>1, <3>2, <3>3, <3>4 DEF Take, CountInv, TypeOK
  <2>2. CASE Claim(w) \/ Ack(w) \/ PublishAck(w)
    <3>1. Unrun' \subseteq Unrun
      BY <2>2 DEF Claim, Ack, PublishAck, Unrun, TypeOK
    <3> QED
      BY <2>2, <3>1, CountShrinks DEF Claim, Ack, PublishAck
  <2>3. CASE RunOk(w)
    BY <2>3, CountRuns DEF RunOk
  <2>4. CASE RunFails(w)
    BY <2>4, CountRuns DEF RunFails
  <2>5. CASE ClearBusy(w) \/ Notify(w) \/ PublishIdle(w)
    <3>1. Unrun' \subseteq Unrun
      BY <2>5 DEF ClearBusy, Notify, PublishIdle, Unrun, TypeOK
    <3> QED
      BY <2>5, <3>1, CountShrinks DEF ClearBusy, Notify, PublishIdle
  <2> QED
    BY <1>5, <2>1, <2>2, <2>3, <2>4, <2>5 DEF Worker
<1> QED
  BY <1>1, <1>2, <1>3, <1>4, <1>5 DEF Next, Environment

\* No more power commands run than live presses came in: none is run twice, and a
\* press the broker retained starts none (L149-L184, L205-L222).
THEOREM EveryCommandPressedHolds == Spec => []EveryCommandPressed
<1>1. Init => CountInv
  <2> SUFFICES ASSUME Init PROVE CountInv
    OBVIOUS
  <2>1. Unrun = {} /\ Len(queue) = 0
    BY DEF Init, Unrun
  <2> QED
    BY <2>1, FS_EmptySet DEF Init, CountInv
<1>2. TypeOK /\ CountInv => EveryCommandPressed
  <2> SUFFICES ASSUME TypeOK, CountInv PROVE EveryCommandPressed
    OBVIOUS
  <2>1. Cardinality(Unrun) \in Nat /\ Len(queue) \in Nat
    BY FS_CardinalityType, LenProperties DEF CountInv, TypeOK
  <2> QED
    BY <2>1 DEF CountInv, EveryCommandPressed, TypeOK
<1> QED
  BY <1>1, <1>2, CountStep, TypeCorrect, PTL DEF Spec

-------------------------------------------------------------------------------

\* A step that leaves the busy flag and every worker's place alone, and the
\* death of the process, as steps of the abstract latch.
LEMMA LatchStutter ==
  ASSUME UNCHANGED << busy, pc >> PROVE UNCHANGED Latch!latchVars
BY DEF Latch!latchVars, Holders

LEMMA LatchReset ==
  ASSUME Forget PROVE Latch!Next
<1>1. Holders' = {}
  BY DEF Forget, Holders, Holding
<1> QED
  BY <1>1 DEF Forget, Latch!Next, Latch!Reset

\* A worker's step is a step of the abstract latch or leaves it as it is.
LEMMA LatchWorker ==
  ASSUME TypeOK, LatchInv, NEW w \in Workers, Worker(w)
  PROVE  [Latch!Next]_Latch!latchVars
<1> USE DEF TypeOK, LatchInv, Goto
<1>1. CASE Claim(w)
  <2>1. CASE busy
    <3>1. Holders' = Holders
      BY <1>1, <2>1 DEF Claim, Holders, Holding
    <3> QED
      BY <1>1, <2>1, <3>1 DEF Claim, Latch!latchVars
  <2>2. CASE ~busy
    <3>1. Holders = {}
      BY <2>2 DEF Holders
    <3>2. Holders' = {w}
      BY <1>1, <2>2, <3>1 DEF Claim, Holders, Holding
    <3> QED
      BY <1>1, <2>2, <3>1, <3>2 DEF Claim, Latch!Next, Latch!Acquire
  <2> QED
    BY <2>1, <2>2
<1>2. CASE ClearBusy(w)
  <2>1. Holders = {w} /\ Holders' = {}
    BY <1>2 DEF ClearBusy, Holders, Holding
  <2> QED
    BY <1>2, <2>1 DEF ClearBusy, Latch!Next, Latch!Release
<1>3. CASE RunOk(w)
  <2>1. Holders = {w} /\ Holders' = {}
    BY <1>3 DEF RunOk, Holders, Holding
  <2> QED
    BY <1>3, <2>1 DEF RunOk, Latch!Next, Latch!Keep
<1>4. CASE PublishAck(w)
  <2>1. CASE client
    <3>1. Holders' = Holders /\ busy' = busy
      BY <1>4, <2>1 DEF PublishAck, Holders, Holding
    <3> QED
      BY <3>1 DEF Latch!latchVars
  <2>2. CASE ~client
    <3>1. Holders = {w} /\ Holders' = {} /\ busy' = busy
      BY <1>4, <2>2 DEF PublishAck, Holders, Holding
    <3> QED
      BY <3>1 DEF Latch!Next, Latch!Keep
  <2> QED
    BY <2>1, <2>2
<1>5. CASE Take(w) \/ Ack(w) \/ RunFails(w) \/ Notify(w) \/ PublishIdle(w)
  <2>1. Holders' = Holders /\ busy' = busy
    BY <1>5 DEF Take, Ack, RunFails, Notify, PublishIdle, Holders, Holding
  <2> QED
    BY <2>1 DEF Latch!latchVars
<1> QED
  BY <1>1, <1>2, <1>3, <1>4, <1>5 DEF Worker

\* PowerControl implements the latch: one command at a time for the host, the
\* others refused, and a latch left closed stays closed (L149-L195).
THEOREM ImplementsLatch == Spec => LatchSpec
<1>1. Init => Latch!Init
  BY DEF Init, Latch!Init, Holders, Holding
<1>2. TypeOK /\ LatchInv /\ [Next]_vars => [Latch!Next]_Latch!latchVars
  <2> SUFFICES ASSUME TypeOK, LatchInv, [Next]_vars
               PROVE  [Latch!Next]_Latch!latchVars
    OBVIOUS
  <2> USE DEF mainVars, poolVars
  <2>1. CASE MainThread
    <3>1. CASE Exit
      BY <3>1, LatchReset DEF Exit
    <3>2. CASE ~Exit
      BY <2>1, <3>2, LatchStutter
         DEF MainThread, Announce, Heartbeat, LeaveLoop, CloseOffline, Disconnect
    <3> QED
      BY <3>1, <3>2
  <2>2. CASE Environment
    <3>1. CASE Crash
      BY <3>1, LatchReset DEF Crash
    <3>2. CASE ~Crash
      BY <2>2, <3>2, LatchStutter
         DEF Environment, Start, Signal, Connect, LinkDown, Deliver
    <3> QED
      BY <3>1, <3>2
  <2>3. ASSUME NEW w \in Workers, Worker(w) PROVE [Latch!Next]_Latch!latchVars
    BY <2>3, LatchWorker
  <2>4. CASE UNCHANGED vars
    BY <2>4, LatchStutter DEF vars
  <2> QED
    BY <2>1, <2>2, <2>3, <2>4 DEF Next
<1> QED
  BY <1>1, <1>2, TypeCorrect, LatchCorrect, PTL DEF Spec, LatchSpec, Latch!Spec

===============================================================================
