--------------------------- MODULE PoeControl_proofs ---------------------------
(***************************************************************************)
(* Proofs about PoeControl, for any ports, any pool size, any initial state*)
(* of the switch and any bounds.                                           *)
(***************************************************************************)
EXTENDS PoeControl, SequenceTheorems, TLAPS

\* A worker between its two SETs.
Cutting == {"off_read", "off_apply", "off_wait", "enable"}

\* A worker that is not idle has a command, of the kind its place is for.
JobInv ==
  \A w \in Workers :
    /\ pc[w] # "idle" => job[w] \in Commands
    /\ pc[w] \in Cutting \cup {"pre_read", "pre_apply", "disable"} => job[w].kind = "cycle"
    /\ pc[w] = "toggle" => job[w].kind = "toggle"
    /\ pc[w] = "claim" => job[w].kind # "force"
    /\ pc[w] \in {"force_set", "force_publish", "force_avail"} => job[w].kind = "force"

\* A worker holding a port's flag is the only one, and finds it set.
LatchInv ==
  /\ \A v, w \in Workers :
       pc[v] \in Holding /\ pc[w] \in Holding /\ job[v].port = job[w].port => v = w
  /\ \A w \in Workers : pc[w] \in Holding => busy[job[w].port]

\* A port that a cycle has switched off has a worker who will switch it on.
CutInv ==
  \A p \in Ports : cut[p] /\ ~setFailed[p] /\ ~stop =>
    \E w \in Workers : pc[w] \in Cutting /\ job[w].port = p

USE PoeAssumption DEF PoeAssumption

-------------------------------------------------------------------------------

\* What the helpers return.
LEMMA ShownTypes ==
  \A m, f : OnOff(m) \in {"ON", "OFF"} /\ Availability(m, f) \in {"online", "offline"}
BY DEF OnOff, Availability

LEMMA AfterSetType ==
  \A h \in HwStates : \A v : AfterSet(h, v) \in HwStates
BY DEF AfterSet, HwStates, Detects

LEMMA FoundType ==
  \A h \in HwStates :
    h.admin = "on" => [h EXCEPT !.detect = "delivering", !.link = "up"] \in HwStates
BY DEF HwStates, Detects

LEMMA HwIsMem ==
  \A h \in HwStates : h \in MemStates /\ h # NoReply
BY DEF HwStates, MemStates

LEMMA SeenTypes ==
  /\ \A h \in HwStates, a \in Attrs : h[a] \in ValuesOf(a)
  /\ \A m \in MemStates, a \in Attrs : \A v \in ValuesOf(a) : [m EXCEPT ![a] = v] \in MemStates
<1>1. \A h \in HwStates, a \in Attrs : h[a] \in ValuesOf(a)
  BY DEF HwStates, Attrs, ValuesOf, Detects
<1>2. \A m \in MemStates, a \in Attrs : \A v \in ValuesOf(a) : [m EXCEPT ![a] = v] \in MemStates
  BY DEF MemStates, Attrs, ValuesOf, Detects
<1> QED
  BY <1>1, <1>2

LEMMA SetAdminTypes ==
  ASSUME TypeOK, NEW w \in Workers, job[w].port \in Ports, NEW value,
         NEW a \in WorkerPc, NEW b \in WorkerPc, SetAdmin(w, value, a, b)
  PROVE  /\ hw' \in [Ports -> HwStates]
         /\ cut' \in [Ports -> BOOLEAN] /\ setFailed' \in [Ports -> BOOLEAN]
         /\ pc' \in [Workers -> WorkerPc]
         /\ mishaps' \in Nat
<1> USE DEF TypeOK, SetAdmin, Port
<1>1. hw' \in [Ports -> HwStates]
  <2>1. AfterSet(hw[job[w].port], value) \in HwStates
    BY AfterSetType
  <2>2. hw' = hw \/ hw' = [hw EXCEPT ![job[w].port] = AfterSet(hw[job[w].port], value)]
    OBVIOUS
  <2> QED
    BY <2>1, <2>2
<1>2. cut' \in [Ports -> BOOLEAN]
  <2>1. (value = "off" /\ job[w].kind = "cycle") \in BOOLEAN
    OBVIOUS
  <2> QED
    BY <2>1
<1>3. setFailed' \in [Ports -> BOOLEAN]
  OBVIOUS
<1>5. pc' \in [Workers -> WorkerPc]
  OBVIOUS
<1>4. mishaps' \in Nat
  OBVIOUS
<1> QED
  BY <1>1, <1>2, <1>3, <1>4, <1>5

LEMMA PortType ==
  ASSUME JobInv, NEW w \in Workers, pc[w] # "idle"
  PROVE  job[w].port \in Ports
BY DEF JobInv, Commands

-------------------------------------------------------------------------------

\* The place and the command of each worker move together.
LEMMA JobStep ==
  ASSUME TypeOK, JobInv, [Next]_vars PROVE JobInv'
<1> USE DEF JobInv, Cutting

<1>1. ASSUME UNCHANGED << pc, job >> PROVE JobInv'
  BY <1>1
<1>2. CASE MainThread
  <2>1. CASE Exit
    BY <2>1 DEF Exit, Forget
  <2>2. CASE ~Exit
    BY <1>1, <1>2, <2>2 DEF MainThread, SubscribeForce, UnsubscribeForce, Walk, Apply,
       Publish, NextPoll, Close, poolVars
  <2> QED
    BY <2>1, <2>2
<1>3. CASE Environment
  <2>1. CASE Crash
    BY <2>1 DEF Crash, Forget
  <2>2. CASE ~Crash
    BY <1>1, <1>3, <2>2 DEF Environment, Start, Signal, Connect, LinkDown, Deliver,
       ReadForce, DeviceFound, SwitchChanges, poolVars
  <2> QED
    BY <2>1, <2>2
<1>4. ASSUME NEW w \in Workers, Worker(w) PROVE JobInv'
  <2> USE DEF TypeOK, WorkerPc, Goto, Port
  <2>1. CASE Take(w)
    <3>1. Head(queue) \in Commands
      BY <2>1 DEF Take
    <3> QED
      BY <2>1, <3>1 DEF Take, Commands
  <2>2. CASE Claim(w)
    <3>0. pc[w] = "claim" /\ job[w] \in Commands /\ job[w].kind # "force"
      BY <2>2 DEF Claim
    <3>1. job[w].kind \in {"toggle", "cycle"}
      BY <3>0 DEF Commands
    <3>3. CASE busy[job[w].port]
      <4>1. pc' = [pc EXCEPT ![w] = "idle"] /\ job' = [job EXCEPT ![w] = NoJob]
        BY <2>2, <3>3 DEF Claim, Done
      <4> QED
        BY <4>1
    <3>4. CASE ~busy[job[w].port]
      BY <2>2, <3>0, <3>1, <3>4 DEF Claim, Done
    <3> QED
      BY <3>3, <3>4
  <2>3. CASE Release(w)
    BY <2>3 DEF Release, Done
  <2>4. CASE Toggle(w)
    BY <2>4 DEF Toggle, SetAdmin
  <2>5. CASE Disable(w)
    BY <2>5 DEF Disable, SetAdmin
  <2>6. CASE Enable(w)
    BY <2>6 DEF Enable, SetAdmin
  <2>7. CASE Read(w, "pre_read", "pre_apply")
    BY <2>7 DEF Read
  <2>8. CASE PreApply(w)
    BY <2>8 DEF PreApply, Write
  <2>9. CASE Read(w, "off_read", "off_apply")
    BY <2>9 DEF Read
  <2>10. CASE OffApply(w)
    BY <2>10 DEF OffApply, Write
  <2>11. CASE OffWait(w)
    BY <2>11 DEF OffWait
  <2>12. CASE Read(w, "on_read", "on_apply")
    BY <2>12 DEF Read
  <2>13. CASE OnApply(w)
    BY <2>13 DEF OnApply, Write
  <2>14. CASE OnWait(w)
    BY <2>14 DEF OnWait
  <2>15. CASE Read(w, "fin_read", "fin_apply")
    BY <2>15 DEF Read
  <2>16. CASE FinApply(w)
    BY <2>16 DEF FinApply, Write
  <2>17. CASE FinPublish(w)
    BY <2>17 DEF FinPublish
  <2>18. CASE ForceSet(w)
    BY <2>18 DEF ForceSet
  <2>19. CASE ForcePublish(w)
    BY <2>19 DEF ForcePublish
  <2>20. CASE ForceAvail(w)
    BY <2>20 DEF ForceAvail, Done
  <2> QED
    BY <1>4, <2>1, <2>2, <2>3, <2>4, <2>5, <2>6, <2>7, <2>8, <2>9, <2>10,
       <2>11, <2>12, <2>13, <2>14, <2>15, <2>16, <2>17, <2>18,
       <2>19, <2>20 DEF Worker
<1>5. CASE UNCHANGED vars
  BY <1>1, <1>5 DEF vars, poolVars
<1> QED
  BY <1>2, <1>3, <1>4, <1>5 DEF Next

-------------------------------------------------------------------------------

\* Every step preserves the types.
LEMMA TypeStep ==
  ASSUME TypeOK, JobInv, [Next]_vars PROVE TypeOK'
<1> USE ShownTypes, AfterSetType DEF TypeOK, MainPc, WorkerPc, mainVars, netVars, memVars,
        poolVars, topicVars, histVars, bounds
<1>1. CASE SubscribeForce
  <2>1. inbox' \in [Ports -> Seq(BOOLEAN)]
    <3>1. \A p \in Ports : << pubForce[p] = "ON" >> \in Seq(BOOLEAN)
      OBVIOUS
    <3> QED
      BY <1>1, <3>1, EmptySeq DEF SubscribeForce
  <2> QED
    BY <1>1, <2>1 DEF SubscribeForce
<1>2. CASE UnsubscribeForce
  BY <1>2, EmptySeq DEF UnsubscribeForce
<1>3. CASE Walk
  <2>1. seen' = NoReply \/ seen' \in [Ports -> ValuesOf(attr)]
    <3>1. \A p \in Ports : hw[p][attr] \in ValuesOf(attr)
      BY SeenTypes
    <3> QED
      BY <1>3, <3>1 DEF Walk
  <2>2. mishaps' \in Nat
    BY <1>3 DEF Walk
  <2> QED
    BY <1>3, <2>1, <2>2 DEF Walk
<1>4. CASE Apply
  <2>1. mem' \in [Ports -> MemStates]
    BY <1>4, SeenTypes DEF Apply
  <2>2. attr' \in Attrs
    BY <1>4 DEF Apply, Attrs
  <2> QED
    BY <1>4, <2>1, <2>2 DEF Apply
<1>5. CASE Publish
  BY <1>5 DEF Publish
<1>6. CASE NextPoll
  BY <1>6 DEF NextPoll
<1>7. CASE Close
  BY <1>7 DEF Close
<1>8. CASE Exit
  <2>1. inbox' \in [Ports -> Seq(BOOLEAN)] /\ queue' \in Seq(Commands)
    BY <1>8, EmptySeq DEF Exit, Forget
  <2>2. mem' \in [Ports -> MemStates] /\ attr' \in Attrs
    BY <1>8 DEF Exit, Forget, Unread, MemStates, Attrs
  <2> QED
    BY <1>8, <2>1, <2>2 DEF Exit, Forget
<1>9. CASE Start
  BY <1>9 DEF Start
<1>10. CASE Signal
  BY <1>10 DEF Signal
<1>11. CASE Crash
  <2>1. inbox' \in [Ports -> Seq(BOOLEAN)] /\ queue' \in Seq(Commands)
    BY <1>11, EmptySeq DEF Crash, Forget
  <2>2. mem' \in [Ports -> MemStates] /\ attr' \in Attrs
    BY <1>11 DEF Crash, Forget, Unread, MemStates, Attrs
  <2> QED
    BY <1>11, <2>1, <2>2 DEF Crash, Forget
<1>12. CASE Connect
  BY <1>12 DEF Connect
<1>13. CASE LinkDown
  <2>1. mishaps' \in Nat
    BY <1>13 DEF LinkDown
  <2>2. inbox' \in [Ports -> Seq(BOOLEAN)]
    BY <1>13, EmptySeq DEF LinkDown
  <2> QED
    BY <1>13, <2>1, <2>2 DEF LinkDown
<1>14. ASSUME NEW p \in Ports, ReadForce(p) PROVE TypeOK'
  BY <1>14 DEF ReadForce
<1>15. ASSUME NEW p \in Ports, DeviceFound(p) PROVE TypeOK'
  <2>1. hw[p] \in HwStates /\ hw[p].admin = "on"
    BY <1>15 DEF DeviceFound
  <2>2. [hw[p] EXCEPT !.detect = "delivering", !.link = "up"] \in HwStates
    BY <2>1, FoundType
  <2> QED
    BY <1>15, <2>2 DEF DeviceFound
<1>16. ASSUME NEW p \in Ports, SwitchChanges(p) PROVE TypeOK'
  BY <1>16 DEF SwitchChanges
<1>17. ASSUME NEW c \in Commands, Deliver(c) PROVE TypeOK'
  BY <1>17 DEF Deliver
<1>18. ASSUME NEW w \in Workers, Worker(w) PROVE TypeOK'
  <2>a. pc[w] # "idle" => job[w].port \in Ports
    BY PortType
  <2>1. CASE Take(w)
    BY <2>a, HwIsMem, <2>1 DEF Take, Goto
  <2>2. CASE Claim(w)
    BY <2>a, HwIsMem, <2>2 DEF Claim, Goto, Done, Port
  <2>3. CASE Release(w)
    BY <2>a, HwIsMem, <2>3 DEF Release, Goto, Done, Port
  <2>4. CASE Toggle(w)
    <3>1. pc[w] # "idle"
      BY <2>4 DEF Toggle, Goto
    <3>2. CASE SetAdmin(w, IF job[w].payload = "ON" THEN "on" ELSE "off", "fin_read", "release")
      BY <2>4, <2>a, <3>1, <3>2, SetAdminTypes, Zenon DEF Toggle
    <3>3. CASE ~SetAdmin(w, IF job[w].payload = "ON" THEN "on" ELSE "off", "fin_read", "release")
      BY <2>4, <3>3 DEF Toggle, Goto
    <3> QED
      BY <3>2, <3>3
  <2>5. CASE Disable(w)
    <3>1. pc[w] # "idle"
      BY <2>5 DEF Disable
    <3>2. hw' \in [Ports -> HwStates] /\ cut' \in [Ports -> BOOLEAN] /\ setFailed' \in [Ports -> BOOLEAN]
          /\ pc' \in [Workers -> WorkerPc] /\ mishaps' \in Nat
      BY <2>5, <2>a, <3>1, SetAdminTypes DEF Disable
    <3> QED
      BY <2>5, <3>2 DEF Disable
  <2>6. CASE Enable(w)
    <3>1. pc[w] # "idle"
      BY <2>6 DEF Enable
    <3>2. hw' \in [Ports -> HwStates] /\ cut' \in [Ports -> BOOLEAN] /\ setFailed' \in [Ports -> BOOLEAN]
          /\ pc' \in [Workers -> WorkerPc] /\ mishaps' \in Nat
      BY <2>6, <2>a, <3>1, SetAdminTypes DEF Enable
    <3> QED
      BY <2>6, <3>2 DEF Enable
  <2>7. CASE Read(w, "pre_read", "pre_apply")
    <3>1. mishaps' \in Nat
      BY <2>7 DEF Read
    <3>2. got' \in [Workers -> HwStates \cup {NoReply}]
      BY <2>7, <2>a DEF Read, Goto, Port
    <3> QED
      BY <2>7, <3>1, <3>2 DEF Read, Goto
  <2>8. CASE PreApply(w)
    BY <2>a, HwIsMem, <2>8 DEF PreApply, Goto, Write, Polled, Port
  <2>9. CASE Read(w, "off_read", "off_apply")
    <3>1. mishaps' \in Nat
      BY <2>9 DEF Read
    <3>2. got' \in [Workers -> HwStates \cup {NoReply}]
      BY <2>9, <2>a DEF Read, Goto, Port
    <3> QED
      BY <2>9, <3>1, <3>2 DEF Read, Goto
  <2>10. CASE OffApply(w)
    BY <2>a, HwIsMem, <2>10 DEF OffApply, Goto, Write, Polled, Port
  <2>11. CASE OffWait(w)
    BY <2>a, HwIsMem, <2>11 DEF OffWait, Goto
  <2>12. CASE Read(w, "on_read", "on_apply")
    <3>1. mishaps' \in Nat
      BY <2>12 DEF Read
    <3>2. got' \in [Workers -> HwStates \cup {NoReply}]
      BY <2>12, <2>a DEF Read, Goto, Port
    <3> QED
      BY <2>12, <3>1, <3>2 DEF Read, Goto
  <2>13. CASE OnApply(w)
    BY <2>a, HwIsMem, <2>13 DEF OnApply, Goto, Write, Polled, Port
  <2>14. CASE OnWait(w)
    BY <2>a, HwIsMem, <2>14 DEF OnWait, Goto
  <2>15. CASE Read(w, "fin_read", "fin_apply")
    <3>1. mishaps' \in Nat
      BY <2>15 DEF Read
    <3>2. got' \in [Workers -> HwStates \cup {NoReply}]
      BY <2>15, <2>a DEF Read, Goto, Port
    <3> QED
      BY <2>15, <3>1, <3>2 DEF Read, Goto
  <2>16. CASE FinApply(w)
    BY <2>a, HwIsMem, <2>16 DEF FinApply, Goto, Write, Polled, Port
  <2>17. CASE FinPublish(w)
    <3>1. pubState' \in [Ports -> {"none", "ON", "OFF"}]
      BY <2>17, OnOff(mem[Port(w)]) \in {"ON", "OFF"} DEF FinPublish
    <3>2. pubAvail' \in [Ports -> {"none", "online", "offline"}]
      BY <2>17 DEF FinPublish
    <3> QED
      BY <2>17, <3>1, <3>2 DEF FinPublish, Goto
  <2>18. CASE ForceSet(w)
    BY <2>a, HwIsMem, <2>18 DEF ForceSet, Goto, Port
  <2>19. CASE ForcePublish(w)
    <3>1. job[w] \in Commands /\ job[w].kind = "force"
      BY <2>19 DEF JobInv, ForcePublish, Goto
    <3>2. job[w].payload \in {"ON", "OFF"} /\ job[w].port \in Ports
      BY <3>1 DEF Commands
    <3>3. inbox' \in [Ports -> Seq(BOOLEAN)]
      BY <2>19, <3>2 DEF ForcePublish, Port
    <3> QED
      BY <2>19, <3>2, <3>3 DEF ForcePublish, Goto, Port
  <2>20. CASE ForceAvail(w)
    BY <2>a, HwIsMem, <2>20 DEF ForceAvail, Goto, Done
  <2> QED
    BY <1>18, <2>1, <2>2, <2>3, <2>4, <2>5, <2>6, <2>7, <2>8, <2>9, <2>10,
       <2>11, <2>12, <2>13, <2>14, <2>15, <2>16, <2>17, <2>18,
       <2>19, <2>20 DEF Worker
<1>19. CASE UNCHANGED vars
  BY <1>19 DEF vars
<1> QED
  BY <1>1, <1>2, <1>3, <1>4, <1>5, <1>6, <1>7, <1>8, <1>9, <1>10,
     <1>11, <1>12, <1>13, <1>14, <1>15, <1>16, <1>17, <1>18, <1>19 DEF Next, MainThread, Environment

-------------------------------------------------------------------------------

\* The type invariant holds in every reachable state (all of snmp_control.py),
\* and every worker that is not idle has a command of its kind.
THEOREM TypeCorrect == Spec => [](TypeOK /\ JobInv)
<1>1. Init => TypeOK /\ JobInv
  <2> SUFFICES ASSUME Init PROVE TypeOK /\ JobInv
    OBVIOUS
  <2>1. queue \in Seq(Commands) /\ inbox \in [Ports -> Seq(BOOLEAN)]
    BY EmptySeq DEF Init
  <2> QED
    BY <2>1 DEF Init, Unread, TypeOK, JobInv, Cutting, MainPc, WorkerPc, Attrs, MemStates
<1> QED
  BY <1>1, JobStep, TypeStep, PTL DEF Spec


-------------------------------------------------------------------------------

\* A worker that moves inside a handler's body disturbs no latch.
LEMMA HolderMoves ==
  ASSUME TypeOK, LatchInv, NEW w \in Workers, NEW to, pc[w] \in Holding,
         pc' = [pc EXCEPT ![w] = to], UNCHANGED << job, busy >>
  PROVE  LatchInv'
BY DEF TypeOK, LatchInv

\* LatchInv is inductive on top of the types: a worker enters a handler's body
\* only past the check-and-set, and clears the flag on leaving it.
LEMMA LatchStep ==
  ASSUME TypeOK, JobInv, LatchInv, [Next]_vars PROVE LatchInv'
<1>1. ASSUME UNCHANGED << busy, pc, job >> PROVE LatchInv'
  BY <1>1 DEF LatchInv
<1>2. CASE MainThread
  <2>1. CASE Exit
    BY <2>1 DEF Exit, Forget, LatchInv, Holding
  <2>2. CASE ~Exit
    BY <1>1, <1>2, <2>2 DEF MainThread, SubscribeForce, UnsubscribeForce, Walk, Apply,
       Publish, NextPoll, Close, poolVars, memVars
  <2> QED
    BY <2>1, <2>2
<1>3. CASE Environment
  <2>1. CASE Crash
    BY <2>1 DEF Crash, Forget, LatchInv, Holding
  <2>2. CASE ~Crash
    BY <1>1, <1>3, <2>2 DEF Environment, Start, Signal, Connect, LinkDown, Deliver,
       ReadForce, DeviceFound, SwitchChanges, poolVars, memVars
  <2> QED
    BY <2>1, <2>2
<1>4. ASSUME NEW w \in Workers, Worker(w) PROVE LatchInv'
  <2> USE DEF TypeOK, LatchInv, Holding, WorkerPc, Goto, Port, memVars
  <2>1. CASE Take(w)
    BY <2>1 DEF Take
  <2>2. CASE Claim(w)
    <3>0. pc[w] = "claim" /\ job[w].port \in Ports
      BY <2>2, PortType DEF Claim
    <3>1. CASE busy[job[w].port]
      <4>1. pc' = [pc EXCEPT ![w] = "idle"] /\ job' = [job EXCEPT ![w] = NoJob] /\ busy' = busy
        BY <2>2, <3>1 DEF Claim, Done
      <4> QED
        BY <3>0, <4>1
    <3>2. CASE ~busy[job[w].port]
      <4>1. job' = job /\ busy' = [busy EXCEPT ![job[w].port] = TRUE]
        BY <2>2, <3>2 DEF Claim
      <4>2. \A v \in Workers : pc[v] \in Holding => job[v].port # job[w].port
        BY <3>2
      <4>3. \A v \in Workers \ {w} : pc'[v] = pc[v]
        BY <2>2, <3>2 DEF Claim
      <4>4. ASSUME NEW u \in Workers, NEW v \in Workers, pc'[u] \in Holding, pc'[v] \in Holding,
                   job'[u].port = job'[v].port
            PROVE  u = v
        <5>1. CASE u = w \/ v = w
          BY <3>0, <4>1, <4>2, <4>3, <4>4, <5>1
        <5>2. CASE u # w /\ v # w
          BY <4>1, <4>3, <4>4, <5>2
        <5> QED
          BY <5>1, <5>2
      <4>5. ASSUME NEW v \in Workers, pc'[v] \in Holding PROVE busy'[job'[v].port]
        BY <3>0, <4>1, <4>3, <4>5, PortType
      <4> QED
        BY <4>4, <4>5
    <3> QED
      BY <3>1, <3>2
  <2>3. CASE Release(w)
    <3>0. pc[w] = "release" /\ job[w].port \in Ports
      BY <2>3, PortType DEF Release
    <3> QED
      BY <2>3, <3>0, PortType DEF Release, Done
  <2>4. CASE Toggle(w)
    <3>1. pc[w] \in Holding /\ UNCHANGED << job, busy >>
      BY <2>4 DEF Toggle
    <3>2. \E to : pc' = [pc EXCEPT ![w] = to]
      BY <2>4 DEF Toggle, SetAdmin
    <3> QED
      BY <3>1, <3>2, HolderMoves
  <2>5. CASE Disable(w)
    <3>1. pc[w] \in Holding /\ UNCHANGED << job, busy >>
      BY <2>5 DEF Disable
    <3>2. \E to : pc' = [pc EXCEPT ![w] = to]
      BY <2>5 DEF Disable, SetAdmin
    <3> QED
      BY <3>1, <3>2, HolderMoves
  <2>6. CASE Enable(w)
    <3>1. pc[w] \in Holding /\ UNCHANGED << job, busy >>
      BY <2>6 DEF Enable
    <3>2. \E to : pc' = [pc EXCEPT ![w] = to]
      BY <2>6 DEF Enable, SetAdmin
    <3> QED
      BY <3>1, <3>2, HolderMoves
  <2>7. CASE Read(w, "pre_read", "pre_apply")
    BY <2>7 DEF Read
  <2>8. CASE PreApply(w)
    BY <2>8 DEF PreApply, Write
  <2>9. CASE Read(w, "off_read", "off_apply")
    BY <2>9 DEF Read
  <2>10. CASE OffApply(w)
    BY <2>10 DEF OffApply, Write
  <2>11. CASE OffWait(w)
    <3>1. pc[w] \in Holding /\ UNCHANGED << job, busy >>
      BY <2>11 DEF OffWait
    <3>2. \E to : pc' = [pc EXCEPT ![w] = to]
      BY <2>11 DEF OffWait
    <3> QED
      BY <3>1, <3>2, HolderMoves
  <2>12. CASE Read(w, "on_read", "on_apply")
    BY <2>12 DEF Read
  <2>13. CASE OnApply(w)
    BY <2>13 DEF OnApply, Write
  <2>14. CASE OnWait(w)
    <3>1. pc[w] \in Holding /\ UNCHANGED << job, busy >>
      BY <2>14 DEF OnWait
    <3>2. \E to : pc' = [pc EXCEPT ![w] = to]
      BY <2>14 DEF OnWait
    <3> QED
      BY <3>1, <3>2, HolderMoves
  <2>15. CASE Read(w, "fin_read", "fin_apply")
    BY <2>15 DEF Read
  <2>16. CASE FinApply(w)
    BY <2>16 DEF FinApply, Write
  <2>17. CASE FinPublish(w)
    BY <2>17 DEF FinPublish
  <2>18. CASE ForceSet(w)
    BY <2>18 DEF ForceSet
  <2>19. CASE ForcePublish(w)
    BY <2>19 DEF ForcePublish
  <2>20. CASE ForceAvail(w)
    BY <2>20 DEF ForceAvail, Done
  <2> QED
    BY <1>4, <2>1, <2>2, <2>3, <2>4, <2>5, <2>6, <2>7, <2>8, <2>9, <2>10,
       <2>11, <2>12, <2>13, <2>14, <2>15, <2>16, <2>17, <2>18,
       <2>19, <2>20 DEF Worker
<1>5. CASE UNCHANGED vars
  BY <1>1, <1>5 DEF vars, poolVars, memVars
<1> QED
  BY <1>2, <1>3, <1>4, <1>5 DEF Next

LEMMA LatchCorrect == Spec => []LatchInv
<1>1. Init => LatchInv
  BY DEF Init, LatchInv, Holding
<1> QED
  BY <1>1, LatchStep, TypeCorrect, PTL DEF Spec

-------------------------------------------------------------------------------

\* CutInv is inductive on top of the types and the latch.
LEMMA CutStep ==
  ASSUME TypeOK, JobInv, LatchInv, CutInv, [Next]_vars PROVE CutInv'
<1>1. ASSUME UNCHANGED << pc, job, cut, setFailed >>, stop => stop' PROVE CutInv'
  BY <1>1 DEF CutInv
<1>2. CASE MainThread
  <2>1. CASE Exit
    BY <2>1 DEF Exit, Forget, CutInv
  <2>2. CASE ~Exit
    BY <1>1, <1>2, <2>2 DEF MainThread, SubscribeForce, UnsubscribeForce, Walk, Apply,
       Publish, NextPoll, Close, poolVars, histVars
  <2> QED
    BY <2>1, <2>2
<1>3. CASE Environment
  <2>1. CASE Crash
    BY <2>1 DEF Crash, Forget, CutInv
  <2>2. CASE ~Crash
    BY <1>1, <1>3, <2>2 DEF Environment, Start, Signal, Connect, LinkDown, Deliver,
       ReadForce, DeviceFound, SwitchChanges, poolVars, mainVars, histVars
  <2> QED
    BY <2>1, <2>2
<1>4. ASSUME NEW w \in Workers, Worker(w) PROVE CutInv'
  <2> USE DEF TypeOK, CutInv, Cutting, WorkerPc, Goto, Port, mainVars, histVars
  <2>1. CASE Take(w)
    <3>1. \A v \in Workers \ {w} : pc'[v] = pc[v] /\ job'[v] = job[v]
      BY <2>1 DEF Take
    <3>2. pc[w] \notin Cutting
      BY <2>1 DEF Take
    <3>3. UNCHANGED << cut, setFailed, stop >>
      BY <2>1 DEF Take
    <3>4. ASSUME NEW q \in Ports, cut'[q], ~setFailed'[q], ~stop'
          PROVE  \E v \in Workers : pc'[v] \in Cutting /\ job'[v].port = q
      <4>1. PICK v \in Workers : pc[v] \in Cutting /\ job[v].port = q
        BY <3>3, <3>4
      <4>2. pc'[v] \in Cutting /\ job'[v].port = q
        BY <3>1, <3>2, <3>4, <4>1
      <4> QED
        BY <4>2
    <3> QED
      BY <3>4
  <2>2. CASE Claim(w)
    <3>1. \A v \in Workers \ {w} : pc'[v] = pc[v] /\ job'[v] = job[v]
      BY <2>2 DEF Claim, Done
    <3>2. pc[w] \notin Cutting
      BY <2>2 DEF Claim, Done
    <3>3. UNCHANGED << cut, setFailed, stop >>
      BY <2>2 DEF Claim, Done
    <3>4. ASSUME NEW q \in Ports, cut'[q], ~setFailed'[q], ~stop'
          PROVE  \E v \in Workers : pc'[v] \in Cutting /\ job'[v].port = q
      <4>1. PICK v \in Workers : pc[v] \in Cutting /\ job[v].port = q
        BY <3>3, <3>4
      <4>2. pc'[v] \in Cutting /\ job'[v].port = q
        BY <3>1, <3>2, <3>4, <4>1
      <4> QED
        BY <4>2
    <3> QED
      BY <3>4
  <2>3. CASE Release(w)
    BY <2>3 DEF Release, Done
  <2>4. CASE Toggle(w)
    <3>1. pc[w] = "toggle" /\ job[w].port \in Ports /\ job' = job /\ stop' = stop
      BY <2>4, PortType DEF Toggle
    <3>2. \A v \in Workers \ {w} : pc'[v] = pc[v]
      BY <2>4 DEF Toggle, SetAdmin
    <3>3. ASSUME NEW q \in Ports \ {job[w].port}
          PROVE  cut'[q] = cut[q] /\ setFailed'[q] = setFailed[q]
      BY <2>4, <3>1 DEF Toggle, SetAdmin
    <3>4. (cut'[job[w].port] => cut[job[w].port]) /\ (setFailed[job[w].port] => setFailed'[job[w].port])
      BY <2>4, <3>1 DEF Toggle, SetAdmin, JobInv
    <3>5. ASSUME NEW q \in Ports, cut'[q], ~setFailed'[q], ~stop'
          PROVE  \E v \in Workers : pc'[v] \in Cutting /\ job'[v].port = q
      <4>1. CASE q # job[w].port
        <5>1. PICK v \in Workers : pc[v] \in Cutting /\ job[v].port = q
          BY <3>1, <3>3, <3>5, <4>1
        <5> QED
          BY <3>1, <3>2, <4>1, <5>1
      <4>2. CASE q = job[w].port
        <5>1. PICK v \in Workers : pc[v] \in Cutting /\ job[v].port = q
          BY <3>1, <3>4, <3>5, <4>2
        <5> QED
          BY <3>1, <3>2, <5>1
      <4> QED
        BY <4>1, <4>2
    <3> QED
      BY <3>5
  <2>5. CASE Disable(w)
    <3>1. pc[w] = "disable" /\ job[w].port \in Ports /\ job' = job /\ stop' = stop
      BY <2>5, PortType DEF Disable
    <3>2. \A v \in Workers \ {w} : pc'[v] = pc[v]
      BY <2>5 DEF Disable, SetAdmin
    <3>3. ASSUME NEW q \in Ports \ {job[w].port}
          PROVE  cut'[q] = cut[q] /\ setFailed'[q] = setFailed[q]
      BY <2>5, <3>1 DEF Disable, SetAdmin
    <3>4. setFailed'[job[w].port] \/ pc'[w] \in Cutting
      BY <2>5, <3>1 DEF Disable, SetAdmin, JobInv
    <3>5. ASSUME NEW q \in Ports, cut'[q], ~setFailed'[q], ~stop'
          PROVE  \E v \in Workers : pc'[v] \in Cutting /\ job'[v].port = q
      <4>1. CASE q # job[w].port
        <5>1. PICK v \in Workers : pc[v] \in Cutting /\ job[v].port = q
          BY <3>1, <3>3, <3>5, <4>1
        <5> QED
          BY <3>1, <3>2, <4>1, <5>1
      <4>2. CASE q = job[w].port
        BY <3>1, <3>2, <3>4, <3>5, <4>2
      <4> QED
        BY <4>1, <4>2
    <3> QED
      BY <3>5
  <2>6. CASE Enable(w)
    <3>1. pc[w] = "enable" /\ job[w].port \in Ports /\ job' = job /\ stop' = stop
      BY <2>6, PortType DEF Enable
    <3>2. \A v \in Workers \ {w} : pc'[v] = pc[v]
      BY <2>6 DEF Enable, SetAdmin
    <3>3. ASSUME NEW q \in Ports \ {job[w].port}
          PROVE  cut'[q] = cut[q] /\ setFailed'[q] = setFailed[q]
      BY <2>6, <3>1 DEF Enable, SetAdmin
    <3>4. setFailed'[job[w].port] \/ ~cut'[job[w].port]
      BY <2>6, <3>1 DEF Enable, SetAdmin, JobInv
    <3>5. ASSUME NEW q \in Ports, cut'[q], ~setFailed'[q], ~stop'
          PROVE  \E v \in Workers : pc'[v] \in Cutting /\ job'[v].port = q
      <4>1. CASE q # job[w].port
        <5>1. PICK v \in Workers : pc[v] \in Cutting /\ job[v].port = q
          BY <3>1, <3>3, <3>5, <4>1
        <5> QED
          BY <3>1, <3>2, <4>1, <5>1
      <4>2. CASE q = job[w].port
        BY <3>4, <3>5, <4>2
      <4> QED
        BY <4>1, <4>2
    <3> QED
      BY <3>5
  <2>7. CASE Read(w, "pre_read", "pre_apply")
    BY <2>7 DEF Read
  <2>8. CASE PreApply(w)
    BY <2>8 DEF PreApply, Write
  <2>9. CASE Read(w, "off_read", "off_apply")
    BY <2>9 DEF Read
  <2>10. CASE OffApply(w)
    BY <2>10 DEF OffApply, Write
  <2>11. CASE OffWait(w)
    <3>1. \A v \in Workers \ {w} : pc'[v] = pc[v] /\ job'[v] = job[v]
      BY <2>11 DEF OffWait
    <3>2. pc[w] = "off_wait" /\ job' = job /\ (pc'[w] \in Cutting \/ stop')
      BY <2>11 DEF OffWait
    <3>3. UNCHANGED << cut, setFailed, stop >>
      BY <2>11 DEF OffWait
    <3>4. ASSUME NEW q \in Ports, cut'[q], ~setFailed'[q], ~stop'
          PROVE  \E v \in Workers : pc'[v] \in Cutting /\ job'[v].port = q
      <4>1. PICK v \in Workers : pc[v] \in Cutting /\ job[v].port = q
        BY <3>3, <3>4
      <4>2. pc'[v] \in Cutting /\ job'[v].port = q
        BY <3>1, <3>2, <3>4, <4>1
      <4> QED
        BY <4>2
    <3> QED
      BY <3>4
  <2>12. CASE Read(w, "on_read", "on_apply")
    BY <2>12 DEF Read
  <2>13. CASE OnApply(w)
    BY <2>13 DEF OnApply, Write
  <2>14. CASE OnWait(w)
    BY <2>14 DEF OnWait
  <2>15. CASE Read(w, "fin_read", "fin_apply")
    BY <2>15 DEF Read
  <2>16. CASE FinApply(w)
    BY <2>16 DEF FinApply, Write
  <2>17. CASE FinPublish(w)
    BY <2>17 DEF FinPublish
  <2>18. CASE ForceSet(w)
    BY <2>18 DEF ForceSet
  <2>19. CASE ForcePublish(w)
    BY <2>19 DEF ForcePublish
  <2>20. CASE ForceAvail(w)
    BY <2>20 DEF ForceAvail, Done
  <2> QED
    BY <1>4, <2>1, <2>2, <2>3, <2>4, <2>5, <2>6, <2>7, <2>8, <2>9, <2>10,
       <2>11, <2>12, <2>13, <2>14, <2>15, <2>16, <2>17, <2>18,
       <2>19, <2>20 DEF Worker
<1>5. CASE UNCHANGED vars
  BY <1>1, <1>5 DEF vars, poolVars, mainVars, histVars
<1> QED
  BY <1>2, <1>3, <1>4, <1>5 DEF Next

\* A power cycle that is over has not left its port disabled, unless a SET was
\* reported as failed or the daemon is being stopped (L316-L380).
THEOREM CycleRestoresHolds == Spec => []CycleRestores
<1>1. Init => CutInv
  BY DEF Init, CutInv
<1>2. LatchInv /\ CutInv => CycleRestores
  BY DEF LatchInv, CutInv, CycleRestores, Cutting, Holding, WorkerPc
<1> QED
  BY <1>1, <1>2, CutStep, LatchCorrect, TypeCorrect, PTL DEF Spec

-------------------------------------------------------------------------------

\* A step of a worker that neither enters nor leaves a handler's body, as a step
\* of the abstract latches.
LEMMA LatchStutter ==
  ASSUME UNCHANGED busy,
         \A v \in Workers : /\ pc'[v] \in Holding <=> pc[v] \in Holding
                            /\ pc[v] \in Holding => job'[v] = job[v],
         NEW p \in Ports
  PROVE  UNCHANGED << busy[p], HoldersOf(p) >>
<1>1. \A v \in Workers : v \in HoldersOf(p)' <=> v \in HoldersOf(p)
  <2> TAKE v \in Workers
  <2>1. CASE pc[v] \in Holding
    BY <2>1 DEF HoldersOf
  <2>2. CASE pc[v] \notin Holding
    BY <2>2 DEF HoldersOf
  <2> QED
    BY <2>1, <2>2
<1>2. HoldersOf(p) \subseteq Workers /\ HoldersOf(p)' \subseteq Workers
  BY DEF HoldersOf
<1>3. HoldersOf(p)' = HoldersOf(p)
  BY <1>1, <1>2
<1> QED
  BY <1>3

LEMMA LatchReset ==
  ASSUME Forget, NEW p \in Ports PROVE Latch(p)!Next
<1>1. HoldersOf(p)' = {}
  BY DEF Forget, HoldersOf, Holding
<1>2. busy'[p] = FALSE
  BY DEF Forget
<1> QED
  BY <1>1, <1>2 DEF Latch!Next, Latch!Reset

\* A worker's step is a step of its port's latch or leaves it as it is, and
\* leaves the other ports' latches as they are.
LEMMA LatchWorker ==
  ASSUME TypeOK, JobInv, LatchInv, NEW w \in Workers, Worker(w), NEW p \in Ports
  PROVE  [Latch(p)!Next]_<< busy[p], HoldersOf(p) >>
<1> USE DEF TypeOK, LatchInv, Goto, Port
<1>1. CASE Claim(w)
  <2>0. pc[w] = "claim" /\ job[w].port \in Ports
    BY <1>1, PortType DEF Claim
  <2>1. CASE busy[job[w].port] \/ p # job[w].port
    <3>1. HoldersOf(p)' = HoldersOf(p)
      BY <1>1, <2>0, <2>1 DEF Claim, Done, HoldersOf, Holding
    <3>2. busy'[p] = busy[p]
      BY <1>1, <2>0, <2>1 DEF Claim
    <3> QED
      BY <3>1, <3>2
  <2>2. CASE ~busy[job[w].port] /\ p = job[w].port
    <3>1. HoldersOf(p) = {}
      BY <2>2 DEF HoldersOf
    <3>2. HoldersOf(p)' = {w}
      <4>1. \A v \in Workers \ {w} : pc'[v] = pc[v] /\ job'[v] = job[v]
        BY <1>1, <2>2 DEF Claim
      <4>2. pc'[w] \in Holding /\ job'[w] = job[w]
        BY <1>1, <2>2 DEF Claim, Holding, WorkerPc
      <4> QED
        BY <2>2, <3>1, <4>1, <4>2 DEF HoldersOf
    <3>3. busy[p] = FALSE /\ busy'[p] = TRUE
      BY <1>1, <2>0, <2>2 DEF Claim
    <3> QED
      BY <3>1, <3>2, <3>3 DEF Latch!Next, Latch!Acquire
  <2> QED
    BY <2>1, <2>2
<1>2. CASE Release(w)
  <2>0. pc[w] = "release" /\ pc[w] \in Holding /\ job[w].port \in Ports
    BY <1>2, PortType DEF Release, Holding, WorkerPc
  <2>1. CASE p = job[w].port
    <3>1. HoldersOf(p) = {w}
      BY <2>0, <2>1 DEF HoldersOf
    <3>2. HoldersOf(p)' = {}
      BY <1>2, <2>0, <2>1, <3>1 DEF Release, Done, HoldersOf, Holding
    <3>3. busy'[p] = FALSE
      BY <1>2, <2>0, <2>1 DEF Release
    <3> QED
      BY <3>1, <3>2, <3>3 DEF Latch!Next, Latch!Release
  <2>2. CASE p # job[w].port
    <3>1. HoldersOf(p)' = HoldersOf(p)
      BY <1>2, <2>0, <2>2 DEF Release, Done, HoldersOf, Holding
    <3>2. busy'[p] = busy[p]
      BY <1>2, <2>0, <2>2 DEF Release
    <3> QED
      BY <3>1, <3>2
  <2> QED
    BY <2>1, <2>2

<1>3. CASE Take(w)
  BY <1>3, LatchStutter DEF Take, Holding, WorkerPc, memVars
<1>4. CASE Toggle(w)
  BY <1>4, LatchStutter DEF Toggle, SetAdmin, Holding, WorkerPc, memVars
<1>5. CASE Disable(w)
  BY <1>5, LatchStutter DEF Disable, SetAdmin, Holding, WorkerPc, memVars
<1>6. CASE Enable(w)
  BY <1>6, LatchStutter DEF Enable, SetAdmin, Holding, WorkerPc, memVars
<1>7. CASE Read(w, "pre_read", "pre_apply")
  BY <1>7, LatchStutter DEF Read, Holding, WorkerPc, memVars
<1>8. CASE PreApply(w)
  BY <1>8, LatchStutter DEF PreApply, Write, Holding, WorkerPc, memVars
<1>9. CASE Read(w, "off_read", "off_apply")
  BY <1>9, LatchStutter DEF Read, Holding, WorkerPc, memVars
<1>10. CASE OffApply(w)
  BY <1>10, LatchStutter DEF OffApply, Write, Holding, WorkerPc, memVars
<1>11. CASE OffWait(w)
  BY <1>11, LatchStutter DEF OffWait, Holding, WorkerPc, memVars
<1>12. CASE Read(w, "on_read", "on_apply")
  BY <1>12, LatchStutter DEF Read, Holding, WorkerPc, memVars
<1>13. CASE OnApply(w)
  BY <1>13, LatchStutter DEF OnApply, Write, Holding, WorkerPc, memVars
<1>14. CASE OnWait(w)
  BY <1>14, LatchStutter DEF OnWait, Holding, WorkerPc, memVars
<1>15. CASE Read(w, "fin_read", "fin_apply")
  BY <1>15, LatchStutter DEF Read, Holding, WorkerPc, memVars
<1>16. CASE FinApply(w)
  BY <1>16, LatchStutter DEF FinApply, Write, Holding, WorkerPc, memVars
<1>17. CASE FinPublish(w)
  BY <1>17, LatchStutter DEF FinPublish, Holding, WorkerPc, memVars
<1>18. CASE ForceSet(w)
  BY <1>18, LatchStutter DEF ForceSet, Holding, WorkerPc, memVars
<1>19. CASE ForcePublish(w)
  BY <1>19, LatchStutter DEF ForcePublish, Holding, WorkerPc, memVars
<1>20. CASE ForceAvail(w)
  BY <1>20, LatchStutter DEF ForceAvail, Done, Holding, WorkerPc, memVars
<1> QED
  BY <1>1, <1>2, <1>3, <1>4, <1>5, <1>6, <1>7, <1>8, <1>9, <1>10,
     <1>11, <1>12, <1>13, <1>14, <1>15, <1>16, <1>17, <1>18,
     <1>19, <1>20 DEF Worker

\* Each port's busy flag is a latch: at most one worker toggles or cycles a port,
\* from the check-and-set to the finally that clears the flag, and a command
\* meanwhile is refused (L255-L282, L301-L380).
THEOREM ImplementsLatch == Spec => LatchSpec
<1>1. Init => \A p \in Ports : Latch(p)!Init
  <2> SUFFICES ASSUME Init, NEW p \in Ports PROVE Latch(p)!Init
    OBVIOUS
  <2>1. busy[p] = FALSE
    BY DEF Init
  <2>2. HoldersOf(p) = {}
    BY DEF Init, HoldersOf, Holding
  <2> QED
    BY <2>1, <2>2 DEF Latch!Init
<1>2. TypeOK /\ JobInv /\ LatchInv /\ [Next]_vars =>
        [\A p \in Ports : [Latch(p)!Next]_<< busy[p], HoldersOf(p) >>]_vars
  <2> SUFFICES ASSUME TypeOK, JobInv, LatchInv, Next, NEW p \in Ports
               PROVE  [Latch(p)!Next]_<< busy[p], HoldersOf(p) >>
    OBVIOUS
  <2>1. CASE MainThread
    <3>1. CASE Exit
      BY <3>1, LatchReset DEF Exit
    <3>2. CASE ~Exit
      BY <2>1, <3>2, LatchStutter DEF MainThread, SubscribeForce, UnsubscribeForce, Walk,
         Apply, Publish, NextPoll, Close, poolVars, memVars
    <3> QED
      BY <3>1, <3>2
  <2>2. CASE Environment
    <3>1. CASE Crash
      BY <3>1, LatchReset DEF Crash
    <3>2. CASE ~Crash
      BY <2>2, <3>2, LatchStutter DEF Environment, Start, Signal, Connect, LinkDown,
         Deliver, ReadForce, DeviceFound, SwitchChanges, poolVars, memVars
    <3> QED
      BY <3>1, <3>2
  <2>3. ASSUME NEW w \in Workers, Worker(w)
        PROVE  [Latch(p)!Next]_<< busy[p], HoldersOf(p) >>
    BY <2>3, LatchWorker
  <2> QED
    BY <2>1, <2>2, <2>3 DEF Next
<1> QED
  BY <1>1, <1>2, TypeCorrect, LatchCorrect, PTL DEF Spec, LatchSpec

===============================================================================
