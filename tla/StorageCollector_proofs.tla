------------------------ MODULE StorageCollector_proofs ------------------------
(***************************************************************************)
(* Proofs about StorageCollector, for any number of hosts, drives, suffixes*)
(* and device infos.                                                       *)
(***************************************************************************)
EXTENDS StorageCollector, TLAPS

\* Every drive shown online is backed by a daemon that will take it down, unless
\* its last offline was lost.
BackInv ==
  \A d \in Drives :
    status[d] = "online" /\ d \notin orphans => \E h \in Hosts : d \in Backs(h)

\* A daemon shown connected has a connection, or a --once run has left it so; and
\* one about to disconnect has taken it down.
ConnInv ==
  \A h \in Hosts :
    /\ main[h] = "down" => ~link[h]
    /\ conn[h] = "online" => link[h] \/ h \in left
    /\ main[h] = "leaving" /\ ~once[h] /\ conn[h] = "online" => h \in left

USE StorageAssumption DEF StorageAssumption

-------------------------------------------------------------------------------

\* A daemon backs drives it has on record.
LEMMA BacksRecorded == \A h \in Hosts : Backs(h) \subseteq Drives
BY DEF Backs, Recorded

\* Every step preserves the types.
LEMMA TypeStep ==
  ASSUME TypeOK, [Next]_vars PROVE TypeOK'
<1> USE DEF TypeOK, MainPc, Readings, Recorded, Nothing, worldVars, procVars, driveVars,
            histVars, bounds
<1>1. ASSUME NEW h \in Hosts, Start(h) PROVE TypeOK'
  <2>1. starts' \in Nat /\ mishaps' \in Nat
    BY <1>1 DEF Start, Goto
  <2> QED
    BY <1>1, <2>1 DEF Start, Goto
<1>2. ASSUME NEW h \in Hosts, Collect(h) PROVE TypeOK'
  BY <1>2 DEF Collect, Goto
<1>3. ASSUME NEW h \in Hosts, CollectFails(h) PROVE TypeOK'
  <2>1. mishaps' \in Nat
    BY <1>3 DEF CollectFails, Goto
  <2> QED
    BY <1>3, <2>1 DEF CollectFails, Goto
<1>4. ASSUME NEW h \in Hosts, NEW d \in Drives, Announce(h, d) PROVE TypeOK'
  <2> DEFINE new == got[h][d].has \ Done(h, d)
             entry == [info |-> got[h][d].info, has |-> Done(h, d) \cup new]
  <2>1. got[h][d] \in Readings /\ d \in Drives
    BY <1>4 DEF Announce, Goto
  <2>2. entry \in Readings /\ entry # Absent
    BY <2>1 DEF Done, Known
  <2>3. record' \in [Hosts -> [Drives -> Readings \cup {Absent}]]
    BY <1>4, <2>2 DEF Announce
  <2>4. lost' \in [Hosts -> [Drives -> SUBSET Suffixes]]
    <3>1. CASE link[h]
      <4>1. lost' = [x \in Hosts |-> [lost[x] EXCEPT ![d] =
                      IF x = h THEN @ \ new
                      ELSE IF record[x][d] # Absent THEN @ \cup new ELSE @]]
        BY <1>4, <3>1 DEF Announce
      <4>2. new \subseteq Suffixes
        BY <2>1
      <4> HIDE DEF new
      <4> QED
        BY <4>1, <4>2
    <3>2. CASE ~link[h]
      <4>1. lost' = [lost EXCEPT ![h][d] = @ \cup new]
        BY <1>4, <3>2 DEF Announce
      <4>2. new \subseteq Suffixes
        BY <2>1
      <4> HIDE DEF new
      <4> QED
        BY <4>1, <4>2
    <3> QED
      BY <3>1, <3>2
  <2>5. config' \in [Drives -> [Suffixes -> Hosts \cup {NoHost}]]
    <3>1. CASE link[h]
      <4>1. config' = [config EXCEPT ![d] = [s \in Suffixes |-> IF s \in new THEN h ELSE @[s]]]
        BY <1>4, <3>1 DEF Announce
      <4> HIDE DEF new
      <4> QED
        BY <4>1
    <3>2. CASE ~link[h]
      BY <1>4, <3>2 DEF Announce
    <3> QED
      BY <3>1, <3>2
  <2>6. \A g \in Hosts : main'[g] \in {"state", "online"} => cur'[g] \in Recorded(g)'
    BY <1>4, <2>2 DEF Announce, Goto
  <2> HIDE DEF new, entry
  <2> QED
    BY <1>4, <2>3, <2>4, <2>5, <2>6 DEF Announce, Goto
<1>5. ASSUME NEW h \in Hosts, PublishState(h) PROVE TypeOK'
  BY <1>5 DEF PublishState, StateOf, Goto
<1>6. ASSUME NEW h \in Hosts, PublishOnline(h) PROVE TypeOK'
  BY <1>6 DEF PublishOnline, PublishStatus, Goto
<1>7. ASSUME NEW h \in Hosts, ListGone(h) PROVE TypeOK'
  BY <1>7 DEF ListGone, Goto
<1>8. ASSUME NEW h \in Hosts, NEW d \in Drives, Gone(h, d) PROVE TypeOK'
  BY <1>8 DEF Gone, PublishStatus, Settled
<1>9. ASSUME NEW h \in Hosts, Heartbeat(h) PROVE TypeOK'
  BY <1>9 DEF Heartbeat, PublishConn, Goto
<1>10. ASSUME NEW h \in Hosts, NextPoll(h) PROVE TypeOK'
  BY <1>10 DEF NextPoll, Goto
<1>11. ASSUME NEW h \in Hosts, Signal(h) PROVE TypeOK'
  BY <1>11 DEF Signal
<1>12. ASSUME NEW h \in Hosts, LoopEnds(h) PROVE TypeOK'
  BY <1>12 DEF LoopEnds, Goto
<1>13. ASSUME NEW h \in Hosts, NEW d \in Drives, CloseDrive(h, d) PROVE TypeOK'
  BY <1>13 DEF CloseDrive, PublishStatus, Settled
<1>14. ASSUME NEW h \in Hosts, CloseConn(h) PROVE TypeOK'
  BY <1>14 DEF CloseConn, PublishConn, Goto
<1>15. ASSUME NEW h \in Hosts, Leave(h) PROVE TypeOK'
  BY <1>15, BacksRecorded DEF Leave, Forget
<1>16. ASSUME NEW h \in Hosts, Crash(h) PROVE TypeOK'
  <2>1. mishaps' \in Nat
    BY <1>16 DEF Crash, Forget, PublishConn
  <2> QED
    BY <1>16, <2>1, BacksRecorded DEF Crash, Forget, PublishConn
<1>17. ASSUME NEW h \in Hosts, Connect(h) PROVE TypeOK'
  BY <1>17 DEF Connect
<1>18. ASSUME NEW h \in Hosts, LinkDown(h) PROVE TypeOK'
  <2>1. mishaps' \in Nat
    BY <1>18 DEF LinkDown, PublishConn
  <2> QED
    BY <1>18, <2>1 DEF LinkDown, PublishConn
<1>19. ASSUME NEW d \in Drives, DriveChanges(d) PROVE TypeOK'
  <2>1. changes' \in Nat
    BY <1>19 DEF DriveChanges
  <2>2. at' \in [Drives -> Hosts]
    <3>1. CASE UNCHANGED at
      BY <3>1
    <3>2. CASE \E h \in Hosts \ {at[d]} : at' = [at EXCEPT ![d] = h]
      BY <3>2
    <3> QED
      BY <1>19, <3>1, <3>2 DEF DriveChanges
  <2>3. reading' \in [Drives -> Readings]
    <3>1. CASE UNCHANGED reading
      BY <3>1
    <3>2. CASE \E r \in Readings \ {reading[d]} : reading' = [reading EXCEPT ![d] = r]
      BY <3>2
    <3> QED
      BY <1>19, <3>1, <3>2 DEF DriveChanges
  <2> QED
    BY <1>19, <2>1, <2>2, <2>3 DEF DriveChanges
<1>20. CASE UNCHANGED vars
  BY <1>20 DEF vars
<1> QED
  BY <1>1, <1>2, <1>3, <1>4, <1>5, <1>6, <1>7, <1>8, <1>9, <1>10,
     <1>11, <1>12, <1>13, <1>14, <1>15, <1>16, <1>17, <1>18, <1>19, <1>20
     DEF Next, MainThread, Environment

\* The type invariant holds in every reachable state (storage/collector.py
\* L312-L380).
THEOREM TypeCorrect == Spec => []TypeOK
<1>1. Init => TypeOK
  BY DEF Init, TypeOK, MainPc, Readings, Recorded, Nothing
<1> QED
  BY <1>1, TypeStep, PTL DEF Spec

-------------------------------------------------------------------------------

\* A step of h that lets go of the drives in L keeps the others backed.
LEMMA Backing ==
  ASSUME BackInv, NEW h \in Hosts, NEW L,
         \A g \in Hosts \ {h} : Backs(g) \subseteq Backs(g)',
         Backs(h) \ L \subseteq Backs(h)',
         \A e \in Drives : status'[e] = "online" /\ e \notin orphans' =>
           e \in Backs(h)' \/ (status[e] = "online" /\ e \notin orphans /\ e \notin L)
  PROVE  BackInv'
BY DEF BackInv

\* Every step keeps the drives shown online backed.
LEMMA BackStep ==
  ASSUME TypeOK, BackInv, [Next]_vars PROVE BackInv'
<1> USE DEF TypeOK, Recorded, Nothing, worldVars, procVars, driveVars, histVars,
            bounds
<1>1. ASSUME NEW h \in Hosts, Start(h) PROVE BackInv'
  <2>1. \A g \in Hosts \ {h} : Backs(g) \subseteq Backs(g)'
    BY <1>1 DEF Start, Goto, Backs
  <2>2. Backs(h) \ {} \subseteq Backs(h)'
    BY <1>1 DEF Start, Goto, Backs
  <2>3. \A e \in Drives : status'[e] = "online" /\ e \notin orphans' =>
          e \in Backs(h)' \/ (status[e] = "online" /\ e \notin orphans /\ e \notin {})
    BY <1>1 DEF Start, Goto
  <2> QED
    BY <2>1, <2>2, <2>3, Backing
<1>2. ASSUME NEW h \in Hosts, Collect(h) PROVE BackInv'
  <2>1. \A g \in Hosts \ {h} : Backs(g) \subseteq Backs(g)'
    BY <1>2 DEF Collect, Goto, Backs
  <2>2. Backs(h) \ {} \subseteq Backs(h)'
    BY <1>2 DEF Collect, Goto, Backs
  <2>3. \A e \in Drives : status'[e] = "online" /\ e \notin orphans' =>
          e \in Backs(h)' \/ (status[e] = "online" /\ e \notin orphans /\ e \notin {})
    BY <1>2 DEF Collect, Goto
  <2> QED
    BY <2>1, <2>2, <2>3, Backing
<1>3. ASSUME NEW h \in Hosts, CollectFails(h) PROVE BackInv'
  <2>1. \A g \in Hosts \ {h} : Backs(g) \subseteq Backs(g)'
    BY <1>3 DEF CollectFails, Goto, Backs
  <2>2. Backs(h) \ {} \subseteq Backs(h)'
    BY <1>3 DEF CollectFails, Goto, Backs
  <2>3. \A e \in Drives : status'[e] = "online" /\ e \notin orphans' =>
          e \in Backs(h)' \/ (status[e] = "online" /\ e \notin orphans /\ e \notin {})
    BY <1>3 DEF CollectFails, Goto
  <2> QED
    BY <2>1, <2>2, <2>3, Backing
<1>4. ASSUME NEW h \in Hosts, NEW d \in Drives, Announce(h, d) PROVE BackInv'
  <2>1. \A g \in Hosts \ {h} : Backs(g) \subseteq Backs(g)'
    <3>1. \A g \in Hosts \ {h} : record'[g] = record[g] /\ main'[g] = main[g]
      BY <1>4 DEF Announce, Goto
    <3> QED
      BY <1>4, <3>1 DEF Announce, Backs
  <2>2. Backs(h) \ {} \subseteq Backs(h)'
    <3>1. \A e \in Drives : record[h][e] # Absent => record'[h][e] # Absent
      <4> DEFINE entry == [info |-> got[h][d].info,
                           has |-> Done(h, d) \cup (got[h][d].has \ Done(h, d))]
      <4>1. got[h][d] \in Readings
        BY <1>4 DEF Announce, Goto
      <4>2. Done(h, d) \subseteq Suffixes
        BY <4>1 DEF Done, Known, Readings
      <4>3. entry # Absent
        BY <4>1, <4>2 DEF Readings
      <4>4. record' = [record EXCEPT ![h][d] = entry]
        BY <1>4 DEF Announce
      <4> HIDE DEF entry
      <4> QED
        BY <4>3, <4>4
    <3>2. main[h] = "announce" /\ main'[h] = "state"
      BY <1>4 DEF Announce, Goto
    <3> QED
      BY <3>1, <3>2 DEF Backs
  <2>3. \A e \in Drives : status'[e] = "online" /\ e \notin orphans' =>
          e \in Backs(h)' \/ (status[e] = "online" /\ e \notin orphans /\ e \notin {})
    BY <1>4 DEF Announce, Known, Done, Goto
  <2> QED
    BY <2>1, <2>2, <2>3, Backing
<1>5. ASSUME NEW h \in Hosts, PublishState(h) PROVE BackInv'
  <2>1. \A g \in Hosts \ {h} : Backs(g) \subseteq Backs(g)'
    BY <1>5 DEF PublishState, StateOf, Goto, Backs
  <2>2. Backs(h) \ {} \subseteq Backs(h)'
    BY <1>5 DEF PublishState, StateOf, Goto, Backs
  <2>3. \A e \in Drives : status'[e] = "online" /\ e \notin orphans' =>
          e \in Backs(h)' \/ (status[e] = "online" /\ e \notin orphans /\ e \notin {})
    BY <1>5 DEF PublishState, StateOf, Goto
  <2> QED
    BY <2>1, <2>2, <2>3, Backing
<1>6. ASSUME NEW h \in Hosts, PublishOnline(h) PROVE BackInv'
  <2>1. \A g \in Hosts \ {h} : Backs(g) \subseteq Backs(g)'
    BY <1>6 DEF PublishOnline, PublishStatus, Goto, Backs
  <2>2. Backs(h) \ {} \subseteq Backs(h)'
    BY <1>6 DEF PublishOnline, PublishStatus, Goto, Backs
  <2>3. \A e \in Drives : status'[e] = "online" /\ e \notin orphans' =>
          e \in Backs(h)' \/ (status[e] = "online" /\ e \notin orphans /\ e \notin {})
    BY <1>6 DEF PublishOnline, PublishStatus, Goto, Backs
  <2> QED
    BY <2>1, <2>2, <2>3, Backing
<1>7. ASSUME NEW h \in Hosts, ListGone(h) PROVE BackInv'
  <2>1. \A g \in Hosts \ {h} : Backs(g) \subseteq Backs(g)'
    BY <1>7 DEF ListGone, Goto, Backs
  <2>2. Backs(h) \ {} \subseteq Backs(h)'
    BY <1>7 DEF ListGone, Goto, Backs
  <2>3. \A e \in Drives : status'[e] = "online" /\ e \notin orphans' =>
          e \in Backs(h)' \/ (status[e] = "online" /\ e \notin orphans /\ e \notin {})
    BY <1>7 DEF ListGone, Goto
  <2> QED
    BY <2>1, <2>2, <2>3, Backing
<1>8. ASSUME NEW h \in Hosts, NEW d \in Drives, Gone(h, d) PROVE BackInv'
  <2>1. \A g \in Hosts \ {h} : Backs(g) \subseteq Backs(g)'
    BY <1>8 DEF Gone, PublishStatus, Settled, Backs
  <2>2. Backs(h) \ {d} \subseteq Backs(h)'
    BY <1>8 DEF Gone, PublishStatus, Settled, Backs
  <2>3. \A e \in Drives : status'[e] = "online" /\ e \notin orphans' =>
          e \in Backs(h)' \/ (status[e] = "online" /\ e \notin orphans /\ e \notin {d})
    BY <1>8 DEF Gone, PublishStatus, Settled
  <2> QED
    BY <2>1, <2>2, <2>3, Backing
<1>9. ASSUME NEW h \in Hosts, Heartbeat(h) PROVE BackInv'
  <2>1. \A g \in Hosts \ {h} : Backs(g) \subseteq Backs(g)'
    BY <1>9 DEF Heartbeat, PublishConn, Goto, Backs
  <2>2. Backs(h) \ {} \subseteq Backs(h)'
    BY <1>9 DEF Heartbeat, PublishConn, Goto, Backs
  <2>3. \A e \in Drives : status'[e] = "online" /\ e \notin orphans' =>
          e \in Backs(h)' \/ (status[e] = "online" /\ e \notin orphans /\ e \notin {})
    BY <1>9 DEF Heartbeat, PublishConn, Goto
  <2> QED
    BY <2>1, <2>2, <2>3, Backing
<1>10. ASSUME NEW h \in Hosts, NextPoll(h) PROVE BackInv'
  <2>1. \A g \in Hosts \ {h} : Backs(g) \subseteq Backs(g)'
    BY <1>10 DEF NextPoll, Goto, Backs
  <2>2. Backs(h) \ {} \subseteq Backs(h)'
    BY <1>10 DEF NextPoll, Goto, Backs
  <2>3. \A e \in Drives : status'[e] = "online" /\ e \notin orphans' =>
          e \in Backs(h)' \/ (status[e] = "online" /\ e \notin orphans /\ e \notin {})
    BY <1>10 DEF NextPoll, Goto
  <2> QED
    BY <2>1, <2>2, <2>3, Backing
<1>11. ASSUME NEW h \in Hosts, Signal(h) PROVE BackInv'
  <2>1. \A g \in Hosts \ {h} : Backs(g) \subseteq Backs(g)'
    BY <1>11 DEF Signal, Backs
  <2>2. Backs(h) \ {} \subseteq Backs(h)'
    BY <1>11 DEF Signal, Backs
  <2>3. \A e \in Drives : status'[e] = "online" /\ e \notin orphans' =>
          e \in Backs(h)' \/ (status[e] = "online" /\ e \notin orphans /\ e \notin {})
    BY <1>11 DEF Signal
  <2> QED
    BY <2>1, <2>2, <2>3, Backing
<1>12. ASSUME NEW h \in Hosts, LoopEnds(h) PROVE BackInv'
  <2>1. \A g \in Hosts \ {h} : Backs(g) \subseteq Backs(g)'
    BY <1>12 DEF LoopEnds, Goto, Backs
  <2>2. Backs(h) \ {} \subseteq Backs(h)'
    BY <1>12 DEF LoopEnds, Goto, Backs
  <2>3. \A e \in Drives : status'[e] = "online" /\ e \notin orphans' =>
          e \in Backs(h)' \/ (status[e] = "online" /\ e \notin orphans /\ e \notin {})
    BY <1>12 DEF LoopEnds, Goto
  <2> QED
    BY <2>1, <2>2, <2>3, Backing
<1>13. ASSUME NEW h \in Hosts, NEW d \in Drives, CloseDrive(h, d) PROVE BackInv'
  <2>1. \A g \in Hosts \ {h} : Backs(g) \subseteq Backs(g)'
    BY <1>13 DEF CloseDrive, PublishStatus, Settled, Backs
  <2>2. Backs(h) \ {d} \subseteq Backs(h)'
    BY <1>13 DEF CloseDrive, PublishStatus, Settled, Backs
  <2>3. \A e \in Drives : status'[e] = "online" /\ e \notin orphans' =>
          e \in Backs(h)' \/ (status[e] = "online" /\ e \notin orphans /\ e \notin {d})
    BY <1>13 DEF CloseDrive, PublishStatus, Settled
  <2> QED
    BY <2>1, <2>2, <2>3, Backing
<1>14. ASSUME NEW h \in Hosts, CloseConn(h) PROVE BackInv'
  <2>1. \A g \in Hosts \ {h} : Backs(g) \subseteq Backs(g)'
    BY <1>14 DEF CloseConn, PublishConn, Goto, Backs
  <2>2. Backs(h) \ {} \subseteq Backs(h)'
    BY <1>14 DEF CloseConn, PublishConn, Goto, Backs
  <2>3. \A e \in Drives : status'[e] = "online" /\ e \notin orphans' =>
          e \in Backs(h)' \/ (status[e] = "online" /\ e \notin orphans /\ e \notin {})
    BY <1>14 DEF CloseConn, PublishConn, Goto
  <2> QED
    BY <2>1, <2>2, <2>3, Backing
<1>15. ASSUME NEW h \in Hosts, Leave(h) PROVE BackInv'
  <2>1. \A g \in Hosts \ {h} : Backs(g) \subseteq Backs(g)'
    BY <1>15 DEF Leave, Forget, Backs
  <2>2. Backs(h) \ Backs(h) \subseteq Backs(h)'
    BY <1>15 DEF Leave, Forget, Backs
  <2>3. \A e \in Drives : status'[e] = "online" /\ e \notin orphans' =>
          e \in Backs(h)' \/ (status[e] = "online" /\ e \notin orphans /\ e \notin Backs(h))
    BY <1>15, BacksRecorded DEF Leave, Forget
  <2> QED
    BY <2>1, <2>2, <2>3, Backing
<1>16. ASSUME NEW h \in Hosts, Crash(h) PROVE BackInv'
  <2>1. \A g \in Hosts \ {h} : Backs(g) \subseteq Backs(g)'
    BY <1>16 DEF Crash, Forget, PublishConn, Backs
  <2>2. Backs(h) \ Backs(h) \subseteq Backs(h)'
    BY <1>16 DEF Crash, Forget, PublishConn, Backs
  <2>3. \A e \in Drives : status'[e] = "online" /\ e \notin orphans' =>
          e \in Backs(h)' \/ (status[e] = "online" /\ e \notin orphans /\ e \notin Backs(h))
    BY <1>16, BacksRecorded DEF Crash, Forget, PublishConn
  <2> QED
    BY <2>1, <2>2, <2>3, Backing
<1>17. ASSUME NEW h \in Hosts, Connect(h) PROVE BackInv'
  <2>1. \A g \in Hosts \ {h} : Backs(g) \subseteq Backs(g)'
    BY <1>17 DEF Connect, Backs
  <2>2. Backs(h) \ {} \subseteq Backs(h)'
    BY <1>17 DEF Connect, Backs
  <2>3. \A e \in Drives : status'[e] = "online" /\ e \notin orphans' =>
          e \in Backs(h)' \/ (status[e] = "online" /\ e \notin orphans /\ e \notin {})
    BY <1>17 DEF Connect
  <2> QED
    BY <2>1, <2>2, <2>3, Backing
<1>18. ASSUME NEW h \in Hosts, LinkDown(h) PROVE BackInv'
  <2>1. \A g \in Hosts \ {h} : Backs(g) \subseteq Backs(g)'
    BY <1>18 DEF LinkDown, PublishConn, Backs
  <2>2. Backs(h) \ {} \subseteq Backs(h)'
    BY <1>18 DEF LinkDown, PublishConn, Backs
  <2>3. \A e \in Drives : status'[e] = "online" /\ e \notin orphans' =>
          e \in Backs(h)' \/ (status[e] = "online" /\ e \notin orphans /\ e \notin {})
    BY <1>18 DEF LinkDown, PublishConn
  <2> QED
    BY <2>1, <2>2, <2>3, Backing
<1>19. ASSUME NEW d \in Drives, DriveChanges(d) PROVE BackInv'
  <2>1. \A g \in Hosts : Backs(g)' = Backs(g)
    BY <1>19 DEF DriveChanges, Backs
  <2> QED
    BY <1>19, <2>1 DEF DriveChanges, BackInv
<1>20. CASE UNCHANGED vars
  BY <1>20 DEF vars, BackInv, Backs
<1> QED
  BY <1>1, <1>2, <1>3, <1>4, <1>5, <1>6, <1>7, <1>8, <1>9, <1>10,
     <1>11, <1>12, <1>13, <1>14, <1>15, <1>16, <1>17, <1>18, <1>19, <1>20
     DEF Next, MainThread, Environment

\* A drive shown online is answered for by a running daemon that has it on record,
\* unless the last to answer for it died or lost its offline (L337-L344, L373-L378).
THEOREM OnlineIsBackedHolds == Spec => []OnlineIsBacked
<1>1. Init => BackInv
  BY DEF Init, BackInv
<1>2. TypeOK /\ BackInv => OnlineIsBacked
  BY DEF TypeOK, BackInv, OnlineIsBacked, Backs
<1> QED
  BY <1>1, <1>2, BackStep, TypeCorrect, PTL DEF Spec

-------------------------------------------------------------------------------

\* Every step keeps the connection statuses in order.
LEMMA ConnStep ==
  ASSUME TypeOK, ConnInv, [Next]_vars PROVE ConnInv'
<1> USE DEF TypeOK, ConnInv, worldVars, procVars, driveVars, histVars, bounds
<1>1. ASSUME NEW h \in Hosts, Start(h) PROVE ConnInv'
  BY <1>1 DEF Start, Goto
<1>2. ASSUME NEW h \in Hosts, Collect(h) PROVE ConnInv'
  BY <1>2 DEF Collect, Goto
<1>3. ASSUME NEW h \in Hosts, CollectFails(h) PROVE ConnInv'
  BY <1>3 DEF CollectFails, Goto
<1>4. ASSUME NEW h \in Hosts, NEW d \in Drives, Announce(h, d) PROVE ConnInv'
  BY <1>4 DEF Announce, Known, Done, Goto
<1>5. ASSUME NEW h \in Hosts, PublishState(h) PROVE ConnInv'
  BY <1>5 DEF PublishState, StateOf, Goto
<1>6. ASSUME NEW h \in Hosts, PublishOnline(h) PROVE ConnInv'
  BY <1>6 DEF PublishOnline, PublishStatus, Goto
<1>7. ASSUME NEW h \in Hosts, ListGone(h) PROVE ConnInv'
  BY <1>7 DEF ListGone, Goto
<1>8. ASSUME NEW h \in Hosts, NEW d \in Drives, Gone(h, d) PROVE ConnInv'
  BY <1>8 DEF Gone, PublishStatus, Settled
<1>9. ASSUME NEW h \in Hosts, Heartbeat(h) PROVE ConnInv'
  BY <1>9 DEF Heartbeat, PublishConn, Goto
<1>10. ASSUME NEW h \in Hosts, NextPoll(h) PROVE ConnInv'
  BY <1>10 DEF NextPoll, Goto
<1>11. ASSUME NEW h \in Hosts, Signal(h) PROVE ConnInv'
  BY <1>11 DEF Signal
<1>12. ASSUME NEW h \in Hosts, LoopEnds(h) PROVE ConnInv'
  BY <1>12 DEF LoopEnds, Goto
<1>13. ASSUME NEW h \in Hosts, NEW d \in Drives, CloseDrive(h, d) PROVE ConnInv'
  BY <1>13 DEF CloseDrive, PublishStatus, Settled
<1>14. ASSUME NEW h \in Hosts, CloseConn(h) PROVE ConnInv'
  BY <1>14 DEF CloseConn, PublishConn, Goto
<1>15. ASSUME NEW h \in Hosts, Leave(h) PROVE ConnInv'
  BY <1>15 DEF Leave, Forget
<1>16. ASSUME NEW h \in Hosts, Crash(h) PROVE ConnInv'
  BY <1>16 DEF Crash, Forget, PublishConn
<1>17. ASSUME NEW h \in Hosts, Connect(h) PROVE ConnInv'
  BY <1>17 DEF Connect
<1>18. ASSUME NEW h \in Hosts, LinkDown(h) PROVE ConnInv'
  BY <1>18 DEF LinkDown, PublishConn
<1>19. ASSUME NEW d \in Drives, DriveChanges(d) PROVE ConnInv'
  BY <1>19 DEF DriveChanges
<1>20. CASE UNCHANGED vars
  BY <1>20 DEF vars
<1> QED
  BY <1>1, <1>2, <1>3, <1>4, <1>5, <1>6, <1>7, <1>8, <1>9, <1>10,
     <1>11, <1>12, <1>13, <1>14, <1>15, <1>16, <1>17, <1>18, <1>19, <1>20
     DEF Next, MainThread, Environment

\* A daemon that is gone is not shown connected, but for what a --once run leaves
\* (L373-L378).
THEOREM GoneShowsOfflineHolds == Spec => []GoneShowsOffline
<1>1. Init => ConnInv
  BY DEF Init, ConnInv
<1>2. TypeOK /\ ConnInv => GoneShowsOffline
  BY DEF TypeOK, ConnInv, GoneShowsOffline
<1> QED
  BY <1>1, <1>2, ConnStep, TypeCorrect, PTL DEF Spec

-------------------------------------------------------------------------------

\* Every step keeps the retained discovery the recorder's own.
LEMMA OwnStep ==
  ASSUME TypeOK, OwnDiscovery, [Next]_vars PROVE OwnDiscovery'
<1> USE DEF TypeOK, OwnDiscovery, Recorded, Nothing, worldVars, procVars, driveVars, histVars,
            bounds
<1>1. ASSUME NEW h \in Hosts, Start(h) PROVE OwnDiscovery'
  BY <1>1 DEF Start, Goto
<1>2. ASSUME NEW h \in Hosts, Collect(h) PROVE OwnDiscovery'
  BY <1>2 DEF Collect, Goto
<1>3. ASSUME NEW h \in Hosts, CollectFails(h) PROVE OwnDiscovery'
  BY <1>3 DEF CollectFails, Goto
<1>4. ASSUME NEW h \in Hosts, NEW d \in Drives, Announce(h, d) PROVE OwnDiscovery'
  <2> DEFINE new == got[h][d].has \ Done(h, d)
  <2> SUFFICES ASSUME NEW g \in Hosts, NEW e \in Drives, record'[g][e] # Absent,
                      NEW s \in Suffixes, s \in record'[g][e].has, s \notin lost'[g][e]
               PROVE  config'[e][s] = g
    <3>1. record' \in [Hosts -> [Drives -> Readings \cup {Absent}]]
      BY TypeStep DEF Readings
    <3> QED
      BY <3>1 DEF Readings
  <2>1. new \subseteq Suffixes /\ Done(h, d) \subseteq Suffixes
    BY <1>4 DEF Announce, Goto, Done, Known, Readings
  <2>2. record'[h][d].has = Done(h, d) \cup new
    BY <1>4 DEF Announce
  <2>3. ~(g = h /\ e = d) => record'[g][e] = record[g][e]
    BY <1>4 DEF Announce
  <2>4. CASE link[h]
    <3>1. config'[e][s] = IF e = d /\ s \in new THEN h ELSE config[e][s]
      BY <1>4, <2>4 DEF Announce
    <3>2. lost'[g][e] = IF e # d THEN lost[g][e]
                        ELSE IF g = h THEN lost[g][e] \ new
                        ELSE IF record[g][e] # Absent THEN lost[g][e] \cup new
                        ELSE lost[g][e]
      <4>1. lost' = [x \in Hosts |-> [lost[x] EXCEPT ![d] =
                      IF x = h THEN @ \ new
                      ELSE IF record[x][d] # Absent THEN @ \cup new ELSE @]]
        BY <1>4, <2>4 DEF Announce
      <4> HIDE DEF new
      <4> QED
        BY <4>1
    <3>3. s \in Done(h, d) => record[h][d] # Absent /\ s \in record[h][d].has
      BY DEF Done, Known
    <3> HIDE DEF new
    <3> QED
      BY <2>2, <2>3, <3>1, <3>2, <3>3
  <2>5. CASE ~link[h]
    <3>1. config' = config
      BY <1>4, <2>5 DEF Announce
    <3>2. lost'[g][e] = IF g = h /\ e = d THEN lost[g][e] \cup new ELSE lost[g][e]
      <4>1. lost' = [lost EXCEPT ![h][d] = @ \cup new]
        BY <1>4, <2>5 DEF Announce
      <4> HIDE DEF new
      <4> QED
        BY <4>1
    <3>3. s \in Done(h, d) => record[h][d] # Absent /\ s \in record[h][d].has
      BY DEF Done, Known
    <3> HIDE DEF new
    <3> QED
      BY <2>2, <2>3, <3>1, <3>2, <3>3
  <2> QED
    BY <2>4, <2>5
<1>5. ASSUME NEW h \in Hosts, PublishState(h) PROVE OwnDiscovery'
  BY <1>5 DEF PublishState, StateOf, Goto
<1>6. ASSUME NEW h \in Hosts, PublishOnline(h) PROVE OwnDiscovery'
  BY <1>6 DEF PublishOnline, PublishStatus, Goto
<1>7. ASSUME NEW h \in Hosts, ListGone(h) PROVE OwnDiscovery'
  BY <1>7 DEF ListGone, Goto
<1>8. ASSUME NEW h \in Hosts, NEW d \in Drives, Gone(h, d) PROVE OwnDiscovery'
  BY <1>8 DEF Gone, PublishStatus, Settled
<1>9. ASSUME NEW h \in Hosts, Heartbeat(h) PROVE OwnDiscovery'
  BY <1>9 DEF Heartbeat, PublishConn, Goto
<1>10. ASSUME NEW h \in Hosts, NextPoll(h) PROVE OwnDiscovery'
  BY <1>10 DEF NextPoll, Goto
<1>11. ASSUME NEW h \in Hosts, Signal(h) PROVE OwnDiscovery'
  BY <1>11 DEF Signal
<1>12. ASSUME NEW h \in Hosts, LoopEnds(h) PROVE OwnDiscovery'
  BY <1>12 DEF LoopEnds, Goto
<1>13. ASSUME NEW h \in Hosts, NEW d \in Drives, CloseDrive(h, d) PROVE OwnDiscovery'
  BY <1>13 DEF CloseDrive, PublishStatus, Settled
<1>14. ASSUME NEW h \in Hosts, CloseConn(h) PROVE OwnDiscovery'
  BY <1>14 DEF CloseConn, PublishConn, Goto
<1>15. ASSUME NEW h \in Hosts, Leave(h) PROVE OwnDiscovery'
  BY <1>15 DEF Leave, Forget
<1>16. ASSUME NEW h \in Hosts, Crash(h) PROVE OwnDiscovery'
  BY <1>16 DEF Crash, Forget, PublishConn
<1>17. ASSUME NEW h \in Hosts, Connect(h) PROVE OwnDiscovery'
  BY <1>17 DEF Connect
<1>18. ASSUME NEW h \in Hosts, LinkDown(h) PROVE OwnDiscovery'
  BY <1>18 DEF LinkDown, PublishConn
<1>19. ASSUME NEW d \in Drives, DriveChanges(d) PROVE OwnDiscovery'
  BY <1>19 DEF DriveChanges
<1>20. CASE UNCHANGED vars
  BY <1>20 DEF vars
<1> QED
  BY <1>1, <1>2, <1>3, <1>4, <1>5, <1>6, <1>7, <1>8, <1>9, <1>10,
     <1>11, <1>12, <1>13, <1>14, <1>15, <1>16, <1>17, <1>18, <1>19, <1>20
     DEF Next, MainThread, Environment

\* The retained discovery of a drive on record names the connection of the host
\* that has it, unless it was dropped or another host has announced the drive
\* since (L316-L330).
THEOREM OwnDiscoveryHolds == Spec => []OwnDiscovery
<1>1. Init => OwnDiscovery
  BY DEF Init, OwnDiscovery, Recorded, Nothing
<1> QED
  BY <1>1, OwnStep, TypeCorrect, PTL DEF Spec

===============================================================================
