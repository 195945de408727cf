------------------------- MODULE SwitchStatus_proofs -------------------------
(***************************************************************************)
(* Proofs about SwitchStatus, for any number of collectors and controllers *)
(* that share a switch.                                                    *)
(***************************************************************************)
EXTENDS SwitchStatus, TLAPS

\* Of the daemons that may have put online there, one has yet to take it down,
\* or has died without.
StatusInv ==
  status = "online" =>
    \E d \in Daemons :
      d \in unclean \/ main[d] \notin {"down", "closing_conn", "leaving"}

\* A daemon shown connected has a connection, or had one made too late.
ConnInv ==
  \A d \in Daemons :
    /\ main[d] = "down" => ~link[d]
    /\ conn[d] = "online" => link[d] \/ d \in late
    /\ main[d] = "leaving" /\ conn[d] = "online" => d \in late

USE SwitchAssumption DEF SwitchAssumption, Daemons

-------------------------------------------------------------------------------

\* Every step preserves the types.
LEMMA TypeStep ==
  ASSUME TypeOK, [Next]_vars PROVE TypeOK'
<1> USE DEF TypeOK, MainPc, procVars, histVars, bounds
<1>1. ASSUME NEW d \in Pollers, Poll(d) PROVE TypeOK'
  BY <1>1 DEF Poll, Goto
<1>2. ASSUME NEW d \in Pollers, PublishStatus(d) PROVE TypeOK'
  BY <1>2 DEF PublishStatus, Publish, HasData, Goto
<1>3. ASSUME NEW d \in Controllers, Announce(d) PROVE TypeOK'
  BY <1>3 DEF Announce, Publish, Goto
<1>4. ASSUME NEW d \in Daemons, Heartbeat(d) PROVE TypeOK'
  BY <1>4 DEF Heartbeat, PublishConn, Goto
<1>5. ASSUME NEW d \in Daemons, NextCycle(d) PROVE TypeOK'
  BY <1>5 DEF NextCycle, Goto
<1>6. ASSUME NEW d \in Daemons, CloseStatus(d) PROVE TypeOK'
  BY <1>6 DEF CloseStatus, Publish, Goto
<1>7. ASSUME NEW d \in Daemons, CloseConn(d) PROVE TypeOK'
  BY <1>7 DEF CloseConn, PublishConn, Goto
<1>8. ASSUME NEW d \in Daemons, Leave(d) PROVE TypeOK'
  BY <1>8 DEF Leave, Forget
<1>9. ASSUME NEW d \in Daemons, Start(d) PROVE TypeOK'
  <2>1. starts' \in Nat
    BY <1>9 DEF Start, Goto
  <2> QED
    BY <1>9, <2>1 DEF Start, Goto
<1>10. ASSUME NEW d \in Daemons, Signal(d) PROVE TypeOK'
  BY <1>10 DEF Signal
<1>11. ASSUME NEW d \in Daemons, Crash(d) PROVE TypeOK'
  BY <1>11 DEF Crash, Forget, PublishConn
<1>12. ASSUME NEW d \in Daemons, Connect(d) PROVE TypeOK'
  BY <1>12 DEF Connect
<1>13. ASSUME NEW d \in Daemons, LinkDown(d) PROVE TypeOK'
  <2>1. drops' \in Nat
    BY <1>13 DEF LinkDown, PublishConn
  <2> QED
    BY <1>13, <2>1 DEF LinkDown, PublishConn
<1>14. CASE SwitchChanges
  <2>1. changes' \in Nat
    BY <1>14 DEF SwitchChanges
  <2> QED
    BY <1>14, <2>1 DEF SwitchChanges
<1>15. CASE UNCHANGED vars
  BY <1>15 DEF vars
<1> QED
  BY <1>1, <1>2, <1>3, <1>4, <1>5, <1>6, <1>7, <1>8, <1>9,
     <1>10, <1>11, <1>12, <1>13, <1>14, <1>15
     DEF Next, MainThread, Environment

\* The type invariant holds in every reachable state (snmp.py L1216-L1348,
\* snmp_control.py L578-L656).
THEOREM TypeCorrect == Spec => []TypeOK
<1>1. Init => TypeOK
  BY DEF Init, TypeOK, MainPc
<1> QED
  BY <1>1, TypeStep, PTL DEF Spec

-------------------------------------------------------------------------------

LEMMA StatusStep ==
  ASSUME TypeOK, StatusInv, [Next]_vars PROVE StatusInv'
<1> USE DEF TypeOK, StatusInv, procVars, histVars, bounds
<1>1. ASSUME NEW d \in Pollers, Poll(d) PROVE StatusInv'
  BY <1>1 DEF Poll, Goto
<1>2. ASSUME NEW d \in Pollers, PublishStatus(d) PROVE StatusInv'
  BY <1>2 DEF PublishStatus, Publish, HasData, Goto
<1>3. ASSUME NEW d \in Controllers, Announce(d) PROVE StatusInv'
  BY <1>3 DEF Announce, Publish, Goto
<1>4. ASSUME NEW d \in Daemons, Heartbeat(d) PROVE StatusInv'
  BY <1>4 DEF Heartbeat, PublishConn, Goto
<1>5. ASSUME NEW d \in Daemons, NextCycle(d) PROVE StatusInv'
  BY <1>5 DEF NextCycle, Goto
<1>6. ASSUME NEW d \in Daemons, CloseStatus(d) PROVE StatusInv'
  BY <1>6 DEF CloseStatus, Publish, Goto
<1>7. ASSUME NEW d \in Daemons, CloseConn(d) PROVE StatusInv'
  BY <1>7 DEF CloseConn, PublishConn, Goto
<1>8. ASSUME NEW d \in Daemons, Leave(d) PROVE StatusInv'
  BY <1>8 DEF Leave, Forget
<1>9. ASSUME NEW d \in Daemons, Start(d) PROVE StatusInv'
  BY <1>9 DEF Start, Goto
<1>10. ASSUME NEW d \in Daemons, Signal(d) PROVE StatusInv'
  BY <1>10 DEF Signal
<1>11. ASSUME NEW d \in Daemons, Crash(d) PROVE StatusInv'
  BY <1>11 DEF Crash, Forget, PublishConn
<1>12. ASSUME NEW d \in Daemons, Connect(d) PROVE StatusInv'
  BY <1>12 DEF Connect
<1>13. ASSUME NEW d \in Daemons, LinkDown(d) PROVE StatusInv'
  BY <1>13 DEF LinkDown, PublishConn
<1>14. CASE SwitchChanges
  BY <1>14 DEF SwitchChanges
<1>15. CASE UNCHANGED vars
  BY <1>15 DEF vars
<1> QED
  BY <1>1, <1>2, <1>3, <1>4, <1>5, <1>6, <1>7, <1>8, <1>9,
     <1>10, <1>11, <1>12, <1>13, <1>14, <1>15
     DEF Next, MainThread, Environment

\* The last to leave turns the lights off: with every daemon gone the switch is not
\* shown online, unless one of them died or lost its final offline (snmp.py
\* L1342-L1347, snmp_control.py L649-L654).
THEOREM AllGoneShowsOfflineHolds == Spec => []AllGoneShowsOffline
<1>1. Init => StatusInv
  BY DEF Init, StatusInv
<1>2. StatusInv => AllGoneShowsOffline
  BY DEF StatusInv, AllGoneShowsOffline
<1> QED
  BY <1>1, <1>2, StatusStep, TypeCorrect, PTL DEF Spec

-------------------------------------------------------------------------------

LEMMA ConnStep ==
  ASSUME TypeOK, ConnInv, [Next]_vars PROVE ConnInv'
<1> USE DEF TypeOK, ConnInv, procVars, histVars, bounds
<1>1. ASSUME NEW d \in Pollers, Poll(d) PROVE ConnInv'
  BY <1>1 DEF Poll, Goto
<1>2. ASSUME NEW d \in Pollers, PublishStatus(d) PROVE ConnInv'
  BY <1>2 DEF PublishStatus, Publish, HasData, Goto
<1>3. ASSUME NEW d \in Controllers, Announce(d) PROVE ConnInv'
  BY <1>3 DEF Announce, Publish, Goto
<1>4. ASSUME NEW d \in Daemons, Heartbeat(d) PROVE ConnInv'
  BY <1>4 DEF Heartbeat, PublishConn, Goto
<1>5. ASSUME NEW d \in Daemons, NextCycle(d) PROVE ConnInv'
  BY <1>5 DEF NextCycle, Goto
<1>6. ASSUME NEW d \in Daemons, CloseStatus(d) PROVE ConnInv'
  BY <1>6 DEF CloseStatus, Publish, Goto
<1>7. ASSUME NEW d \in Daemons, CloseConn(d) PROVE ConnInv'
  BY <1>7 DEF CloseConn, PublishConn, Goto
<1>8. ASSUME NEW d \in Daemons, Leave(d) PROVE ConnInv'
  BY <1>8 DEF Leave, Forget
<1>9. ASSUME NEW d \in Daemons, Start(d) PROVE ConnInv'
  BY <1>9 DEF Start, Goto
<1>10. ASSUME NEW d \in Daemons, Signal(d) PROVE ConnInv'
  BY <1>10 DEF Signal
<1>11. ASSUME NEW d \in Daemons, Crash(d) PROVE ConnInv'
  BY <1>11 DEF Crash, Forget, PublishConn
<1>12. ASSUME NEW d \in Daemons, Connect(d) PROVE ConnInv'
  BY <1>12 DEF Connect
<1>13. ASSUME NEW d \in Daemons, LinkDown(d) PROVE ConnInv'
  BY <1>13 DEF LinkDown, PublishConn
<1>14. CASE SwitchChanges
  BY <1>14 DEF SwitchChanges
<1>15. CASE UNCHANGED vars
  BY <1>15 DEF vars
<1> QED
  BY <1>1, <1>2, <1>3, <1>4, <1>5, <1>6, <1>7, <1>8, <1>9,
     <1>10, <1>11, <1>12, <1>13, <1>14, <1>15
     DEF Next, MainThread, Environment

\* A daemon that is gone is not shown connected, but for a connect between its final
\* offline and its disconnect (snmp.py L1246-L1256, L1345).
THEOREM GoneShowsOfflineHolds == Spec => []GoneShowsOffline
<1>1. Init => ConnInv
  BY DEF Init, ConnInv
<1>2. TypeOK /\ ConnInv => GoneShowsOffline
  BY DEF TypeOK, ConnInv, GoneShowsOffline
<1> QED
  BY <1>1, <1>2, ConnStep, TypeCorrect, PTL DEF Spec

===============================================================================
