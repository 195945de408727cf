------------------------- MODULE IpmiCollector_proofs -------------------------
(***************************************************************************)
(* Proofs about IpmiCollector, for any sensors, slots and reports of them. *)
(***************************************************************************)
EXTENDS IpmiCollector, TLAPS

\* A broker without the session does not show the daemon online, nor does one
\* that has its final offline.
SessionInv ==
  /\ main = "down" => ~link
  /\ ~link => status # "online"
  /\ main = "leaving" => status # "online"

\* What is published was announced by this process, or the flag says so; and a
\* poll past its announcement has announced what it is about to publish.
AnnouncedInv ==
  /\ EntitiesKnown
  /\ announced \/ main = "announce_psus" => Sensors \subseteq configs \cup missed
  /\ announced => Slots \subseteq configs \cup missed
  /\ main \in {"state", "online", "psus"} => announced

USE IpmiAssumption DEF IpmiAssumption

-------------------------------------------------------------------------------

\* What a poll may have found.
LEMMA FoundTypes ==
  ASSUME NEW r \in WebReadings
  PROVE  Found(r) \subseteq Slots /\ \A s \in Found(r) : r[s] \in Values \cup {NoValue}
BY DEF Found, WebReadings, Supplies

\* Every step preserves the types.
LEMMA TypeStep ==
  ASSUME TypeOK, [Next]_vars PROVE TypeOK'
<1> USE DEF TypeOK, MainPc, Goto, Publish, worldVars, procVars, topicVars, bounds
<1>1. CASE Start
  <2>1. starts' \in Nat /\ mishaps' \in Nat
    BY <1>1 DEF Start
  <2> QED
    BY <1>1, <2>1 DEF Start
<1>2. CASE PollSdr
  BY <1>2 DEF PollSdr
<1>3. CASE PollWeb
  <2>1. gotWeb' \in WebReadings
    BY <1>3 DEF PollWeb
  <2>2. main' \in {"announce", "state"} => gotSdr' # NoData \/ gotWeb' # NoData
    BY <1>3 DEF PollWeb
  <2> QED
    BY <1>3, <2>1, <2>2 DEF PollWeb
<1>4. CASE PollRaises
  BY <1>4 DEF PollRaises
<1>5. CASE PublishNoData
  BY <1>5 DEF PublishNoData
<1>6. CASE Announce
  BY <1>6 DEF Announce
<1>7. CASE AnnouncePsus
  BY <1>7, FoundTypes DEF AnnouncePsus
<1>8. CASE PublishState
  <2>1. state' \subseteq Sensors
    BY <1>8 DEF PublishState, SdrReadings
  <2> QED
    BY <1>8, <2>1 DEF PublishState
<1>9. CASE PublishOnline
  BY <1>9 DEF PublishOnline
<1>10. CASE PublishPsus
  <2>1. psus' \in Supplies
    BY <1>10, FoundTypes DEF PublishPsus, Supplies
  <2> QED
    BY <1>10, <2>1 DEF PublishPsus
<1>11. CASE PollEnds \/ NextPoll \/ LoopEnds \/ Signal
  BY <1>11 DEF PollEnds, NextPoll, LoopEnds, Signal
<1>12. CASE Close
  BY <1>12 DEF Close
<1>13. CASE Leave
  BY <1>13 DEF Leave, Forget, SdrReadings, WebReadings
<1>14. CASE Crash
  <2>1. mishaps' \in Nat /\ gotSdr' \in SdrReadings /\ gotWeb' \in WebReadings
    BY <1>14 DEF Crash, Forget, SdrReadings, WebReadings
  <2> QED
    BY <1>14, <2>1 DEF Crash, Forget
<1>15. CASE Connect
  BY <1>15 DEF Connect
<1>16. CASE LinkDown
  <2>1. mishaps' \in Nat
    BY <1>16 DEF LinkDown
  <2> QED
    BY <1>16, <2>1 DEF LinkDown
<1>17. CASE BmcChanges
  BY <1>17 DEF BmcChanges
<1>18. CASE UNCHANGED vars
  BY <1>18 DEF vars
<1> QED
  BY <1>1, <1>2, <1>3, <1>4, <1>5, <1>6, <1>7, <1>8, <1>9, <1>10, <1>11, <1>12, <1>13,
     <1>14, <1>15, <1>16, <1>17, <1>18 DEF Next, MainThread, Environment

\* The type invariant holds in every reachable state (ipmi_sensors.py L326-L619).
THEOREM TypeCorrect == Spec => []TypeOK
<1>1. Init => TypeOK
  <2> SUFFICES ASSUME Init PROVE TypeOK
    OBVIOUS
  <2>1. gotSdr \in SdrReadings /\ gotWeb \in WebReadings
    BY DEF Init, SdrReadings, WebReadings
  <2>2. psus \in Supplies
    BY DEF Init, Supplies, NoSupply
  <2> QED
    BY <2>1, <2>2 DEF Init, TypeOK, MainPc
<1> QED
  BY <1>1, TypeStep, PTL DEF Spec

-------------------------------------------------------------------------------

\* Every step keeps a lost daemon from being shown online.
LEMMA SessionStep ==
  ASSUME SessionInv, [Next]_vars PROVE SessionInv'
<1> USE DEF SessionInv, Goto, Publish, worldVars, procVars, topicVars, bounds
<1>1. CASE Start \/ PollSdr \/ PollWeb \/ PollRaises
  BY <1>1 DEF Start, PollSdr, PollWeb, PollRaises
<1>2. CASE PublishNoData \/ PublishOnline \/ Close
  BY <1>2 DEF PublishNoData, PublishOnline, Close
<1>3. CASE Announce \/ AnnouncePsus \/ PublishState \/ PublishPsus
  BY <1>3 DEF Announce, AnnouncePsus, PublishState, PublishPsus
<1>4. CASE PollEnds \/ NextPoll \/ LoopEnds \/ Signal \/ BmcChanges \/ UNCHANGED vars
  BY <1>4 DEF PollEnds, NextPoll, LoopEnds, Signal, BmcChanges, vars
<1>5. CASE Leave \/ Crash
  BY <1>5 DEF Leave, Crash, Forget
<1>6. CASE Connect \/ LinkDown
  BY <1>6 DEF Connect, LinkDown
<1> QED
  BY <1>1, <1>2, <1>3, <1>4, <1>5, <1>6 DEF Next, MainThread, Environment

\* A daemon that is gone does not show its entities available, whichever of its
\* offline, its Last-Will and a poll's online came last (L560-L619).
THEOREM GoneShowsOfflineHolds == Spec => []GoneShowsOffline
<1>1. Init => SessionInv
  BY DEF Init, SessionInv
<1>2. SessionInv => GoneShowsOffline
  BY DEF SessionInv, GoneShowsOffline
<1> QED
  BY <1>1, <1>2, SessionStep, PTL DEF Spec

-------------------------------------------------------------------------------

\* Every step publishes only what the flag answers for.
LEMMA AnnouncedStep ==
  ASSUME TypeOK, AnnouncedInv, [Next]_vars PROVE AnnouncedInv'
<1> USE DEF AnnouncedInv, EntitiesKnown, Goto, worldVars, procVars, topicVars, bounds
<1>1. CASE Start \/ PollSdr \/ PollRaises \/ PublishNoData
  BY <1>1 DEF Start, PollSdr, PollRaises, PublishNoData
<1>2. CASE PollWeb
  BY <1>2 DEF PollWeb
<1>3. CASE Announce
  <2>1. configs \cup missed \cup Sensors \subseteq configs' \cup missed'
    BY <1>3 DEF Announce
  <2> QED
    BY <1>3, <2>1 DEF Announce
<1>4. CASE AnnouncePsus
  <2>1. configs \cup missed \cup Slots \subseteq configs' \cup missed'
    BY <1>4 DEF AnnouncePsus
  <2> QED
    BY <1>4, <2>1 DEF AnnouncePsus
<1>5. CASE PublishState
  <2>1. state' \subseteq state \cup Sensors
    BY <1>5 DEF PublishState, TypeOK, SdrReadings
  <2> QED
    BY <1>5, <2>1 DEF PublishState
<1>6. CASE PublishPsus
  BY <1>6 DEF PublishPsus
<1>7. CASE PublishOnline \/ PollEnds \/ NextPoll \/ LoopEnds \/ Signal \/ Close
  BY <1>7 DEF PublishOnline, PollEnds, NextPoll, LoopEnds, Signal, Close
<1>8. CASE Leave \/ Crash
  BY <1>8 DEF Leave, Crash, Forget
<1>9. CASE Connect \/ LinkDown \/ BmcChanges \/ UNCHANGED vars
  BY <1>9 DEF Connect, LinkDown, BmcChanges, vars
<1> QED
  BY <1>1, <1>2, <1>3, <1>4, <1>5, <1>6, <1>7, <1>8, <1>9 DEF Next, MainThread, Environment

\* Home Assistant has been told of whatever was published with a value, however
\* polls of one source or of both failed before, unless the discovery was dropped
\* or the supply was not in the poll that announced (L570-L599).
THEOREM EntitiesKnownHolds == Spec => []EntitiesKnown
<1>1. Init => AnnouncedInv
  BY DEF Init, AnnouncedInv, EntitiesKnown, NoSupply
<1>2. AnnouncedInv => EntitiesKnown
  BY DEF AnnouncedInv
<1> QED
  BY <1>1, <1>2, AnnouncedStep, TypeCorrect, PTL DEF Spec

===============================================================================
