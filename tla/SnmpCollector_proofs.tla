-------------------------- MODULE SnmpCollector_proofs --------------------------
(***************************************************************************)
(* Proofs about SnmpCollector, for any switches, kinds, tables and times.  *)
(***************************************************************************)
EXTENDS SnmpCollector, FiniteSetTheorems, TLAPS

\* Every discovery that was made stands or was dropped; ordinals have no gaps, so
\* that nothing read is left without a def; and by the time of the states all that
\* was read has been announced.
CoverInv ==
  /\ \A s \in Switches : state[s] \cup announced[s] \subseteq configs[s] \cup dropped[s]
  /\ \A k \in Kinds : \A i \in hw[k] : \A j \in 0..i : j \in hw[k]
  /\ main \in {"announce_ports", "state"} => HwRead \subseteq announced[cur]
  /\ main = "state" => Ports \in announced[cur]

\* What was read since the start is in the cache.
KnownInv == \A x \in Cells : x[1] \in known => cache[Watched][x] # NoValue

\* After a failure the cache outlasts the time to the retry.
RetryInv == \A t \in TableSet : failed[t] + expires[Watched][t] >= ErrorRetry

\* The commands of a whole poll of a switch.
Commands == Len(KindSeq) + PortWalks + Cardinality(Cells) + 2

\* The cells this poll is past, and the commands it may have spent so far.
Walked ==
  {x \in Cells : \E i \in DOMAIN Tables :
     /\ x[1] = Tables[i]
     /\ i < pos \/ (i = pos /\ (main = "settle" \/ (main = "walk" /\ x[2] < col)))}
Done ==
  CASE main = "hw" -> pos - 1
    [] main = "ports" -> Len(KindSeq)
    [] main \in {"ask", "walk", "settle"} -> Len(KindSeq) + PortWalks + Cardinality(Walked)
    [] main = "announce" -> Commands - 2
    [] main = "announce_ports" -> Commands - 1
    [] OTHER -> Commands

\* The commands since Watched was last published, and the wait in between.
JustHeard == main = "next" /\ cur = Watched
Laps == IF cur > Watched THEN cur - Watched - 1 ELSE N - Watched + cur - 1
Since ==
  IF JustHeard THEN 0
  ELSE IF main = "wait" THEN (N - Watched) * Commands
  ELSE Laps * Commands + Done
Pause == IF JustHeard \/ main = "wait" \/ cur > Watched THEN 0 ELSE Interval

\* The poll starts every list at its head, and Watched has been silent for no longer
\* than what was done since may take.
PlaceInv ==
  /\ main \notin {"hw", "ask", "walk", "settle"} => pos = 1
  /\ main = "hw" => pos <= Len(KindSeq) + 1
  /\ main = "wait" => cur = 1
HeardInv == silent <= CommandTime * Since + Pause

\* The commands up to where a poll is past the table at j, those since Watched was
\* last there, and the time they and the waits may have taken.
Upto(j) == {x \in Cells : \E i \in 1..j : x[1] = Tables[i]}
Mark(j) == Len(KindSeq) + PortWalks + Cardinality(Upto(j))
Passed(j) ==
  /\ cur = Watched
  /\ \/ main \in {"ask", "walk", "settle"} /\ pos > j
     \/ main \in {"announce", "announce_ports", "state", "next"}
SinceAsk(j) == IF Passed(j) THEN Done - Mark(j) ELSE Since + Commands - Mark(j)
HeardTime == CommandTime * Since + Pause
AskTime(j) == CommandTime * SinceAsk(j) + (IF Passed(j) THEN 0 ELSE Pause)
DoneTime == CommandTime * Done
WalkTime(t) == CommandTime * Columns[t]

\* Everything is come to again within a cycle.
ReachInv ==
  /\ Done \in Nat /\ DoneTime \in Nat /\ DoneTime <= SwitchTime
  /\ Since \in Nat /\ Pause \in Nat /\ HeardTime \in 0..Cycle
  /\ \A j \in DOMAIN Tables :
       SinceAsk(j) \in Nat /\ AskTime(j) \in 0..Cycle /\ (Passed(j) => Mark(j) <= Done)

\* What was read of a table that does not change is so, or was begun before it was.
ReadSo(t, n) == \A c \in 1..n : got[<< t, c >>] = says[Watched][<< t, c >>]
WalkInv ==
  /\ steady > 0 => answers[Watched] /\ link
  /\ cur = Watched /\ main = "walk" =>
       ReadSo(Tables[pos], col - 1) \/ steady <= CommandTime * (col - 1)
  /\ cur = Watched /\ main = "settle" =>
       ReadSo(Tables[pos], Columns[Tables[pos]]) \/ steady <= WalkTime(Tables[pos])

\* A table that is out of date was stored before it had been walked once as it is
\* now, expires within the TTL of that, and is asked for within a cycle of its
\* expiry; one that is up to date is published at the end of the poll.
Stale(t) == \E c \in 1..Columns[t] : cache[Watched][<< t, c >>] # says[Watched][<< t, c >>]
Unshown(t) == \E c \in 1..Columns[t] : shown[Watched][<< t, c >>] # says[Watched][<< t, c >>]
AgeOf(j) ==
  LET t == Tables[j] IN
  /\ Stale(t) /\ expires[Watched][t] > 0 => steady + expires[Watched][t] <= TTL + WalkTime(t)
  /\ Stale(t) => steady <= TTL + WalkTime(t) + AskTime(j)
  /\ Unshown(t) /\ ~Stale(t) =>
       \/ steady <= HeardTime
       \/ main # "next" /\ Passed(j) /\ steady <= TTL + Cycle + DoneTime
AgeInv == \A j \in DOMAIN Tables : AgeOf(j)

\* The product of two natural numbers is one.
LEMMA ProductType == \A a, b \in Nat : a * b \in Nat
OBVIOUS

-------------------------------------------------------------------------------

\* The lengths of the lists of kinds and of tables.
LEMMA Lengths == Len(KindSeq) \in Nat /\ Len(Tables) \in Nat
BY SnmpAssumption DEF SnmpAssumption

\* An index into them.
LEMMA Elements ==
  /\ \A i \in Nat \ {0} : i <= Len(KindSeq) => KindSeq[i] \in Kinds
  /\ \A i \in Nat \ {0} : i <= Len(Tables) => Tables[i] \in TableSet
BY SnmpAssumption DEF SnmpAssumption, Kinds, TableSet

LEMMA PickUpTimeType == PickUpTime \in Nat
<1> USE SnmpAssumption DEF SnmpAssumption
<1>1. Cardinality(Cells) \in Nat
  BY FS_CardinalityType
<1> DEFINE commands == Len(KindSeq) + PortWalks + Cardinality(Cells) + 2
<1>2. commands \in Nat
  BY <1>1, Lengths
<1> HIDE DEF commands
<1>3. CommandTime * commands \in Nat
  BY <1>2, ProductType
<1>4. SwitchTime \in Nat
  BY <1>3 DEF SwitchTime, commands
<1>5. N * SwitchTime \in Nat
  BY <1>4, ProductType
<1>6. Cycle \in Nat
  BY <1>5 DEF Cycle
<1> QED
  BY <1>6 DEF PickUpTime

\* The ordinals of a walk are natural numbers without a gap.
LEMMA OrdinalsType ==
  ASSUME NEW S \in SUBSET Instances
  PROVE  Ordinals(S) \subseteq Nat /\ \A i \in Ordinals(S) : \A j \in 0..i : j \in Ordinals(S)
<1>1. Cardinality(S) \in Nat
  BY FS_Subset, FS_CardinalityType, SnmpAssumption DEF SnmpAssumption
<1> QED
  BY <1>1 DEF Ordinals

\* A cell is a column of a table, and every table has a first one.
LEMMA CellTypes ==
  /\ \A t \in TableSet : \A c \in 1..Columns[t] : << t, c >> \in Cells
  /\ \A t \in TableSet : << t, 1 >> \in Cells
  /\ \A x \in Cells : x[1] \in TableSet /\ x[2] \in 1..Columns[x[1]] /\ x = << x[1], x[2] >>
BY SnmpAssumption DEF SnmpAssumption, Cells

\* The passage of time keeps the types of the clocks, and the cache on time.
LEMMA ElapseTypes ==
  ASSUME ClockOK, NEW d \in Nat, Elapse(d)
  PROVE  ClockOK' /\ (RetryInv => RetryInv')
<1> USE SnmpAssumption DEF SnmpAssumption
<1>1. expires' \in [Switches -> [TableSet -> 0..TTL]]
  BY DEF Elapse, ClockOK
<1>2. steady' \in 0..(PickUpTime + 1)
  BY PickUpTimeType DEF Elapse, ClockOK, Least
<1>3. silent' \in 0..(ExpireAfter + 1)
  BY DEF Elapse, ClockOK, Least
<1>4. failed' \in [TableSet -> 0..ErrorRetry]
  BY DEF Elapse, ClockOK, Least
<1>5. RetryInv => RetryInv'
  BY DEF Elapse, ClockOK, Least, RetryInv
<1> QED
  BY <1>1, <1>2, <1>3, <1>4, <1>5 DEF ClockOK

\* So do commands.
LEMMA TakesTypes ==
  ASSUME ClockOK, NEW n \in Nat, Takes(n)
  PROVE  ClockOK' /\ (RetryInv => RetryInv')
<1>1. PICK d \in 0..(n * CommandTime) : Elapse(d)
  BY DEF Takes
<1>2. d \in Nat
  OBVIOUS
<1> QED
  BY <1>1, <1>2, ElapseTypes

\* What is announced keeps its type.
LEMMA DiscoverTypes ==
  ASSUME BrokerOK, cur \in Switches, NEW new \in SUBSET Entities, Discover(cur, new)
  PROVE  /\ announced' \in [Switches -> SUBSET Entities]
         /\ configs' \in [Switches -> SUBSET Entities]
         /\ dropped' \in [Switches -> SUBSET Entities]
BY DEF BrokerOK, Discover

\* What was read of the hardware sensors are entities.
LEMMA HwEntities == PollOK => HwRead \subseteq Entities /\ HwDefs \subseteq HwRead
BY DEF PollOK, HwRead, HwDefs, Entities

-------------------------------------------------------------------------------

\* Every step preserves the types.
LEMMA TypeStep ==
  ASSUME TypeOK, [Next]_vars PROVE TypeOK'
<1> USE DEF TypeOK, worldVars, pollVars, memVars, brokerVars, timeVars, bounds
<1>1. CASE PollHw
  <2>1. PollOK' /\ ClockOK'
    <3>1. CASE pos <= Len(KindSeq)
      <4>1. KindSeq[pos] \in Kinds
        BY <3>1, Elements DEF PollOK
      <4>2. has[cur][KindSeq[pos]] \in SUBSET Instances
        BY <4>1 DEF PollOK, WorldOK
      <4>3. hw' \in [Kinds -> SUBSET Nat]
        BY <1>1, <3>1, <4>2, OrdinalsType DEF PollHw, PollOK
      <4>4. ClockOK'
        BY <1>1, <3>1, TakesTypes DEF PollHw
      <4> QED
        BY <1>1, <3>1, <4>3, <4>4 DEF PollHw, PollOK
    <3>2. CASE ~(pos <= Len(KindSeq))
      BY <1>1, <3>2 DEF PollHw, PollOK, ClockOK, MainPc
    <3> QED
      BY <3>1, <3>2
  <2> QED
    BY <1>1, <2>1 DEF PollHw, WorldOK, CacheOK, BrokerOK, Cached
<1>2. CASE PollPorts
  <2>1. ClockOK'
    BY <1>2, TakesTypes, SnmpAssumption DEF PollPorts, SnmpAssumption
  <2> QED
    BY <1>2, <2>1 DEF PollPorts, Goto, WorldOK, PollOK, CacheOK, BrokerOK, Cached, MainPc
<1>3. CASE Ask
  <2>1. PollOK'
    <3>1. CASE pos > Len(Tables)
      BY <1>3, <3>1 DEF Ask, PollOK, MainPc
    <3>2. CASE ~(pos > Len(Tables)) /\ Fresh(cur, Tables[pos])
      BY <1>3, <3>2 DEF Ask, PollOK
    <3>3. CASE ~(pos > Len(Tables)) /\ ~Fresh(cur, Tables[pos])
      <4>1. pos <= Len(Tables) /\ Columns[Tables[pos]] \in Nat \ {0}
        BY <3>3, Lengths, Elements, SnmpAssumption DEF PollOK, SnmpAssumption
      <4>2. got' \in [Cells -> Values \cup {NoValue}]
        BY <1>3, <3>3 DEF Ask, Unread
      <4> QED
        BY <1>3, <3>3, <4>1, <4>2 DEF Ask, PollOK, MainPc
    <3> QED
      BY <3>1, <3>2, <3>3
  <2> QED
    BY <1>3, <2>1 DEF Ask, WorldOK, CacheOK, BrokerOK, ClockOK, Cached
<1>4. CASE Walk
  <2>1. Columns[Tables[pos]] \in Nat /\ << Tables[pos], col >> \in Cells
    BY <1>4, Elements, CellTypes, SnmpAssumption DEF Walk, Goto, PollOK, SnmpAssumption
  <2>2. got' \in [Cells -> Values \cup {NoValue}]
    BY <1>4, <2>1 DEF Walk, PollOK, WorldOK
  <2>3. PollOK'
    BY <1>4, <2>1, <2>2 DEF Walk, Goto, PollOK, MainPc
  <2>4. ClockOK'
    BY <1>4, TakesTypes DEF Walk
  <2> QED
    BY <1>4, <2>3, <2>4 DEF Walk, WorldOK, CacheOK, BrokerOK, Cached
<1>5. CASE Settle
  <2> DEFINE t == Tables[pos]
  <2>1. t \in TableSet
    BY <1>5, Elements DEF Settle, Goto, PollOK
  <2>2. CacheOK'
    <3>1. CASE AllRead(t) /\ Store(cur, t)
      <4>1. cache' \in [Switches -> [Cells -> Values \cup {NoValue}]]
        BY <3>1 DEF Store, CacheOK, PollOK
      <4>2. ASSUME NEW s \in Switches, NEW x \in Cells
            PROVE  cache'[s][x] # NoValue <=> Cached(s, x[1])'
        <5>1. << x[1], 1 >> \in Cells
          BY CellTypes
        <5>2. \A y \in Cells : cache'[s][y] = IF s = cur /\ y[1] = t THEN got[y] ELSE cache[s][y]
          BY <3>1 DEF Store, CacheOK
        <5>3. \A y \in Cells : y[1] = t => got[y] # NoValue
          BY <3>1, CellTypes DEF AllRead
        <5> HIDE DEF t
        <5> QED
          BY <5>1, <5>2, <5>3 DEF Cached, CacheOK
      <4>3. known' \subseteq TableSet
        BY <1>5, <2>1 DEF Settle, CacheOK
      <4> QED
        BY <4>1, <4>2, <4>3 DEF CacheOK
    <3>2. CASE ~(AllRead(t) /\ Store(cur, t))
      BY <1>5, <3>2 DEF Settle, CacheOK, Cached
    <3> QED
      BY <3>1, <3>2
  <2>3. ClockOK'
    <3>1. cur \in Switches /\ TTL \in Nat /\ ErrorRetry \in 0..TTL
      BY SnmpAssumption DEF PollOK, SnmpAssumption
    <3>2. /\ \/ expires' = expires
             \/ expires' = [expires EXCEPT ![cur][t] = TTL]
             \/ expires' = [expires EXCEPT ![cur][t] = ErrorRetry]
          /\ failed' = failed \/ failed' = [failed EXCEPT ![t] = 0]
          /\ UNCHANGED << steady, silent >>
      BY <1>5 DEF Settle
    <3> HIDE DEF t
    <3>3. expires' \in [Switches -> [TableSet -> 0..TTL]]
      BY <2>1, <3>1, <3>2 DEF ClockOK
    <3>4. failed' \in [TableSet -> 0..ErrorRetry]
      BY <2>1, <3>1, <3>2 DEF ClockOK
    <3> QED
      BY <3>2, <3>3, <3>4 DEF ClockOK
  <2> QED
    BY <1>5, <2>2, <2>3 DEF Settle, Goto, WorldOK, PollOK, BrokerOK, MainPc
<1>6. CASE Announce
  <2>1. HwDefs \ announced[cur] \in SUBSET Entities
    BY HwEntities
  <2>2. BrokerOK'
    BY <1>6, <2>1, DiscoverTypes DEF Announce, BrokerOK, PollOK
  <2>3. ClockOK'
    <3>1. CASE Takes(1)
      BY <3>1, TakesTypes
    <3>2. CASE UNCHANGED << timeVars, expires >>
      BY <3>2 DEF ClockOK
    <3> QED
      BY <1>6, <3>1, <3>2 DEF Announce
  <2> QED
    BY <1>6, <2>2, <2>3 DEF Announce, Goto, WorldOK, PollOK, CacheOK, Cached, MainPc
<1>7. CASE AnnouncePorts
  <2>1. BrokerOK'
    <3>1. CASE Discover(cur, {Ports})
      BY <1>7, <3>1, DiscoverTypes DEF AnnouncePorts, BrokerOK, PollOK, Entities
    <3>2. CASE UNCHANGED << announced, configs, dropped >>
      BY <1>7, <3>2 DEF AnnouncePorts, BrokerOK
    <3> QED
      BY <1>7, <3>1, <3>2 DEF AnnouncePorts
  <2>2. ClockOK'
    <3>1. CASE Takes(1)
      BY <3>1, TakesTypes
    <3>2. CASE UNCHANGED << timeVars, expires >>
      BY <3>2 DEF ClockOK
    <3> QED
      BY <1>7, <3>1, <3>2 DEF AnnouncePorts
  <2> QED
    BY <1>7, <2>1, <2>2 DEF AnnouncePorts, Goto, WorldOK, PollOK, CacheOK, Cached, MainPc
<1>8. CASE PublishState
  <2>1. BrokerOK'
    <3>1. {Ports} \cup (IF HwRead = {} THEN state[cur] ELSE HwRead) \subseteq Entities
      BY HwEntities DEF BrokerOK, PollOK, Entities
    <3>2. state' \in [Switches -> SUBSET Entities]
      BY <1>8, <3>1 DEF PublishState, BrokerOK
    <3>3. shown' \in [Switches -> [Cells -> Values \cup {NoValue}]]
      BY <1>8 DEF PublishState, BrokerOK, CacheOK, PollOK
    <3> QED
      BY <1>8, <3>2, <3>3 DEF PublishState, BrokerOK
  <2>2. ClockOK'
    <3>1. silent' \in {silent, 0} /\ UNCHANGED << expires, steady, failed >>
      BY <1>8 DEF PublishState
    <3> QED
      BY <3>1, SnmpAssumption DEF ClockOK, SnmpAssumption
  <2> QED
    BY <1>8, <2>1, <2>2 DEF PublishState, Goto, WorldOK, PollOK, CacheOK, Cached, MainPc
<1>9. CASE NextSwitch
  <2>1. PollOK'
    BY <1>9, SnmpAssumption DEF NextSwitch, PollOK, NoHw, Switches, MainPc, SnmpAssumption
  <2> QED
    BY <1>9, <2>1 DEF NextSwitch, WorldOK, CacheOK, BrokerOK, ClockOK, Cached
<1>10. CASE NextCycle
  <2>1. ClockOK'
    BY <1>10, ElapseTypes, SnmpAssumption DEF NextCycle, SnmpAssumption
  <2> QED
    BY <1>10, <2>1 DEF NextCycle, Goto, WorldOK, PollOK, CacheOK, BrokerOK, Cached, MainPc
<1>11. CASE Restart
  <2>1. PollOK'
    BY <1>11, SnmpAssumption DEF Restart, PollOK, NoHw, Unread, Switches, MainPc, SnmpAssumption
  <2>2. CacheOK'
    BY <1>11, CellTypes DEF Restart, CacheOK, Cached, Unread
  <2>3. ClockOK'
    BY <1>11, PickUpTimeType, SnmpAssumption DEF Restart, ClockOK, SnmpAssumption
  <2> QED
    BY <1>11, <2>1, <2>2, <2>3 DEF Restart, WorldOK, BrokerOK
<1>12. CASE LinkDown
  <2>1. ClockOK'
    BY <1>12, PickUpTimeType DEF LinkDown, ClockOK
  <2>2. WorldOK'
    <3>1. mishaps' \in Nat
      BY <1>12 DEF LinkDown, WorldOK
    <3> QED
      BY <1>12, <3>1 DEF LinkDown, WorldOK
  <2> QED
    BY <1>12, <2>1, <2>2 DEF LinkDown, PollOK, CacheOK, BrokerOK, Cached
<1>13. CASE LinkUp
  BY <1>13 DEF LinkUp, WorldOK, PollOK, CacheOK, BrokerOK, ClockOK, Cached
<1>14. ASSUME NEW s \in Switches, SwitchChanges(s) PROVE TypeOK'
  <2>1. answers' \in [Switches -> BOOLEAN]
    <3>1. CASE answers' = [answers EXCEPT ![s] = ~answers[s]]
      BY <3>1 DEF WorldOK
    <3>2. CASE answers' = answers
      BY <3>2 DEF WorldOK
    <3> QED
      BY <1>14, <3>1, <3>2 DEF SwitchChanges
  <2>2. says' \in [Switches -> [Cells -> Values]]
    <3>1. ASSUME NEW x \in Cells, NEW v \in Values, says' = [says EXCEPT ![s][x] = v]
          PROVE  says' \in [Switches -> [Cells -> Values]]
      BY <3>1 DEF WorldOK
    <3>2. CASE says' = says
      BY <3>2 DEF WorldOK
    <3> QED
      BY <1>14, <3>1, <3>2 DEF SwitchChanges
  <2>3. has' \in [Switches -> [Kinds -> SUBSET Instances]]
    BY <1>14 DEF SwitchChanges, WorldOK
  <2>4. WorldOK'
    BY <1>14, <2>1, <2>2, <2>3 DEF SwitchChanges, WorldOK
  <2>5. ClockOK'
    BY <1>14, PickUpTimeType DEF SwitchChanges, ClockOK
  <2> QED
    BY <1>14, <2>4, <2>5 DEF SwitchChanges, PollOK, CacheOK, BrokerOK, Cached
<1>15. CASE UNCHANGED vars
  BY <1>15 DEF vars, WorldOK, PollOK, CacheOK, BrokerOK, ClockOK, Cached
<1> QED
  BY <1>1, <1>2, <1>3, <1>4, <1>5, <1>6, <1>7, <1>8, <1>9, <1>10, <1>11, <1>12, <1>13,
     <1>14, <1>15 DEF Next, MainThread, Environment

\* The type invariant holds in every reachable state (snmp.py L666-L1340).
THEOREM TypeCorrect == Spec => []TypeOK
<1>1. Init => TypeOK
  <2> SUFFICES ASSUME Init PROVE TypeOK
    OBVIOUS
  <2>1. WorldOK /\ BrokerOK
    BY SnmpAssumption DEF Init, WorldOK, BrokerOK, Unread, SnmpAssumption
  <2>2. PollOK
    BY SnmpAssumption DEF Init, PollOK, MainPc, NoHw, Unread, Switches, SnmpAssumption
  <2>3. CacheOK
    BY CellTypes DEF Init, CacheOK, Cached, Unread
  <2>4. ClockOK
    BY PickUpTimeType, SnmpAssumption DEF Init, ClockOK, SnmpAssumption
  <2> QED
    BY <2>1, <2>2, <2>3, <2>4 DEF TypeOK
<1> QED
  BY <1>1, TypeStep, PTL DEF Spec

-------------------------------------------------------------------------------

\* A step that neither reads hardware sensors, announces nor publishes leaves what
\* CoverInv speaks of alone.
LEMMA CoverFrame ==
  ASSUME CoverInv, UNCHANGED << announced, configs, state, dropped, hw, cur >>,
         main' \notin {"announce_ports", "state"}
  PROVE  CoverInv'
BY DEF CoverInv, HwRead

\* Whatever is discovered stands or was dropped.
LEMMA DiscoverCovers ==
  ASSUME CoverInv, BrokerOK, cur \in Switches, NEW new, Discover(cur, new),
         UNCHANGED state
  PROVE  /\ \A s \in Switches : state'[s] \cup announced'[s] \subseteq configs'[s] \cup dropped'[s]
         /\ announced'[cur] = announced[cur] \cup new
<1>1. announced'[cur] = announced[cur] \cup new
  BY DEF Discover, BrokerOK
<1>2. CASE link
  BY <1>2 DEF Discover, BrokerOK, CoverInv
<1>3. CASE ~link
  BY <1>3 DEF Discover, BrokerOK, CoverInv
<1> QED
  BY <1>1, <1>2, <1>3

\* A kind without gaps has a def for all that was read.
LEMMA DefsComplete == CoverInv /\ PollOK => HwDefs = HwRead
BY DEF CoverInv, PollOK, HwDefs, HwRead

\* Every step keeps what is published covered.
LEMMA CoverStep ==
  ASSUME TypeOK, CoverInv, [Next]_vars PROVE CoverInv'
<1> USE DEF TypeOK, worldVars, pollVars, memVars, brokerVars, timeVars, bounds
<1>1. CASE PollHw
  <2>1. CASE pos <= Len(KindSeq)
    <3>1. KindSeq[pos] \in Kinds
      BY <2>1, Elements DEF PollOK
    <3>2. has[cur][KindSeq[pos]] \in SUBSET Instances
      BY <3>1 DEF PollOK, WorldOK
    <3>3. \A k \in Kinds : \A i \in hw'[k] : \A j \in 0..i : j \in hw'[k]
      BY <1>1, <2>1, <3>2, OrdinalsType DEF PollHw, PollOK, CoverInv
    <3> QED
      BY <1>1, <2>1, <3>3 DEF PollHw, CoverInv
  <2>2. CASE ~(pos <= Len(KindSeq))
    BY <1>1, <2>2, CoverFrame DEF PollHw
  <2> QED
    BY <2>1, <2>2
<1>2. CASE PollPorts
  BY <1>2, CoverFrame DEF PollPorts, Goto
<1>3. CASE Ask
  BY <1>3, CoverFrame DEF Ask
<1>4. CASE Walk
  BY <1>4, CoverFrame DEF Walk, Goto
<1>5. CASE Settle
  BY <1>5, CoverFrame DEF Settle, Goto
<1>6. CASE Announce
  <2>1. Discover(cur, HwDefs \ announced[cur]) /\ UNCHANGED << state, hw, cur >>
    BY <1>6 DEF Announce
  <2>2. /\ \A s \in Switches : state'[s] \cup announced'[s] \subseteq configs'[s] \cup dropped'[s]
        /\ HwDefs \subseteq announced'[cur]
    BY <2>1, DiscoverCovers DEF PollOK
  <2>3. HwRead' \subseteq announced'[cur']
    BY <2>1, <2>2, DefsComplete DEF HwRead
  <2> QED
    BY <1>6, <2>1, <2>2, <2>3 DEF Announce, Goto, CoverInv
<1>7. CASE AnnouncePorts
  <2>1. UNCHANGED << state, hw, cur >> /\ HwRead' = HwRead
    BY <1>7 DEF AnnouncePorts, HwRead
  <2>2. HwRead \subseteq announced[cur]
    BY <1>7 DEF AnnouncePorts, Goto, CoverInv
  <2>3. /\ \A s \in Switches : state'[s] \cup announced'[s] \subseteq configs'[s] \cup dropped'[s]
        /\ announced[cur] \cup {Ports} \subseteq announced'[cur]
    <3>1. CASE Discover(cur, {Ports})
      BY <2>1, <3>1, DiscoverCovers DEF PollOK
    <3>2. CASE Ports \in announced[cur] /\ UNCHANGED << announced, configs, dropped >>
      BY <2>1, <3>2 DEF CoverInv
    <3> QED
      BY <1>7, <3>1, <3>2 DEF AnnouncePorts
  <2> QED
    BY <2>1, <2>2, <2>3 DEF CoverInv
<1>8. CASE PublishState
  <2>1. HwRead \cup {Ports} \subseteq announced[cur]
    BY <1>8 DEF PublishState, Goto, CoverInv
  <2>2. \A s \in Switches : state'[s] \subseteq state[s] \cup announced[s]
    BY <1>8, <2>1 DEF PublishState, BrokerOK
  <2>3. \A s \in Switches : state'[s] \cup announced'[s] \subseteq configs'[s] \cup dropped'[s]
    BY <1>8, <2>2 DEF PublishState, CoverInv
  <2> QED
    BY <1>8, <2>3 DEF PublishState, Goto, CoverInv
<1>9. CASE NextSwitch
  BY <1>9 DEF NextSwitch, CoverInv, NoHw
<1>10. CASE NextCycle
  BY <1>10, CoverFrame DEF NextCycle, Goto
<1>11. CASE Restart
  BY <1>11 DEF Restart, CoverInv, NoHw
<1>12. CASE LinkDown
  BY <1>12 DEF LinkDown, CoverInv, HwRead
<1>13. CASE LinkUp
  BY <1>13 DEF LinkUp, CoverInv, HwRead
<1>14. ASSUME NEW s \in Switches, SwitchChanges(s) PROVE CoverInv'
  BY <1>14 DEF SwitchChanges, CoverInv, HwRead
<1>15. CASE UNCHANGED vars
  BY <1>15 DEF vars, CoverInv, HwRead
<1> QED
  BY <1>1, <1>2, <1>3, <1>4, <1>5, <1>6, <1>7, <1>8, <1>9, <1>10, <1>11, <1>12, <1>13,
     <1>14, <1>15 DEF Next, MainThread, Environment

\* Home Assistant has been told of whatever a retained state has a value for, in
\* whatever poll it first turned up, unless that discovery was dropped
\* (L1040-L1074, L1283-L1316).
THEOREM AnnouncedCoversHolds == Spec => []AnnouncedCovers
<1>1. Init => CoverInv
  BY DEF Init, CoverInv, NoHw
<1>2. CoverInv => AnnouncedCovers
  BY DEF CoverInv, AnnouncedCovers
<1> QED
  BY <1>1, <1>2, CoverStep, TypeCorrect, PTL DEF Spec

-------------------------------------------------------------------------------

\* Every step keeps what was read in the cache.
LEMMA KnownStep ==
  ASSUME TypeOK, KnownInv, [Next]_vars PROVE KnownInv'
<1> USE DEF worldVars, pollVars, memVars, brokerVars, timeVars, bounds
<1>1. CASE Settle
  <2> DEFINE t == Tables[pos]
  <2>1. CASE AllRead(t) /\ Store(cur, t)
    <3>1. \A x \in Cells : cache'[Watched][x] =
            IF Watched = cur /\ x[1] = t THEN got[x] ELSE cache[Watched][x]
      BY <2>1, SnmpAssumption DEF Store, TypeOK, CacheOK, SnmpAssumption
    <3>2. \A x \in Cells : x[1] = t => got[x] # NoValue
      BY <2>1, CellTypes DEF AllRead
    <3>3. known' = IF cur = Watched THEN known \cup {t} ELSE known
      BY <1>1, <2>1 DEF Settle
    <3> HIDE DEF t
    <3> QED
      BY <3>1, <3>2, <3>3 DEF KnownInv
  <2>2. CASE ~(AllRead(t) /\ Store(cur, t))
    BY <1>1, <2>2 DEF Settle, KnownInv
  <2> QED
    BY <2>1, <2>2
<1>2. CASE Restart
  BY <1>2 DEF Restart, KnownInv
<1>3. CASE UNCHANGED << cache, known >>
  BY <1>3 DEF KnownInv
<1>4. ASSUME NEW s \in Switches, SwitchChanges(s) PROVE UNCHANGED << cache, known >>
  BY <1>4 DEF SwitchChanges
<1> QED
  BY <1>1, <1>2, <1>3, <1>4
  DEF Next, MainThread, Environment, PollHw, PollPorts, Ask, Walk, Announce, AnnouncePorts,
      PublishState, NextSwitch, NextCycle, LinkDown, LinkUp, vars

\* A table once read is not blanked by reads that fail later in the life of the
\* process (L886-L893, L1003-L1010).
THEOREM NotErasedHolds == Spec => NotErased
<1>1. Init => KnownInv
  BY DEF Init, KnownInv
<1>2. TypeOK /\ KnownInv /\ [Next]_vars =>
        [PublishState /\ link /\ cur = Watched =>
           \A x \in Cells : x[1] \in known => shown'[Watched][x] # NoValue]_vars
  BY SnmpAssumption DEF PublishState, TypeOK, BrokerOK, PollOK, KnownInv, SnmpAssumption
<1> QED
  BY <1>1, <1>2, KnownStep, TypeCorrect, PTL DEF Spec, NotErased

-------------------------------------------------------------------------------

\* Every step keeps the cache on time.
LEMMA RetryStep ==
  ASSUME TypeOK, RetryInv, [Next]_vars PROVE RetryInv'
<1> USE DEF TypeOK, worldVars, pollVars, memVars, brokerVars, timeVars, bounds
<1>1. ASSUME UNCHANGED << failed, expires >> PROVE RetryInv'
  BY <1>1 DEF RetryInv
<1>2. ASSUME NEW n \in Nat, Takes(n) PROVE RetryInv'
  BY <1>2, TakesTypes
<1>3. CASE PollHw
  BY <1>1, <1>2, <1>3 DEF PollHw
<1>4. CASE PollPorts
  BY <1>2, <1>4, SnmpAssumption DEF PollPorts, SnmpAssumption
<1>5. CASE Walk
  BY <1>2, <1>5 DEF Walk
<1>6. CASE Settle
  <2> DEFINE t == Tables[pos]
  <2>1. /\ \/ UNCHANGED << expires, failed >>
           \/ /\ expires' = [expires EXCEPT ![cur][t] = TTL]
              /\ UNCHANGED failed
           \/ /\ expires' = [expires EXCEPT ![cur][t] = ErrorRetry]
              /\ failed' = IF cur = Watched THEN [failed EXCEPT ![t] = 0] ELSE failed
    BY <1>6 DEF Settle
  <2>2. /\ t \in TableSet /\ cur \in Switches
        /\ expires \in [Switches -> [TableSet -> Nat]] /\ failed \in [TableSet -> Nat]
        /\ TTL \in Nat /\ ErrorRetry \in Nat /\ ErrorRetry <= TTL
    BY <1>6, Elements, SnmpAssumption DEF Settle, Goto, PollOK, ClockOK, SnmpAssumption
  <2> HIDE DEF t
  <2>3. CASE UNCHANGED << expires, failed >>
    BY <1>1, <2>3
  <2>4. CASE expires' = [expires EXCEPT ![cur][t] = TTL] /\ UNCHANGED failed
    BY <2>2, <2>4 DEF RetryInv
  <2>5. CASE /\ expires' = [expires EXCEPT ![cur][t] = ErrorRetry]
             /\ failed' = IF cur = Watched THEN [failed EXCEPT ![t] = 0] ELSE failed
    BY <2>2, <2>5 DEF RetryInv
  <2> QED
    BY <2>1, <2>3, <2>4, <2>5
<1>7. CASE Announce
  BY <1>1, <1>2, <1>7 DEF Announce
<1>8. CASE AnnouncePorts
  BY <1>1, <1>2, <1>8 DEF AnnouncePorts
<1>9. CASE NextCycle
  BY <1>9, ElapseTypes, SnmpAssumption DEF NextCycle, SnmpAssumption
<1>10. CASE Restart
  BY <1>10, SnmpAssumption DEF Restart, RetryInv, SnmpAssumption
<1>11. ASSUME NEW s \in Switches, SwitchChanges(s) PROVE RetryInv'
  BY <1>1, <1>11 DEF SwitchChanges
<1>12. CASE Ask \/ PublishState \/ NextSwitch \/ LinkDown \/ LinkUp \/ UNCHANGED vars
  BY <1>1, <1>12 DEF Ask, PublishState, NextSwitch, LinkDown, LinkUp, vars
<1> QED
  BY <1>3, <1>4, <1>5, <1>6, <1>7, <1>8, <1>9, <1>10, <1>11, <1>12
  DEF Next, MainThread, Environment

\* "Retry failed fetches after 1 min" (L643): not sooner, while there is an older
\* result to show (L891-L892).
THEOREM RetryPacedHolds == Spec => RetryPaced
<1>1. Init => RetryInv
  BY SnmpAssumption DEF Init, RetryInv, SnmpAssumption
<1>2. TypeOK /\ RetryInv /\ [Next]_vars =>
        [main = "ask" /\ main' = "walk" /\ cur = Watched /\ Cached(cur, Tables[pos]) =>
           failed[Tables[pos]] >= ErrorRetry]_vars
  <2> SUFFICES ASSUME TypeOK, RetryInv, Next, main = "ask", main' = "walk", cur = Watched,
                      Cached(cur, Tables[pos])
               PROVE  failed[Tables[pos]] >= ErrorRetry
    OBVIOUS
  <2>1. Ask
    BY DEF Next, MainThread, Environment, PollHw, PollPorts, Walk, Settle, Announce,
           AnnouncePorts, PublishState, NextSwitch, NextCycle, Restart, LinkDown, LinkUp,
           SwitchChanges, Goto, pollVars
  <2>2. pos <= Len(Tables) /\ ~Fresh(cur, Tables[pos])
    BY <2>1, Lengths DEF Ask, TypeOK, PollOK
  <2>3. Tables[pos] \in TableSet
    BY <2>2, Elements DEF TypeOK, PollOK
  <2>4. expires[Watched][Tables[pos]] = 0
    BY <2>2, <2>3, SnmpAssumption DEF Fresh, TypeOK, ClockOK, SnmpAssumption
  <2> QED
    BY <2>3, <2>4, SnmpAssumption DEF RetryInv, TypeOK, ClockOK, SnmpAssumption
<1> QED
  BY <1>1, <1>2, RetryStep, TypeCorrect, PTL DEF Spec, RetryPaced

-------------------------------------------------------------------------------

\* A product grows with its factor.
LEMMA ProductGrows == \A c, a, n, b \in Nat : a + n <= b => c * a + c * n <= c * b
<1> SUFFICES ASSUME NEW c \in Nat, NEW a \in Nat, NEW n \in Nat, NEW b \in Nat, a + n <= b
             PROVE  c * a + c * n <= c * b
  OBVIOUS
<1> DEFINE k == b - (a + n)
<1>1. k \in Nat /\ b = a + n + k
  OBVIOUS
<1>2. c * k \in Nat /\ c * a \in Nat /\ c * n \in Nat
  BY <1>1, ProductType
<1>3. c * b = c * a + c * n + c * k
  BY <1>1
<1> HIDE DEF k
<1> QED
  BY <1>2, <1>3

\* And so does a sum with it.
LEMMA ProductGains ==
  ASSUME NEW c \in Nat, NEW a \in Nat, NEW n \in Nat, NEW b \in Nat, a + n <= b, NEW q \in Nat
  PROVE  (c * a + q) + c * n <= c * b + q
<1>1. c * a \in Nat /\ c * n \in Nat /\ c * b \in Nat
  BY ProductType
<1>2. c * a + c * n <= c * b
  BY ProductGrows
<1> QED
  BY <1>1, <1>2

\* And grows no less for standing alone.
LEMMA ProductMonotone == \A c, a, b \in Nat : a <= b => c * a <= c * b
<1> SUFFICES ASSUME NEW c \in Nat, NEW a \in Nat, NEW b \in Nat, a <= b
             PROVE  c * a <= c * b
  OBVIOUS
<1>1. c * a + c * 0 <= c * b
  BY ProductGrows
<1> QED
  BY <1>1, ProductType

LEMMA ProductRight == \A c, a, b \in Nat : a <= b => a * c <= b * c
<1> SUFFICES ASSUME NEW c \in Nat, NEW a \in Nat, NEW b \in Nat, a <= b
             PROVE  a * c <= b * c
  OBVIOUS
<1>1. c * a <= c * b
  BY ProductMonotone
<1> QED
  BY <1>1

LEMMA CommandsType == Commands \in Nat /\ Len(KindSeq) \in Nat /\ Cardinality(Cells) \in Nat
<1>1. Cardinality(Cells) \in Nat
  BY FS_CardinalityType, SnmpAssumption DEF SnmpAssumption
<1> QED
  BY <1>1, Lengths, SnmpAssumption DEF Commands, SnmpAssumption

LEMMA CycleType == Cycle \in Nat
<1> USE SnmpAssumption DEF SnmpAssumption
<1>1. SwitchTime = CommandTime * Commands
  BY DEF SwitchTime, Commands
<1>2. SwitchTime \in Nat
  BY <1>1, CommandsType, ProductType
<1>3. N * SwitchTime \in Nat
  BY <1>2, ProductType
<1> QED
  BY <1>3 DEF Cycle

\* The cells passed are some of the cells.
LEMMA WalkedTypes ==
  /\ IsFiniteSet(Walked)
  /\ Cardinality(Walked) \in Nat /\ Cardinality(Walked) <= Cardinality(Cells)
<1>1. Walked \in SUBSET Cells
  BY DEF Walked
<1> QED
  BY <1>1, FS_Subset, FS_CardinalityType, SnmpAssumption DEF SnmpAssumption

LEMMA DoneType == PollOK /\ PlaceInv => Done \in 0..Commands
<1> SUFFICES ASSUME PollOK, PlaceInv PROVE Done \in 0..Commands
  OBVIOUS
<1>1. /\ Commands = Len(KindSeq) + PortWalks + Cardinality(Cells) + 2
      /\ Commands \in Nat /\ Len(KindSeq) \in Nat /\ PortWalks \in Nat /\ Cardinality(Cells) \in Nat
  BY CommandsType, SnmpAssumption DEF Commands, SnmpAssumption
<1>2. CASE main \in {"ask", "walk", "settle"}
  <2>1. Done = Len(KindSeq) + PortWalks + Cardinality(Walked)
    BY <1>2 DEF Done
  <2> QED
    BY <1>1, <2>1, WalkedTypes
<1>3. CASE main = "hw"
  <2>1. Done = pos - 1 /\ pos \in Nat \ {0} /\ pos <= Len(KindSeq) + 1
    BY <1>3 DEF Done, PollOK, PlaceInv
  <2> QED
    BY <1>1, <2>1
<1>4. CASE main \notin {"hw", "ask", "walk", "settle"}
  <2>1. Done \in {Len(KindSeq), Commands - 2, Commands - 1, Commands}
    BY <1>4 DEF Done
  <2> QED
    BY <1>1, <2>1
<1> QED
  BY <1>2, <1>3, <1>4

\* The polls begun since Watched was heard are fewer than the switches.
LEMMA LapsType == PollOK => Laps \in 0..(N - 1) /\ Laps * Commands \in Nat
<1> SUFFICES ASSUME PollOK PROVE Laps \in 0..(N - 1) /\ Laps * Commands \in Nat
  OBVIOUS
<1>1. Laps \in 0..(N - 1)
  BY SnmpAssumption DEF Laps, PollOK, Switches, SnmpAssumption
<1> QED
  BY <1>1, CommandsType, ProductType

LEMMA SinceTypes ==
  ASSUME PollOK, PlaceInv PROVE Since \in Nat /\ Pause \in Nat
<1>1. Laps * Commands \in Nat /\ Done \in Nat
  BY LapsType, DoneType, CommandsType
<1>2. N - Watched \in Nat
  BY SnmpAssumption DEF Switches, SnmpAssumption
<1>3. (N - Watched) * Commands \in Nat
  BY <1>2, CommandsType, ProductType
<1> QED
  BY <1>1, <1>3, SnmpAssumption DEF Since, Pause, SnmpAssumption

\* Commands add no more than their timeouts to the silence.
LEMMA TakesSilent ==
  ASSUME ClockOK, NEW n \in Nat, Takes(n)
  PROVE  silent' \in Nat /\ silent' <= silent + CommandTime * n
<1>1. PICK d \in 0..(n * CommandTime) : Elapse(d)
  BY DEF Takes
<1>2. n * CommandTime \in Nat /\ n * CommandTime = CommandTime * n
  BY ProductType, SnmpAssumption DEF SnmpAssumption
<1>3. silent' = Least(silent + d, ExpireAfter + 1)
  BY <1>1 DEF Elapse
<1> QED
  BY <1>2, <1>3, SnmpAssumption DEF Least, ClockOK, SnmpAssumption

\* The commands of a step within the poll of a switch are accounted for.
LEMMA Spend ==
  ASSUME PollOK, ClockOK, PlaceInv, HeardInv, cur' = cur,
         main # "wait", main' # "wait", ~JustHeard, ~JustHeard',
         NEW n \in Nat, silent' \in Nat, silent' <= silent + CommandTime * n,
         Done' \in Nat, Done + n <= Done'
  PROVE  HeardInv'
<1> USE SnmpAssumption DEF SnmpAssumption
<1>1. Laps * Commands \in Nat /\ Done \in Nat
  BY LapsType, DoneType, CommandsType
<1>2. Since = Laps * Commands + Done /\ Since' = Laps * Commands + Done'
  BY DEF Since, Laps
<1>3. Pause' = Pause /\ Pause \in Nat
  BY DEF Pause
<1>4. Since \in Nat /\ Since' \in Nat /\ Since + n <= Since'
  BY <1>1, <1>2
<1>5. CommandTime * Since + CommandTime * n <= CommandTime * Since'
  BY <1>4, ProductGrows
<1>6. CommandTime * Since \in Nat /\ CommandTime * n \in Nat /\ CommandTime * Since' \in Nat
  BY <1>4, ProductType
<1>7. silent \in Nat /\ silent <= CommandTime * Since + Pause
  BY DEF ClockOK, HeardInv
<1>8. silent' <= CommandTime * Since' + Pause
  BY <1>3, <1>5, <1>6, <1>7
<1> QED
  BY <1>3, <1>8 DEF HeardInv

\* Every step keeps the poll's place.
LEMMA PlaceStep ==
  ASSUME TypeOK, PlaceInv, [Next]_vars PROVE PlaceInv'
<1> USE DEF TypeOK, PollOK, PlaceInv, MainPc, pollVars
<1>1. CASE PollHw
  BY <1>1, CommandsType DEF PollHw
<1>2. CASE PollPorts \/ Ask \/ Walk \/ Settle \/ Announce \/ AnnouncePorts \/ PublishState
           \/ NextCycle
  BY <1>2, CommandsType
  DEF PollPorts, Ask, Walk, Settle, Announce, AnnouncePorts, PublishState, NextCycle, Goto
<1>3. CASE NextSwitch
  BY <1>3, CommandsType DEF NextSwitch
<1>4. CASE Restart
  BY <1>4, CommandsType DEF Restart
<1>5. CASE LinkDown \/ LinkUp \/ (\E s \in Switches : SwitchChanges(s)) \/ UNCHANGED vars
  BY <1>5 DEF LinkDown, LinkUp, SwitchChanges, vars
<1> QED
  BY <1>1, <1>2, <1>3, <1>4, <1>5 DEF Next, MainThread, Environment

\* A step that moves nothing the silence depends on.
LEMMA HeardFrame ==
  ASSUME HeardInv, UNCHANGED << main, cur, pos, col, silent >> PROVE HeardInv'
<1>1. Walked' = Walked
  BY DEF Walked
<1>2. Done' = Done
  BY <1>1 DEF Done
<1> QED
  BY <1>2 DEF HeardInv, Since, Pause, Laps, JustHeard

\* A cell walked is one more that the poll is past.
LEMMA WalkCounts ==
  ASSUME TypeOK, Walk PROVE Cardinality(Walked') \in Nat /\ Cardinality(Walked) + 1 <= Cardinality(Walked')
<1> DEFINE x == << Tables[pos], col >>
<1>1. pos \in DOMAIN Tables /\ main = "walk" /\ x \in Cells /\ col \in 1..Columns[Tables[pos]]
  BY Lengths, Elements, CellTypes, SnmpAssumption DEF Walk, Goto, TypeOK, PollOK, SnmpAssumption
<1>2. x \notin Walked
  BY <1>1, TablesDistinct, Lengths DEF Walked
<1>3. Walked \cup {x} \subseteq Walked'
  <2>1. pos' = pos /\ main' \in {"walk", "settle"} /\ (main' = "walk" => col' = col + 1)
    BY DEF Walk, Goto
  <2>2. ASSUME NEW y \in Walked PROVE y \in Walked'
    BY <1>1, <2>1, CellTypes, TablesDistinct DEF Walked
  <2>3. x \in Walked'
    BY <1>1, <2>1 DEF Walked
  <2> QED
    BY <2>2, <2>3
<1>4. IsFiniteSet(Walked') /\ Cardinality(Walked') \in Nat
  <2>1. Walked' \in SUBSET Cells
    BY DEF Walked
  <2> QED
    BY <2>1, FS_Subset, FS_CardinalityType, SnmpAssumption DEF SnmpAssumption
<1>5. Cardinality(Walked \cup {x}) = Cardinality(Walked) + 1
  BY <1>2, WalkedTypes, FS_AddElement
<1>6. Cardinality(Walked \cup {x}) <= Cardinality(Walked')
  BY <1>3, <1>4, FS_Subset
<1> QED
  BY <1>4, <1>5, <1>6

\* What the poll is past it stays past, as it asks for the next table.
LEMMA WalkedGrows ==
  ASSUME Walked \subseteq Walked'
  PROVE  Cardinality(Walked') \in Nat /\ Cardinality(Walked) <= Cardinality(Walked')
<1>1. Walked' \in SUBSET Cells
  BY DEF Walked
<1>2. IsFiniteSet(Walked') /\ Cardinality(Walked') \in Nat
  BY <1>1, FS_Subset, FS_CardinalityType, SnmpAssumption DEF SnmpAssumption
<1> QED
  BY <1>2, FS_Subset

\* A step within the poll of a switch, but for the publication of Watched, is accounted
\* for by the commands it runs.
LEMMA Advances ==
  ASSUME TypeOK, PlaceInv,
         \/ PollHw \/ PollPorts \/ Ask \/ Walk \/ Settle \/ Announce \/ AnnouncePorts
         \/ PublishState /\ cur # Watched
  PROVE  /\ cur' = cur /\ main # "wait" /\ main' # "wait" /\ ~JustHeard /\ ~JustHeard'
         /\ Done' \in Nat
         /\ \E n \in Nat : /\ Done + n <= Done'
                           /\ \/ Takes(n)
                              \/ /\ n = 0 /\ UNCHANGED << steady, silent >>
                                 /\ ~Settle => UNCHANGED expires
<1> USE SnmpAssumption DEF SnmpAssumption, TypeOK, pollVars, memVars, brokerVars, timeVars, bounds
<1> DEFINE Goal(n) == /\ n \in Nat /\ Done' \in Nat /\ Done + n <= Done'
                      /\ \/ Takes(n)
                         \/ /\ n = 0 /\ UNCHANGED << steady, silent >>
                            /\ ~Settle => UNCHANGED expires
<1> SUFFICES /\ cur' = cur /\ main # "wait" /\ main' # "wait" /\ ~JustHeard /\ ~JustHeard'
             /\ \E n : Goal(n)
  OBVIOUS
<1>0. Done \in Nat
  BY DoneType, CommandsType
<1>1. CASE PollHw
  <2>1. main = "hw" /\ main' \in {"hw", "ports"} /\ cur' = cur /\ Done = pos - 1
    BY <1>1 DEF PollHw, Done
  <2>2. ~JustHeard /\ ~JustHeard'
    BY <2>1 DEF JustHeard
  <2>3. CASE pos <= Len(KindSeq)
    <3>1. Done' = pos /\ pos \in Nat
      BY <1>1, <2>1, <2>3 DEF PollHw, Done, PollOK
    <3>2. Goal(1)
      BY <1>1, <2>1, <2>3, <3>1 DEF PollHw
    <3> QED
      BY <2>1, <2>2, <3>2
  <2>4. CASE ~(pos <= Len(KindSeq))
    <3>1. Done' = Len(KindSeq) /\ pos = Len(KindSeq) + 1
      BY <1>1, <2>1, <2>4, CommandsType DEF PollHw, Done, PollOK, PlaceInv
    <3>2. Goal(0)
      BY <1>1, <2>1, <2>4, <3>1, CommandsType DEF PollHw
    <3> QED
      BY <2>1, <2>2, <3>2
  <2> QED
    BY <2>3, <2>4
<1>2. CASE PollPorts
  <2>1. /\ main = "ports" /\ main' = "ask" /\ cur' = cur
        /\ ~JustHeard /\ ~JustHeard'
    BY <1>2 DEF PollPorts, Goto, JustHeard
  <2>2. Cardinality(Walked') \in Nat
    <3>1. Walked' \in SUBSET Cells
      BY DEF Walked
    <3> QED
      BY <3>1, FS_Subset, FS_CardinalityType
  <2>3. Done' \in Nat /\ Done + PortWalks <= Done'
    BY <2>1, <2>2, CommandsType DEF Done
  <2>4. Goal(PortWalks)
    BY <1>2, <2>3 DEF PollPorts
  <2> QED
    BY <2>1, <2>4
<1>3. CASE Ask
  <2>1. /\ main = "ask" /\ main' \in {"ask", "walk", "announce"} /\ cur' = cur
        /\ ~JustHeard /\ ~JustHeard'
    BY <1>3 DEF Ask, JustHeard
  <2>2. Done' \in Nat /\ Done <= Done'
    <3>1. CASE pos > Len(Tables)
      <4>1. Done = Len(KindSeq) + PortWalks + Cardinality(Walked) /\ Done' = Commands - 2
        BY <1>3, <3>1 DEF Ask, Done
      <4> QED
        BY <4>1, CommandsType, WalkedTypes DEF Commands
    <3>2. CASE ~(pos > Len(Tables))
      <4>1. /\ main' \in {"ask", "walk"}
            /\ main' = "ask" => pos' = pos + 1
            /\ main' = "walk" => pos' = pos /\ col' = 1
        BY <1>3, <3>2 DEF Ask
      <4>2. Walked \subseteq Walked'
        BY <2>1, <4>1, Lengths DEF Walked, PollOK
      <4>3. /\ Done = Len(KindSeq) + PortWalks + Cardinality(Walked)
            /\ Done' = Len(KindSeq) + PortWalks + Cardinality(Walked')
        BY <2>1, <4>1 DEF Done
      <4> QED
        BY <4>2, <4>3, WalkedGrows, WalkedTypes, CommandsType
    <3> QED
      BY <3>1, <3>2
  <2>3. Goal(0)
    BY <1>0, <1>3, <2>2 DEF Ask
  <2> QED
    BY <2>1, <2>3
<1>4. CASE Walk
  <2>1. /\ main = "walk" /\ main' \in {"walk", "settle"} /\ cur' = cur
        /\ ~JustHeard /\ ~JustHeard'
    BY <1>4 DEF Walk, Goto, JustHeard
  <2>2. /\ Done = Len(KindSeq) + PortWalks + Cardinality(Walked)
        /\ Done' = Len(KindSeq) + PortWalks + Cardinality(Walked')
    BY <2>1 DEF Done
  <2>3. Done' \in Nat /\ Done + 1 <= Done'
    BY <1>4, <2>2, WalkCounts, WalkedTypes, CommandsType
  <2>4. Goal(1)
    BY <1>4, <2>3 DEF Walk
  <2> QED
    BY <2>1, <2>4
<1>5. CASE Settle
  <2>1. /\ main = "settle" /\ main' = "ask" /\ cur' = cur /\ pos' = pos + 1
        /\ ~JustHeard /\ ~JustHeard'
    BY <1>5 DEF Settle, Goto, JustHeard
  <2>2. Walked \subseteq Walked'
    BY <2>1, Lengths DEF Walked, PollOK
  <2>3. /\ Done = Len(KindSeq) + PortWalks + Cardinality(Walked)
        /\ Done' = Len(KindSeq) + PortWalks + Cardinality(Walked')
    BY <2>1 DEF Done
  <2>4. Done' \in Nat /\ Done <= Done'
    BY <2>2, <2>3, WalkedGrows, WalkedTypes, CommandsType
  <2>5. UNCHANGED << steady, silent >>
    BY <1>5 DEF Settle
  <2>6. Goal(0)
    BY <1>0, <1>5, <2>4, <2>5
  <2> QED
    BY <2>1, <2>6
<1>6. CASE Announce \/ AnnouncePorts
  <2>1. /\ main \in {"announce", "announce_ports"} /\ main' \in {"announce_ports", "state"}
        /\ cur' = cur /\ ~JustHeard /\ ~JustHeard'
    BY <1>6 DEF Announce, AnnouncePorts, Goto, JustHeard
  <2>2. Done' \in Nat /\ Done + 1 <= Done'
    <3>1. CASE main = "announce"
      <4>1. main' = "announce_ports"
        BY <1>6, <3>1 DEF Announce, AnnouncePorts, Goto
      <4>2. Done = Commands - 2 /\ Done' = Commands - 1
        BY <3>1, <4>1 DEF Done
      <4>3. Commands >= 2
        BY CommandsType DEF Commands
      <4> QED
        BY <4>2, <4>3, CommandsType
    <3>2. CASE main = "announce_ports"
      <4>1. main' = "state"
        BY <1>6, <3>2 DEF Announce, AnnouncePorts, Goto
      <4>2. Done = Commands - 1 /\ Done' = Commands
        BY <3>2, <4>1 DEF Done
      <4> QED
        BY <4>2, CommandsType
    <3> QED
      BY <2>1, <3>1, <3>2
  <2>3. Takes(1) \/ UNCHANGED << steady, silent, expires >>
    BY <1>6 DEF Announce, AnnouncePorts
  <2>4. Goal(1) \/ Goal(0)
    BY <1>0, <2>2, <2>3
  <2> QED
    BY <2>1, <2>4
<1>7. CASE PublishState /\ cur # Watched
  <2>1. main = "state" /\ main' = "next" /\ cur' = cur /\ ~JustHeard /\ ~JustHeard'
    BY <1>7 DEF PublishState, Goto, JustHeard
  <2>2. Done = Commands /\ Done' = Commands
    BY <2>1 DEF Done
  <2>3. UNCHANGED << steady, silent, expires >>
    BY <1>7 DEF PublishState
  <2>4. Goal(0)
    BY <2>2, <2>3, CommandsType
  <2> QED
    BY <2>1, <2>4
<1> QED
  BY <1>1, <1>2, <1>3, <1>4, <1>5, <1>6, <1>7

\* Between two switches nothing is lost of the time since Watched was heard.
LEMMA NextKeeps ==
  ASSUME TypeOK, PlaceInv, NextSwitch PROVE Since' = Since /\ Pause' = Pause
<1> USE SnmpAssumption DEF SnmpAssumption, TypeOK
<1>0. main = "next" /\ pos' = 1 /\ Done = Commands
  BY DEF NextSwitch, PlaceInv, Done
<1>1. CASE cur < N
  <2>1. main' = "hw" /\ cur' = cur + 1 /\ Done' = 0 /\ ~JustHeard'
    BY <1>0, <1>1 DEF NextSwitch, Done, JustHeard
  <2>2. CASE cur = Watched
    <3>1. Laps' = 0 /\ Since' = Laps' * Commands + Done'
      BY <2>1, <2>2 DEF Laps, Since, PollOK, Switches
    <3>2. Since = 0 /\ Since' = 0
      BY <1>0, <2>1, <2>2, <3>1, CommandsType DEF Since, JustHeard
    <3>3. Pause = 0 /\ Pause' = 0
      BY <1>0, <2>1, <2>2 DEF Pause, JustHeard, PollOK, Switches
    <3> QED
      BY <3>2, <3>3
  <2>3. CASE cur # Watched
    <3>1. Laps' = Laps + 1 /\ Laps \in Nat
      BY <2>1, <2>3 DEF Laps, PollOK, Switches
    <3>2. Since = Laps * Commands + Commands /\ Since' = Laps' * Commands + 0
      BY <1>0, <2>1, <2>3 DEF Since, JustHeard
    <3>3. (Laps + 1) * Commands = Laps * Commands + Commands
      BY <3>1, CommandsType
    <3>4. Laps * Commands \in Nat
      BY <3>1, CommandsType, ProductType
    <3>5. Since' = Since
      BY <3>1, <3>2, <3>3, <3>4, CommandsType
    <3>6. Pause' = Pause
      BY <1>0, <2>1, <2>3 DEF Pause, JustHeard, PollOK, Switches
    <3> QED
      BY <3>5, <3>6
  <2> QED
    BY <2>2, <2>3
<1>2. CASE ~(cur < N)
  <2>1. main' = "wait" /\ cur = N /\ ~JustHeard'
    BY <1>2 DEF NextSwitch, PollOK, Switches, JustHeard
  <2>2. Since' = (N - Watched) * Commands /\ Pause' = 0
    BY <2>1 DEF Since, Pause
  <2>3. CASE cur = Watched
    BY <1>0, <2>1, <2>2, <2>3, CommandsType DEF Since, Pause, JustHeard
  <2>4. CASE cur # Watched
    <3>1. cur > Watched /\ Laps = N - Watched - 1 /\ Laps \in Nat
      BY <2>1, <2>4 DEF Laps, Switches
    <3>2. Since = Laps * Commands + Commands /\ Pause = 0
      BY <1>0, <2>4, <3>1 DEF Since, Pause, JustHeard
    <3>3. (Laps + 1) * Commands = Laps * Commands + Commands /\ Laps + 1 = N - Watched
      BY <3>1, CommandsType DEF Switches
    <3> QED
      BY <2>2, <3>2, <3>3
  <2> QED
    BY <2>3, <2>4
<1> QED
  BY <1>1, <1>2

\* And from one cycle to the next only the wait is gained.
LEMMA CycleKeeps ==
  ASSUME TypeOK, PlaceInv, NextCycle PROVE Since' = Since /\ Pause = 0 /\ Pause' = Interval
<1> USE SnmpAssumption DEF SnmpAssumption, TypeOK
<1>1. main = "wait" /\ main' = "hw" /\ cur = 1 /\ cur' = 1 /\ pos' = 1
  BY DEF NextCycle, Goto, PlaceInv, pollVars
<1>2. Since = (N - Watched) * Commands /\ Pause = 0
  BY <1>1 DEF Since, Pause, JustHeard
<1>3. Laps' = N - Watched /\ Done' = 0 /\ ~JustHeard'
  BY <1>1 DEF Laps, Done, JustHeard, Switches
<1>4. Since' = Since + 0
  BY <1>1, <1>2, <1>3 DEF Since
<1>5. Pause' = Interval
  BY <1>1, <1>3 DEF Pause, Switches
<1> QED
  BY <1>2, <1>4, <1>5, SinceTypes

\* Every step keeps the silence within what was done since.
LEMMA HeardStep ==
  ASSUME TypeOK, PlaceInv, HeardInv, [Next]_vars PROVE HeardInv'
<1> USE SnmpAssumption DEF SnmpAssumption, TypeOK, pollVars, memVars, brokerVars, timeVars, bounds
<1>1. CASE \/ PollHw \/ PollPorts \/ Ask \/ Walk \/ Settle \/ Announce \/ AnnouncePorts
           \/ PublishState /\ cur # Watched
  <2>1. /\ cur' = cur /\ main # "wait" /\ main' # "wait" /\ ~JustHeard /\ ~JustHeard'
        /\ Done' \in Nat
        /\ \E n \in Nat : Done + n <= Done' /\ (Takes(n) \/ (n = 0 /\ UNCHANGED silent))
    <3>1. \E n \in Nat : Done + n <= Done' /\ (Takes(n) \/ (n = 0 /\ UNCHANGED << steady, silent >>))
      BY <1>1, Advances
    <3>2. \E n \in Nat : Done + n <= Done' /\ (Takes(n) \/ (n = 0 /\ UNCHANGED silent))
      BY <3>1
    <3> QED
      BY <1>1, <3>2, Advances
  <2>2. PICK n \in Nat : Done + n <= Done' /\ (Takes(n) \/ (n = 0 /\ UNCHANGED silent))
    BY <2>1
  <2>3. silent' \in Nat /\ silent' <= silent + CommandTime * n
    <3>1. CASE Takes(n)
      BY <3>1, TakesSilent
    <3>2. CASE n = 0 /\ UNCHANGED silent
      BY <3>2 DEF ClockOK
    <3> QED
      BY <2>2, <3>1, <3>2
  <2> QED
    BY <2>1, <2>2, <2>3, Spend
<1>2. CASE PublishState /\ cur = Watched
  <2>1. silent' = 0 /\ Since' = 0 /\ Pause' = 0
    BY <1>2 DEF PublishState, Goto, Since, Pause, JustHeard
  <2> QED
    BY <2>1 DEF HeardInv
<1>3. CASE NextSwitch
  BY <1>3, NextKeeps DEF NextSwitch, HeardInv
<1>4. CASE NextCycle
  <2>1. silent' = Least(silent + Interval, ExpireAfter + 1)
    BY <1>4 DEF NextCycle, Elapse
  <2>2. Since' = Since /\ Pause = 0 /\ Pause' = Interval /\ CommandTime * Since \in Nat
    BY <1>4, CycleKeeps, SinceTypes, ProductType
  <2> QED
    BY <2>1, <2>2 DEF HeardInv, ClockOK, Least
<1>5. CASE Restart
  <2>1. main' = "hw" /\ cur' = 1 /\ pos' = 1 /\ silent' = 0
    BY <1>5 DEF Restart
  <2>2. Laps' = N - Watched /\ Done' = 0 /\ ~JustHeard'
    BY <2>1 DEF Laps, Done, JustHeard, Switches
  <2>3. N - Watched \in Nat
    BY DEF Switches
  <2>4. Since' = (N - Watched) * Commands + 0
    BY <2>1, <2>2 DEF Since
  <2>5. Since' \in Nat
    BY <2>3, <2>4, CommandsType, ProductType
  <2>6. CommandTime * Since' \in Nat /\ Pause' \in Nat
    BY <2>5, ProductType DEF Pause
  <2> QED
    BY <2>1, <2>6 DEF HeardInv
<1>6. CASE LinkDown \/ LinkUp \/ (\E s \in Switches : SwitchChanges(s)) \/ UNCHANGED vars
  BY <1>6, HeardFrame DEF LinkDown, LinkUp, SwitchChanges, vars
<1> QED
  BY <1>1, <1>2, <1>3, <1>4, <1>5, <1>6 DEF Next, MainThread, Environment

\* Where a whole cycle takes no longer than Home Assistant waits, a switch is never
\* silent for longer, however many of the others time out (snmp.py L1264-L1340).
THEOREM NeverExpiresHolds == Spec => []NeverExpires
<1> USE SnmpAssumption DEF SnmpAssumption
<1>1. Init => PlaceInv /\ HeardInv
  <2> SUFFICES ASSUME Init PROVE PlaceInv /\ HeardInv
    OBVIOUS
  <2>1. main = "hw" /\ cur = 1 /\ pos = 1 /\ silent = 0
    BY DEF Init
  <2>2. PlaceInv
    BY <2>1, CommandsType DEF PlaceInv
  <2>3. Laps = N - Watched /\ Done = 0 /\ ~JustHeard /\ N - Watched \in Nat
    BY <2>1 DEF Laps, Done, JustHeard, Switches
  <2>4. Since = (N - Watched) * Commands + 0
    BY <2>1, <2>3 DEF Since
  <2>5. Since \in Nat
    BY <2>3, <2>4, CommandsType, ProductType
  <2>6. CommandTime * Since \in Nat /\ Pause \in Nat
    BY <2>5, ProductType DEF Pause
  <2> QED
    BY <2>1, <2>2, <2>6 DEF HeardInv
<1>2. TypeOK /\ PlaceInv /\ HeardInv => NeverExpires
  <2> SUFFICES ASSUME TypeOK, PlaceInv, HeardInv PROVE silent <= Cycle
    BY CycleType DEF NeverExpires, TypeOK, ClockOK
  <2>1. Since <= N * Commands
    <3>1. (N - Watched) \in Nat /\ Laps \in Nat /\ Done \in 0..Commands
          /\ N - Watched <= N /\ Laps + 1 <= N
      BY LapsType, DoneType DEF TypeOK, Switches
    <3>2. (N - Watched) * Commands <= N * Commands
      BY <3>1, CommandsType, ProductGrows, ProductType
    <3>3. (Laps + 1) * Commands <= N * Commands
      BY <3>1, CommandsType, ProductGrows, ProductType
    <3>4. (Laps + 1) * Commands = Laps * Commands + Commands
      BY <3>1, CommandsType
    <3>5. Laps * Commands \in Nat /\ N * Commands \in Nat
      BY <3>1, CommandsType, ProductType
    <3> QED
      BY <3>1, <3>2, <3>3, <3>4, <3>5, CommandsType DEF Since
  <2>2. Since \in Nat /\ N * Commands \in Nat /\ Pause \in 0..Interval
    BY SinceTypes, CommandsType, ProductType DEF TypeOK, Pause
  <2>3. CommandTime * Since <= CommandTime * (N * Commands)
    BY <2>1, <2>2, ProductMonotone
  <2>4. Cycle = CommandTime * (N * Commands) + Interval
    BY CommandsType DEF Cycle, SwitchTime, Commands
  <2>5. CommandTime * Since \in Nat /\ CommandTime * (N * Commands) \in Nat
    BY <2>2, ProductType
  <2> QED
    BY <2>2, <2>3, <2>4, <2>5 DEF HeardInv, TypeOK, ClockOK
<1> QED
  BY <1>1, <1>2, PlaceStep, HeardStep, TypeCorrect, PTL DEF Spec

-------------------------------------------------------------------------------

LEMMA TablesType == DOMAIN Tables = 1..Len(Tables) /\ Len(Tables) \in Nat
BY SnmpAssumption DEF SnmpAssumption

\* The columns of a table are that many cells.
LEMMA ColumnCells ==
  ASSUME NEW t \in TableSet
  PROVE  LET C == {t} \X (1..Columns[t]) IN IsFiniteSet(C) /\ Cardinality(C) = Columns[t]
<1> DEFINE C == {t} \X (1..Columns[t])
<1>1. Columns[t] \in Nat
  BY SnmpAssumption DEF SnmpAssumption
<1>2. IsFiniteSet({t}) /\ Cardinality({t}) = 1
  BY FS_Singleton
<1>3. IsFiniteSet(1..Columns[t]) /\ Cardinality(1..Columns[t]) = Columns[t]
  BY <1>1, FS_Interval
<1>4. IsFiniteSet(C) /\ Cardinality(C) = 1 * Columns[t]
  BY <1>2, <1>3, FS_Product
<1> QED
  BY <1>1, <1>4

\* The place of a table in the poll.
LEMMA MarkTypes ==
  ASSUME NEW j \in DOMAIN Tables
  PROVE  /\ Mark(j) \in Nat /\ Mark(j) <= Commands
         /\ Columns[Tables[j]] <= Mark(j) /\ Columns[Tables[j]] \in Nat
<1> DEFINE t == Tables[j]
<1> DEFINE C == {t} \X (1..Columns[t])
<1>1. t \in TableSet /\ j \in Nat \ {0}
  BY TablesType DEF TableSet
<1>2. Upto(j) \in SUBSET Cells
  BY DEF Upto
<1>3. /\ IsFiniteSet(Upto(j)) /\ Cardinality(Upto(j)) \in Nat
      /\ Cardinality(Upto(j)) <= Cardinality(Cells)
  BY <1>2, FS_Subset, FS_CardinalityType, SnmpAssumption DEF SnmpAssumption
<1>4. C \in SUBSET Upto(j)
  BY <1>1, CellTypes DEF Upto
<1>5. Cardinality(C) <= Cardinality(Upto(j))
  BY <1>3, <1>4, FS_Subset
<1>6. Cardinality(C) = Columns[t] /\ Columns[t] \in Nat
  BY <1>1, ColumnCells, SnmpAssumption DEF SnmpAssumption
<1>7. PortWalks \in Nat
  BY SnmpAssumption DEF SnmpAssumption
<1> HIDE DEF t, C
<1>8. /\ Mark(j) = Len(KindSeq) + PortWalks + Cardinality(Upto(j))
      /\ Commands = Len(KindSeq) + PortWalks + Cardinality(Cells) + 2
  BY DEF Mark, Commands
<1>9. Columns[t] <= Mark(j) /\ Columns[t] \in Nat /\ Mark(j) \in Nat /\ Mark(j) <= Commands
  BY <1>3, <1>5, <1>6, <1>7, <1>8, CommandsType
<1> QED
  BY <1>9 DEF t

\* A poll past a table has spent what it takes to get there, and one that is not has
\* not spent more.
LEMMA DoneMark ==
  ASSUME PollOK, PlaceInv, NEW j \in DOMAIN Tables
  PROVE  /\ Passed(j) => Mark(j) <= Done
         /\ cur = Watched /\ main # "wait" /\ ~Passed(j) => Done <= Mark(j)
<1>1. Mark(j) \in Nat /\ Mark(j) <= Commands - 2 /\ Cardinality(Upto(j)) \in Nat
      /\ IsFiniteSet(Upto(j)) /\ PortWalks \in Nat
  <2>1. Upto(j) \in SUBSET Cells
    BY DEF Upto
  <2>2. /\ IsFiniteSet(Upto(j)) /\ Cardinality(Upto(j)) \in Nat
        /\ Cardinality(Upto(j)) <= Cardinality(Cells)
    BY <2>1, FS_Subset, FS_CardinalityType, SnmpAssumption DEF SnmpAssumption
  <2>3. PortWalks \in Nat
    BY SnmpAssumption DEF SnmpAssumption
  <2> QED
    BY <2>2, <2>3, CommandsType DEF Mark, Commands
<1>2. CASE main \in {"ask", "walk", "settle"}
  <2>1. Done = Len(KindSeq) + PortWalks + Cardinality(Walked)
    BY <1>2 DEF Done
  <2>2. CASE pos > j
    <3>1. Upto(j) \subseteq Walked
      BY <2>2, TablesType DEF Upto, Walked, PollOK
    <3>2. Cardinality(Upto(j)) <= Cardinality(Walked)
      BY <3>1, WalkedTypes, FS_Subset
    <3>3. cur = Watched => Passed(j)
      BY <1>2, <2>2 DEF Passed
    <3> QED
      BY <1>1, <2>1, <3>2, <3>3, WalkedTypes, CommandsType DEF Mark
  <2>3. CASE ~(pos > j)
    <3>1. Walked \subseteq Upto(j)
      BY <2>3, TablesType DEF Upto, Walked, PollOK
    <3>2. Cardinality(Walked) <= Cardinality(Upto(j))
      BY <1>1, <3>1, FS_Subset
    <3>3. ~Passed(j)
      BY <1>2, <2>3 DEF Passed
    <3> QED
      BY <1>1, <2>1, <3>2, <3>3, WalkedTypes, CommandsType DEF Mark
  <2> QED
    BY <2>2, <2>3
<1>3. CASE main \in {"hw", "ports"}
  <2>1. ~Passed(j)
    BY <1>3 DEF Passed
  <2>2. Done \in {pos - 1, Len(KindSeq)} /\ (main = "ports" => Done = Len(KindSeq))
        /\ (main = "hw" => Done = pos - 1)
    BY <1>3 DEF Done
  <2>3. Done <= Len(KindSeq)
    BY <1>3, <2>2, CommandsType DEF PlaceInv, PollOK
  <2>4. Done \in Int
    BY <2>2, CommandsType DEF PollOK
  <2> QED
    BY <1>1, <2>1, <2>3, <2>4, CommandsType DEF Mark
<1>4. CASE main \in {"announce", "announce_ports", "state", "next", "wait"}
  <2>1. Done \in {Commands - 2, Commands - 1, Commands}
    BY <1>4 DEF Done
  <2>2. cur = Watched /\ main # "wait" => Passed(j)
    BY <1>4 DEF Passed
  <2> QED
    BY <1>1, <2>1, <2>2, CommandsType
<1> QED
  BY <1>2, <1>3, <1>4 DEF PollOK, MainPc

\* No more commands than a cycle's lie between two polls of Watched ...
LEMMA SinceBound == ASSUME PollOK, PlaceInv PROVE Since <= N * Commands
<1>1. /\ N - Watched \in Nat /\ Laps \in Nat /\ Done \in 0..Commands
      /\ N - Watched <= N /\ Laps + 1 <= N /\ N \in Nat
  BY LapsType, DoneType, SnmpAssumption DEF Switches, SnmpAssumption
<1>2. (N - Watched) * Commands <= N * Commands
  BY <1>1, CommandsType, ProductRight
<1>3. (Laps + 1) * Commands <= N * Commands
  BY <1>1, CommandsType, ProductRight
<1>4. (Laps + 1) * Commands = Laps * Commands + Commands
  BY <1>1, CommandsType
<1>5. Laps * Commands \in Nat /\ N * Commands \in Nat
  BY <1>1, CommandsType, ProductType
<1> QED
  BY <1>1, <1>2, <1>3, <1>4, <1>5, CommandsType DEF Since

\* ... nor between its asking for a table and the next time.
LEMMA SinceAskBound ==
  ASSUME PollOK, PlaceInv, NEW j \in DOMAIN Tables
  PROVE  SinceAsk(j) \in Nat /\ SinceAsk(j) <= N * Commands
<1>1. Mark(j) \in Nat /\ Mark(j) <= Commands /\ Done \in 0..Commands /\ Since \in Nat
  BY MarkTypes, DoneType, SinceTypes
<1>2. N \in Nat \ {0} /\ Commands \in Nat /\ N * Commands \in Nat /\ Watched \in 1..N
  BY CommandsType, ProductType, SnmpAssumption DEF SnmpAssumption, Switches
<1>3. Commands <= N * Commands
  <2>1. 1 * Commands <= N * Commands
    BY <1>2, ProductRight
  <2> QED
    BY <1>2, <2>1
<1>4. CASE Passed(j)
  BY <1>1, <1>2, <1>3, <1>4, DoneMark DEF SinceAsk
<1>5. CASE ~Passed(j)
  <2>1. SinceAsk(j) = Since + Commands - Mark(j)
    BY <1>5 DEF SinceAsk
  <2>2. ~JustHeard
    BY <1>5 DEF JustHeard, Passed
  <2>3. Since + Commands - Mark(j) <= N * Commands
    <3>1. CASE main = "wait"
      <4>1. Since = (N - Watched) * Commands
        BY <2>2, <3>1 DEF Since
      <4>2. (N - Watched + 1) * Commands <= N * Commands
        BY <1>2, ProductRight
      <4>3. (N - Watched + 1) * Commands = (N - Watched) * Commands + Commands
        BY <1>2
      <4> QED
        BY <1>1, <1>2, <4>1, <4>2, <4>3
    <3>2. CASE main # "wait" /\ cur = Watched
      <4>1. Since = Laps * Commands + Done /\ Laps + 1 = N
        BY <1>2, <2>2, <3>2 DEF Since, Laps
      <4>2. Laps \in Nat /\ (Laps + 1) * Commands = Laps * Commands + Commands
        BY <1>2, LapsType
      <4>3. Done <= Mark(j)
        BY <1>5, <3>2, DoneMark
      <4>4. Laps * Commands \in Nat
        BY <1>2, <4>2, ProductType
      <4> QED
        BY <1>1, <1>2, <4>1, <4>2, <4>3, <4>4
    <3>3. CASE main # "wait" /\ cur # Watched
      <4>1. Since = Laps * Commands + Done
        BY <2>2, <3>3 DEF Since
      <4>2. Laps \in Nat /\ Laps + 2 <= N
        BY <1>2, <3>3, LapsType DEF Laps, PollOK, Switches
      <4>3. (Laps + 2) * Commands <= N * Commands
        BY <1>2, <4>2, ProductRight
      <4>4. (Laps + 2) * Commands = Laps * Commands + Commands + Commands
        BY <1>2, <4>2
      <4>5. Laps * Commands \in Nat
        BY <1>2, <4>2, ProductType
      <4> QED
        BY <1>1, <1>2, <4>1, <4>3, <4>4, <4>5
    <3> QED
      BY <3>1, <3>2, <3>3
  <2> QED
    BY <1>1, <1>2, <2>1, <2>3
<1> QED
  BY <1>4, <1>5

\* A number of commands within a cycle, and a wait, fit into its time.
LEMMA WithinCycle ==
  ASSUME NEW a \in Nat, a <= N * Commands, NEW p \in 0..Interval
  PROVE  CommandTime * a \in Nat /\ CommandTime * a + p \in 0..Cycle
<1> USE SnmpAssumption DEF SnmpAssumption
<1>1. N * Commands \in Nat
  BY CommandsType, ProductType
<1>2. CommandTime * a <= CommandTime * (N * Commands)
  BY <1>1, ProductMonotone
<1>3. Cycle = CommandTime * (N * Commands) + Interval
  BY CommandsType DEF Cycle, SwitchTime, Commands
<1> DEFINE x == CommandTime * a
<1> DEFINE y == CommandTime * (N * Commands)
<1>4. x \in Nat /\ y \in Nat /\ x <= y /\ Cycle = y + Interval
  BY <1>1, <1>2, <1>3, ProductType
<1> HIDE DEF x, y
<1>5. x \in Nat /\ x + p \in 0..Cycle
  BY <1>4
<1> QED
  BY <1>5 DEF x

LEMMA SwitchTimes ==
  /\ SwitchTime \in Nat /\ SwitchTime <= Cycle /\ SwitchTime = CommandTime * Commands
<1> USE SnmpAssumption DEF SnmpAssumption
<1>1. SwitchTime = CommandTime * Commands
  BY DEF SwitchTime, Commands
<1>2. SwitchTime \in Nat
  BY <1>1, CommandsType, ProductType
<1>3. 1 * SwitchTime <= N * SwitchTime /\ N * SwitchTime \in Nat
  BY <1>2, ProductRight, ProductType
<1> QED
  BY <1>1, <1>2, <1>3 DEF Cycle

LEMMA ReachBounds == PollOK /\ PlaceInv => ReachInv
<1> SUFFICES ASSUME PollOK, PlaceInv PROVE ReachInv
  OBVIOUS
<1>1. Done \in 0..Commands /\ Since \in Nat /\ Pause \in Nat
  BY DoneType, SinceTypes
<1>2. DoneTime \in Nat /\ DoneTime <= SwitchTime
  BY <1>1, CommandsType, ProductType, ProductMonotone, SwitchTimes, SnmpAssumption
  DEF DoneTime, SnmpAssumption
<1>3. Pause \in 0..Interval
  BY SnmpAssumption DEF Pause, SnmpAssumption
<1>4. HeardTime \in 0..Cycle
  BY <1>1, <1>3, SinceBound, WithinCycle DEF HeardTime
<1>5. ASSUME NEW j \in DOMAIN Tables
      PROVE  SinceAsk(j) \in Nat /\ AskTime(j) \in 0..Cycle /\ (Passed(j) => Mark(j) <= Done)
  <2>1. (IF Passed(j) THEN 0 ELSE Pause) \in 0..Interval
    BY <1>3, SnmpAssumption DEF SnmpAssumption
  <2> QED
    BY <2>1, SinceAskBound, WithinCycle, DoneMark DEF AskTime
<1> QED
  BY <1>1, <1>2, <1>4, <1>5, CommandsType DEF ReachInv

-------------------------------------------------------------------------------

\* e more has passed at most, and a table expires no later than before.
Aging(e) ==
  /\ steady' \in Nat /\ steady' <= steady + e
  /\ steady' > 0 => answers[Watched] /\ link
Expiring(t) ==
  expires'[Watched][t] > 0 =>
    /\ expires[Watched][t] > 0
    /\ steady' + expires'[Watched][t] <= steady + expires[Watched][t]

LEMMA ElapseAging ==
  ASSUME ClockOK, NEW d \in Nat, Elapse(d)
  PROVE  Aging(d) /\ \A t \in TableSet : Expiring(t)
<1> USE SnmpAssumption DEF SnmpAssumption
<1>1. steady \in Nat /\ PickUpTime \in Nat
  BY PickUpTimeType DEF ClockOK
<1>2. steady' = IF answers[Watched] /\ link THEN Least(steady + d, PickUpTime + 1) ELSE 0
  BY DEF Elapse
<1>3. ASSUME NEW t \in TableSet
      PROVE  /\ expires[Watched][t] \in Nat
             /\ expires'[Watched][t] = IF d < expires[Watched][t] THEN expires[Watched][t] - d ELSE 0
  BY DEF Elapse, ClockOK
<1>4. steady' \in Nat /\ steady' <= steady + d /\ (steady' > 0 => answers[Watched] /\ link)
  BY <1>1, <1>2 DEF Least
<1>5. ASSUME NEW t \in TableSet PROVE Expiring(t)
  <2>1. CASE d < expires[Watched][t]
    BY <1>1, <1>3, <1>4, <2>1 DEF Expiring
  <2>2. CASE ~(d < expires[Watched][t])
    BY <1>3, <2>2 DEF Expiring
  <2> QED
    BY <2>1, <2>2
<1> QED
  BY <1>4, <1>5 DEF Aging

LEMMA TakesAging ==
  ASSUME ClockOK, NEW n \in Nat, Takes(n)
  PROVE  Aging(CommandTime * n) /\ \A t \in TableSet : Expiring(t)
<1>1. PICK d \in 0..(n * CommandTime) : Elapse(d)
  BY DEF Takes
<1>2. n * CommandTime \in Nat /\ n * CommandTime = CommandTime * n
  BY ProductType, SnmpAssumption DEF SnmpAssumption
<1>3. /\ Aging(d) /\ d \in Nat /\ d <= CommandTime * n /\ CommandTime * n \in Nat
      /\ \A t \in TableSet : Expiring(t)
  BY <1>1, <1>2, ElapseAging
<1>4. steady \in Nat
  BY DEF ClockOK
<1> QED
  BY <1>3, <1>4 DEF Aging

LEMMA StillAging ==
  ASSUME ClockOK, WalkInv, UNCHANGED steady
  PROVE  Aging(0) /\ Aging(CommandTime * 0)
<1>1. CommandTime * 0 = 0 /\ steady \in Nat
  BY SnmpAssumption DEF SnmpAssumption, ClockOK
<1>2. Aging(0)
  BY <1>1 DEF Aging, WalkInv
<1> QED
  BY <1>1, <1>2

LEMMA StillExpiring ==
  ASSUME ClockOK, ClockOK', steady' <= steady, NEW t \in TableSet,
         expires'[Watched][t] = expires[Watched][t]
  PROVE  Expiring(t)
<1>1. steady \in Nat /\ steady' \in Nat /\ expires[Watched][t] \in Nat
  BY SnmpAssumption DEF SnmpAssumption, ClockOK
<1> QED
  BY <1>1 DEF Expiring

\* A step of a poll that runs n commands gains their time everywhere.
LEMMA PollGains ==
  ASSUME PollOK, PlaceInv, ReachInv, ReachInv', cur' = cur,
         main # "wait", main' # "wait", ~JustHeard, ~JustHeard',
         NEW n \in Nat, Done + n <= Done'
  PROVE  /\ HeardTime + CommandTime * n <= HeardTime'
         /\ DoneTime + CommandTime * n <= DoneTime'
         /\ \A j \in DOMAIN Tables : (Passed(j)' <=> Passed(j)) =>
              AskTime(j) + CommandTime * n <= AskTime(j)'
<1>0. /\ Since \in Nat /\ Since' \in Nat /\ Done \in Nat /\ Done' \in Nat
      /\ Pause \in Nat /\ Pause' \in Nat
      /\ \A j \in DOMAIN Tables : SinceAsk(j) \in Nat /\ SinceAsk(j)' \in Nat
  BY DEF ReachInv
<1>1. CommandTime \in Nat
  BY SnmpAssumption DEF SnmpAssumption
<1>2. Laps * Commands \in Nat
  BY LapsType
<1>3. Since = Laps * Commands + Done /\ Since' = Laps * Commands + Done'
  BY DEF Since, Laps
<1>4. Pause' = Pause
  BY DEF Pause
<1>5. Since + n <= Since'
  BY <1>0, <1>2, <1>3
<1>6. HeardTime + CommandTime * n <= HeardTime'
  BY <1>0, <1>1, <1>4, <1>5, ProductGains DEF HeardTime
<1>7. DoneTime + CommandTime * n <= DoneTime'
  <2>1. CommandTime * Done + CommandTime * n <= CommandTime * Done'
    BY <1>0, <1>1, ProductGrows
  <2> QED
    BY <2>1 DEF DoneTime
<1>8. ASSUME NEW j \in DOMAIN Tables, Passed(j)' <=> Passed(j)
      PROVE  AskTime(j) + CommandTime * n <= AskTime(j)'
  <2>1. Mark(j)' = Mark(j) /\ Mark(j) \in Nat
    BY MarkTypes DEF Mark, Upto
  <2>2. SinceAsk(j) \in Nat /\ SinceAsk(j)' \in Nat
    BY <1>0
  <2>3. SinceAsk(j) + n <= SinceAsk(j)'
    <3>1. CASE Passed(j)
      <4>1. SinceAsk(j) = Done - Mark(j) /\ SinceAsk(j)' = Done' - Mark(j)
        BY <1>8, <2>1, <3>1 DEF SinceAsk
      <4> QED
        BY <1>0, <2>1, <4>1
    <3>2. CASE ~Passed(j)
      <4>1. /\ SinceAsk(j) = Since + Commands - Mark(j)
            /\ SinceAsk(j)' = Since' + Commands - Mark(j)
        BY <1>8, <2>1, <3>2 DEF SinceAsk, Commands
      <4> QED
        BY <1>0, <1>5, <2>1, <4>1, CommandsType
    <3> QED
      BY <3>1, <3>2
  <2>4. (IF Passed(j) THEN 0 ELSE Pause)' = IF Passed(j) THEN 0 ELSE Pause
    BY <1>4, <1>8
  <2>5. (IF Passed(j) THEN 0 ELSE Pause) \in Nat
    BY <1>0
  <2>6. AskTime(j)' = CommandTime * SinceAsk(j)' + IF Passed(j) THEN 0 ELSE Pause
    BY <2>4 DEF AskTime
  <2> QED
    BY <1>1, <2>2, <2>3, <2>5, <2>6, ProductGains DEF AskTime
<1> QED
  BY <1>6, <1>7, <1>8

\* What the watched switch says of a table, and what is kept and shown of it, stay.
TableKept(t) ==
  \A c \in 1..Columns[t] :
    UNCHANGED << says[Watched][<< t, c >>], cache[Watched][<< t, c >>],
                 shown[Watched][<< t, c >>] >>

\* Then its age grows no faster than the time since it was asked for.
LEMMA AgeCarry ==
  ASSUME TypeOK, TypeOK', ReachInv, ReachInv', NEW j \in DOMAIN Tables, AgeOf(j),
         TableKept(Tables[j]), NEW e \in Nat, Aging(e), Expiring(Tables[j]),
         HeardTime + e <= HeardTime',
         AskTime(j) + e <= AskTime(j)',
         Passed(j) /\ main # "next" =>
           Passed(j)' /\ main' # "next" /\ DoneTime + e <= DoneTime'
  PROVE  AgeOf(j)'
<1> DEFINE t == Tables[j]
<1> DEFINE w == WalkTime(t)
<1>1. t \in TableSet
  BY TablesType DEF TableSet
<1>2. /\ Stale(t)' <=> Stale(t)
      /\ Unshown(t)' <=> Unshown(t)
  BY DEF TableKept, Stale, Unshown
<1>3. w \in Nat /\ TTL \in Nat /\ Cycle \in Nat
  BY <1>1, CycleType, ProductType, SnmpAssumption DEF WalkTime, SnmpAssumption
<1>4. steady \in Nat /\ steady' \in Nat /\ steady' <= steady + e
  BY DEF TypeOK, ClockOK, Aging
<1>5. /\ AskTime(j) \in Nat /\ AskTime(j)' \in Nat /\ HeardTime \in Nat /\ HeardTime' \in Nat
      /\ DoneTime \in Nat /\ DoneTime' \in Nat
  BY CycleType DEF ReachInv
<1>6. expires[Watched][t] \in Nat /\ expires'[Watched][t] \in Nat
  BY <1>1, SnmpAssumption DEF TypeOK, ClockOK, SnmpAssumption
<1>7. /\ Stale(t) /\ expires[Watched][t] > 0 => steady + expires[Watched][t] <= TTL + w
      /\ Stale(t) => steady <= TTL + w + AskTime(j)
      /\ Unshown(t) /\ ~Stale(t) =>
           \/ steady <= HeardTime
           \/ main # "next" /\ Passed(j) /\ steady <= TTL + Cycle + DoneTime
  BY DEF AgeOf
<1>8. expires'[Watched][t] > 0 =>
        /\ expires[Watched][t] > 0
        /\ steady' + expires'[Watched][t] <= steady + expires[Watched][t]
  BY DEF Expiring
<1> HIDE DEF w, t
<1>9. Stale(t) /\ expires'[Watched][t] > 0 => steady' + expires'[Watched][t] <= TTL + w
  BY <1>3, <1>4, <1>6, <1>7, <1>8
<1>10. Stale(t) => steady' <= TTL + w + AskTime(j)'
  BY <1>3, <1>4, <1>5, <1>7
<1>11. Unshown(t) /\ ~Stale(t) =>
         \/ steady' <= HeardTime'
         \/ main' # "next" /\ Passed(j)' /\ steady' <= TTL + Cycle + DoneTime'
  <2>1. CASE steady <= HeardTime
    <3>1. steady' <= HeardTime'
      BY <1>4, <1>5, <2>1
    <3> QED
      BY <3>1
  <2>2. CASE main # "next" /\ Passed(j) /\ steady <= TTL + Cycle + DoneTime
    <3>1. Passed(j)' /\ main' # "next" /\ DoneTime + e <= DoneTime'
      BY <2>2
    <3>2. steady' <= TTL + Cycle + DoneTime'
      <4>1. DoneTime + e <= DoneTime' /\ steady <= TTL + Cycle + DoneTime
        BY <2>2, <3>1
      <4>2. TTL + Cycle \in Nat
        BY <1>3
      <4>3. steady + e <= TTL + Cycle + DoneTime + e
        BY <1>4, <1>5, <4>1, <4>2
      <4>4. TTL + Cycle + DoneTime + e <= TTL + Cycle + DoneTime'
        BY <1>5, <4>1, <4>2
      <4>5. TTL + Cycle + DoneTime + e \in Nat /\ TTL + Cycle + DoneTime' \in Nat
        BY <1>5, <4>2
      <4> QED
        BY <1>4, <4>3, <4>4, <4>5
    <3> QED
      BY <3>1, <3>2
  <2> QED
    BY <1>7, <2>1, <2>2
<1> USE DEF w, t
<1> QED
  BY <1>2, <1>9, <1>10, <1>11 DEF AgeOf

\* A step of a poll that runs n commands and leaves a table as it is.
LEMMA AgePoll ==
  ASSUME TypeOK, TypeOK', PlaceInv, ReachInv, ReachInv', NEW j \in DOMAIN Tables, AgeOf(j),
         TableKept(Tables[j]), cur' = cur,
         main # "wait", main' # "wait", ~JustHeard, ~JustHeard',
         NEW n \in Nat, Done + n <= Done', Aging(CommandTime * n), Expiring(Tables[j]),
         Passed(j)' <=> Passed(j)
  PROVE  AgeOf(j)'
<1>1. CommandTime * n \in Nat
  BY ProductType, SnmpAssumption DEF SnmpAssumption
<1>2. /\ HeardTime + CommandTime * n <= HeardTime'
      /\ DoneTime + CommandTime * n <= DoneTime'
      /\ AskTime(j) + CommandTime * n <= AskTime(j)'
  BY PollGains DEF TypeOK
<1>3. Passed(j) => main # "next" /\ main' # "next"
  BY DEF Passed, JustHeard
<1> QED
  BY <1>1, <1>2, <1>3, AgeCarry

\* A step that leaves the place of the poll.
LEMMA AgeStill ==
  ASSUME TypeOK, TypeOK', ReachInv, ReachInv', NEW j \in DOMAIN Tables, AgeOf(j),
         TableKept(Tables[j]), UNCHANGED << main, cur, pos, col >>,
         Aging(0), Expiring(Tables[j])
  PROVE  AgeOf(j)'
<1>1. Walked' = Walked
  BY DEF Walked
<1>2. Done' = Done
  BY <1>1 DEF Done
<1>3. Since' = Since /\ Pause' = Pause /\ (Passed(j)' <=> Passed(j)) /\ Mark(j)' = Mark(j)
  BY <1>2 DEF Since, Pause, Laps, JustHeard, Passed, Mark, Upto
<1>4. SinceAsk(j)' = SinceAsk(j)
  BY <1>2, <1>3 DEF SinceAsk, Commands
<1>5. HeardTime' = HeardTime /\ DoneTime' = DoneTime /\ AskTime(j)' = AskTime(j)
  BY <1>2, <1>3, <1>4 DEF HeardTime, DoneTime, AskTime
<1>6. HeardTime \in Nat /\ DoneTime \in Nat /\ AskTime(j) \in Nat
  BY CycleType DEF ReachInv
<1>7. /\ HeardTime + 0 <= HeardTime'
      /\ DoneTime + 0 <= DoneTime'
      /\ AskTime(j) + 0 <= AskTime(j)'
  BY <1>5, <1>6
<1> QED
  BY <1>3, <1>7, AgeCarry

\* A change of the watched switch, its loss, or a new process: all starts anew.
LEMMA AgeReset ==
  ASSUME TypeOK', ReachInv', NEW j \in DOMAIN Tables, steady' = 0 PROVE AgeOf(j)'
<1> DEFINE t == Tables[j]
<1>1. t \in TableSet
  BY TablesType DEF TableSet
<1>2. WalkTime(t) \in Nat /\ WalkTime(t)' = WalkTime(t) /\ TTL \in Nat
  BY <1>1, ProductType, SnmpAssumption DEF WalkTime, SnmpAssumption
<1>3. expires'[Watched][t] \in 0..TTL
  BY <1>1, SnmpAssumption DEF TypeOK, ClockOK, SnmpAssumption
<1>4. AskTime(j)' \in Nat /\ HeardTime' \in Nat
  BY CycleType DEF ReachInv
<1>5. 0 + expires'[Watched][t] <= TTL + WalkTime(t)
  BY <1>2, <1>3
<1>6. 0 <= TTL + WalkTime(t) + AskTime(j)' /\ 0 <= HeardTime'
  BY <1>2, <1>4
<1> QED
  BY <1>2, <1>5, <1>6 DEF AgeOf

-------------------------------------------------------------------------------

\* Every step keeps what was read of the table at hand.
LEMMA WalkStep ==
  ASSUME TypeOK, TypeOK', WalkInv, [Next]_vars PROVE WalkInv'
<1> USE DEF worldVars, pollVars, memVars, brokerVars, timeVars, bounds
<1>1. steady \in Nat /\ steady' \in Nat
  BY DEF TypeOK, ClockOK
<1>2. ASSUME NEW n \in Nat, Takes(n), UNCHANGED << answers, link >>
      PROVE  steady' > 0 => answers'[Watched] /\ link'
  BY <1>2, TakesAging DEF Aging, TypeOK
<1>3. CASE PollHw \/ PollPorts \/ Ask \/ Announce \/ AnnouncePorts \/ PublishState \/ NextSwitch
           \/ NextCycle \/ LinkUp
  <2>1. steady' > 0 => answers'[Watched] /\ link'
    <3>1. CASE \E n \in Nat : Takes(n) /\ UNCHANGED << answers, link >>
      BY <3>1, <1>2
    <3>2. CASE NextCycle
      BY <3>2, ElapseAging, SnmpAssumption DEF NextCycle, Aging, TypeOK, SnmpAssumption
    <3>3. CASE UNCHANGED << answers, steady >> /\ (link => link')
      BY <3>3 DEF WalkInv
    <3> QED
      BY <1>3, <3>1, <3>2, <3>3, SnmpAssumption
      DEF PollHw, PollPorts, Ask, Announce, AnnouncePorts, PublishState, NextSwitch, LinkUp,
          SnmpAssumption
  <2>2. CASE Ask
    <3>1. main' # "settle" /\ (main' = "walk" => col' = 1)
      BY <2>2 DEF Ask
    <3>2. main' = "walk" => ReadSo(Tables[pos], col - 1)'
      BY <3>1 DEF ReadSo
    <3> QED
      BY <2>1, <3>1, <3>2 DEF WalkInv
  <2>3. CASE LinkUp
    BY <2>1, <2>3 DEF LinkUp, WalkInv, ReadSo, WalkTime
  <2>4. CASE ~Ask /\ ~LinkUp
    <3>1. main' \notin {"walk", "settle"}
      BY <1>3, <2>4
      DEF PollHw, PollPorts, Announce, AnnouncePorts, PublishState, NextSwitch, NextCycle, Goto
    <3> QED
      BY <2>1, <3>1 DEF WalkInv
  <2> QED
    BY <2>2, <2>3, <2>4
<1>4. CASE Walk
  <2> DEFINE t == Tables[pos]
  <2>1. /\ main = "walk" /\ cur' = cur /\ pos' = pos /\ says' = says
        /\ main' = IF col < Columns[t] THEN "walk" ELSE "settle"
        /\ col' = IF col < Columns[t] THEN col + 1 ELSE 1
        /\ got' = IF answers[cur] THEN [got EXCEPT ![<< t, col >>] = says[cur][<< t, col >>]]
                  ELSE got
    BY <1>4 DEF Walk, Goto
  <2>2. Aging(CommandTime * 1) /\ CommandTime * 1 \in Nat /\ CommandTime \in Nat
    BY <1>4, TakesAging, SnmpAssumption DEF Walk, TypeOK, SnmpAssumption
  <2>3. steady' > 0 => answers'[Watched] /\ link'
    BY <1>4, <1>2 DEF Walk
  <2>4. t \in TableSet /\ Columns[t] \in Nat \ {0} /\ col \in 1..Columns[t]
    BY <2>1, Elements, SnmpAssumption DEF TypeOK, PollOK, SnmpAssumption
  <2>5. ASSUME cur = Watched
        PROVE  \/ \A c \in 1..col : got'[<< t, c >>] = says'[Watched][<< t, c >>]
               \/ steady' <= CommandTime * col
    <3>1. CASE steady' = 0
      <4>1. CommandTime * col \in Nat
        BY <2>2, <2>4, ProductType
      <4> QED
        BY <3>1, <4>1
    <3>2. CASE steady' # 0 /\ ReadSo(t, col - 1)
      <4>1. answers[Watched]
        BY <1>1, <2>2, <3>2 DEF Aging
      <4>2. << t, col >> \in Cells /\ \A c \in 1..col : << t, c >> \in Cells
        BY <2>4, CellTypes
      <4>3. ASSUME NEW c \in 1..col PROVE got'[<< t, c >>] = says[Watched][<< t, c >>]
        <5>1. /\ got' = [got EXCEPT ![<< t, col >>] = says[Watched][<< t, col >>]]
              /\ got \in [Cells -> Values \cup {NoValue}]
          BY <2>1, <2>5, <4>1 DEF TypeOK, PollOK
        <5>2. CASE c = col
          BY <4>2, <5>1, <5>2
        <5>3. CASE c # col
          <6>1. c \in 1..(col - 1) /\ << t, c >> # << t, col >>
            BY <2>4, <5>3
          <6> QED
            BY <3>2, <4>2, <5>1, <6>1 DEF ReadSo
        <5> QED
          BY <5>2, <5>3
      <4>4. col' \in Nat /\ \A c \in 1..col : got'[<< t, c >>] = says'[Watched][<< t, c >>]
        BY <2>1, <4>3 DEF TypeOK, PollOK
      <4> QED
        BY <4>4
    <3>3. CASE steady <= CommandTime * (col - 1)
      <4>1. CommandTime * (col - 1) \in Nat /\ CommandTime * col = CommandTime * (col - 1) + CommandTime * 1
        BY <2>2, <2>4, ProductType
      <4> QED
        BY <1>1, <2>2, <3>3, <4>1 DEF Aging
    <3> QED
      BY <2>1, <2>5, <3>1, <3>2, <3>3 DEF WalkInv
  <2>6. CASE col < Columns[t]
    <3>1. main' = "walk" /\ col' = col + 1 /\ col' - 1 = col
      BY <2>1, <2>4, <2>6
    <3> QED
      BY <2>1, <2>3, <2>5, <3>1 DEF WalkInv, ReadSo
  <2>7. CASE ~(col < Columns[t])
    <3>1. main' = "settle" /\ col = Columns[t]
      BY <2>1, <2>4, <2>7
    <3> QED
      BY <2>1, <2>3, <2>5, <3>1 DEF WalkInv, ReadSo, WalkTime
  <2> QED
    BY <2>6, <2>7
<1>5. CASE Settle
  <2>1. main' = "ask" /\ UNCHANGED << answers, link, steady >>
    BY <1>5 DEF Settle, Goto
  <2> QED
    BY <2>1 DEF WalkInv
<1>6. CASE Restart
  BY <1>6 DEF Restart, WalkInv
<1>7. CASE LinkDown \/ \E s \in Switches : s = Watched /\ SwitchChanges(s)
  <2>1. steady' = 0 /\ UNCHANGED << main, cur, pos, col >>
    BY <1>7 DEF LinkDown, SwitchChanges
  <2>2. main = "walk" => CommandTime * (col - 1) \in Nat
    <3>1. col - 1 \in Nat
      BY DEF TypeOK, PollOK
    <3> QED
      BY <3>1, ProductType, SnmpAssumption DEF SnmpAssumption
  <2>3. main = "settle" => WalkTime(Tables[pos]) \in Nat
    <3>1. main = "settle" => Tables[pos] \in TableSet
      BY Elements DEF TypeOK, PollOK
    <3> QED
      BY <3>1, ProductType, SnmpAssumption DEF WalkTime, SnmpAssumption
  <2> QED
    BY <2>1, <2>2, <2>3 DEF WalkInv, WalkTime
<1>8. ASSUME NEW s \in Switches, s # Watched, SwitchChanges(s) PROVE WalkInv'
  <2>1. /\ UNCHANGED << main, cur, pos, col, got, link, steady >>
        /\ answers'[Watched] = answers[Watched] /\ says'[Watched] = says[Watched]
    BY <1>8, SnmpAssumption DEF SwitchChanges, TypeOK, WorldOK, SnmpAssumption
  <2> QED
    BY <2>1 DEF WalkInv, ReadSo, WalkTime
<1>9. CASE UNCHANGED vars
  BY <1>9 DEF vars, WalkInv, ReadSo, WalkTime
<1> QED
  BY <1>3, <1>4, <1>5, <1>6, <1>7, <1>8, <1>9 DEF Next, MainThread, Environment

\* What is young enough to be kept, or was just heard, is young enough to be published.
LEMMA AgeSums ==
  ASSUME NEW s \in Nat, NEW a \in Nat, NEW w \in Nat, NEW c \in Nat, NEW d \in Nat,
         NEW h \in 0..c, NEW k \in 0..c, w <= d
  PROVE  /\ s <= a + w + k => s <= a + c + d
         /\ s <= h => s <= a + c + d
OBVIOUS

\* What is to expire in time is young enough to be asked for at any time.
LEMMA AgeLeft ==
  ASSUME NEW s \in Nat, NEW e \in Nat, NEW a \in Nat, NEW w \in Nat, NEW k \in Nat,
         s + e <= a + w
  PROVE  s <= a + w + k
OBVIOUS

\* The table at hand, once it is settled: what was read of it as it is now is kept, and
\* what was begun before it was is young.
LEMMA AgeSettle ==
  ASSUME TypeOK, TypeOK', ReachInv, ReachInv', WalkInv,
         NEW j \in DOMAIN Tables, AgeOf(j), Settle, cur = Watched, pos = j
  PROVE  AgeOf(j)'
<1> DEFINE t == Tables[j]
<1> DEFINE w == WalkTime(t)
<1>1. t \in TableSet
  BY TablesType DEF TableSet
<1>2. /\ main = "settle" /\ main' = "ask" /\ cur' = Watched /\ pos' = j + 1 /\ j \in Nat
      /\ says' = says /\ shown' = shown /\ steady' = steady
  <2>1. j \in Nat
    BY TablesType
  <2> QED
    BY <2>1 DEF Settle, Goto, worldVars, brokerVars
<1>3. Passed(j)' /\ ~Passed(j)
  BY <1>2 DEF Passed
<1>4. /\ w \in Nat /\ w' = w /\ TTL \in Nat /\ Cycle \in Nat
      /\ Columns[t] \in Nat /\ CommandTime \in Nat
  BY <1>1, CycleType, ProductType, SnmpAssumption DEF WalkTime, SnmpAssumption
<1>5. w <= DoneTime'
  <2>1. Columns[t] <= Mark(j) /\ Mark(j) \in Nat /\ Mark(j)' = Mark(j)
    BY MarkTypes DEF Mark, Upto
  <2>2. Mark(j)' <= Done'
    BY <1>3 DEF ReachInv
  <2>3. Done' \in Nat /\ Columns[t] <= Done'
    BY <1>4, <2>1, <2>2 DEF ReachInv
  <2> QED
    BY <1>4, <2>3, ProductMonotone DEF WalkTime, DoneTime
<1>6. steady \in Nat /\ AskTime(j) \in 0..Cycle /\ AskTime(j)' \in Nat /\ HeardTime \in 0..Cycle
      /\ DoneTime' \in Nat
  BY <1>4 DEF TypeOK, ClockOK, ReachInv
<1>7. ReadSo(t, Columns[t]) \/ steady <= w
  BY <1>2 DEF WalkInv
<1>8. \A c \in 1..Columns[t] : << t, c >> \in Cells /\ says[Watched][<< t, c >>] \in Values
  BY <1>1, CellTypes, SnmpAssumption DEF TypeOK, WorldOK, SnmpAssumption
<1>9. Stale(t)' => steady <= w
  <2>1. CASE ~ReadSo(t, Columns[t])
    BY <1>7, <2>1
  <2>2. CASE ReadSo(t, Columns[t])
    <3>1. AllRead(t)
      BY <1>8, <2>2, SnmpAssumption DEF ReadSo, AllRead, SnmpAssumption
    <3>2. cache' = [cache EXCEPT ![Watched] =
                      [x \in Cells |-> IF x[1] = t THEN got[x] ELSE cache[Watched][x]]]
      BY <3>1 DEF Settle, Store
    <3>3. \A c \in 1..Columns[t] : cache'[Watched][<< t, c >>] = got[<< t, c >>]
      BY <1>8, <3>2, SnmpAssumption DEF TypeOK, CacheOK, SnmpAssumption
    <3> QED
      BY <1>2, <2>2, <3>3 DEF Stale, ReadSo
  <2> QED
    BY <2>1, <2>2
<1>10. expires'[Watched][t] \in 0..TTL
  BY <1>1, SnmpAssumption DEF TypeOK, ClockOK, SnmpAssumption
<1>11. Unshown(t)' => steady <= TTL + Cycle + DoneTime'
  <2>1. Unshown(t)' <=> Unshown(t)
    BY <1>2 DEF Unshown
  <2>2. Stale(t) => steady <= TTL + w + AskTime(j)
    BY DEF AgeOf
  <2>3. Unshown(t) /\ ~Stale(t) => steady <= HeardTime
    BY <1>3 DEF AgeOf
  <2> HIDE DEF w, t
  <2>4. /\ steady <= TTL + w + AskTime(j) => steady <= TTL + Cycle + DoneTime'
        /\ steady <= HeardTime => steady <= TTL + Cycle + DoneTime'
    BY <1>4, <1>5, <1>6, AgeSums
  <2> QED
    BY <2>1, <2>2, <2>3, <2>4
<1> HIDE DEF w
<1>12. /\ Stale(t)' => steady' + expires'[Watched][t] <= TTL + w
       /\ Stale(t)' => steady' <= TTL + w + AskTime(j)'
  BY <1>2, <1>4, <1>6, <1>9, <1>10
<1> USE DEF w
<1> QED
  BY <1>2, <1>3, <1>4, <1>11, <1>12 DEF AgeOf

\* The table at hand, when it is not asked for because it is fresh.
LEMMA AgeFresh ==
  ASSUME TypeOK, TypeOK', ReachInv, ReachInv',
         NEW j \in DOMAIN Tables, AgeOf(j), Ask, cur = Watched, pos = j, main' = "ask"
  PROVE  AgeOf(j)'
<1> DEFINE t == Tables[j]
<1> DEFINE w == WalkTime(t)
<1>1. t \in TableSet
  BY TablesType DEF TableSet
<1>2. /\ main = "ask" /\ cur' = Watched /\ pos' = j + 1 /\ j \in Nat /\ expires[Watched][t] > 0
      /\ UNCHANGED << says, shown, cache, expires, steady >>
  BY TablesType DEF Ask, Fresh, worldVars, memVars, brokerVars, timeVars
<1>3. Passed(j)' /\ ~Passed(j) /\ (Stale(t)' <=> Stale(t)) /\ (Unshown(t)' <=> Unshown(t))
  BY <1>2 DEF Passed, Stale, Unshown
<1>4. w \in Nat /\ w' = w /\ TTL \in Nat /\ Cycle \in Nat
  BY <1>1, CycleType, ProductType, SnmpAssumption DEF WalkTime, SnmpAssumption
<1>5. /\ steady \in Nat /\ expires[Watched][t] \in Nat /\ AskTime(j)' \in Nat
      /\ HeardTime \in 0..Cycle /\ DoneTime' \in Nat
  BY <1>1, <1>4, SnmpAssumption DEF TypeOK, ClockOK, ReachInv, SnmpAssumption
<1>6. /\ Stale(t) => steady + expires[Watched][t] <= TTL + w
      /\ Unshown(t) /\ ~Stale(t) => steady <= HeardTime
  BY <1>2, <1>3 DEF AgeOf
<1> HIDE DEF w, t
<1>7. Stale(t) => steady <= TTL + w + AskTime(j)'
  BY <1>4, <1>5, <1>6, AgeLeft
<1>8. Unshown(t) /\ ~Stale(t) => steady <= TTL + Cycle + DoneTime'
  <2>1. 0 \in Nat /\ 0 \in 0..Cycle /\ 0 <= DoneTime'
    BY <1>4, <1>5
  <2>2. steady <= HeardTime => steady <= TTL + Cycle + DoneTime'
    BY <1>4, <1>5, <2>1, AgeSums
  <2> QED
    BY <1>6, <2>2
<1> USE DEF w, t
<1> QED
  BY <1>2, <1>3, <1>4, <1>6, <1>7, <1>8 DEF AgeOf

\* The states of Watched are published: it is heard, and shown as it is kept.
LEMMA AgePublished ==
  ASSUME TypeOK, TypeOK', ReachInv, ReachInv', WalkInv,
         NEW j \in DOMAIN Tables, AgeOf(j), PublishState, cur = Watched
  PROVE  AgeOf(j)'
<1> DEFINE t == Tables[j]
<1> DEFINE w == WalkTime(t)
<1>1. /\ main = "state" /\ main' = "next" /\ cur' = Watched
      /\ UNCHANGED << says, cache, expires, steady >>
      /\ link => shown' = [shown EXCEPT ![Watched] = cache[Watched]]
  BY DEF PublishState, Goto, worldVars, memVars
<1>2. Passed(j) /\ Passed(j)' /\ Done = Commands /\ Done' = Commands
  BY <1>1 DEF Passed, Done
<1>3. AskTime(j)' = AskTime(j)
  BY <1>2 DEF AskTime, SinceAsk, Mark, Upto
<1>4. (Stale(t)' <=> Stale(t)) /\ w' = w
  BY <1>1 DEF Stale, WalkTime
<1>5. CASE link
  <2>1. Unshown(t)' => Stale(t)'
    BY <1>1, <1>5, SnmpAssumption DEF Unshown, Stale, TypeOK, BrokerOK, SnmpAssumption
  <2> QED
    BY <1>1, <1>3, <1>4, <2>1 DEF AgeOf
<1>6. CASE ~link
  <2>1. steady' = 0
    BY <1>1, <1>6 DEF WalkInv, TypeOK, ClockOK
  <2> QED
    BY <2>1, AgeReset
<1> QED
  BY <1>5, <1>6

\* The next switch, or the wait: the table is as far from being asked for as before.
LEMMA AgeNext ==
  ASSUME TypeOK, TypeOK', PlaceInv, ReachInv, ReachInv', WalkInv,
         NEW j \in DOMAIN Tables, AgeOf(j), NextSwitch \/ NextCycle
  PROVE  AgeOf(j)'
<1> USE SnmpAssumption DEF SnmpAssumption, TypeOK
<1>1. TableKept(Tables[j]) /\ Tables[j] \in TableSet /\ ~Passed(j)'
  BY TablesType DEF NextSwitch, NextCycle, Goto, TableKept, TableSet, Passed,
                    worldVars, brokerVars, memVars, pollVars
<1>2. HeardTime \in Nat /\ HeardTime' \in Nat /\ AskTime(j) \in Nat /\ AskTime(j)' \in Nat
  BY CycleType DEF ReachInv
<1>3. Mark(j)' = Mark(j)
  BY DEF Mark, Upto
<1>4. CASE NextSwitch
  <2>1. Since' = Since /\ Pause' = Pause /\ main = "next"
    BY <1>4, NextKeeps DEF NextSwitch
  <2>2. HeardTime' = HeardTime
    BY <2>1 DEF HeardTime
  <2>3. AskTime(j)' = AskTime(j)
    <3>1. AskTime(j)' = CommandTime * (Since + Commands - Mark(j)) + Pause
      BY <1>1, <1>3, <2>1 DEF AskTime, SinceAsk, Commands
    <3>2. CASE Passed(j)
      <4>1. JustHeard /\ Since = 0 /\ Pause = 0 /\ Done = Commands
        BY <2>1, <3>2 DEF Passed, JustHeard, Since, Pause, Done
      <4>2. AskTime(j) = CommandTime * (Commands - Mark(j)) + 0
        BY <3>2, <4>1 DEF AskTime, SinceAsk
      <4>3. 0 + Commands - Mark(j) = Commands - Mark(j)
        BY CommandsType, MarkTypes
      <4> QED
        BY <3>1, <4>1, <4>2, <4>3
    <3>3. CASE ~Passed(j)
      BY <3>1, <3>3 DEF AskTime, SinceAsk
    <3> QED
      BY <3>2, <3>3
  <2>4. UNCHANGED << steady, expires >>
    BY <1>4 DEF NextSwitch, timeVars, memVars
  <2>5. Aging(0)
    BY <2>4, StillAging
  <2>6. steady' <= steady
    BY <2>4 DEF ClockOK
  <2>7. Expiring(Tables[j])
    BY <1>1, <2>4, <2>6, StillExpiring
  <2>8. HeardTime + 0 <= HeardTime' /\ AskTime(j) + 0 <= AskTime(j)'
    BY <1>2, <2>2, <2>3
  <2> QED
    BY <1>1, <2>1, <2>5, <2>7, <2>8, AgeCarry
<1>5. CASE NextCycle
  <2>1. Since' = Since /\ Pause = 0 /\ Pause' = Interval /\ main = "wait"
    BY <1>5, CycleKeeps DEF NextCycle, Goto
  <2>2. ~Passed(j)
    BY <2>1 DEF Passed
  <2>3. CommandTime * Since \in Nat /\ SinceAsk(j) \in Nat /\ CommandTime * SinceAsk(j) \in Nat
    BY ProductType DEF ReachInv
  <2>4. HeardTime + Interval = HeardTime'
    BY <2>1, <2>3 DEF HeardTime
  <2>5. AskTime(j) + Interval = AskTime(j)'
    <3>1. SinceAsk(j)' = SinceAsk(j)
      BY <1>1, <1>3, <2>1, <2>2 DEF SinceAsk, Commands
    <3> QED
      BY <1>1, <2>1, <2>2, <2>3, <3>1 DEF AskTime
  <2>6. Aging(Interval) /\ Expiring(Tables[j])
    BY <1>1, <1>5, ElapseAging DEF NextCycle
  <2>7. HeardTime + Interval <= HeardTime' /\ AskTime(j) + Interval <= AskTime(j)'
    BY <1>2, <2>4, <2>5
  <2> QED
    BY <1>1, <2>2, <2>6, <2>7, AgeCarry
<1> QED
  BY <1>4, <1>5

\* The times of the other tables, and of the other switches, stand.
LEMMA OtherTable ==
  ASSUME NEW f \in [Switches -> [TableSet -> 0..TTL]], NEW s, NEW u, NEW v, NEW t \in TableSet,
         s # Watched \/ u # t
  PROVE  [f EXCEPT ![s][u] = v][Watched][t] = f[Watched][t]
<1>1. Watched \in Switches
  BY SnmpAssumption DEF SnmpAssumption
<1>2. CASE s = Watched
  BY <1>1, <1>2
<1>3. CASE s # Watched
  BY <1>1, <1>3
<1> QED
  BY <1>2, <1>3

\* A step of a poll that is not at the table.
LEMMA AgeElsewhere ==
  ASSUME TypeOK, TypeOK', PlaceInv, ReachInv, ReachInv', WalkInv,
         NEW j \in DOMAIN Tables, AgeOf(j),
         \/ PollHw \/ PollPorts \/ Ask \/ Walk \/ Settle \/ Announce \/ AnnouncePorts
         \/ PublishState /\ cur # Watched,
         cur = Watched /\ pos = j => ~Settle /\ ~(Ask /\ main' = "ask")
  PROVE  AgeOf(j)'
<1> DEFINE t == Tables[j]
<1>1. t \in TableSet /\ j \in 1..Len(Tables) /\ Len(Tables) \in Nat
  BY TablesType DEF TableSet
<1>2. /\ cur' = cur /\ main # "wait" /\ main' # "wait" /\ ~JustHeard /\ ~JustHeard'
      /\ \E n \in Nat : /\ Done + n <= Done'
                        /\ \/ Takes(n)
                           \/ /\ n = 0 /\ UNCHANGED << steady, silent >>
                              /\ ~Settle => UNCHANGED expires
  BY Advances
<1>3. PICK n \in Nat : /\ Done + n <= Done'
                       /\ \/ Takes(n)
                          \/ /\ n = 0 /\ UNCHANGED << steady, silent >>
                             /\ ~Settle => UNCHANGED expires
  BY <1>2
<1>4. Settle => cur # Watched \/ Tables[pos] # t
  <2> SUFFICES ASSUME Settle, cur = Watched PROVE Tables[pos] # t
    OBVIOUS
  <2>1. pos # j /\ main = "settle"
    BY DEF Settle, Goto
  <2>2. pos \in DOMAIN Tables
    BY <2>1, TablesType DEF TypeOK, PollOK
  <2> QED
    BY <2>1, <2>2, TablesDistinct
<1>5. Aging(CommandTime * n) /\ Expiring(t)
  <2>1. CASE Takes(n)
    BY <1>1, <2>1, TakesAging DEF TypeOK
  <2>2. CASE n = 0 /\ UNCHANGED steady /\ (~Settle => UNCHANGED expires)
    <3>1. expires'[Watched][t] = expires[Watched][t]
      <4>1. CASE Settle
        <5>1. \/ expires' = expires
              \/ \E v : expires' = [expires EXCEPT ![cur][Tables[pos]] = v]
          BY <4>1 DEF Settle
        <5>2. expires \in [Switches -> [TableSet -> 0..TTL]]
          BY DEF TypeOK, ClockOK
        <5>3. ASSUME NEW v
              PROVE  [expires EXCEPT ![cur][Tables[pos]] = v][Watched][t] = expires[Watched][t]
          <6>1. cur # Watched \/ Tables[pos] # t
            BY <1>4, <4>1
          <6> HIDE DEF t
          <6> QED
            BY <1>1, <5>2, <6>1, OtherTable
        <5>4. CASE \E v : expires' = [expires EXCEPT ![cur][Tables[pos]] = v]
          <6>1. PICK v : expires' = [expires EXCEPT ![cur][Tables[pos]] = v]
            BY <5>4
          <6>2. expires'[Watched][t] = [expires EXCEPT ![cur][Tables[pos]] = v][Watched][t]
            BY ONLY <6>1
          <6> QED
            BY ONLY <6>2, <5>3
        <5> QED
          BY <5>1, <5>4
      <4> QED
        BY <2>2, <4>1
    <3>2. steady' <= steady
      BY <2>2, PickUpTimeType DEF TypeOK, ClockOK
    <3>3. Expiring(t)
      BY <1>1, <3>1, <3>2, StillExpiring DEF TypeOK
    <3>4. Aging(CommandTime * n)
      BY <2>2, StillAging DEF TypeOK
    <3> QED
      BY <3>3, <3>4
  <2> QED
    BY <1>3, <2>1, <2>2
<1>6. TableKept(t)
  <2>1. says' = says
    BY DEF PollHw, PollPorts, Ask, Walk, Settle, Announce, AnnouncePorts, PublishState,
           worldVars
  <2>2. shown'[Watched] = shown[Watched]
    <3>1. CASE PublishState /\ cur # Watched
      BY <3>1, SnmpAssumption DEF PublishState, TypeOK, BrokerOK, SnmpAssumption
    <3>2. CASE PollHw \/ PollPorts \/ Ask \/ Walk
      BY <3>2 DEF PollHw, PollPorts, Ask, Walk, brokerVars
    <3>3. CASE Settle
      BY <3>3 DEF Settle, brokerVars
    <3>4. CASE Announce \/ AnnouncePorts
      BY <3>4 DEF Announce, AnnouncePorts
    <3> QED
      BY <3>1, <3>2, <3>3, <3>4
  <2>3. ASSUME NEW c \in 1..Columns[t]
        PROVE  cache'[Watched][<< t, c >>] = cache[Watched][<< t, c >>]
    <3>1. CASE Settle
      <4>1. << t, c >> \in Cells
        BY <1>1, CellTypes
      <4> QED
        BY <1>4, <3>1, <4>1, SnmpAssumption
        DEF Settle, Store, TypeOK, CacheOK, SnmpAssumption
    <3>2. CASE ~Settle
      BY <3>2
      DEF PollHw, PollPorts, Ask, Walk, Announce, AnnouncePorts, PublishState, memVars
    <3> QED
      BY <3>1, <3>2
  <2> QED
    BY <2>1, <2>2, <2>3 DEF TableKept
<1>7. Passed(j)' <=> Passed(j)
  <2>1. CASE Ask
    <3>1. CASE pos > Len(Tables)
      BY <1>1, <1>2, <2>1, <3>1 DEF Ask, Passed, TypeOK, PollOK
    <3>2. CASE ~(pos > Len(Tables)) /\ main' = "ask"
      <4>1. pos' = pos + 1 /\ (cur = Watched => pos # j) /\ main = "ask"
        BY <2>1, <3>2 DEF Ask
      <4> QED
        BY <1>1, <1>2, <3>2, <4>1 DEF Passed, TypeOK, PollOK
    <3>3. CASE ~(pos > Len(Tables)) /\ main' # "ask"
      <4>1. pos' = pos /\ main' = "walk" /\ main = "ask"
        BY <2>1, <3>3 DEF Ask
      <4> QED
        BY <1>2, <4>1 DEF Passed
    <3> QED
      BY <3>1, <3>2, <3>3
  <2>2. CASE Settle
    <3>1. /\ pos' = pos + 1 /\ (cur = Watched => pos # j) /\ pos \in Nat
          /\ main = "settle" /\ main' = "ask"
      BY <2>2 DEF Settle, Goto, TypeOK, PollOK
    <3> QED
      BY <1>1, <1>2, <3>1 DEF Passed
  <2>3. CASE Walk
    BY <1>2, <2>3 DEF Walk, Goto, Passed
  <2>4. CASE PollHw
    BY <1>2, <2>4 DEF PollHw, Passed
  <2>5. CASE PollPorts
    <3>1. pos = 1 /\ pos' = 1 /\ main = "ports" /\ main' = "ask"
      BY <2>5 DEF PollPorts, Goto, PlaceInv
    <3> QED
      BY <1>1, <3>1 DEF Passed
  <2>6. CASE Announce \/ AnnouncePorts \/ (PublishState /\ cur # Watched)
    BY <1>2, <2>6 DEF Announce, AnnouncePorts, PublishState, Goto, Passed
  <2> QED
    BY <2>1, <2>2, <2>3, <2>4, <2>5, <2>6
<1> QED
  BY <1>2, <1>3, <1>5, <1>6, <1>7, AgePoll

\* Every step keeps the ages of all tables within their bounds.
LEMMA AgeStep ==
  ASSUME TypeOK, TypeOK', PlaceInv, ReachInv, ReachInv', WalkInv, AgeInv, [Next]_vars
  PROVE  AgeInv'
<1> SUFFICES ASSUME NEW j \in DOMAIN Tables PROVE AgeOf(j)'
  BY DEF AgeInv
<1>0. AgeOf(j) /\ Tables[j] \in TableSet
  BY TablesType DEF AgeInv, TableSet
<1>1. CASE \/ PollHw \/ PollPorts \/ Ask \/ Walk \/ Settle \/ Announce \/ AnnouncePorts
           \/ PublishState
  <2>1. CASE cur = Watched /\ pos = j /\ Settle
    BY <1>0, <2>1, AgeSettle
  <2>2. CASE cur = Watched /\ pos = j /\ Ask /\ main' = "ask"
    BY <1>0, <2>2, AgeFresh
  <2>3. CASE PublishState /\ cur = Watched
    BY <1>0, <2>3, AgePublished
  <2> QED
    BY <1>0, <1>1, <2>1, <2>2, <2>3, AgeElsewhere
<1>2. CASE NextSwitch \/ NextCycle
  BY <1>0, <1>2, AgeNext
<1>3. CASE Restart \/ LinkDown \/ SwitchChanges(Watched)
  <2>1. steady' = 0
    BY <1>3 DEF Restart, LinkDown, SwitchChanges
  <2> QED
    BY <2>1, AgeReset
<1>4. CASE LinkUp \/ (\E s \in Switches : s # Watched /\ SwitchChanges(s)) \/ UNCHANGED vars
  <2>1. UNCHANGED << main, cur, pos, col, cache, shown, expires, steady >>
        /\ says'[Watched] = says[Watched]
    BY <1>4, SnmpAssumption
    DEF LinkUp, SwitchChanges, vars, worldVars, pollVars, memVars, brokerVars, timeVars,
        TypeOK, WorldOK, SnmpAssumption
  <2>2. TableKept(Tables[j])
    BY <2>1 DEF TableKept
  <2>3. Aging(0)
    BY <2>1, StillAging DEF TypeOK
  <2>4. steady' <= steady
    BY <2>1 DEF TypeOK, ClockOK
  <2>5. Expiring(Tables[j])
    BY <1>0, <2>1, <2>4, StillExpiring DEF TypeOK
  <2> QED
    BY <1>0, <2>1, <2>2, <2>3, <2>5, AgeStill
<1> QED
  BY <1>1, <1>2, <1>3, <1>4 DEF Next, MainThread, Environment

\* Ages within their bounds are within the time a change may take to be shown.
LEMMA AgeBounds ==
  ASSUME TypeOK, ReachInv, AgeInv PROVE PicksUpChanges
<1> SUFFICES ASSUME steady > PickUpTime, NEW x \in Cells,
                    shown[Watched][x] # says[Watched][x]
             PROVE  FALSE
  BY DEF PicksUpChanges
<1>1. PICK j \in DOMAIN Tables : x \in {Tables[j]} \X (1..Columns[Tables[j]])
  BY DEF Cells, TableSet
<1> DEFINE t == Tables[j]
<1> DEFINE w == WalkTime(t)
<1>2. Unshown(t)
  BY <1>1 DEF Unshown
<1>3. w \in Nat /\ w <= Cycle
  <2>1. Columns[t] \in Nat /\ Columns[t] <= Commands
    BY MarkTypes, CommandsType
  <2>2. w \in Nat /\ w <= CommandTime * Commands
    BY <2>1, CommandsType, ProductType, ProductMonotone, SnmpAssumption
    DEF WalkTime, SnmpAssumption
  <2> QED
    BY <2>2, SwitchTimes, CycleType
<1>4. /\ TTL \in Nat /\ Cycle \in Nat /\ steady \in Nat /\ steady > TTL + 2 * Cycle
      /\ AskTime(j) \in 0..Cycle /\ HeardTime \in 0..Cycle
      /\ DoneTime \in Nat /\ DoneTime <= Cycle
  BY CycleType, SwitchTimes, SnmpAssumption
  DEF ReachInv, TypeOK, ClockOK, PickUpTime, SnmpAssumption
<1>5. \/ steady <= TTL + w + AskTime(j)
      \/ steady <= HeardTime
      \/ steady <= TTL + Cycle + DoneTime
  BY <1>2 DEF AgeInv, AgeOf
<1> HIDE DEF w
<1> QED
  BY <1>3, <1>4, <1>5

\* A switch that answers is shown as it is within the TTL and two cycles of a change,
\* whatever was cached, half read or failed before (snmp.py L844-L1010).
THEOREM PicksUpChangesHolds == Spec => []PicksUpChanges
<1>1. TypeOK /\ PlaceInv => ReachInv
  BY ReachBounds DEF TypeOK
<1>2. TypeOK /\ PlaceInv /\ Init => WalkInv /\ AgeInv
  <2> SUFFICES ASSUME TypeOK, PlaceInv, Init PROVE WalkInv /\ AgeInv
    OBVIOUS
  <2>1. steady = 0 /\ main = "hw"
    BY DEF Init
  <2>2. WalkInv
    BY <2>1 DEF WalkInv
  <2>3. ASSUME NEW j \in DOMAIN Tables PROVE AgeOf(j)
    <3>1. Tables[j] \in TableSet
      BY TablesType DEF TableSet
    <3>2. /\ WalkTime(Tables[j]) \in Nat /\ TTL \in Nat
          /\ expires[Watched][Tables[j]] \in 0..TTL
      BY <3>1, ProductType, SnmpAssumption
      DEF WalkTime, TypeOK, ClockOK, SnmpAssumption
    <3>3. AskTime(j) \in Nat /\ HeardTime \in Nat
      BY <1>1, CycleType DEF ReachInv
    <3>4. 0 + expires[Watched][Tables[j]] <= TTL + WalkTime(Tables[j])
      BY <3>2
    <3>5. 0 <= TTL + WalkTime(Tables[j]) + AskTime(j) /\ 0 <= HeardTime
      BY <3>2, <3>3
    <3> QED
      BY <2>1, <3>4, <3>5 DEF AgeOf
  <2> QED
    BY <2>2, <2>3 DEF AgeInv
<1>3. Init => PlaceInv
  BY CommandsType DEF Init, PlaceInv
<1> QED
  BY <1>1, <1>2, <1>3, PlaceStep, WalkStep, AgeStep, AgeBounds, TypeCorrect, PTL DEF Spec

===============================================================================
