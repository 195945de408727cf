------------------------------ MODULE SnmpCollector ------------------------------
(***************************************************************************)
(* The SNMP collector's poll of its switches (collector/snmp.py): hardware *)
(* sensors numbered and announced as they turn up, slow tables read        *)
(* through caches that expire, all switches one after the other in the     *)
(* main thread.  Time passes while it polls: a switch that does not answer *)
(* may cost the timeout of every command.                                  *)
(*                                                                         *)
(* The run loop's end and the availability of a switch are SwitchStatus's. *)
(* External: the switches, the connection and the broker.                  *)
(***************************************************************************)
EXTENDS Integers, Sequences, FiniteSets

CONSTANTS
  N,             \* switches, polled in this order: 1..N
  Watched,       \* the switch of which the histories are kept
  KindSeq,       \* kinds of hardware sensors, one command each, in this order
  Instances,     \* rows a command may return a reading in
  Tables,        \* cached tables, in this order: VLAN names, descriptions, LLDP
  Columns,       \* table -> number of walks that make it up
  Values,        \* what a column may say
  NoValue,       \* a walk that failed; a column never read
  PortWalks,     \* walks that poll the ports
  CommandTime,   \* timeout of a command
  TTL, ErrorRetry, Interval,
  ExpireAfter,   \* how long Home Assistant bears with a silent entity
  InitialSays,   \* what the switches may say at first,
  InitialHas,    \* and what they may have readings of
  MaxChanges,    \* bound: changes of the switches
  MaxMishaps     \* bound: restarts and lost connections

Switches == 1..N
Kinds == {KindSeq[i] : i \in DOMAIN KindSeq}
TableSet == {Tables[i] : i \in DOMAIN Tables}
Cells == UNION {{t} \X (1..Columns[t]) : t \in TableSet}

\* What Home Assistant is told of: the sensor of a kind and an ordinal; and the
\* port entities of a switch, which are announced together.
Ports == << "ports", 0 >>
Entities == (Kinds \X Nat) \cup {Ports}

ASSUME SnmpAssumption ==
  /\ N \in Nat \ {0} /\ Watched \in Switches
  /\ KindSeq \in Seq(STRING \ {"ports"}) /\ Tables \in Seq(STRING)
  /\ IsFiniteSet(Instances)
  /\ Columns \in [TableSet -> Nat \ {0}] /\ IsFiniteSet(Cells)
  /\ NoValue \notin Values
  /\ InitialSays \subseteq [Switches -> [Cells -> Values]]
  /\ InitialHas \subseteq [Switches -> [Kinds -> SUBSET Instances]]
  /\ PortWalks \in Nat /\ CommandTime \in Nat /\ Interval \in Nat
  /\ TTL \in Nat /\ ErrorRetry \in Nat /\ ErrorRetry <= TTL /\ ExpireAfter \in Nat
  /\ MaxChanges \in Nat /\ MaxMishaps \in Nat

\* A table is cached once.
ASSUME TablesDistinct == \A i, j \in DOMAIN Tables : Tables[i] = Tables[j] => i = j

VARIABLES
  answers,    \* switch -> it answers
  says,       \* switch -> cell -> what it would say
  has,        \* switch -> kind -> instances it has a reading for
  main,       \* where the main thread stands
  cur,        \* the switch it is polling
  pos, col,   \* the kind or the table it is at, the column
  hw,         \* hw_values: kind -> ordinals read in this poll
  got,        \* cell -> what was read of the table at hand
  cache,      \* _vlan_names, _port_descriptions, _lldp_neighbors
  expires,    \* _cache_times, as the time that is left
  announced,  \* _published_suffixes and discovery_published
  link,       \* there is a connection to the broker
  configs,    \* switch -> entities whose discovery is retained
  state,      \* switch -> entities in its retained states
  shown,      \* switch -> cell -> what the retained port states show of it
  dropped,    \* switch -> entities whose last discovery was dropped
  known,      \* tables of Watched read since the start
  steady,     \* how long Watched has answered, said the same, and been heard
  silent,     \* how long ago Watched was last published
  failed,     \* table -> how long ago its last read failed, over an older one
  changes, mishaps

worldVars == << answers, says, has >>
pollVars == << main, cur, pos, col, hw, got >>
memVars == << cache, expires, announced >>
brokerVars == << configs, state, shown, dropped >>
timeVars == << steady, silent, failed >>
bounds == << changes, mishaps >>
vars == << worldVars, pollVars, memVars, link, brokerVars, known, timeVars, bounds >>

MainPc == {"hw", "ports", "ask", "walk", "settle", "announce", "announce_ports",
           "state", "next", "wait"}

\* The longest poll of a switch: every walk of it, its own MAC, its neighbours'.
SwitchTime == CommandTime * (Len(KindSeq) + PortWalks + Cardinality(Cells) + 2)
Cycle == N * SwitchTime + Interval

\* A table that changes is asked for once it has expired, read within a cycle,
\* and published at the end of the switch's poll.
PickUpTime == TTL + 2 * Cycle

NoHw == [k \in Kinds |-> {}]
Unread == [x \in Cells |-> NoValue]

Init ==
  /\ answers \in [Switches -> BOOLEAN]
  /\ says \in InitialSays
  /\ has \in InitialHas
  /\ main = "hw" /\ cur = 1 /\ pos = 1 /\ col = 1
  /\ hw = NoHw /\ got = Unread
  /\ cache = [s \in Switches |-> Unread]
  /\ expires = [s \in Switches |-> [t \in TableSet |-> 0]]
  /\ announced = [s \in Switches |-> {}]
  /\ link \in BOOLEAN
  /\ configs = [s \in Switches |-> {}] /\ state = [s \in Switches |-> {}]
  /\ shown = [s \in Switches |-> Unread]
  /\ dropped = [s \in Switches |-> {}]
  /\ known = {} /\ steady = 0 /\ silent = 0 /\ failed = [t \in TableSet |-> ErrorRetry]
  /\ changes = 0 /\ mishaps = 0

Least(a, b) == IF a <= b THEN a ELSE b

\* Time passes, within a command or between two cycles.  The clocks stop where
\* they tell nothing more.
Elapse(d) ==
  /\ expires' = [s \in Switches |-> [t \in TableSet |->
                   IF d < expires[s][t] THEN expires[s][t] - d ELSE 0]]
  /\ steady' = IF answers[Watched] /\ link THEN Least(steady + d, PickUpTime + 1) ELSE 0
  /\ silent' = Least(silent + d, ExpireAfter + 1)
  /\ failed' = [t \in TableSet |-> Least(failed[t] + d, ErrorRetry)]

Takes(commands) == \E d \in 0..(commands * CommandTime) : Elapse(d)

Goto(from, to) == main = from /\ main' = to

-------------------------------------------------------------------------------
(***************************************************************************)
(* The poll of a switch.                                                   *)
(***************************************************************************)

\* Mutant: a sensor is numbered by its row.
MutantOrdinals(S) == S

\* The readings that came back are numbered in the order of their instances.
Ordinals(S) == 0..(Cardinality(S) - 1)

\* The next command for hardware sensors; one that fails leaves its kind out.
PollHw ==
  /\ main = "hw"
  /\ IF pos <= Len(KindSeq)
     THEN /\ hw' = IF answers[cur]
                   THEN [hw EXCEPT ![KindSeq[pos]] = Ordinals(has[cur][KindSeq[pos]])]
                   ELSE hw
          /\ pos' = pos + 1
          /\ Takes(1)
          /\ UNCHANGED main
     ELSE /\ main' = "ports" /\ pos' = 1
          /\ UNCHANGED << hw, timeVars, expires >>
  /\ UNCHANGED << worldVars, cur, col, got, cache, announced, link, brokerVars, known, bounds >>

\* The port tables are walked every time; what fails is filled in with defaults.
PollPorts ==
  /\ Goto("ports", "ask")
  /\ Takes(PortWalks)
  /\ UNCHANGED << worldVars, cur, pos, col, hw, got, cache, announced, link, brokerVars,
                  known, bounds >>

Cached(s, t) == cache[s][<< t, 1 >>] # NoValue

\* Mutant: what is cached is never read again.
MutantFresh(s, t) == Cached(s, t)

Fresh(s, t) == Cached(s, t) /\ expires[s][t] > 0

\* The cached tables, one after the other.
Ask ==
  /\ main = "ask"
  /\ IF pos > Len(Tables)
     THEN main' = "announce" /\ pos' = 1 /\ UNCHANGED << col, got >>
     ELSE IF Fresh(cur, Tables[pos])
     THEN pos' = pos + 1 /\ UNCHANGED << main, col, got >>
     ELSE main' = "walk" /\ col' = 1 /\ got' = Unread /\ UNCHANGED pos
  /\ UNCHANGED << worldVars, cur, hw, memVars, link, brokerVars, known, timeVars, bounds >>

\* A walk, and the next one whether it failed or not.
Walk ==
  LET t == Tables[pos] IN
  /\ Goto("walk", IF col < Columns[t] THEN "walk" ELSE "settle")
  /\ got' = IF answers[cur] THEN [got EXCEPT ![<< t, col >>] = says[cur][<< t, col >>]] ELSE got
  /\ col' = IF col < Columns[t] THEN col + 1 ELSE 1
  /\ Takes(1)
  /\ UNCHANGED << worldVars, cur, pos, hw, cache, announced, link, brokerVars, known, bounds >>

AllRead(t) == \A c \in 1..Columns[t] : got[<< t, c >>] # NoValue

\* got as the new contents of table t of switch s.
Store(s, t) ==
  cache' = [cache EXCEPT ![s] = [x \in Cells |-> IF x[1] = t THEN got[x] ELSE cache[s][x]]]

\* Mutant: what was read is stored, whether all of it was read or not.
MutantSettle ==
  LET t == Tables[pos] IN
  /\ Goto("settle", "ask") /\ pos' = pos + 1
  /\ Store(cur, t)
  /\ expires' = [expires EXCEPT ![cur][t] = IF AllRead(t) THEN TTL ELSE ErrorRetry]
  /\ failed' = IF ~AllRead(t) /\ cur = Watched THEN [failed EXCEPT ![t] = 0] ELSE failed
  /\ known' = IF AllRead(t) /\ cur = Watched THEN known \cup {t} ELSE known
  /\ UNCHANGED << worldVars, cur, col, hw, got, announced, link, brokerVars, steady, silent,
                  bounds >>

\* Mutant: a failure leaves the time of the next read as it was.
MutantRetry ==
  LET t == Tables[pos] IN
  /\ Goto("settle", "ask") /\ pos' = pos + 1
  /\ IF AllRead(t)
     THEN /\ Store(cur, t)
          /\ expires' = [expires EXCEPT ![cur][t] = TTL]
          /\ known' = IF cur = Watched THEN known \cup {t} ELSE known
          /\ UNCHANGED failed
     ELSE /\ failed' = IF Cached(cur, t) /\ cur = Watched THEN [failed EXCEPT ![t] = 0]
                       ELSE failed
          /\ UNCHANGED << cache, expires, known >>
  /\ UNCHANGED << worldVars, cur, col, hw, got, announced, link, brokerVars, steady, silent,
                  bounds >>

\* The table is replaced if all of it was read; else an older one stands, to be
\* read again before long, and where there is none the next poll tries again.
Settle ==
  LET t == Tables[pos] IN
  /\ Goto("settle", "ask") /\ pos' = pos + 1
  /\ \/ /\ AllRead(t)
        /\ Store(cur, t)
        /\ expires' = [expires EXCEPT ![cur][t] = TTL]
        /\ known' = IF cur = Watched THEN known \cup {t} ELSE known
        /\ UNCHANGED failed
     \/ /\ ~AllRead(t) /\ Cached(cur, t)
        /\ expires' = [expires EXCEPT ![cur][t] = ErrorRetry]
        /\ failed' = IF cur = Watched THEN [failed EXCEPT ![t] = 0] ELSE failed
        /\ UNCHANGED << cache, known >>
     \/ /\ ~AllRead(t) /\ ~Cached(cur, t)
        /\ UNCHANGED << cache, expires, known, failed >>
  /\ UNCHANGED << worldVars, cur, col, hw, got, announced, link, brokerVars, steady, silent,
                  bounds >>

\* The entities of new, announced or dropped.
Discover(s, new) ==
  /\ announced' = [announced EXCEPT ![s] = @ \cup new]
  /\ configs' = IF link THEN [configs EXCEPT ![s] = @ \cup new] ELSE configs
  /\ dropped' = [dropped EXCEPT ![s] = IF link THEN @ \ new ELSE @ \cup new]

\* What was read; and of it what gets a def, which of each kind stops at the first
\* ordinal without a value.
HwRead == UNION {{k} \X hw[k] : k \in Kinds}
HwDefs == {e \in HwRead : \A j \in 0..e[2] : j \in hw[e[1]]}

\* The hardware sensors not yet announced.  They are marked before the MAC of the
\* switch is read, if it is not known, and their discovery published.
Announce ==
  LET new == HwDefs \ announced[cur] IN
  /\ Goto("announce", "announce_ports")
  /\ Discover(cur, new)
  /\ IF new # {} THEN Takes(1) ELSE UNCHANGED << timeVars, expires >>
  /\ UNCHANGED << worldVars, cur, pos, col, hw, got, cache, link, state, shown, known, bounds >>

\* The port entities, once in the life of the process.
AnnouncePorts ==
  /\ Goto("announce_ports", "state")
  /\ IF Ports \notin announced[cur]
     THEN Discover(cur, {Ports}) /\ Takes(1)
     ELSE UNCHANGED << announced, configs, dropped, timeVars, expires >>
  /\ UNCHANGED << worldVars, cur, pos, col, hw, got, cache, link, state, shown, known, bounds >>

\* The states: that of the hardware sensors, if any was read, and the ports'.
PublishState ==
  /\ Goto("state", "next")
  /\ IF link
     THEN /\ state' = [state EXCEPT ![cur] =
                         {Ports} \cup (IF HwRead = {} THEN @ ELSE HwRead)]
          /\ shown' = [shown EXCEPT ![cur] = cache[cur]]
     ELSE UNCHANGED << state, shown >>
  /\ silent' = IF cur = Watched THEN 0 ELSE silent
  /\ UNCHANGED << worldVars, cur, pos, col, hw, got, memVars, link, configs, dropped, known,
                  steady, failed, bounds >>

\* Mutant: a switch that has not answered breaks the loop instead of being passed over.
MutantNextSwitch ==
  /\ main = "next"
  /\ IF cur < N /\ answers[cur]
     THEN main' = "hw" /\ cur' = cur + 1 ELSE main' = "wait" /\ cur' = 1
  /\ hw' = NoHw
  /\ UNCHANGED << worldVars, pos, col, got, memVars, link, brokerVars, known, timeVars, bounds >>

\* The next switch; after the last one the heartbeat, and the wait.
NextSwitch ==
  /\ main = "next"
  /\ IF cur < N THEN main' = "hw" /\ cur' = cur + 1 ELSE main' = "wait" /\ cur' = 1
  /\ hw' = NoHw
  /\ UNCHANGED << worldVars, pos, col, got, memVars, link, brokerVars, known, timeVars, bounds >>

NextCycle ==
  /\ Goto("wait", "hw")
  /\ Elapse(Interval)
  /\ UNCHANGED << worldVars, cur, pos, col, hw, got, cache, announced, link, brokerVars, known,
                  bounds >>

-------------------------------------------------------------------------------
(***************************************************************************)
(* The process, the connection and the switches.                           *)
(***************************************************************************)

\* The process is stopped or dies, and is started again.
Restart ==
  /\ mishaps < MaxMishaps
  /\ mishaps' = mishaps + 1
  /\ main' = "hw" /\ cur' = 1 /\ pos' = 1 /\ col' = 1 /\ hw' = NoHw /\ got' = Unread
  /\ cache' = [s \in Switches |-> Unread]
  /\ expires' = [s \in Switches |-> [t \in TableSet |-> 0]]
  /\ announced' = [s \in Switches |-> {}]
  /\ known' = {} /\ steady' = 0 /\ silent' = 0 /\ failed' = [t \in TableSet |-> ErrorRetry]
  /\ UNCHANGED << worldVars, link, brokerVars, changes >>

LinkDown ==
  /\ link
  /\ mishaps < MaxMishaps
  /\ mishaps' = mishaps + 1
  /\ link' = FALSE /\ steady' = 0
  /\ UNCHANGED << worldVars, pollVars, memVars, brokerVars, known, silent, failed, changes >>

LinkUp ==
  /\ ~link
  /\ link' = TRUE
  /\ UNCHANGED << worldVars, pollVars, memVars, brokerVars, known, timeVars, bounds >>

SwitchChanges(s) ==
  /\ changes < MaxChanges
  /\ changes' = changes + 1
  /\ \/ /\ answers' = [answers EXCEPT ![s] = ~@]
        /\ UNCHANGED << says, has >>
     \/ /\ \E x \in Cells : \E v \in Values \ {says[s][x]} :
             says' = [says EXCEPT ![s][x] = v]
        /\ UNCHANGED << answers, has >>
     \/ /\ \E k \in Kinds : \E S \in SUBSET Instances \ {has[s][k]} :
             has' = [has EXCEPT ![s][k] = S]
        /\ UNCHANGED << answers, says >>
  /\ steady' = IF s = Watched THEN 0 ELSE steady
  /\ UNCHANGED << pollVars, memVars, link, brokerVars, known, silent, failed, mishaps >>

-------------------------------------------------------------------------------

MainThread ==
  \/ PollHw \/ PollPorts \/ Ask \/ Walk \/ Settle \/ Announce \/ AnnouncePorts
  \/ PublishState \/ NextSwitch \/ NextCycle

Environment == Restart \/ LinkDown \/ LinkUp \/ \E s \in Switches : SwitchChanges(s)

Next == MainThread \/ Environment

Spec == Init /\ [][Next]_vars

-------------------------------------------------------------------------------
(***************************************************************************)
(* Properties.                                                             *)
(***************************************************************************)

WorldOK ==
  /\ answers \in [Switches -> BOOLEAN]
  /\ says \in [Switches -> [Cells -> Values]]
  /\ has \in [Switches -> [Kinds -> SUBSET Instances]]
  /\ link \in BOOLEAN /\ changes \in Nat /\ mishaps \in Nat

PollOK ==
  /\ main \in MainPc /\ cur \in Switches
  /\ pos \in Nat \ {0}
  /\ main \in {"walk", "settle"} => pos <= Len(Tables)
  /\ col \in Nat \ {0}
  /\ main = "walk" => col <= Columns[Tables[pos]]
  /\ hw \in [Kinds -> SUBSET Nat]
  /\ got \in [Cells -> Values \cup {NoValue}]

CacheOK ==
  /\ cache \in [Switches -> [Cells -> Values \cup {NoValue}]]
  /\ \A s \in Switches : \A x \in Cells : cache[s][x] # NoValue <=> Cached(s, x[1])
  /\ known \subseteq TableSet

BrokerOK ==
  /\ announced \in [Switches -> SUBSET Entities]
  /\ configs \in [Switches -> SUBSET Entities]
  /\ state \in [Switches -> SUBSET Entities]
  /\ shown \in [Switches -> [Cells -> Values \cup {NoValue}]]
  /\ dropped \in [Switches -> SUBSET Entities]

ClockOK ==
  /\ expires \in [Switches -> [TableSet -> 0..TTL]]
  /\ steady \in 0..(PickUpTime + 1) /\ silent \in 0..(ExpireAfter + 1)
  /\ failed \in [TableSet -> 0..ErrorRetry]

TypeOK == WorldOK /\ PollOK /\ CacheOK /\ BrokerOK /\ ClockOK

\* Home Assistant has been told of whatever a retained state has a value for, in
\* whatever poll it first turned up, unless that discovery was dropped for want of
\* a connection (L1040-L1074, L1283-L1316).
AnnouncedCovers == \A s \in Switches : state[s] \subseteq configs[s] \cup dropped[s]

\* "Results are cached per switch with a TTL to pick up changes" (L851): a switch
\* that answers is shown as it is within the TTL and two cycles of a change, whatever
\* was cached, half read or failed before (L844-L1010).
PicksUpChanges ==
  steady > PickUpTime => \A x \in Cells : shown[Watched][x] = says[Watched][x]

\* A table once read is not blanked by reads that fail later in the life of the
\* process (L886-L893, L1003-L1010).
NotErased ==
  [][PublishState /\ link /\ cur = Watched =>
       \A x \in Cells : x[1] \in known => shown'[Watched][x] # NoValue]_vars

\* "Retry failed fetches after 1 min" (L643): not sooner, while there is an older
\* result to show (L891-L892).
RetryPaced ==
  [][main = "ask" /\ main' = "walk" /\ cur = Watched /\ Cached(cur, Tables[pos]) =>
       failed[Tables[pos]] >= ErrorRetry]_vars

\* "Generous enough that a slow sequential SNMP poll cycle never flaps an entity"
\* (discovery.py L19-L20), where no cycle takes longer than that: the switches
\* before it that do not answer never starve a switch (L1264-L1340).
NeverExpires == Cycle <= ExpireAfter => silent <= ExpireAfter

===============================================================================
