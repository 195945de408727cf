----------------------------- MODULE IpmiCollector -----------------------------
(***************************************************************************)
(* The IPMI collector (collector/ipmi_sensors.py): the sensors of a host's *)
(* board, read with ipmitool, and its power supplies, read from the web    *)
(* pages of the BMC.  Either source may fail while the other answers, and  *)
(* the discovery of both hangs on one flag.  One topic is the availability *)
(* of all entities, the connection status and the Last-Will.               *)
(*                                                                         *)
(* The daemon is its main thread: make_client is given no callback.        *)
(* External: the BMC, the connection and the broker.  The web requests     *)
(* have no timeout (requests takes none from a session), so that a BMC     *)
(* that accepts them and stays silent holds the main thread for as long.   *)
(***************************************************************************)
EXTENDS Naturals

CONSTANTS
  Sensors,       \* the sensors of IPMI_SENSOR_MAP
  Slots,         \* slots of power supplies
  Values,        \* what a power supply may report
  NoData,        \* a source that failed
  NoValue,       \* nothing of a power supply
  Silent,        \* a BMC that does not answer the web request
  MaxStarts,     \* bound: process starts
  MaxMishaps,    \* bound: crashes, lost connections, polls that raise, --once
  MaxChanges     \* bound: changes of what the BMC says

Supplies == [Slots -> Values \cup {NoValue}]

ASSUME IpmiAssumption ==
  /\ \A r \in SUBSET Sensors \cup Supplies : r # NoData /\ r # Silent
  /\ NoData # Silent
  /\ NoValue \notin Values
  /\ Sensors \cap Slots = {}
  /\ MaxStarts \in Nat /\ MaxMishaps \in Nat /\ MaxChanges \in Nat

VARIABLES
  sdr,         \* sensors ipmitool would have a reading of
  web,         \* what the web pages would say
  main,        \* where the main thread stands
  once,        \* --once
  stop,        \* stop_event
  gotSdr,      \* ipmi_values
  gotWeb,      \* psu_data
  announced,   \* discovery_published
  link,        \* the broker holds the daemon's session
  status,      \* retained payload of ipmi_sensors/status
  configs,     \* sensors and slots whose discovery is retained
  state,       \* sensors with a value in the retained state
  psus,        \* slot -> retained payload of its state
  missed,      \* sensors and slots whose discovery the flag says is published,
               \* and was dropped or not yet known of
  starts, mishaps, changes

worldVars == << sdr, web >>
procVars  == << main, once, stop, gotSdr, gotWeb, announced >>
topicVars == << status, configs, state, psus >>
bounds    == << starts, mishaps, changes >>
vars == << worldVars, procVars, link, topicVars, missed, bounds >>

MainPc == {"down", "sdr", "web", "no_data", "announce", "announce_psus", "state",
           "online", "psus", "end", "wait", "closing", "leaving"}

SdrReadings == {NoData} \cup SUBSET Sensors
WebReadings == {NoData} \cup Supplies

NoSupply == [s \in Slots |-> NoValue]
Found(reading) ==
  IF reading \in {NoData, Silent} THEN {} ELSE {s \in Slots : reading[s] # NoValue}

Init ==
  /\ sdr \in SdrReadings /\ web \in {Silent} \cup WebReadings
  /\ main = "down" /\ once = FALSE /\ stop = FALSE
  /\ gotSdr = NoData /\ gotWeb = NoData /\ announced = FALSE
  /\ link = FALSE /\ status = "none" /\ configs = {} /\ state = {} /\ psus = NoSupply
  /\ missed = {}
  /\ starts = 0 /\ mishaps = 0 /\ changes = 0

Goto(from, to) == main = from /\ main' = to

Publish(payload) == status' = IF link THEN payload ELSE status

-------------------------------------------------------------------------------
(***************************************************************************)
(* The main thread.                                                        *)
(***************************************************************************)

\* The identity of the board and of the BMC is read before the loop, and the
\* connection's own diagnostic announced.
Start ==
  /\ starts < MaxStarts
  /\ starts' = starts + 1
  /\ Goto("down", "sdr")
  /\ \/ UNCHANGED << once, mishaps >>
     \/ /\ mishaps < MaxMishaps
        /\ mishaps' = mishaps + 1
        /\ once' = TRUE
  /\ UNCHANGED << worldVars, stop, gotSdr, gotWeb, announced, link, topicVars, missed,
                  changes >>

\* ipmitool, which has a timeout.
PollSdr ==
  /\ ~stop
  /\ Goto("sdr", "web")
  /\ gotSdr' = sdr
  /\ UNCHANGED << worldVars, once, stop, gotWeb, announced, link, topicVars, missed, bounds >>

\* The web pages: login, the token, the readings, logout.
PollWeb ==
  /\ web # Silent
  /\ gotWeb' = web
  /\ Goto("web", IF gotSdr = NoData /\ web = NoData THEN "no_data"
                 ELSE IF announced THEN "state" ELSE "announce")
  /\ UNCHANGED << worldVars, once, stop, gotSdr, announced, link, topicVars, missed, bounds >>

\* What neither poller catches ends the loop: no ipmitool, a number that is none.
PollRaises ==
  /\ (main = "sdr" /\ ~stop) \/ (main = "web" /\ web # Silent)
  /\ mishaps < MaxMishaps
  /\ mishaps' = mishaps + 1
  /\ main' = "closing"
  /\ UNCHANGED << worldVars, once, stop, gotSdr, gotWeb, announced, link, topicVars, missed,
                  starts, changes >>

\* Mutant: the flag is set by a poll that read nothing, too.
MutantNoData ==
  /\ Goto("no_data", "end")
  /\ Publish("offline")
  /\ announced' = TRUE
  /\ UNCHANGED << worldVars, once, stop, gotSdr, gotWeb, link, configs, state, psus, missed,
                  bounds >>

PublishNoData ==
  /\ Goto("no_data", "end")
  /\ Publish("offline")
  /\ UNCHANGED << worldVars, once, stop, gotSdr, gotWeb, announced, link, configs, state, psus,
                  missed, bounds >>

\* All the sensors there may be.
Announce ==
  /\ Goto("announce", "announce_psus")
  /\ configs' = IF link THEN configs \cup Sensors ELSE configs
  /\ missed' = IF link THEN missed \ Sensors ELSE missed \cup Sensors
  /\ UNCHANGED << worldVars, once, stop, gotSdr, gotWeb, announced, link, status, state, psus,
                  bounds >>

\* The power supplies of this poll; the flag is set even if there are none in it.
AnnouncePsus ==
  LET new == IF link THEN Found(gotWeb) ELSE {} IN
  /\ Goto("announce_psus", "state")
  /\ configs' = configs \cup new
  /\ missed' = (missed \cup Slots) \ new
  /\ announced' = TRUE
  /\ UNCHANGED << worldVars, once, stop, gotSdr, gotWeb, link, status, state, psus, bounds >>

\* A source that failed leaves a state without values.
PublishState ==
  /\ Goto("state", "online")
  /\ state' = IF ~link THEN state ELSE IF gotSdr = NoData THEN {} ELSE gotSdr
  /\ UNCHANGED << worldVars, once, stop, gotSdr, gotWeb, announced, link, status, configs, psus,
                  missed, bounds >>

\* Mutant: only the poll that announces says online, a good one after a bad one not.
MutantOnline ==
  /\ Goto("online", "psus")
  /\ IF status = "none" THEN Publish("online") ELSE UNCHANGED status
  /\ UNCHANGED << worldVars, once, stop, gotSdr, gotWeb, announced, link, configs, state, psus,
                  missed, bounds >>

PublishOnline ==
  /\ Goto("online", "psus")
  /\ Publish("online")
  /\ UNCHANGED << worldVars, once, stop, gotSdr, gotWeb, announced, link, configs, state, psus,
                  missed, bounds >>

\* Mutant: the supplies are published whether the BMC reported any or not.
MutantPsus ==
  /\ Goto("psus", "end")
  /\ psus' = IF link THEN gotWeb ELSE psus
  /\ UNCHANGED << worldVars, once, stop, gotSdr, gotWeb, announced, link, status, configs, state,
                  missed, bounds >>

PublishPsus ==
  /\ Goto("psus", "end")
  /\ psus' = IF link THEN [s \in Slots |-> IF s \in Found(gotWeb) THEN gotWeb[s] ELSE psus[s]]
             ELSE psus
  /\ UNCHANGED << worldVars, once, stop, gotSdr, gotWeb, announced, link, status, configs, state,
                  missed, bounds >>

PollEnds ==
  /\ Goto("end", IF once THEN "closing" ELSE "wait")
  /\ UNCHANGED << worldVars, once, stop, gotSdr, gotWeb, announced, link, topicVars, missed,
                  bounds >>

NextPoll ==
  /\ Goto("wait", "sdr")
  /\ UNCHANGED << worldVars, once, stop, gotSdr, gotWeb, announced, link, topicVars, missed,
                  bounds >>

\* SIGTERM or SIGINT, handled unless --once.
Signal ==
  /\ main \notin {"down", "closing", "leaving"} /\ ~once /\ ~stop
  /\ stop' = TRUE
  /\ UNCHANGED << worldVars, main, once, gotSdr, gotWeb, announced, link, topicVars, missed,
                  bounds >>

LoopEnds ==
  /\ stop
  /\ Goto("sdr", "closing")
  /\ UNCHANGED << worldVars, once, stop, gotSdr, gotWeb, announced, link, topicVars, missed,
                  bounds >>

\* Mutant: nothing is published at the end.
MutantClose ==
  /\ Goto("closing", "leaving")
  /\ UNCHANGED << worldVars, once, stop, gotSdr, gotWeb, announced, link, topicVars, missed,
                  bounds >>

\* finally: offline ...
Close ==
  /\ Goto("closing", "leaving")
  /\ Publish("offline")
  /\ UNCHANGED << worldVars, once, stop, gotSdr, gotWeb, announced, link, configs, state, psus,
                  missed, bounds >>

-------------------------------------------------------------------------------
(***************************************************************************)
(* The end of the process, the connection and the BMC.                     *)
(***************************************************************************)

\* The process is gone, and with it everything it held in memory.
Forget ==
  /\ main' = "down" /\ once' = FALSE /\ stop' = FALSE
  /\ gotSdr' = NoData /\ gotWeb' = NoData /\ announced' = FALSE
  /\ link' = FALSE

\* ... and disconnect, which discards the Last-Will.
Leave ==
  /\ main = "leaving"
  /\ Forget
  /\ UNCHANGED << worldVars, topicVars, missed, bounds >>

\* The process is killed, or its host dies.
Crash ==
  /\ main # "down"
  /\ mishaps < MaxMishaps
  /\ mishaps' = mishaps + 1
  /\ Forget
  /\ Publish("offline")
  /\ UNCHANGED << worldVars, configs, state, psus, missed, starts, changes >>

\* A connect publishes nothing.
Connect ==
  /\ main # "down" /\ ~link
  /\ link' = TRUE
  /\ UNCHANGED << worldVars, procVars, topicVars, missed, bounds >>

LinkDown ==
  /\ link
  /\ mishaps < MaxMishaps
  /\ mishaps' = mishaps + 1
  /\ link' = FALSE
  /\ Publish("offline")
  /\ UNCHANGED << worldVars, procVars, configs, state, psus, missed, starts, changes >>

BmcChanges ==
  /\ changes < MaxChanges
  /\ changes' = changes + 1
  /\ \/ sdr' \in SdrReadings \ {sdr} /\ UNCHANGED web
     \/ web' \in ({Silent} \cup WebReadings) \ {web} /\ UNCHANGED sdr
  /\ UNCHANGED << procVars, link, topicVars, missed, starts, mishaps >>

-------------------------------------------------------------------------------

MainThread ==
  \/ PollSdr \/ PollWeb \/ PollRaises \/ PublishNoData \/ Announce \/ AnnouncePsus
  \/ PublishState \/ PublishOnline \/ PublishPsus \/ PollEnds \/ NextPoll \/ LoopEnds
  \/ Close \/ Leave

Environment == Start \/ Signal \/ Crash \/ Connect \/ LinkDown \/ BmcChanges

Next == MainThread \/ Environment

Spec == Init /\ [][Next]_vars

\* The main thread of a live daemon keeps running: ipmitool has a timeout, and
\* where a BMC does not answer the web request no step is enabled.
FairSpec == Spec /\ WF_vars(MainThread)

-------------------------------------------------------------------------------
(***************************************************************************)
(* Properties.                                                             *)
(***************************************************************************)

TypeOK ==
  /\ sdr \in SdrReadings /\ web \in {Silent} \cup WebReadings
  /\ main \in MainPc /\ once \in BOOLEAN /\ stop \in BOOLEAN
  /\ gotSdr \in SdrReadings /\ gotWeb \in WebReadings
  /\ announced \in BOOLEAN /\ link \in BOOLEAN
  /\ status \in {"none", "online", "offline"}
  /\ configs \subseteq Sensors \cup Slots /\ state \subseteq Sensors /\ psus \in Supplies
  /\ missed \subseteq Sensors \cup Slots
  /\ main \in {"announce", "announce_psus", "state", "online", "psus"} =>
       gotSdr # NoData \/ gotWeb # NoData
  /\ starts \in Nat /\ mishaps \in Nat /\ changes \in Nat

\* A daemon that is gone does not show its entities available, whichever of its
\* offline, its Last-Will and a poll's online came last (L560-L619).
GoneShowsOffline == main = "down" => status # "online"

\* Home Assistant has been told of whatever was published with a value, however
\* polls of one source or of both failed before, unless the discovery was dropped
\* or the supply was not in the poll that announced (L570-L599).
EntitiesKnown ==
  state \cup {s \in Slots : psus[s] # NoValue} \subseteq configs \cup missed

\* A daemon that stays up and connected, and whose BMC does not swallow requests,
\* ends up showing what either source says, whichever failed in between: offline
\* only if both do (L561-L613).
Shown ==
  /\ status = IF sdr = NoData /\ web = NoData THEN "offline" ELSE "online"
  /\ status = "online" => state = IF sdr = NoData THEN {} ELSE sdr
  /\ \A s \in Found(web) : psus[s] = web[s]
EventuallyShown ==
  <>[](link /\ ~stop /\ ~once /\ main # "closing" /\ web # Silent) => <>[]Shown

===============================================================================
