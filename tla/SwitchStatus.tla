------------------------------ MODULE SwitchStatus ------------------------------
(***************************************************************************)
(* One switch that several daemons publish for: the SNMP collectors of     *)
(* several hosts (collector/snmp.py, main) and the PoE controller          *)
(* (collector/snmp_control.py, run).  All of them write the retained       *)
(* sensors2mqtt/{switch}/status, which decides whether Home Assistant      *)
(* takes the switch for available; no Last-Will stands behind it.  Each    *)
(* daemon has a connection status of its own besides, which has one.       *)
(*                                                                         *)
(* A daemon is its main thread here: what else the collector publishes is  *)
(* left out, and the controller's commands and ports are PoeControl's.     *)
(* External: the switch, the connections and the broker.                   *)
(***************************************************************************)
EXTENDS Naturals, FiniteSets

CONSTANTS
  Pollers,       \* the SNMP collectors that poll the switch, one on a host
  Controllers,   \* the PoE controllers that manage it
  HasPorts,      \* port_count > 0: true of every model the code knows
  MaxStarts,     \* bound: process starts
  MaxDrops,      \* bound: lost connections
  MaxChanges     \* bound: times the switch stops or starts answering

ASSUME SwitchAssumption ==
  /\ Pollers \cap Controllers = {}
  /\ HasPorts \in BOOLEAN
  /\ MaxStarts \in Nat /\ MaxDrops \in Nat /\ MaxChanges \in Nat

Daemons == Pollers \cup Controllers

VARIABLES
  main,      \* daemon -> where its main thread stands
  once,      \* daemon -> --once
  stop,      \* daemon -> its stop event
  link,      \* daemon -> the broker holds its session
  got,       \* poller -> its current poll of the switch has read something
  reach,     \* the switch answers
  status,    \* retained payload of {switch}/status
  conn,      \* daemon -> retained payload of its connection status
  unclean,   \* daemons whose last life ended without an offline delivered
  late,      \* daemons whose last connect came after their final offline
  starts, drops, changes

procVars == << main, once, stop, got >>
histVars == << unclean, late >>
bounds   == << starts, drops, changes >>
vars == << procVars, link, reach, status, conn, histVars, bounds >>

MainPc == {"down", "connecting", "poll", "status", "heartbeat", "wait",
           "closing", "closing_conn", "leaving"}

Init ==
  /\ main = [d \in Daemons |-> "down"]
  /\ once = [d \in Daemons |-> FALSE]
  /\ stop = [d \in Daemons |-> FALSE]
  /\ link = [d \in Daemons |-> FALSE]
  /\ got = [p \in Pollers |-> FALSE]
  /\ reach \in BOOLEAN
  /\ status = "none"
  /\ conn = [d \in Daemons |-> "none"]
  /\ unclean = {} /\ late = {}
  /\ starts = 0 /\ drops = 0 /\ changes = 0

Goto(d, from, to) ==
  /\ main[d] = from
  /\ main' = [main EXCEPT ![d] = to]

\* A publish on the shared topic, and one on the daemon's own: lost without a
\* connection.
Publish(d, payload) == status' = IF link[d] THEN payload ELSE status
PublishConn(d, payload) == conn' = IF link[d] THEN [conn EXCEPT ![d] = payload] ELSE conn

-------------------------------------------------------------------------------

\* Mutant: a controller does not wait for its connection either.
MutantStart(d) ==
  /\ starts < MaxStarts
  /\ starts' = starts + 1
  /\ Goto(d, "down", "poll")
  /\ \E o \in BOOLEAN : once' = [once EXCEPT ![d] = o]
  /\ UNCHANGED << stop, link, got, reach, status, conn, histVars, drops, changes >>

\* The collector polls at once; the controller waits for its connection.
Start(d) ==
  /\ starts < MaxStarts
  /\ starts' = starts + 1
  /\ Goto(d, "down", IF d \in Pollers THEN "poll" ELSE "connecting")
  /\ \E o \in BOOLEAN : once' = [once EXCEPT ![d] = o]
  /\ UNCHANGED << stop, link, got, reach, status, conn, histVars, drops, changes >>

\* poll_switch and poll_port_status, unless the daemon is to stop.
Poll(p) ==
  /\ IF stop[p] THEN Goto(p, "poll", "heartbeat") /\ UNCHANGED got
     ELSE Goto(p, "poll", "status") /\ got' = [got EXCEPT ![p] = reach]
  /\ UNCHANGED << once, stop, link, reach, status, conn, histVars, bounds >>

\* poll_port_status returns an entry for every port, whether it was read or not.
HasData(p) == got[p] \/ HasPorts

\* Mutant: the status is published with the first poll only, as the controller does.
MutantPublishStatus(p) ==
  /\ Goto(p, "status", "heartbeat")
  /\ IF status = "none" THEN Publish(p, IF HasData(p) THEN "online" ELSE "offline")
     ELSE UNCHANGED status
  /\ UNCHANGED << once, stop, got, link, reach, conn, histVars, bounds >>

PublishStatus(p) ==
  /\ Goto(p, "status", "heartbeat")
  /\ Publish(p, IF HasData(p) THEN "online" ELSE "offline")
  /\ UNCHANGED << once, stop, got, link, reach, conn, histVars, bounds >>

\* The controller's one publish of the shared status, after its first poll.  The
\* wait for the connection gives up after 10 s.
Announce(c) ==
  /\ Goto(c, "connecting", IF once[c] THEN "closing" ELSE "wait")
  /\ Publish(c, "online")
  /\ UNCHANGED << once, stop, got, link, reach, conn, histVars, bounds >>

\* "online" on the connection status, once a cycle.
Heartbeat(d) ==
  /\ Goto(d, "heartbeat", IF once[d] THEN "closing" ELSE "wait")
  /\ PublishConn(d, "online")
  /\ UNCHANGED << once, stop, got, link, reach, status, histVars, bounds >>

\* The wait for the poll interval is over, or was cut short by a signal.
NextCycle(d) ==
  /\ Goto(d, "wait", IF stop[d] THEN "closing"
                     ELSE IF d \in Pollers THEN "poll" ELSE "heartbeat")
  /\ UNCHANGED << once, stop, got, link, reach, status, conn, histVars, bounds >>

\* SIGTERM or SIGINT, handled unless --once.
Signal(d) ==
  /\ main[d] \notin {"down", "closing", "closing_conn", "leaving"}
  /\ ~once[d] /\ ~stop[d]
  /\ stop' = [stop EXCEPT ![d] = TRUE]
  /\ UNCHANGED << main, once, got, link, reach, status, conn, histVars, bounds >>

\* Mutant: the controller takes down only the status of its connection.
MutantCloseStatus(d) ==
  /\ Goto(d, "closing", "closing_conn")
  /\ IF d \in Pollers THEN Publish(d, "offline") ELSE UNCHANGED status
  /\ unclean' = IF link[d] THEN unclean \ {d} ELSE unclean \cup {d}
  /\ UNCHANGED << once, stop, got, link, reach, conn, late, bounds >>

\* The finally block: offline on the shared topic, whoever else publishes on it ...
CloseStatus(d) ==
  /\ Goto(d, "closing", "closing_conn")
  /\ Publish(d, "offline")
  /\ unclean' = IF link[d] THEN unclean \ {d} ELSE unclean \cup {d}
  /\ UNCHANGED << once, stop, got, link, reach, conn, late, bounds >>

\* ... then on its own ...
CloseConn(d) ==
  /\ Goto(d, "closing_conn", "leaving")
  /\ PublishConn(d, "offline")
  /\ UNCHANGED << once, stop, got, link, reach, status, histVars, bounds >>

\* The process is gone, and with it everything it held in memory.
Forget(d) ==
  /\ main' = [main EXCEPT ![d] = "down"]
  /\ once' = [once EXCEPT ![d] = FALSE]
  /\ stop' = [stop EXCEPT ![d] = FALSE]
  /\ got' = [p \in Pollers |-> IF p = d THEN FALSE ELSE got[p]]
  /\ link' = [link EXCEPT ![d] = FALSE]

\* ... and disconnect, which discards the Last-Will.
Leave(d) ==
  /\ main[d] = "leaving"
  /\ Forget(d)
  /\ UNCHANGED << reach, status, conn, histVars, bounds >>

\* The process is killed or its host dies.  The Last-Will names the connection
\* status only.
Crash(d) ==
  /\ main[d] # "down"
  /\ Forget(d)
  /\ PublishConn(d, "offline")
  /\ unclean' = unclean \cup {d}
  /\ UNCHANGED << reach, status, late, bounds >>

\* _on_connected publishes the connection status at every connect.
Connect(d) ==
  /\ main[d] # "down" /\ ~link[d]
  /\ link' = [link EXCEPT ![d] = TRUE]
  /\ conn' = [conn EXCEPT ![d] = "online"]
  /\ late' = IF main[d] = "leaving" THEN late \cup {d} ELSE late \ {d}
  /\ UNCHANGED << procVars, reach, status, unclean, bounds >>

LinkDown(d) ==
  /\ link[d]
  /\ drops < MaxDrops
  /\ drops' = drops + 1
  /\ link' = [link EXCEPT ![d] = FALSE]
  /\ PublishConn(d, "offline")
  /\ UNCHANGED << procVars, reach, status, histVars, starts, changes >>

\* The switch is switched off or on, or the way to it is cut or mended.
SwitchChanges ==
  /\ changes < MaxChanges
  /\ changes' = changes + 1
  /\ reach' = ~reach
  /\ UNCHANGED << procVars, link, status, conn, histVars, starts, drops >>

-------------------------------------------------------------------------------

MainThread(d) ==
  \/ d \in Pollers /\ (Poll(d) \/ PublishStatus(d))
  \/ d \in Controllers /\ Announce(d)
  \/ Heartbeat(d) \/ NextCycle(d) \/ CloseStatus(d) \/ CloseConn(d) \/ Leave(d)

Environment ==
  \/ \E d \in Daemons : Start(d) \/ Signal(d) \/ Crash(d) \/ Connect(d) \/ LinkDown(d)
  \/ SwitchChanges

Next == Environment \/ \E d \in Daemons : MainThread(d)

Spec == Init /\ [][Next]_vars

\* The main thread of a live daemon keeps running: every SNMP command it waits
\* for has a timeout.
FairSpec == Spec /\ \A d \in Daemons : WF_vars(MainThread(d))

-------------------------------------------------------------------------------
(***************************************************************************)
(* Properties.                                                             *)
(***************************************************************************)

TypeOK ==
  /\ main \in [Daemons -> MainPc]
  /\ once \in [Daemons -> BOOLEAN] /\ stop \in [Daemons -> BOOLEAN]
  /\ link \in [Daemons -> BOOLEAN] /\ got \in [Pollers -> BOOLEAN]
  /\ reach \in BOOLEAN
  /\ status \in {"none", "online", "offline"}
  /\ conn \in [Daemons -> {"none", "online", "offline"}]
  /\ unclean \subseteq Daemons /\ late \subseteq Daemons
  /\ \A c \in Controllers : main[c] \notin {"poll", "status"}
  /\ starts \in Nat /\ drops \in Nat /\ changes \in Nat

\* The last to leave turns the lights off: with every daemon gone the switch is
\* not shown online, in whatever order they left and published before, unless
\* one of them died or lost its final offline (snmp.py L1342-L1347,
\* snmp_control.py L649-L654).
AllGoneShowsOffline ==
  status = "online" => \E d \in Daemons : main[d] # "down" \/ d \in unclean

\* A daemon that is gone is not shown connected, whatever became of it; but for
\* a connect between its final offline and its disconnect (snmp.py L1246-L1256,
\* L1345).
GoneShowsOffline ==
  \A d \in Daemons : main[d] = "down" /\ d \notin late => conn[d] # "online"

\* "Any host publishing fresh state keeps the entity alive" (mqtt-topic-inventory
\* L239): the offline of a daemon that stops lasts no longer than the next poll
\* of another one that stays (snmp.py L1272-L1328).
SharedStaysOnline ==
  \A p \in Pollers :
    <>[](link[p] /\ ~stop[p] /\ ~once[p] /\ (HasPorts \/ reach)) => <>[](status = "online")

===============================================================================
