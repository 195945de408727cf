---------------------------- MODULE StorageCollector ----------------------------
(***************************************************************************)
(* The storage collectors of several hosts (collector/storage/collector.py)*)
(* and the drives that move between them.  A drive's topics are named for  *)
(* its serial number, so whichever host has the drive writes them: its     *)
(* discovery, its state and its status.  Home Assistant takes an entity of *)
(* a drive for available while the drive's status and the connection status*)
(* that its discovery names are both online.                               *)
(*                                                                         *)
(* A daemon is its main thread.  Drives stands for everything it publishes *)
(* by a name of its own, the enclosures too.  External: the drives, the    *)
(* connections and the broker.                                             *)
(***************************************************************************)
EXTENDS Naturals

CONSTANTS
  Hosts,         \* hosts a drive may be on, whether their daemon runs or not
  Drives,
  Suffixes,      \* sensors a drive may have a value for: its bay, SMART, rates
  Infos,         \* what else the device info says: model, vendor, firmware
  Absent,        \* a drive that is not there; no record of one
  NoHost,        \* no discovery is retained
  InitialAt,     \* where the drives may be at first
  MaxStarts,     \* bound: process starts
  MaxMishaps,    \* bound: crashes, lost connections, polls that raise, --once runs
  MaxChanges     \* bound: moves of the drives, and changes of their readings

ASSUME StorageAssumption ==
  /\ NoHost \notin Hosts
  /\ Absent \notin Drives /\ Absent \notin [info : Infos, has : SUBSET Suffixes]
  /\ InitialAt \subseteq [Drives -> Hosts]
  /\ MaxStarts \in Nat /\ MaxMishaps \in Nat /\ MaxChanges \in Nat

VARIABLES
  at,        \* drive -> the host it is on
  reading,   \* drive -> its info and the suffixes that have a value
  main,      \* host -> where the daemon's main thread stands
  once,      \* host -> --once
  stop,      \* host -> _stop_event
  got,       \* host -> drive -> what the current poll has collected of it
  todo,      \* host -> drives the loop at hand has not yet visited
  cur,       \* host -> the drive it is publishing
  record,    \* host -> drive -> _published, Absent where it has no entry
  link,      \* host -> the broker holds the daemon's session
  conn,      \* host -> retained payload of its connection status
  config,    \* drive -> suffix -> the host whose discovery of it is retained
  state,     \* drive -> suffix -> its value in the retained state
  status,    \* drive -> retained payload of its status
  orphans,   \* drives whose last offline was lost, or died with a daemon
  left,      \* hosts whose connection status a --once run has left behind
  lost,      \* host -> drive -> suffixes in the record whose discovery was
             \* dropped, or replaced by another host's
  starts, mishaps, changes

worldVars == << at, reading >>
procVars  == << main, once, stop, got, todo, cur, record >>
driveVars == << config, state, status >>
histVars  == << orphans, left, lost >>
bounds    == << starts, mishaps, changes >>
vars == << worldVars, procVars, link, conn, driveVars, histVars, bounds >>

MainPc == {"down", "poll", "announce", "state", "online", "gone", "wait",
           "closing", "leaving"}

Readings == [info : Infos, has : SUBSET Suffixes]

Nothing == [d \in Drives |-> Absent]

Init ==
  /\ at \in InitialAt
  /\ reading \in [Drives -> Readings]
  /\ main = [h \in Hosts |-> "down"]
  /\ once = [h \in Hosts |-> FALSE]
  /\ stop = [h \in Hosts |-> FALSE]
  /\ got = [h \in Hosts |-> Nothing]
  /\ todo = [h \in Hosts |-> {}]
  /\ cur = [h \in Hosts |-> Absent]
  /\ record = [h \in Hosts |-> Nothing]
  /\ link = [h \in Hosts |-> FALSE]
  /\ conn = [h \in Hosts |-> "none"]
  /\ config = [d \in Drives |-> [s \in Suffixes |-> NoHost]]
  /\ state = [d \in Drives |-> [s \in Suffixes |-> "missing"]]
  /\ status = [d \in Drives |-> "none"]
  /\ orphans = {} /\ left = {}
  /\ lost = [h \in Hosts |-> [d \in Drives |-> {}]]
  /\ starts = 0 /\ mishaps = 0 /\ changes = 0

Goto(h, from, to) ==
  /\ main[h] = from
  /\ main' = [main EXCEPT ![h] = to]

Recorded(h) == {d \in Drives : record[h][d] # Absent}

\* The drives h answers for: those in its record, less what its finally block
\* has seen to.
Backs(h) ==
  {d \in Recorded(h) : /\ main[h] # "down"
                       /\ main[h] = "closing" => d \in todo[h]
                       /\ main[h] = "leaving" => once[h]}

\* The status of a drive, delivered or lost.
PublishStatus(h, d, payload) ==
  status' = IF link[h] THEN [status EXCEPT ![d] = payload] ELSE status

\* A last offline that is lost leaves the drive's status to nobody.
Settled(h, d) == IF link[h] THEN orphans \ {d} ELSE orphans \cup {d}

PublishConn(h, payload) ==
  /\ conn' = IF link[h] THEN [conn EXCEPT ![h] = payload] ELSE conn
  /\ left' = IF link[h] THEN left \ {h} ELSE left

-------------------------------------------------------------------------------
(***************************************************************************)
(* The main thread of the daemon on h.                                     *)
(***************************************************************************)

Start(h) ==
  /\ starts < MaxStarts
  /\ starts' = starts + 1
  /\ Goto(h, "down", "poll")
  /\ \/ UNCHANGED << once, mishaps >>
     \/ /\ mishaps < MaxMishaps
        /\ mishaps' = mishaps + 1
        /\ once' = [once EXCEPT ![h] = TRUE]
  /\ UNCHANGED << worldVars, stop, got, todo, cur, record, link, conn, driveVars,
                  histVars, changes >>

\* collect: the drives that are on the host now.
Collect(h) ==
  /\ ~stop[h]
  /\ Goto(h, "poll", "announce")
  /\ got' = [got EXCEPT ![h] =
               [d \in Drives |-> IF at[d] = h THEN reading[d] ELSE Absent]]
  /\ todo' = [todo EXCEPT ![h] = {d \in Drives : at[d] = h}]
  /\ UNCHANGED << worldVars, once, stop, cur, record, link, conn, driveVars, histVars, bounds >>

\* An exception in it is logged and the poll is over; nothing is published.
CollectFails(h) ==
  /\ ~stop[h]
  /\ mishaps < MaxMishaps
  /\ mishaps' = mishaps + 1
  /\ Goto(h, "poll", IF once[h] THEN "leaving" ELSE "wait")
  /\ UNCHANGED << worldVars, once, stop, got, todo, cur, record, link, conn, driveVars,
                  histVars, starts, changes >>

\* The record holds the drive with the device info it has now.
Known(h, d) == record[h][d] # Absent /\ record[h][d].info = got[h][d].info

\* Mutant: what is on the broker already is not announced again.
MutantDone(h, d) ==
  IF Known(h, d) THEN record[h][d].has ELSE {s \in Suffixes : config[d][s] # NoHost}

\* The discovered suffixes: all is announced anew when the device info has changed.
Done(h, d) == IF Known(h, d) THEN record[h][d].has ELSE {}

\* Mutant: a drive is recorded only if its discovery was delivered.
MutantAnnounce(h, d) ==
  LET new == got[h][d].has \ Done(h, d) IN
  /\ d \in todo[h]
  /\ Goto(h, "announce", "state")
  /\ cur' = [cur EXCEPT ![h] = d]
  /\ record' = IF link[h]
               THEN [record EXCEPT ![h][d] =
                       [info |-> got[h][d].info, has |-> Done(h, d) \cup new]]
               ELSE record
  /\ config' = [config EXCEPT ![d] =
                  [s \in Suffixes |-> IF link[h] /\ s \in new THEN h ELSE @[s]]]
  /\ UNCHANGED << worldVars, once, stop, got, todo, link, conn, state, status, histVars, bounds >>

\* publish, for one drive: the discovery of what is not yet discovered, marked
\* so whether it is delivered or not ...
Announce(h, d) ==
  LET new == got[h][d].has \ Done(h, d) IN
  /\ d \in todo[h]
  /\ Goto(h, "announce", "state")
  /\ cur' = [cur EXCEPT ![h] = d]
  /\ record' = [record EXCEPT ![h][d] =
                  [info |-> got[h][d].info, has |-> Done(h, d) \cup new]]
  /\ IF link[h]
     THEN /\ config' = [config EXCEPT ![d] = [s \in Suffixes |-> IF s \in new THEN h ELSE @[s]]]
          /\ lost' = [g \in Hosts |-> [lost[g] EXCEPT ![d] =
                        IF g = h THEN @ \ new
                        ELSE IF record[g][d] # Absent THEN @ \cup new ELSE @]]
     ELSE /\ lost' = [lost EXCEPT ![h][d] = @ \cup new]
          /\ UNCHANGED config
  /\ UNCHANGED << worldVars, once, stop, got, todo, link, conn, state, status, orphans,
                  left, bounds >>

\* What the state says of d: null for a discovered sensor without a value.
StateOf(h, d) ==
  [s \in Suffixes |->
     CASE s \in got[h][d].has -> "value"
       [] s \in record[h][d].has \ got[h][d].has -> "null"
       [] OTHER -> "missing"]

\* ... its state ...
PublishState(h) ==
  /\ Goto(h, "state", "online")
  /\ state' = IF link[h] THEN [state EXCEPT ![cur[h]] = StateOf(h, cur[h])] ELSE state
  /\ UNCHANGED << worldVars, once, stop, got, todo, cur, record, link, conn, config, status,
                  histVars, bounds >>

\* ... and its status.
PublishOnline(h) ==
  /\ Goto(h, "online", "announce")
  /\ PublishStatus(h, cur[h], "online")
  /\ orphans' = IF link[h] THEN orphans \ {cur[h]} ELSE orphans
  /\ todo' = [todo EXCEPT ![h] = @ \ {cur[h]}]
  /\ cur' = [cur EXCEPT ![h] = Absent]
  /\ UNCHANGED << worldVars, once, stop, got, record, link, conn, config, state, left, lost,
                  bounds >>

\* All drives of the poll are published: next those it no longer has.
ListGone(h) ==
  /\ todo[h] = {}
  /\ Goto(h, "announce", "gone")
  /\ todo' = [todo EXCEPT ![h] = {d \in Recorded(h) : got[h][d] = Absent}]
  /\ got' = [got EXCEPT ![h] = Nothing]
  /\ UNCHANGED << worldVars, once, stop, cur, record, link, conn, driveVars, histVars,
                  bounds >>

\* Mutant: the drive is forgotten and its status left to the host that has it now.
MutantGone(h, d) ==
  /\ main[h] = "gone" /\ d \in todo[h]
  /\ orphans' = Settled(h, d)
  /\ record' = [record EXCEPT ![h][d] = Absent]
  /\ lost' = [lost EXCEPT ![h][d] = {}]
  /\ todo' = [todo EXCEPT ![h] = @ \ {d}]
  /\ UNCHANGED << worldVars, main, once, stop, got, cur, link, conn, driveVars, left, bounds >>

\* A drive that has left this host goes offline, wherever it is by now.
Gone(h, d) ==
  /\ main[h] = "gone" /\ d \in todo[h]
  /\ PublishStatus(h, d, "offline")
  /\ orphans' = Settled(h, d)
  /\ record' = [record EXCEPT ![h][d] = Absent]
  /\ lost' = [lost EXCEPT ![h][d] = {}]
  /\ todo' = [todo EXCEPT ![h] = @ \ {d}]
  /\ UNCHANGED << worldVars, main, once, stop, got, cur, link, conn, config, state, left,
                  bounds >>

\* Mutant: the connection status is left to the connects, as in the other daemons.
MutantHeartbeat(h) ==
  /\ todo[h] = {}
  /\ Goto(h, "gone", IF once[h] THEN "leaving" ELSE "wait")
  /\ UNCHANGED << worldVars, once, stop, got, todo, cur, record, link, conn, driveVars, histVars,
                  bounds >>

\* The poll ends with the heartbeat on the connection status.
Heartbeat(h) ==
  /\ todo[h] = {}
  /\ Goto(h, "gone", IF once[h] THEN "leaving" ELSE "wait")
  /\ PublishConn(h, "online")
  /\ UNCHANGED << worldVars, once, stop, got, todo, cur, record, link, driveVars, orphans, lost,
                  bounds >>

\* The wait for the poll interval is over, or was cut short by a signal.
NextPoll(h) ==
  /\ Goto(h, "wait", "poll")
  /\ UNCHANGED << worldVars, once, stop, got, todo, cur, record, link, conn, driveVars,
                  histVars, bounds >>

\* SIGTERM or SIGINT.
Signal(h) ==
  /\ main[h] \notin {"down", "closing", "leaving"} /\ ~stop[h]
  /\ stop' = [stop EXCEPT ![h] = TRUE]
  /\ UNCHANGED << worldVars, main, once, got, todo, cur, record, link, conn, driveVars,
                  histVars, bounds >>

\* The loop ends; the finally block takes the statuses down, unless --once.
LoopEnds(h) ==
  /\ stop[h]
  /\ Goto(h, "poll", IF once[h] THEN "leaving" ELSE "closing")
  /\ todo' = [todo EXCEPT ![h] = IF once[h] THEN {} ELSE Recorded(h)]
  /\ UNCHANGED << worldVars, once, stop, got, cur, record, link, conn, driveVars, histVars,
                  bounds >>

CloseDrive(h, d) ==
  /\ main[h] = "closing" /\ d \in todo[h]
  /\ PublishStatus(h, d, "offline")
  /\ orphans' = Settled(h, d)
  /\ todo' = [todo EXCEPT ![h] = @ \ {d}]
  /\ UNCHANGED << worldVars, main, once, stop, got, cur, record, link, conn, config, state,
                  left, lost, bounds >>

CloseConn(h) ==
  /\ todo[h] = {}
  /\ Goto(h, "closing", "leaving")
  /\ PublishConn(h, "offline")
  /\ UNCHANGED << worldVars, once, stop, got, todo, cur, record, link, driveVars, orphans,
                  lost, bounds >>

-------------------------------------------------------------------------------
(***************************************************************************)
(* The end of the process, the connection and the drives.                  *)
(***************************************************************************)

\* The process is gone, and with it everything it held in memory.
Forget(h) ==
  /\ main' = [main EXCEPT ![h] = "down"]
  /\ once' = [once EXCEPT ![h] = FALSE]
  /\ stop' = [stop EXCEPT ![h] = FALSE]
  /\ got' = [got EXCEPT ![h] = Nothing]
  /\ todo' = [todo EXCEPT ![h] = {}]
  /\ cur' = [cur EXCEPT ![h] = Absent]
  /\ record' = [record EXCEPT ![h] = Nothing]
  /\ lost' = [lost EXCEPT ![h] = [d \in Drives |-> {}]]
  /\ link' = [link EXCEPT ![h] = FALSE]
  /\ orphans' = orphans \cup Backs(h)

\* disconnect discards the Last-Will; a --once run leaves everything online.
Leave(h) ==
  /\ main[h] = "leaving"
  /\ Forget(h)
  /\ left' = IF once[h] /\ link[h] THEN left \cup {h} ELSE left
  /\ UNCHANGED << worldVars, conn, driveVars, bounds >>

\* The process is killed or its host dies.  The Last-Will names the connection
\* status only.
Crash(h) ==
  /\ main[h] # "down"
  /\ mishaps < MaxMishaps
  /\ mishaps' = mishaps + 1
  /\ Forget(h)
  /\ PublishConn(h, "offline")
  /\ UNCHANGED << worldVars, driveVars, starts, changes >>

\* make_client is given no callback: a connect publishes nothing.
Connect(h) ==
  /\ main[h] # "down" /\ ~link[h]
  /\ link' = [link EXCEPT ![h] = TRUE]
  /\ UNCHANGED << worldVars, procVars, conn, driveVars, histVars, bounds >>

LinkDown(h) ==
  /\ link[h]
  /\ mishaps < MaxMishaps
  /\ mishaps' = mishaps + 1
  /\ link' = [link EXCEPT ![h] = FALSE]
  /\ PublishConn(h, "offline")
  /\ UNCHANGED << worldVars, procVars, driveVars, orphans, lost, starts, changes >>

\* A drive is moved to another host, or it reads differently.
DriveChanges(d) ==
  /\ changes < MaxChanges
  /\ changes' = changes + 1
  /\ \/ /\ \E h \in Hosts \ {at[d]} : at' = [at EXCEPT ![d] = h]
        /\ UNCHANGED reading
     \/ /\ \E r \in Readings \ {reading[d]} : reading' = [reading EXCEPT ![d] = r]
        /\ UNCHANGED at
  /\ UNCHANGED << procVars, link, conn, driveVars, histVars, starts, mishaps >>

-------------------------------------------------------------------------------

MainThread(h) ==
  \/ Collect(h) \/ CollectFails(h)
  \/ \E d \in Drives : Announce(h, d) \/ Gone(h, d) \/ CloseDrive(h, d)
  \/ PublishState(h) \/ PublishOnline(h) \/ ListGone(h) \/ Heartbeat(h) \/ NextPoll(h)
  \/ LoopEnds(h) \/ CloseConn(h) \/ Leave(h)

Environment ==
  \/ \E h \in Hosts : Start(h) \/ Signal(h) \/ Crash(h) \/ Connect(h) \/ LinkDown(h)
  \/ \E d \in Drives : DriveChanges(d)

Next == Environment \/ \E h \in Hosts : MainThread(h)

Spec == Init /\ [][Next]_vars

\* The main thread of a live daemon keeps running: it reads files and publishes.
FairSpec == Spec /\ \A h \in Hosts : WF_vars(MainThread(h))

-------------------------------------------------------------------------------
(***************************************************************************)
(* Properties.                                                             *)
(***************************************************************************)

TypeOK ==
  /\ at \in [Drives -> Hosts]
  /\ reading \in [Drives -> Readings]
  /\ main \in [Hosts -> MainPc]
  /\ once \in [Hosts -> BOOLEAN] /\ stop \in [Hosts -> BOOLEAN]
  /\ got \in [Hosts -> [Drives -> Readings \cup {Absent}]]
  /\ todo \in [Hosts -> SUBSET Drives]
  /\ cur \in [Hosts -> Drives \cup {Absent}]
  /\ \A h \in Hosts :
       /\ main[h] \in {"state", "online"} => cur[h] \in Recorded(h)
       /\ main[h] \in {"announce", "state", "online"} =>
            \A d \in todo[h] : got[h][d] # Absent
  /\ record \in [Hosts -> [Drives -> Readings \cup {Absent}]]
  /\ link \in [Hosts -> BOOLEAN]
  /\ conn \in [Hosts -> {"none", "online", "offline"}]
  /\ config \in [Drives -> [Suffixes -> Hosts \cup {NoHost}]]
  /\ state \in [Drives -> [Suffixes -> {"missing", "null", "value"}]]
  /\ status \in [Drives -> {"none", "online", "offline"}]
  /\ orphans \subseteq Drives /\ left \subseteq Hosts
  /\ lost \in [Hosts -> [Drives -> SUBSET Suffixes]]
  /\ starts \in Nat /\ mishaps \in Nat /\ changes \in Nat

\* A drive shown online is answered for: some running daemon has it on record,
\* whatever hosts it has been on and in whatever order their daemons noticed,
\* unless the last to answer for it died or lost its offline (L337-L344, L373-L378).
OnlineIsBacked ==
  \A d \in Drives :
    status[d] = "online" /\ d \notin orphans => \E h \in Hosts : d \in Recorded(h)

\* A daemon that is gone is not shown connected, whatever became of it; but for
\* what a --once run leaves (L373-L378).
GoneShowsOffline ==
  \A h \in Hosts : main[h] = "down" /\ h \notin left => conn[h] # "online"

\* "A drive that moves host is re-discovered by the new host with that host's
\* topics" (storage-collectors-design L51-L52): the discovery that is retained of
\* a drive on record names the connection of the host that has it, except
\* where it was dropped or another host has since announced the drive
\* (L316-L330).
OwnDiscovery ==
  \A h \in Hosts : \A d \in Recorded(h) :
    \A s \in record[h][d].has \ lost[h][d] : config[d][s] = h

\* A drive that stays on a host whose daemon stays up and connected ends up
\* shown as it reads, however late the offline of the host it came from
\* (L312-L345).
Served(d) ==
  link[at[d]] /\ ~stop[at[d]] /\ ~once[at[d]]
Shown(d) ==
  /\ status[d] = "online" /\ conn[at[d]] = "online"
  /\ \A s \in Suffixes : state[d][s] = "value" <=> s \in reading[d].has
EventuallyShown == \A d \in Drives : <>[]Served(d) => <>[](Served(d) /\ Shown(d))

===============================================================================
