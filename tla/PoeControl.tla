------------------------------ MODULE PoeControl ------------------------------
(***************************************************************************)
(* The PoE controller (collector/snmp_control.py) and the ports of one of  *)
(* its switches.  The main thread walks the switch and publishes what it   *)
(* read; the workers of a pool carry out the toggle, power-cycle and       *)
(* force-override commands of Home Assistant; paho's network thread        *)
(* delivers commands and retained messages.  All three read and write the  *)
(* same PortControlState records, under no lock but that of the busy flag. *)
(*                                                                         *)
(* External: the switch (hw), which others may reconfigure and which may   *)
(* not answer, and the MQTT broker (see PowerControl).  A value is read    *)
(* from the switch in one step and written to memory in another.  The      *)
(* status topics are modelled in SwitchStatus.                             *)
(***************************************************************************)
EXTENDS Naturals, Sequences

CONSTANTS
  Ports,         \* the PoE ports of the switch
  Workers,       \* the pool's threads (the code has four)
  NoReply,       \* an SNMP request that failed: not a reading
  NoJob,         \* not a command
  InitialHw,     \* the states in which the first process may find a port
  MaxCommands,   \* bound: command messages delivered
  MaxMishaps,    \* bound: SNMP requests that fail, lost connections, and
                 \* changes of the switch that no SET of ours made
  MaxStarts      \* bound: process starts

VARIABLES
  main,       \* where the main thread stands in run()
  attr,       \* the attribute it is walking
  seen,       \* what its walk returned and it has not yet written, or NoReply
  once,       \* --once
  stop,       \* _stop_event
  client,     \* _client is not None
  link,       \* the broker holds a session, with the commands subscribed
  reading,    \* the force/state topics are subscribed
  inbox,      \* port -> force/state payloads on their way (TRUE: ON)
  mem,        \* port -> admin, detect and link of its PortControlState
  force,      \* port -> force_override
  busy,       \* port -> busy
  queue,      \* the executor's pending commands
  pc,         \* worker -> where it stands in its handler
  job,        \* worker -> the command it handles, or NoJob
  got,        \* worker -> what its GETs returned and it has not yet written
  hw,         \* port -> its actual admin, detect and link
  pubState,   \* port -> retained payload of poe/state
  pubAvail,   \* port -> retained payload of poe/available
  pubForce,   \* port -> retained payload of poe/force/state
  cut,        \* port -> a power cycle of this process has it disabled
  setFailed,  \* port -> a SET of this process was reported as failed
  commands, mishaps, starts

mainVars  == << main, attr, seen, once, stop, client >>
netVars   == << link, reading, inbox >>
memVars   == << mem, force, busy >>
poolVars  == << queue, pc, job, got >>
topicVars == << pubState, pubAvail, pubForce >>
histVars  == << cut, setFailed >>
bounds    == << commands, mishaps, starts >>
vars == << mainVars, netVars, memVars, poolVars, hw, topicVars, histVars, bounds >>

-------------------------------------------------------------------------------
(***************************************************************************)
(* Values.                                                                 *)
(***************************************************************************)

\* pethPsePortDetectionStatus: "searching" stands for searching and fault, which
\* the code never tells apart.
Detects == {"unused", "searching", "delivering"}

\* A disabled port feeds nothing.
HwStates ==
  {h \in [admin : {"on", "off"}, detect : Detects, link : {"up", "down"}] :
     h.admin = "off" => h.detect = "unused"}

ASSUME PoeAssumption ==
  /\ Ports # {} /\ Workers # {}
  /\ InitialHw \subseteq HwStates /\ NoReply \notin HwStates
  /\ MaxCommands \in Nat /\ MaxMishaps \in Nat /\ MaxStarts \in Nat

\* PortControlState before the first reading: all zero.
Unread == [admin |-> "none", detect |-> "none", link |-> "none"]
MemStates ==
  [admin : {"on", "off", "none"}, detect : Detects \cup {"none"},
   link : {"up", "down", "none"}]

Attrs == {"admin", "detect", "link"}
ValuesOf(a) ==
  CASE a = "admin" -> {"on", "off"} [] a = "detect" -> Detects [] OTHER -> {"up", "down"}

Commands ==
  [kind : {"toggle"}, port : Ports, payload : {"ON", "OFF", "other"}]
    \cup [kind : {"cycle"}, port : Ports, payload : {"other"}]
    \cup [kind : {"force"}, port : Ports, payload : {"ON", "OFF"}]

\* PortControlState.is_available and poe_is_on.
IsAvailable(m, forced) ==
  forced \/ m.link # "up" \/ m.detect \in {"searching", "delivering"}
Availability(m, forced) == IF IsAvailable(m, forced) THEN "online" ELSE "offline"
OnOff(m) == IF m.admin = "on" THEN "ON" ELSE "OFF"

\* What the switch holds after a SET of the admin status: a port that is
\* disabled stops feeding at once, and a device it fed loses its link; one that
\* is enabled starts to look for a device.
AfterSet(h, value) ==
  IF value = "off"
    THEN [admin |-> "off", detect |-> "unused",
          link |-> IF h.detect = "delivering" THEN "down" ELSE h.link]
    ELSE [h EXCEPT !.admin = "on", !.detect = IF h.admin = "on" THEN @ ELSE "searching"]

MainPc == {"down", "connecting", "reading", "walk", "apply", "publish", "wait",
           "closing", "exiting"}

\* Steps of _handle_toggle, _handle_cycle and _handle_force.  Each _read / _apply
\* pair is one poll_port_state.
WorkerPc ==
  {"idle", "claim", "toggle", "pre_read", "pre_apply", "disable",
   "off_read", "off_apply", "off_wait", "enable", "on_read", "on_apply", "on_wait",
   "fin_read", "fin_apply", "fin_publish", "release", "force_set", "force_publish",
   "force_avail"}

\* A worker in one of these holds the busy flag of its port.
Holding == WorkerPc \ {"idle", "claim", "force_set", "force_publish", "force_avail"}

HoldersOf(p) == {w \in Workers : pc[w] \in Holding /\ job[w].port = p}
AllIdle == queue = << >> /\ \A w \in Workers : pc[w] = "idle"

Goto(w, from, to) ==
  /\ pc[w] = from
  /\ pc' = [pc EXCEPT ![w] = to]

Port(w) == job[w].port

Init ==
  /\ main = "down" /\ attr = "admin" /\ seen = NoReply
  /\ once = FALSE /\ stop = FALSE /\ client = FALSE /\ link = FALSE
  /\ reading = FALSE /\ inbox = [p \in Ports |-> << >>]
  /\ mem = [p \in Ports |-> Unread]
  /\ force = [p \in Ports |-> FALSE]
  /\ busy = [p \in Ports |-> FALSE]
  /\ queue = << >>
  /\ pc = [w \in Workers |-> "idle"]
  /\ job = [w \in Workers |-> NoJob]
  /\ got = [w \in Workers |-> NoReply]
  /\ hw \in [Ports -> InitialHw]
  /\ pubState = [p \in Ports |-> "none"]
  /\ pubAvail = [p \in Ports |-> "none"]
  /\ pubForce = [p \in Ports |-> "none"]
  /\ cut = [p \in Ports |-> FALSE]
  /\ setFailed = [p \in Ports |-> FALSE]
  /\ commands = 0 /\ mishaps = 0 /\ starts = 0

\* The process is gone, and with it everything it held in memory.
Forget ==
  /\ main' = "down" /\ attr' = "admin" /\ seen' = NoReply
  /\ once' = FALSE /\ stop' = FALSE /\ client' = FALSE /\ link' = FALSE
  /\ reading' = FALSE /\ inbox' = [p \in Ports |-> << >>]
  /\ mem' = [p \in Ports |-> Unread]
  /\ force' = [p \in Ports |-> FALSE]
  /\ busy' = [p \in Ports |-> FALSE]
  /\ queue' = << >>
  /\ pc' = [w \in Workers |-> "idle"]
  /\ job' = [w \in Workers |-> NoJob]
  /\ got' = [w \in Workers |-> NoReply]
  /\ cut' = [p \in Ports |-> FALSE]
  /\ setFailed' = [p \in Ports |-> FALSE]

-------------------------------------------------------------------------------
(***************************************************************************)
(* The main thread: run, _read_force_overrides, poll_all_ports.            *)
(***************************************************************************)

Start ==
  /\ main = "down"
  /\ starts < MaxStarts
  /\ starts' = starts + 1
  /\ main' = "connecting"
  /\ once' \in BOOLEAN
  /\ client' = TRUE
  /\ UNCHANGED << attr, seen, stop, netVars, memVars, poolVars, hw, topicVars,
                  histVars, commands, mishaps >>

\* _read_force_overrides: the force/state topics are subscribed, and the broker
\* sends what it retains on them.  The wait for the connection gives up after
\* 10 s, and a subscribe without one is dropped.
SubscribeForce ==
  /\ main = "connecting"
  /\ main' = "reading"
  /\ reading' = link
  /\ inbox' = [p \in Ports |->
                 IF link /\ pubForce[p] # "none" THEN << pubForce[p] = "ON" >> ELSE << >>]
  /\ UNCHANGED << attr, seen, once, stop, client, link, memVars, poolVars, hw,
                  topicVars, histVars, bounds >>

\* A second later they are unsubscribed, whatever has arrived.
UnsubscribeForce ==
  /\ main = "reading"
  /\ main' = "walk"
  /\ reading' = FALSE
  /\ inbox' = [p \in Ports |-> << >>]
  /\ UNCHANGED << attr, seen, once, stop, client, link, memVars, poolVars, hw,
                  topicVars, histVars, bounds >>

\* snmpwalk of one attribute over all ports: a reading, or an error or timeout.
Walk ==
  /\ main = "walk"
  /\ main' = "apply"
  /\ \/ /\ seen' = [p \in Ports |-> hw[p][attr]]
        /\ UNCHANGED mishaps
     \/ /\ mishaps < MaxMishaps
        /\ mishaps' = mishaps + 1
        /\ seen' = NoReply
  /\ UNCHANGED << attr, once, stop, client, netVars, memVars, poolVars, hw, topicVars,
                  histVars, commands, starts >>

\* setattr for every port; a failed walk is skipped.  Then the next attribute.
Apply ==
  /\ main = "apply"
  /\ mem' = IF seen = NoReply THEN mem
            ELSE [p \in Ports |-> [mem[p] EXCEPT ![attr] = seen[p]]]
  /\ seen' = NoReply
  /\ main' = IF attr = "link" THEN "publish" ELSE "walk"
  /\ attr' = CASE attr = "admin" -> "detect" [] attr = "detect" -> "link" [] OTHER -> "admin"
  /\ UNCHANGED << once, stop, client, netVars, force, busy, poolVars, hw, topicVars,
                  histVars, bounds >>

\* Mutant: availability published at startup only.
MutantPublish ==
  /\ main = "publish"
  /\ main' = IF once THEN "closing" ELSE "wait"
  /\ pubState' = [p \in Ports |-> IF link THEN OnOff(mem[p]) ELSE pubState[p]]
  /\ pubAvail' = [p \in Ports |-> IF link /\ pubAvail[p] = "none"
                                    THEN Availability(mem[p], force[p]) ELSE pubAvail[p]]
  /\ UNCHANGED << attr, seen, once, stop, client, netVars, memVars, poolVars, hw,
                  pubForce, histVars, bounds >>

\* publish_all_poe_states and publish_availability, at startup (with the
\* discovery) and after every poll.  --once returns after the first.
Publish ==
  /\ main = "publish"
  /\ main' = IF once THEN "closing" ELSE "wait"
  /\ pubState' = [p \in Ports |-> IF link THEN OnOff(mem[p]) ELSE pubState[p]]
  /\ pubAvail' = [p \in Ports |->
                    IF link THEN Availability(mem[p], force[p]) ELSE pubAvail[p]]
  /\ UNCHANGED << attr, seen, once, stop, client, netVars, memVars, poolVars, hw,
                  pubForce, histVars, bounds >>

\* The poll loop waits poll_interval, or until it is told to stop.
NextPoll ==
  /\ main = "wait"
  /\ main' = IF stop THEN "closing" ELSE "walk"
  /\ UNCHANGED << attr, seen, once, stop, client, netVars, memVars, poolVars, hw,
                  topicVars, histVars, bounds >>

\* SIGTERM or SIGINT, handled unless --once.
Signal ==
  /\ main \notin {"down", "closing", "exiting"} /\ ~once /\ ~stop
  /\ stop' = TRUE
  /\ UNCHANGED << main, attr, seen, once, client, netVars, memVars, poolVars, hw,
                  topicVars, histVars, bounds >>

\* The finally block: executor.shutdown(wait=False), disconnect, _client = None.
\* The workers are still running.
Close ==
  /\ main = "closing"
  /\ main' = "exiting"
  /\ client' = FALSE
  /\ link' = FALSE
  /\ UNCHANGED << attr, seen, once, stop, reading, inbox, memVars, poolVars, hw,
                  topicVars, histVars, bounds >>

\* Interpreter exit joins the pool's threads, which first drain the queue.
Exit ==
  /\ main = "exiting" /\ AllIdle
  /\ Forget
  /\ UNCHANGED << hw, topicVars, bounds >>

\* The process is killed or its host dies.
Crash ==
  /\ main # "down"
  /\ Forget
  /\ UNCHANGED << hw, topicVars, bounds >>

-------------------------------------------------------------------------------
(***************************************************************************)
(* The network thread, and what is external to the process.                *)
(***************************************************************************)

\* _on_mqtt_connected subscribes the commands on every connect.
Connect ==
  /\ client /\ ~link
  /\ link' = TRUE
  /\ UNCHANGED << mainVars, reading, inbox, memVars, poolVars, hw, topicVars,
                  histVars, bounds >>

\* The connection is lost, and its subscriptions with it; those of the force
\* overrides are not made again.
LinkDown ==
  /\ link
  /\ mishaps < MaxMishaps
  /\ mishaps' = mishaps + 1
  /\ link' = FALSE
  /\ reading' = FALSE
  /\ inbox' = [p \in Ports |-> << >>]
  /\ UNCHANGED << mainVars, memVars, poolVars, hw, topicVars, histVars,
                  commands, starts >>

\* on_force_msg: a retained override, or the echo of one published meanwhile.
ReadForce(p) ==
  /\ inbox[p] # << >>
  /\ force' = [force EXCEPT ![p] = Head(inbox[p])]
  /\ inbox' = [inbox EXCEPT ![p] = Tail(@)]
  /\ UNCHANGED << mainVars, reading, link, mem, busy, poolVars, hw, topicVars,
                  histVars, bounds >>

\* _on_message hands a command to the pool, be it live or a retained one that
\* the broker sends at every subscribe.
Deliver(c) ==
  /\ link /\ ~once /\ main # "closing"
  /\ commands < MaxCommands
  /\ commands' = commands + 1
  /\ queue' = Append(queue, c)
  /\ UNCHANGED << mainVars, netVars, memVars, pc, job, got, hw, topicVars, histVars,
                  mishaps, starts >>

\* A port that looks for a device finds one, which boots.
DeviceFound(p) ==
  /\ hw[p].admin = "on" /\ hw[p].detect = "searching"
  /\ hw' = [hw EXCEPT ![p] = [@ EXCEPT !.detect = "delivering", !.link = "up"]]
  /\ UNCHANGED << mainVars, netVars, memVars, poolVars, topicVars, histVars, bounds >>

\* A device is plugged, unplugged or starves, the link comes or goes, or
\* somebody else configures the port.
SwitchChanges(p) ==
  /\ mishaps < MaxMishaps
  /\ mishaps' = mishaps + 1
  /\ \E h \in HwStates \ {hw[p]} : hw' = [hw EXCEPT ![p] = h]
  /\ UNCHANGED << mainVars, netVars, memVars, poolVars, topicVars, histVars,
                  commands, starts >>

-------------------------------------------------------------------------------
(***************************************************************************)
(* The workers.                                                            *)
(***************************************************************************)

Take(w) ==
  /\ queue # << >>
  /\ job' = [job EXCEPT ![w] = Head(queue)]
  /\ queue' = Tail(queue)
  /\ Goto(w, "idle", IF Head(queue).kind = "force" THEN "force_set" ELSE "claim")
  /\ UNCHANGED << mainVars, netVars, memVars, got, hw, topicVars, histVars, bounds >>

Done(w) == job' = [job EXCEPT ![w] = NoJob]

\* Mutant: a power cycle does not look at the flag it sets.
MutantClaim(w) ==
  /\ pc[w] = "claim"
  /\ IF busy[Port(w)] /\ job[w].kind = "toggle"
       THEN /\ Goto(w, "claim", "idle")
            /\ Done(w)
       ELSE /\ Goto(w, "claim", IF job[w].kind = "toggle" THEN "toggle" ELSE "pre_read")
            /\ UNCHANGED job
  /\ busy' = [busy EXCEPT ![Port(w)] = TRUE]
  /\ UNCHANGED << mainVars, netVars, mem, force, queue, got, hw, topicVars, histVars,
                  bounds >>

\* The check-and-set of busy under the port's lock.
Claim(w) ==
  /\ pc[w] = "claim"
  /\ IF busy[Port(w)]
       THEN /\ Goto(w, "claim", "idle")
            /\ Done(w)
       ELSE /\ Goto(w, "claim", IF job[w].kind = "toggle" THEN "toggle" ELSE "pre_read")
            /\ UNCHANGED job
  /\ busy' = [busy EXCEPT ![Port(w)] = TRUE]
  /\ UNCHANGED << mainVars, netVars, mem, force, queue, got, hw, topicVars, histVars,
                  bounds >>

\* _snmpset_int of the admin status by worker w: it works; or it is reported as
\* failed, refused by the switch or timed out with or without effect.
SetAdmin(w, value, onOk, onFailure) ==
  \/ /\ hw' = [hw EXCEPT ![Port(w)] = AfterSet(@, value)]
     /\ cut' = [cut EXCEPT ![Port(w)] = (value = "off" /\ job[w].kind = "cycle")]
     /\ pc' = [pc EXCEPT ![w] = onOk]
     /\ UNCHANGED << setFailed, mishaps >>
  \/ /\ mishaps < MaxMishaps
     /\ mishaps' = mishaps + 1
     /\ \/ /\ hw' = [hw EXCEPT ![Port(w)] = AfterSet(@, value)]
           /\ cut' = [cut EXCEPT ![Port(w)] = (value = "off" /\ job[w].kind = "cycle")]
        \/ UNCHANGED << hw, cut >>
     /\ setFailed' = [setFailed EXCEPT ![Port(w)] = TRUE]
     /\ pc' = [pc EXCEPT ![w] = onFailure]

\* Mutant: a failed SET returns without clearing the flag.
MutantToggle(w) ==
  /\ pc[w] = "toggle"
  /\ IF job[w].payload = "other"
       THEN /\ Goto(w, "toggle", "release")
            /\ UNCHANGED << hw, histVars, mishaps >>
       ELSE SetAdmin(w, IF job[w].payload = "ON" THEN "on" ELSE "off", "fin_read", "idle")
  /\ UNCHANGED << mainVars, netVars, memVars, queue, job, got, topicVars,
                  commands, starts >>

\* The toggle's SET; another payload than ON and OFF is ignored.
Toggle(w) ==
  /\ pc[w] = "toggle"
  /\ IF job[w].payload = "other"
       THEN /\ Goto(w, "toggle", "release")
            /\ UNCHANGED << hw, histVars, mishaps >>
       ELSE SetAdmin(w, IF job[w].payload = "ON" THEN "on" ELSE "off", "fin_read", "release")
  /\ UNCHANGED << mainVars, netVars, memVars, queue, job, got, topicVars,
                  commands, starts >>

\* The cycle's first SET: a failure ends it.
Disable(w) ==
  /\ pc[w] = "disable"
  /\ SetAdmin(w, "off", "off_read", "release")
  /\ UNCHANGED << mainVars, netVars, memVars, queue, job, got, topicVars,
                  commands, starts >>

\* The cycle's second SET: after a failure the state is polled and published.
Enable(w) ==
  /\ pc[w] = "enable"
  /\ SetAdmin(w, "on", "on_read", "fin_read")
  /\ UNCHANGED << mainVars, netVars, memVars, queue, job, got, topicVars,
                  commands, starts >>

\* poll_port_state: the three GETs, of which any may fail ...
Read(w, from, to) ==
  /\ Goto(w, from, to)
  /\ \/ /\ got' = [got EXCEPT ![w] = hw[Port(w)]]
        /\ UNCHANGED mishaps
     \/ /\ mishaps < MaxMishaps
        /\ mishaps' = mishaps + 1
        /\ UNCHANGED got
  /\ UNCHANGED << mainVars, netVars, memVars, queue, job, hw, topicVars, histVars,
                  commands, starts >>

\* Mutant: the check for a failed GET dropped.
MutantPolled(w) == got[w]

\* ... and, unless one did, the writes to the port's record.
Polled(w) == IF got[w] = NoReply THEN mem[Port(w)] ELSE got[w]

Write(w) ==
  /\ mem' = [mem EXCEPT ![Port(w)] = Polled(w)]
  /\ got' = [got EXCEPT ![w] = NoReply]
  /\ UNCHANGED << mainVars, netVars, force, busy, queue, job, hw, topicVars, histVars,
                  bounds >>

PreApply(w) == Goto(w, "pre_apply", "disable") /\ Write(w)

\* The loop waits for the port to be off: detection unused and link down.
OffApply(w) ==
  /\ Goto(w, "off_apply",
          IF Polled(w).detect = "unused" /\ Polled(w).link = "down"
            THEN "enable" ELSE "off_wait")
  /\ Write(w)

\* Mutant: a port that does not go off in time ends the cycle.
MutantOffWait(w) ==
  /\ \/ Goto(w, "off_wait", "fin_read")
     \/ ~stop /\ Goto(w, "off_wait", "off_read")
  /\ UNCHANGED << mainVars, netVars, memVars, queue, job, got, hw, topicVars, histVars,
                  bounds >>

\* Between two polls: the daemon is stopping and the cycle is abandoned, or the
\* 30 s are over and it goes on all the same, or it polls again.
OffWait(w) ==
  /\ \/ stop /\ Goto(w, "off_wait", "fin_read")
     \/ ~stop /\ Goto(w, "off_wait", "enable")
     \/ ~stop /\ Goto(w, "off_wait", "off_read")
  /\ UNCHANGED << mainVars, netVars, memVars, queue, job, got, hw, topicVars, histVars,
                  bounds >>

OnApply(w) ==
  /\ Goto(w, "on_apply", IF Polled(w).detect = "delivering" THEN "fin_read" ELSE "on_wait")
  /\ Write(w)

\* The same for the 60 s in which the port should be delivering again.
OnWait(w) ==
  /\ \/ Goto(w, "on_wait", "fin_read")
     \/ ~stop /\ Goto(w, "on_wait", "on_read")
  /\ UNCHANGED << mainVars, netVars, memVars, queue, job, got, hw, topicVars, histVars,
                  bounds >>

FinApply(w) == Goto(w, "fin_apply", "fin_publish") /\ Write(w)

\* publish_poe_state of the port, publish_availability of all.
FinPublish(w) ==
  /\ Goto(w, "fin_publish", "release")
  /\ IF link
       THEN /\ pubState' = [pubState EXCEPT ![Port(w)] = OnOff(mem[Port(w)])]
            /\ pubAvail' = [p \in Ports |-> Availability(mem[p], force[p])]
       ELSE UNCHANGED << pubState, pubAvail >>
  /\ UNCHANGED << mainVars, netVars, memVars, queue, job, got, hw, pubForce, histVars,
                  bounds >>

\* finally: busy = False, on every way out.
Release(w) ==
  /\ Goto(w, "release", "idle")
  /\ busy' = [busy EXCEPT ![Port(w)] = FALSE]
  /\ Done(w)
  /\ UNCHANGED << mainVars, netVars, mem, force, queue, got, hw, topicVars, histVars,
                  bounds >>

\* _handle_force, which takes no lock: memory first ...
ForceSet(w) ==
  /\ Goto(w, "force_set", "force_publish")
  /\ force' = [force EXCEPT ![Port(w)] = (job[w].payload = "ON")]
  /\ UNCHANGED << mainVars, netVars, mem, busy, queue, job, got, hw, topicVars,
                  histVars, bounds >>

\* ... then the retained force/state, which comes back while it is subscribed ...
ForcePublish(w) ==
  /\ Goto(w, "force_publish", "force_avail")
  /\ pubForce' = IF link THEN [pubForce EXCEPT ![Port(w)] = job[w].payload] ELSE pubForce
  /\ inbox' = IF link /\ reading
                THEN [inbox EXCEPT ![Port(w)] = Append(@, job[w].payload = "ON")]
                ELSE inbox
  /\ UNCHANGED << mainVars, link, reading, memVars, queue, job, got, hw, pubState,
                  pubAvail, histVars, bounds >>

\* ... then the availability of all ports.
ForceAvail(w) ==
  /\ Goto(w, "force_avail", "idle")
  /\ Done(w)
  /\ pubAvail' = IF link THEN [p \in Ports |-> Availability(mem[p], force[p])] ELSE pubAvail
  /\ UNCHANGED << mainVars, netVars, memVars, queue, got, hw, pubState, pubForce,
                  histVars, bounds >>

-------------------------------------------------------------------------------

Worker(w) ==
  \/ Take(w) \/ Claim(w) \/ Release(w)
  \/ Toggle(w) \/ Disable(w) \/ Enable(w)
  \/ Read(w, "pre_read", "pre_apply") \/ PreApply(w)
  \/ Read(w, "off_read", "off_apply") \/ OffApply(w) \/ OffWait(w)
  \/ Read(w, "on_read", "on_apply") \/ OnApply(w) \/ OnWait(w)
  \/ Read(w, "fin_read", "fin_apply") \/ FinApply(w) \/ FinPublish(w)
  \/ ForceSet(w) \/ ForcePublish(w) \/ ForceAvail(w)

MainThread ==
  \/ SubscribeForce \/ UnsubscribeForce \/ Walk \/ Apply \/ Publish \/ NextPoll
  \/ Close \/ Exit

Environment ==
  \/ Start \/ Signal \/ Crash \/ Connect \/ LinkDown
  \/ \E p \in Ports : ReadForce(p) \/ DeviceFound(p) \/ SwitchChanges(p)
  \/ \E c \in Commands : Deliver(c)

Next == MainThread \/ Environment \/ \E w \in Workers : Worker(w)

Spec == Init /\ [][Next]_vars

\* The two deadlines of a cycle: its waiting loops end.
DeadlinesPass(w) ==
  /\ SF_vars(OffWait(w) /\ pc'[w] # "off_read")
  /\ SF_vars(OnWait(w) /\ pc'[w] # "on_read")

\* The threads of a live process keep running, every SNMP command has a
\* timeout, and the waiting loops have deadlines.
FairSpec ==
  /\ Spec
  /\ WF_vars(MainThread)
  /\ \A w \in Workers : WF_vars(Worker(w)) /\ DeadlinesPass(w)

-------------------------------------------------------------------------------
(***************************************************************************)
(* Properties.                                                             *)
(***************************************************************************)

TypeOK ==
  /\ main \in MainPc /\ attr \in Attrs
  /\ seen = NoReply \/ seen \in [Ports -> ValuesOf(attr)]
  /\ once \in BOOLEAN /\ stop \in BOOLEAN /\ client \in BOOLEAN
  /\ link \in BOOLEAN /\ reading \in BOOLEAN
  /\ inbox \in [Ports -> Seq(BOOLEAN)]
  /\ mem \in [Ports -> MemStates]
  /\ force \in [Ports -> BOOLEAN] /\ busy \in [Ports -> BOOLEAN]
  /\ queue \in Seq(Commands)
  /\ pc \in [Workers -> WorkerPc]
  /\ job \in [Workers -> Commands \cup {NoJob}]
  /\ got \in [Workers -> HwStates \cup {NoReply}]
  /\ hw \in [Ports -> HwStates]
  /\ pubState \in [Ports -> {"none", "ON", "OFF"}]
  /\ pubAvail \in [Ports -> {"none", "online", "offline"}]
  /\ pubForce \in [Ports -> {"none", "ON", "OFF"}]
  /\ cut \in [Ports -> BOOLEAN] /\ setFailed \in [Ports -> BOOLEAN]
  /\ commands \in Nat /\ mishaps \in Nat /\ starts \in Nat

\* Each port's busy flag is a latch: at most one worker toggles or cycles a
\* port, from the check-and-set to the finally that clears the flag (L255-L282,
\* L301-L380), and no way out of a handler leaves the port refused for good.
Latch(p) == INSTANCE CommandLatch WITH closed <- busy[p], holders <- HoldersOf(p)
LatchSpec ==
  /\ \A p \in Ports : Latch(p)!Init
  /\ [][\A p \in Ports : [Latch(p)!Next]_<< busy[p], HoldersOf(p) >>]_vars

\* A power cycle that is over has not left its port disabled, however the
\* switch answered the polls, unless a SET was reported as failed or the daemon
\* is being stopped (L316-L380).
CycleRestores ==
  \A p \in Ports : cut[p] /\ ~busy[p] => setFailed[p] \/ stop

\* A command on a port ends: the port accepts another one (L284-L380).
BusyEnds == \A p \in Ports : busy[p] ~> ~busy[p]

\* Home Assistant sees the port as it is.
Shown(p) ==
  /\ pubState[p] = OnOff(hw[p])
  /\ pubAvail[p] = Availability(hw[p], force[p])

\* Whatever stale reading a walk or a worker wrote over a newer one, whatever
\* was lost while disconnected, a daemon that stays up and connected ends up
\* showing every port's actual state and availability (L195-L245, L638-L648).
EventuallyShown ==
  <>[](link /\ ~stop /\ main # "closing") => <>[](\A p \in Ports : Shown(p))

\* "Publish force state (retained -- survives restart)" (L393): what is retained
\* is what is in force once the pool is idle.  Two force commands in two
\* workers may write memory in one order and publish in the other.
ForceSurvives ==
  main = "wait" /\ AllIdle => \A p \in Ports : force[p] <=> pubForce[p] = "ON"

===============================================================================
