----------------------------- MODULE PowerControl -----------------------------
(***************************************************************************)
(* The host power controller (collector/local_control.py): a press of the  *)
(* Shutdown or Reboot button arrives over MQTT, a worker of a thread pool  *)
(* acknowledges it on a retained state topic and runs /sbin/shutdown.      *)
(*                                                                         *)
(* Three kinds of thread of one process interleave: the main thread (run), *)
(* paho's network thread (Connect, LinkDown, Deliver) and the pool's       *)
(* workers.  An action is what one of them does between two points where   *)
(* another can see the difference.  The broker is external: it keeps the   *)
(* last retained payload of a topic, drops what is published while the     *)
(* client is not connected (QoS 0), and publishes the Last-Will.           *)
(***************************************************************************)
EXTENDS Naturals, Sequences

CONSTANTS
  Workers,      \* the pool's threads (the code has two)
  Actions,      \* the power actions, ACTIONS in the code
  MaxPresses,   \* bound: command messages delivered
  MaxStarts,    \* bound: process starts
  MaxDrops      \* bound: lost connections

ASSUME PowerAssumption ==
  /\ Workers # {} /\ Actions # {}
  /\ MaxPresses \in Nat /\ MaxStarts \in Nat /\ MaxDrops \in Nat
  /\ "idle" \notin Actions

VARIABLES
  main,        \* where the main thread stands in run()
  once,        \* the --once flag of this process
  client,      \* _client is not None
  stop,        \* _stop_event
  link,        \* the broker holds a session of this client, subscribed
  queue,       \* the executor's pending commands
  busy,        \* _busy
  pc,          \* worker -> where it stands in _handle_command
  job,         \* worker -> the action it handles, any before its first
  power,       \* retained payload of power/state: "idle" or an action
  status,      \* retained payload of local_control/status
  issued,      \* a command of this process returned 0: the host goes down
  idleLost,    \* the last publish of "idle" did not reach the broker
  late,        \* the last connect came after the final offline of its process
  pressed,     \* live presses delivered so far
  ran,         \* power commands run so far
  starts, drops

mainVars  == << main, once, client, stop >>
poolVars  == << queue, busy, pc, job >>
topicVars == << power, status >>
histVars  == << issued, idleLost, late, pressed, ran >>
bounds    == << starts, drops >>
vars == << mainVars, link, poolVars, topicVars, histVars, bounds >>

-------------------------------------------------------------------------------
(***************************************************************************)
(* The pool's threads.                                                     *)
(***************************************************************************)

\* "claim":    before the check-and-set of _busy
\* "ack":      holds _busy, about to test _client for the acknowledgement
\* "acking":   saw a client, about to publish the acknowledgement
\* "run":      in subprocess.run
\* "reset":    the command failed, about to clear _busy
\* "notify":   cleared _busy, about to test _client to publish idle
\* "notifying": saw a client, about to publish idle
WorkerPc == {"idle", "claim", "ack", "acking", "run", "reset", "notify", "notifying"}

\* A worker in one of these has set _busy and not cleared it.
Holding == {"ack", "acking", "run", "reset"}

MainPc == {"down", "connecting", "loop", "closing", "leaving", "exiting"}

Holders == {w \in Workers : pc[w] \in Holding}
AllIdle == \A w \in Workers : pc[w] = "idle"

\* The network loop runs from loop_start to disconnect.
NetworkUp == main \in {"connecting", "loop", "closing", "leaving"}

Goto(w, from, to) ==
  /\ pc[w] = from
  /\ pc' = [pc EXCEPT ![w] = to]

\* The process is gone, and with it everything it held in memory.
Forget ==
  /\ main' = "down"
  /\ client' = FALSE
  /\ stop' = FALSE
  /\ link' = FALSE
  /\ queue' = << >>
  /\ busy' = FALSE
  /\ pc' = [w \in Workers |-> "idle"]
  /\ issued' = FALSE

Init ==
  /\ main = "down" /\ once = FALSE
  /\ client = FALSE /\ stop = FALSE /\ link = FALSE
  /\ queue = << >> /\ busy = FALSE
  /\ pc = [w \in Workers |-> "idle"]
  /\ job = [w \in Workers |-> CHOOSE a \in Actions : TRUE]
  /\ power \in Actions \cup {"idle"}     \* retained by an earlier life
  /\ status = "offline"
  /\ issued = FALSE /\ idleLost = TRUE /\ late = FALSE
  /\ pressed = 0 /\ ran = 0
  /\ starts = 0 /\ drops = 0

-------------------------------------------------------------------------------
(***************************************************************************)
(* The main thread.                                                        *)
(***************************************************************************)

\* A start by systemd, at boot or after an exit, or by hand with --once: the
\* client is made, its network loop started, and run() waits for the CONNACK.
Start ==
  /\ main = "down"
  /\ starts < MaxStarts
  /\ starts' = starts + 1
  /\ main' = "connecting"
  /\ once' \in BOOLEAN
  /\ client' = TRUE
  /\ UNCHANGED << stop, link, poolVars, topicVars, histVars, drops >>

\* _announce: republish idle, the discovery and online.  The wait for the
\* connection gives up after 10 s, so the link may be down and all is dropped.
Announce ==
  /\ main = "connecting"
  /\ main' = IF once THEN "closing" ELSE "loop"
  /\ IF link
       THEN power' = "idle" /\ status' = "online"
       ELSE UNCHANGED topicVars
  /\ idleLost' = ~link
  /\ UNCHANGED << once, client, stop, link, poolVars,
                  issued, late, pressed, ran, bounds >>

\* The loop's publish; a connect has said the same before it.
Heartbeat ==
  /\ main = "loop" /\ ~stop
  /\ status' = IF link THEN "online" ELSE status
  /\ UNCHANGED << mainVars, link, poolVars, power, histVars, bounds >>

\* SIGTERM or SIGINT; the handler is installed unless --once.
Signal ==
  /\ main \in {"connecting", "loop"} /\ ~once /\ ~stop
  /\ stop' = TRUE
  /\ UNCHANGED << main, once, client, link, poolVars, topicVars,
                  histVars, bounds >>

\* The loop sees _stop_event and enters the finally block.
LeaveLoop ==
  /\ main = "loop" /\ stop
  /\ main' = "closing"
  /\ UNCHANGED << once, client, stop, link, poolVars, topicVars,
                  histVars, bounds >>

\* Mutant: the finally block forgets its offline.
MutantCloseOffline ==
  /\ main = "closing"
  /\ main' = "leaving"
  /\ UNCHANGED << once, client, stop, link, poolVars, topicVars, histVars, bounds >>

\* The finally block: offline, then executor.shutdown(wait=False) ...
CloseOffline ==
  /\ main = "closing"
  /\ main' = "leaving"
  /\ status' = IF link THEN "offline" ELSE status
  /\ UNCHANGED << once, client, stop, link, poolVars, power, histVars, bounds >>

\* ... then disconnect, loop_stop and _client = None.  A clean DISCONNECT makes
\* the broker discard the Last-Will.
Disconnect ==
  /\ main = "leaving"
  /\ main' = "exiting"
  /\ link' = FALSE
  /\ client' = FALSE
  /\ UNCHANGED << once, stop, poolVars, topicVars, histVars, bounds >>

\* Interpreter exit joins the pool's threads, which first drain the queue.
Exit ==
  /\ main = "exiting" /\ queue = << >> /\ AllIdle
  /\ Forget
  /\ UNCHANGED << once, job, topicVars, idleLost, late, pressed, ran, bounds >>

\* The process is killed, or the host halts, reboots or loses power.
Crash ==
  /\ main # "down"
  /\ Forget
  /\ status' = IF link THEN "offline" ELSE status
  /\ UNCHANGED << once, job, power, idleLost, late, pressed, ran, bounds >>

-------------------------------------------------------------------------------
(***************************************************************************)
(* The network thread.                                                     *)
(***************************************************************************)

\* _on_mqtt_connected, on every connect: the announcing main thread is woken,
\* online published, and the command topics subscribed (not with --once).
Connect ==
  /\ NetworkUp /\ ~link
  /\ link' = TRUE
  /\ status' = "online"
  /\ late' = (main = "leaving")
  /\ UNCHANGED << mainVars, poolVars, power, issued, idleLost, pressed, ran, bounds >>

\* The connection is lost: the broker drops the subscriptions of the session
\* and publishes its Last-Will.
LinkDown ==
  /\ link
  /\ drops < MaxDrops
  /\ drops' = drops + 1
  /\ link' = FALSE
  /\ status' = "offline"
  /\ UNCHANGED << mainVars, poolVars, power, histVars, starts >>

\* Mutants: an action that is not looked up; a retained press that is obeyed.
MutantAnyAction(m) == ~m.retain /\ m.payload = "PRESS"
MutantRetained(m) == m.action \in Actions /\ m.payload = "PRESS"

\* _on_message: what of a message on the command topics starts a command.
Accepted(m) ==
  /\ m.action \in Actions
  /\ ~m.retain
  /\ m.payload = "PRESS"

\* Live presses of a button, retained ones the broker replays on a subscribe,
\* other payloads and unknown actions.
Messages ==
  [action : Actions \cup {"unknown"}, retain : BOOLEAN, payload : {"PRESS", "other"}]

LivePress(m) == m.payload = "PRESS" /\ ~m.retain /\ m.action \in Actions

\* A submit after executor.shutdown raises in paho's thread: the press is lost.
Deliver(m) ==
  /\ link /\ ~once
  /\ pressed < MaxPresses \/ ~LivePress(m)
  /\ Len(queue) < MaxPresses
  /\ queue' = IF Accepted(m) /\ main # "leaving" THEN Append(queue, m.action) ELSE queue
  /\ pressed' = IF LivePress(m) THEN pressed + 1 ELSE pressed
  /\ UNCHANGED << mainVars, link, busy, pc, job, topicVars, issued, idleLost,
                  late, ran, bounds >>

-------------------------------------------------------------------------------
(***************************************************************************)
(* The workers: _handle_command and _reset_after_failure.                  *)
(***************************************************************************)

Take(w) ==
  /\ queue # << >>
  /\ Goto(w, "idle", "claim")
  /\ job' = [job EXCEPT ![w] = Head(queue)]
  /\ queue' = Tail(queue)
  /\ UNCHANGED << mainVars, link, busy, topicVars, histVars, bounds >>

\* Mutant: the test of _busy is dropped.
MutantClaim(w) ==
  /\ Goto(w, "claim", "ack")
  /\ busy' = TRUE
  /\ UNCHANGED << mainVars, link, queue, job, topicVars, histVars, bounds >>

\* The check-and-set under _busy_lock: a command finding _busy set is ignored.
Claim(w) ==
  /\ IF busy THEN Goto(w, "claim", "idle") ELSE Goto(w, "claim", "ack")
  /\ busy' = TRUE
  /\ UNCHANGED << mainVars, link, queue, job, topicVars, histVars, bounds >>

\* _publish_state tests _client ...
Ack(w) ==
  /\ Goto(w, "ack", IF client THEN "acking" ELSE "run")
  /\ UNCHANGED << mainVars, link, queue, busy, job, topicVars, histVars, bounds >>

\* ... and uses it: by then the main thread may have set it to None, and the
\* AttributeError ends the task with _busy still set.
PublishAck(w) ==
  /\ Goto(w, "acking", IF client THEN "run" ELSE "idle")
  /\ power' = IF link THEN job[w] ELSE power
  /\ UNCHANGED << mainVars, link, queue, busy, job, status, histVars, bounds >>

\* Mutant: _busy is cleared on every way out of the command, success included.
MutantRunOk(w) ==
  /\ Goto(w, "run", "idle")
  /\ issued' = TRUE
  /\ ran' = ran + 1
  /\ busy' = FALSE
  /\ UNCHANGED << mainVars, link, queue, job, topicVars, idleLost, late, pressed, bounds >>

\* The command returned 0: _busy stays set and the state in progress.
RunOk(w) ==
  /\ Goto(w, "run", "idle")
  /\ issued' = TRUE
  /\ ran' = ran + 1
  /\ UNCHANGED << mainVars, link, queue, busy, job, topicVars, idleLost,
                  late, pressed, bounds >>

\* Mutant: one of the failure paths returns without _reset_after_failure.
MutantRunFails(w) ==
  /\ Goto(w, "run", "idle")
  /\ ran' = ran + 1
  /\ UNCHANGED << mainVars, link, queue, busy, job, topicVars, issued,
                  idleLost, late, pressed, bounds >>

\* It timed out, raised, or returned another code.
RunFails(w) ==
  /\ Goto(w, "run", "reset")
  /\ ran' = ran + 1
  /\ UNCHANGED << mainVars, link, queue, busy, job, topicVars, issued,
                  idleLost, late, pressed, bounds >>

\* Mutant: _reset_after_failure only clears _busy.
MutantClearBusy(w) ==
  /\ Goto(w, "reset", "idle")
  /\ busy' = FALSE
  /\ UNCHANGED << mainVars, link, queue, job, topicVars, histVars, bounds >>

\* _reset_after_failure: _busy is cleared first, under its lock ...
ClearBusy(w) ==
  /\ Goto(w, "reset", "notify")
  /\ busy' = FALSE
  /\ UNCHANGED << mainVars, link, queue, job, topicVars, histVars, bounds >>

\* ... and idle published afterwards, outside it.
Notify(w) ==
  /\ Goto(w, "notify", IF client THEN "notifying" ELSE "idle")
  /\ idleLost' = (idleLost \/ ~client)
  /\ UNCHANGED << mainVars, link, queue, busy, job, topicVars, issued,
                  late, pressed, ran, bounds >>

PublishIdle(w) ==
  /\ Goto(w, "notifying", "idle")
  /\ power' = IF link THEN "idle" ELSE power
  /\ idleLost' = ~link
  /\ UNCHANGED << mainVars, link, queue, busy, job, status, issued,
                  late, pressed, ran, bounds >>

-------------------------------------------------------------------------------

Worker(w) ==
  \/ Take(w) \/ Claim(w) \/ Ack(w) \/ PublishAck(w)
  \/ RunOk(w) \/ RunFails(w) \/ ClearBusy(w) \/ Notify(w) \/ PublishIdle(w)

MainThread == Announce \/ Heartbeat \/ LeaveLoop \/ CloseOffline \/ Disconnect \/ Exit

Environment ==
  \/ Start \/ Signal \/ Crash \/ Connect \/ LinkDown
  \/ \E m \in Messages : Deliver(m)

Next == MainThread \/ Environment \/ \E w \in Workers : Worker(w)

Spec == Init /\ [][Next]_vars

\* The threads of a live process keep running, and the command they wait for
\* ends: subprocess.run has a timeout.  Nothing makes a user press, the link
\* come up, or the process start.
FairSpec ==
  /\ Spec
  /\ WF_vars(MainThread)
  /\ \A w \in Workers : WF_vars(Worker(w))

-------------------------------------------------------------------------------
(***************************************************************************)
(* Properties.                                                             *)
(***************************************************************************)

TypeOK ==
  /\ main \in MainPc
  /\ once \in BOOLEAN /\ client \in BOOLEAN /\ stop \in BOOLEAN /\ link \in BOOLEAN
  /\ queue \in Seq(Actions) /\ busy \in BOOLEAN
  /\ pc \in [Workers -> WorkerPc]
  /\ job \in [Workers -> Actions]
  /\ power \in Actions \cup {"idle"}
  /\ status \in {"online", "offline"}
  /\ issued \in BOOLEAN /\ idleLost \in BOOLEAN /\ late \in BOOLEAN
  /\ pressed \in Nat /\ ran \in Nat /\ starts \in Nat /\ drops \in Nat

\* The controller implements the latch: whatever the pool's threads do, at most
\* one of them is between the check-and-set of _busy and its release, and a
\* latch kept closed opens again only in a new process (L149-L195).
Latch == INSTANCE CommandLatch WITH closed <- busy, holders <- Holders
LatchSpec == Latch!Spec

\* Once a command has returned 0 no worker acknowledges or runs another, and
\* none can: _busy stays set until the process is gone (L182-L184).
HaltIsLast == issued => busy /\ Holders = {}

\* Every power command that runs is owed to a live press of its own.  The
\* broker replays a retained press at every subscribe; were one obeyed, each
\* boot would halt the host again (L210-L217).
EveryCommandPressed == ran <= pressed

\* Whenever the daemon is up, no worker is busy and commands are accepted, the
\* state topic says idle: no order of acknowledgements and failures of two
\* workers, and no restart, leaves a halt on show that is not coming, unless
\* the last idle was itself lost on the way to the broker (L161-L195, L271-L275).
QuietShowsIdle ==
  main \in {"loop", "closing"} /\ AllIdle /\ ~busy /\ ~idleLost => power = "idle"

\* A daemon that is gone shows offline, whether it exited, was killed or lost
\* the link first; the one exception is a connect between the final offline
\* and the disconnect (L316-L323, base.py L117-L120).
GoneShowsOffline == main = "down" /\ ~late => status = "offline"

\* A command never blocks the next for good: the busy flag clears again, or the
\* host is going down, or the daemon is being stopped (L165-L195).
BusyEnds == busy ~> (~busy \/ issued \/ main # "loop")

\* "Leave _busy set and state at the in-progress value" (L183): a running daemon
\* that has halted its host never lets the state topic return to idle.  It does:
\* a worker that failed clears _busy before it publishes idle, outside the
\* lock, and the next worker's whole command fits in between (L186-L195).
HaltStaysOnShow ==
  [][main = "loop" /\ issued /\ power # "idle" => power' # "idle"]_vars

===============================================================================
