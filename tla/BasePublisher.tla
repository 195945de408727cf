----------------------------- MODULE BasePublisher -----------------------------
(***************************************************************************)
(* The publishing loop every host-local collector inherits (base.py):      *)
(* poll, publish the discovery of sensors not yet announced, the attributes*)
(* that changed, the state, and online.                                    *)
(*                                                                         *)
(* The main thread runs the loop.  paho's network thread clears the record *)
(* of the attributes sent at every connect (L240-L241), between any two    *)
(* steps of the main thread.  A connection that has died goes unnoticed    *)
(* for a while: the client accepts a publish, reports success, and it is   *)
(* lost.  External: the sensors, the network and the broker, which may     *)
(* restart without its retained messages.                                  *)
(***************************************************************************)
EXTENDS Naturals

CONSTANTS
  Suffixes,      \* dynamic sensors that have attributes
  Payloads,      \* what their attributes may say
  NoPayload,     \* the sensor is absent; nothing is retained; nothing was sent
  NoSuffix,      \* not a suffix
  Static,        \* the sensors known from the start, taken as one
  MaxChanges,    \* bound: changes of the sensors
  MaxBreaks,     \* bound: connections that die, broker restarts included
  MaxStarts      \* bound: process starts

Empty == "{}"    \* the attributes published for a sensor that has gone

ASSUME BaseAssumption ==
  /\ Suffixes # {} /\ Payloads # {}
  /\ NoPayload \notin Payloads /\ Empty \notin Payloads /\ NoPayload # Empty
  /\ NoSuffix \notin Suffixes /\ Static \notin Suffixes
  /\ MaxChanges \in Nat /\ MaxBreaks \in Nat /\ MaxStarts \in Nat

VARIABLES
  readable,    \* poll() would return values
  sensors,     \* suffix -> the attributes dynamic_sensors() would return
  main,        \* where the main thread stands in run and _poll_once
  stop,        \* _stop_event
  got,         \* what the current poll has returned, in the form of sensors
  todo,        \* suffixes the loop at hand has not yet visited
  open,        \* the suffix it has published and not yet recorded or deleted
  announced,   \* _discovery_published
  discovered,  \* _dynamic_discovered
  sent,        \* _attributes_sent, NoPayload where it has no entry
  link,        \* the connection, as it is; the client takes "dead" for up
  session,     \* the broker holds a session with a Last-Will
  configs,     \* suffixes, or Static, whose discovery is retained
  attrs,       \* suffix -> retained attributes
  state,       \* suffix -> its value in the retained state
  avail,       \* retained payload of the status topic
  steady,      \* the connection has been up since the current poll began
  crossed,     \* a connect has passed since open was published
  torn,        \* suffixes whose record is of a publish before the last connect
  missed,      \* those of configs that were lost on their way or forgotten
  changes, breaks, starts

worldVars  == << readable, sensors >>
mainVars   == << main, stop, got, todo, open >>
recordVars == << announced, discovered, sent >>
netVars    == << link, session >>
topicVars  == << configs, attrs, state, avail >>
histVars   == << steady, crossed, torn, missed >>
bounds     == << changes, breaks, starts >>
vars == << worldVars, mainVars, recordVars, netVars, topicVars, histVars, bounds >>

MainPc == {"down", "poll", "no_data", "announce", "discover", "attributes", "list_gone",
           "gone", "delete", "state", "online", "wait", "closing", "leaving"}

Present(a) == {s \in Suffixes : a[s] # NoPayload}

Init ==
  /\ readable = TRUE
  /\ sensors \in [Suffixes -> Payloads \cup {NoPayload}]
  /\ main = "down" /\ stop = FALSE
  /\ got = [s \in Suffixes |-> NoPayload]
  /\ todo = {} /\ open = NoSuffix
  /\ announced = FALSE /\ discovered = {}
  /\ sent = [s \in Suffixes |-> NoPayload]
  /\ link = "down" /\ session = FALSE
  /\ configs = {} /\ avail = "none"
  /\ attrs = [s \in Suffixes |-> NoPayload]
  /\ state = [s \in Suffixes |-> "missing"]
  /\ steady = FALSE /\ crossed = FALSE /\ torn = {} /\ missed = {}
  /\ changes = 0 /\ breaks = 0 /\ starts = 0

\* client.publish with retain: delivered only over a connection that is up.
Publish(topic, payload) == IF link = "up" THEN payload ELSE topic

\* The rc it returns is MQTT_ERR_SUCCESS: the client believes it is connected.
Accepted == link # "down"

-------------------------------------------------------------------------------
(***************************************************************************)
(* The main thread.                                                        *)
(***************************************************************************)

\* A start of the process; its connection is still to be made.
Start ==
  /\ main = "down" /\ link = "down"
  /\ starts < MaxStarts
  /\ starts' = starts + 1
  /\ main' = "poll"
  /\ UNCHANGED << worldVars, stop, got, todo, open, recordVars, netVars, topicVars,
                  histVars, changes, breaks >>

\* poll and dynamic_sensors; with neither there is nothing to publish but offline.
Poll ==
  /\ main = "poll"
  /\ got' = sensors
  /\ main' = IF ~readable /\ Present(sensors) = {} THEN "no_data" ELSE "announce"
  /\ steady' = (link = "up")
  /\ UNCHANGED << worldVars, stop, todo, open, recordVars, netVars, topicVars, crossed,
                  torn, missed, bounds >>

\* Mutant: a poll without data returns before it publishes.
MutantPublishNoData ==
  /\ main = "no_data"
  /\ main' = "wait"
  /\ UNCHANGED << worldVars, stop, got, todo, open, recordVars, netVars, topicVars,
                  histVars, bounds >>

PublishNoData ==
  /\ main = "no_data"
  /\ main' = "wait"
  /\ avail' = Publish(avail, "offline")
  /\ UNCHANGED << worldVars, stop, got, todo, open, recordVars, netVars, configs, attrs,
                  state, histVars, bounds >>

\* publish_discovery: the configs of new sensors, of which the caller takes a
\* note whether they were sent or not.
PublishConfigs(new) ==
  /\ configs' = Publish(configs, configs \cup new)
  /\ missed' = IF link = "up" THEN missed \ new ELSE missed \cup new

\* Mutant: the first poll counts as announced though it had no static values.
MutantAnnounce ==
  /\ main = "announce"
  /\ main' = "discover"
  /\ announced' = TRUE
  /\ PublishConfigs(IF announced \/ ~readable THEN {} ELSE {Static})
  /\ UNCHANGED << worldVars, stop, got, todo, open, discovered, sent, netVars, attrs,
                  state, avail, steady, crossed, torn, bounds >>

\* The discovery of the static sensors, once per process.
Announce ==
  /\ main = "announce"
  /\ main' = "discover"
  /\ announced' = TRUE
  /\ PublishConfigs(IF announced THEN {} ELSE {Static})
  /\ UNCHANGED << worldVars, stop, got, todo, open, discovered, sent, netVars, attrs,
                  state, avail, steady, crossed, torn, bounds >>

\* That of the dynamic sensors this process has not seen before.
Discover ==
  /\ main = "discover"
  /\ main' = "attributes"
  /\ todo' = Present(got)
  /\ PublishConfigs(Present(got) \ discovered)
  /\ discovered' = discovered \cup Present(got)
  /\ UNCHANGED << worldVars, stop, got, open, announced, sent, netVars, attrs, state,
                  avail, steady, crossed, torn, bounds >>

\* The attributes of s, if they are not those last sent ...
SendAttributes(s) ==
  /\ main = "attributes" /\ open = NoSuffix /\ s \in todo
  /\ todo' = todo \ {s}
  /\ IF sent[s] # got[s]
       THEN /\ attrs' = [attrs EXCEPT ![s] = Publish(@, got[s])]
            /\ open' = IF Accepted THEN s ELSE NoSuffix
            /\ crossed' = FALSE
       ELSE UNCHANGED << attrs, open, crossed >>
  /\ UNCHANGED << worldVars, main, stop, got, recordVars, netVars, configs, state, avail,
                  steady, torn, missed, bounds >>

\* ... and, if the client took them, the record that they were.
RecordSent ==
  /\ main = "attributes" /\ open # NoSuffix
  /\ sent' = [sent EXCEPT ![open] = got[open]]
  /\ torn' = IF crossed THEN torn \cup {open} ELSE torn \ {open}
  /\ open' = NoSuffix
  /\ UNCHANGED << worldVars, main, stop, got, todo, announced, discovered, netVars,
                  topicVars, steady, crossed, missed, bounds >>

AttributesSent ==
  /\ main = "attributes" /\ open = NoSuffix /\ todo = {}
  /\ main' = "list_gone"
  /\ UNCHANGED << worldVars, stop, got, todo, open, recordVars, netVars, topicVars,
                  histVars, bounds >>

\* list(_attributes_sent.keys() - attributes.keys()), evaluated once.
ListGone ==
  /\ main = "list_gone"
  /\ main' = "gone"
  /\ todo' = Present(sent) \ Present(got)
  /\ UNCHANGED << worldVars, stop, got, open, recordVars, netVars, topicVars, histVars,
                  bounds >>

\* The retained attributes of a sensor that has gone are emptied ...
EmptyGone(s) ==
  /\ main = "gone" /\ s \in todo
  /\ main' = "delete"
  /\ todo' = todo \ {s}
  /\ open' = s
  /\ attrs' = [attrs EXCEPT ![s] = Publish(@, Empty)]
  /\ UNCHANGED << worldVars, stop, got, recordVars, netVars, configs, state, avail,
                  histVars, bounds >>

\* ... and its entry deleted.  If a connect has cleared the entries meanwhile the
\* KeyError ends the loop: the finally block runs, and the process exits.
DeleteGone ==
  /\ main = "delete"
  /\ main' = IF sent[open] = NoPayload THEN "closing" ELSE "gone"
  /\ sent' = [sent EXCEPT ![open] = NoPayload]
  /\ torn' = torn \ {open}
  /\ open' = NoSuffix
  /\ UNCHANGED << worldVars, stop, got, todo, announced, discovered, netVars, topicVars,
                  steady, crossed, missed, bounds >>

GoneEmptiedAll ==
  /\ main = "gone" /\ todo = {}
  /\ main' = "state"
  /\ UNCHANGED << worldVars, stop, got, todo, open, recordVars, netVars, topicVars,
                  histVars, bounds >>

\* Mutant: a sensor that has gone is left out of the state.
MutantStateOf(s) == IF got[s] # NoPayload THEN "value" ELSE "missing"

\* Mutant: what empties the attributes of a sensor that has gone stands in the state.
MutantEmptyState(s) == IF got[s] # NoPayload THEN "value" ELSE Empty

\* What the state says of s: a value, null once it has gone, or nothing.
StateOf(s) ==
  IF got[s] # NoPayload THEN "value"
  ELSE IF s \in discovered THEN "null" ELSE "missing"

PublishState ==
  /\ main = "state"
  /\ main' = "online"
  /\ state' = Publish(state, [s \in Suffixes |-> StateOf(s)])
  /\ UNCHANGED << worldVars, stop, got, todo, open, recordVars, netVars, configs, attrs,
                  avail, histVars, bounds >>

PublishOnline ==
  /\ main = "online"
  /\ main' = "wait"
  /\ avail' = Publish(avail, "online")
  /\ UNCHANGED << worldVars, stop, got, todo, open, recordVars, netVars, configs, attrs,
                  state, histVars, bounds >>

\* The wait for the poll interval or a signal is over.
NextPoll ==
  /\ main = "wait"
  /\ main' = IF stop THEN "closing" ELSE "poll"
  /\ UNCHANGED << worldVars, stop, got, todo, open, recordVars, netVars, topicVars,
                  histVars, bounds >>

\* _signal_handler.
Signal ==
  /\ main \notin {"down", "closing", "leaving"} /\ ~stop
  /\ stop' = TRUE
  /\ UNCHANGED << worldVars, main, got, todo, open, recordVars, netVars, topicVars,
                  histVars, bounds >>

\* Mutant: the finally block only disconnects.
MutantCloseOffline ==
  /\ main = "closing"
  /\ main' = "leaving"
  /\ UNCHANGED << worldVars, stop, got, todo, open, recordVars, netVars, topicVars,
                  histVars, bounds >>

\* The finally block publishes offline ...
CloseOffline ==
  /\ main = "closing"
  /\ main' = "leaving"
  /\ avail' = Publish(avail, "offline")
  /\ UNCHANGED << worldVars, stop, got, todo, open, recordVars, netVars, configs, attrs,
                  state, histVars, bounds >>

\* The process is gone, and with it everything it held in memory.
Forget ==
  /\ main' = "down" /\ stop' = FALSE
  /\ got' = [s \in Suffixes |-> NoPayload]
  /\ todo' = {} /\ open' = NoSuffix
  /\ announced' = FALSE /\ discovered' = {}
  /\ sent' = [s \in Suffixes |-> NoPayload]
  /\ link' = "down"
  /\ steady' = FALSE /\ crossed' = FALSE /\ torn' = {}

\* ... and disconnects: a broker that is reached discards the Last-Will.
Leave ==
  /\ main = "leaving"
  /\ Forget
  /\ session' = IF link = "up" THEN FALSE ELSE session
  /\ UNCHANGED << worldVars, topicVars, missed, bounds >>

\* The process is killed or the host dies.
Crash ==
  /\ main # "down"
  /\ Forget
  /\ UNCHANGED << worldVars, session, topicVars, missed, bounds >>

-------------------------------------------------------------------------------
(***************************************************************************)
(* The network thread, and what is external to the process.                *)
(***************************************************************************)

\* Mutant: a connect leaves the record of the attributes sent as it is.
MutantConnect ==
  /\ main # "down" /\ link = "down"
  /\ link' = "up" /\ session' = TRUE
  /\ avail' = IF session THEN "offline" ELSE avail
  /\ UNCHANGED << worldVars, mainVars, recordVars, configs, attrs, state, histVars,
                  bounds >>

\* make_client's on_connect: _attributes_sent.clear().  A session left over from
\* the client's last connection ends, with its Last-Will.
Connect ==
  /\ main # "down" /\ link = "down"
  /\ link' = "up" /\ session' = TRUE
  /\ avail' = IF session THEN "offline" ELSE avail
  /\ sent' = [s \in Suffixes |-> NoPayload]
  /\ crossed' = TRUE
  /\ torn' = {}
  /\ UNCHANGED << worldVars, mainVars, announced, discovered, configs, attrs, state,
                  steady, missed, bounds >>

\* The connection dies, unnoticed at first.
LinkDies ==
  /\ link = "up" /\ breaks < MaxBreaks
  /\ breaks' = breaks + 1
  /\ link' = "dead"
  /\ steady' = FALSE
  /\ UNCHANGED << worldVars, mainVars, recordVars, session, topicVars, crossed, torn,
                  missed, changes, starts >>

\* The broker restarts without its retained messages.
BrokerRestarts ==
  /\ breaks < MaxBreaks
  /\ breaks' = breaks + 1
  /\ link' = IF link = "up" THEN "dead" ELSE link
  /\ session' = FALSE
  /\ steady' = FALSE
  /\ configs' = {} /\ avail' = "none"
  /\ missed' = Suffixes \cup {Static}
  /\ attrs' = [s \in Suffixes |-> NoPayload]
  /\ state' = [s \in Suffixes |-> "missing"]
  /\ UNCHANGED << worldVars, mainVars, recordVars, crossed, torn, changes, starts >>

\* The client notices.
LinkDown ==
  /\ link = "dead"
  /\ link' = "down"
  /\ UNCHANGED << worldVars, mainVars, recordVars, session, topicVars, histVars, bounds >>

\* The broker notices, and publishes the Last-Will.
SessionDies ==
  /\ session /\ link # "up"
  /\ session' = FALSE
  /\ avail' = "offline"
  /\ UNCHANGED << worldVars, mainVars, recordVars, link, configs, attrs, state, histVars,
                  bounds >>

\* A sensor appears, goes or has other attributes, or the others fail or recover.
SensorsChange ==
  /\ changes < MaxChanges
  /\ changes' = changes + 1
  /\ \/ /\ readable' = ~readable
        /\ UNCHANGED sensors
     \/ /\ \E s \in Suffixes, p \in Payloads \cup {NoPayload} :
             p # sensors[s] /\ sensors' = [sensors EXCEPT ![s] = p]
        /\ UNCHANGED readable
  /\ UNCHANGED << mainVars, recordVars, netVars, topicVars, histVars, breaks, starts >>

-------------------------------------------------------------------------------

MainThread ==
  \/ Poll \/ PublishNoData \/ Announce \/ Discover \/ RecordSent \/ AttributesSent
  \/ ListGone \/ DeleteGone \/ GoneEmptiedAll \/ PublishState \/ PublishOnline
  \/ NextPoll \/ CloseOffline \/ Leave
  \/ \E s \in Suffixes : SendAttributes(s) \/ EmptyGone(s)

Environment ==
  \/ Start \/ Signal \/ Crash \/ Connect \/ LinkDies \/ BrokerRestarts \/ LinkDown
  \/ SessionDies \/ SensorsChange

Next == MainThread \/ Environment

Spec == Init /\ [][Next]_vars

\* The main thread of a live process keeps running.
FairSpec == Spec /\ WF_vars(MainThread)

-------------------------------------------------------------------------------
(***************************************************************************)
(* Properties.                                                             *)
(***************************************************************************)

TypeOK ==
  /\ readable \in BOOLEAN /\ stop \in BOOLEAN /\ session \in BOOLEAN
  /\ announced \in BOOLEAN /\ steady \in BOOLEAN /\ crossed \in BOOLEAN
  /\ sensors \in [Suffixes -> Payloads \cup {NoPayload}]
  /\ got \in [Suffixes -> Payloads \cup {NoPayload}]
  /\ sent \in [Suffixes -> Payloads \cup {NoPayload}]
  /\ attrs \in [Suffixes -> Payloads \cup {NoPayload, Empty}]
  /\ state \in [Suffixes -> {"missing", "null", "value"}]
  /\ main \in MainPc
  /\ open \in Suffixes \cup {NoSuffix} /\ (main = "delete" => open # NoSuffix)
  /\ todo \subseteq Suffixes /\ discovered \subseteq Suffixes
  /\ configs \subseteq Suffixes \cup {Static} /\ missed \subseteq Suffixes \cup {Static}
  /\ torn \subseteq Suffixes
  /\ link \in {"up", "dead", "down"}
  /\ avail \in {"none", "online", "offline"}
  /\ changes \in Nat /\ breaks \in Nat /\ starts \in Nat

\* The last poll had something to publish, and all of it went out over one
\* connection that was up.
PollDelivered == main = "wait" /\ steady /\ avail = "online"

\* No collector is shown online that the broker has lost, or that has left:
\* whatever dies first, the daemon, its connection or the broker (L263-L266).
GoneShowsOffline == ~session => avail # "online"

\* "After a (re)connect, send every attribute again" (L238-L239): after a poll
\* that was delivered the retained attributes are those of the poll, whatever
\* was lost before, except where a connect came between a publish and its
\* record and the record survived it (L313-L317).
AttributesShown ==
  PollDelivered => \A s \in Present(got) : s \in torn \/ attrs[s] = got[s]

\* A sensor this process has announced and that has gone is null in the state,
\* never left out with its last value frozen (L305-L309).
GoneIsNull ==
  PollDelivered => \A s \in Suffixes :
    (state[s] = "missing" => s \notin discovered \cup Present(got))

\* After a poll that was delivered every sensor it published has its discovery on
\* the broker, whenever it appeared; except where the one time the process sends
\* it the publish was dropped, or the broker has forgotten it (L288-L303).
EntitiesKnown == PollDelivered => Present(got) \cup {Static} \subseteq configs \cup missed

\* A daemon that stays up and connected ends up showing what its sensors say:
\* availability, state and attributes (L269-L323).
Shown ==
  /\ avail = IF readable \/ Present(sensors) # {} THEN "online" ELSE "offline"
  /\ avail = "online" => \A s \in Suffixes :
       /\ state[s] = "value" <=> sensors[s] # NoPayload
       /\ sensors[s] # NoPayload => s \in torn \/ attrs[s] = sensors[s]
EventuallyShown == <>[](link = "up" /\ ~stop /\ main # "closing") => <>[]Shown

\* "Gone (an LV removed): empty its retained attributes too" (L319): after a
\* poll that was delivered no sensor that has gone has attributes on the broker.
\* The record is what remembers it, and every connect clears the record.
GoneEmptied ==
  PollDelivered => \A s \in Suffixes \ Present(got) : attrs[s] \in {NoPayload, Empty}

===============================================================================
