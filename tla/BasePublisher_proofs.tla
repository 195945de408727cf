------------------------- MODULE BasePublisher_proofs -------------------------
(***************************************************************************)
(* Proofs about BasePublisher, for any sensors, any attributes and any     *)
(* bounds.                                                                 *)
(***************************************************************************)
EXTENDS BasePublisher, TLAPS

\* A connection that is up is the broker's session, and a broker without the
\* session shows the collector offline, or nothing; so does one whose connection
\* is up when the finally block is about to disconnect.
SessionInv ==
  /\ link = "up" => session
  /\ ~session => avail # "online"
  /\ main = "leaving" /\ link = "up" => avail # "online"

\* Where the connection is up, what is recorded as sent has arrived, except for
\* the suffix at hand and those whose record is torn; and what was published of
\* the suffix at hand, no connect having come since, has arrived too.
SentInv ==
  link = "up" => \A s \in Suffixes :
    /\ sent[s] # NoPayload /\ s \notin torn /\ s # open => attrs[s] = sent[s]
    /\ main = "attributes" /\ s = open /\ ~crossed => attrs[s] = got[s]

\* Where the main thread is past the attributes of s, those of the current poll
\* are recorded as sent if the connection has been up since the poll began.
PastAttributes(s) ==
  \/ main \in {"list_gone", "gone", "delete", "state", "online", "wait"}
  \/ main = "attributes" /\ s \notin todo /\ s # open
PollInv ==
  /\ steady => link = "up"
  /\ steady => \A s \in Present(got) : PastAttributes(s) => sent[s] = got[s]
  /\ main \in {"gone", "delete"} => todo \cap Present(got) = {}
  /\ main = "delete" => open \notin Present(got)
  /\ main = "no_data" => Present(got) = {}
  /\ main \notin {"attributes", "delete"} => open = NoSuffix

\* What was marked as announced was sent or missed; past its announcements a poll
\* has marked all it found; and what it published leaves out none of them.
StateTold == \A s \in Suffixes : state[s] = "missing" => s \notin discovered \cup Present(got)
KnownInv ==
  /\ announced => Static \in configs \cup missed
  /\ discovered \subseteq configs \cup missed
  /\ main \in {"discover", "attributes", "list_gone", "gone", "delete", "state", "online"} =>
       announced
  /\ main \in {"attributes", "list_gone", "gone", "delete", "state", "online"} =>
       Present(got) \subseteq discovered
  /\ main = "online" /\ steady => StateTold
  /\ PollDelivered => announced /\ Present(got) \subseteq discovered /\ StateTold

USE BaseAssumption DEF BaseAssumption

-------------------------------------------------------------------------------

\* Every step preserves the types.
LEMMA TypeStep ==
  ASSUME TypeOK, [Next]_vars PROVE TypeOK'
<1> USE DEF TypeOK, MainPc, Present, worldVars, mainVars, recordVars, netVars, topicVars,
        histVars, bounds
<1>1. CASE Poll
  <2>1. main' \in MainPc
    BY <1>1 DEF Poll
  <2>2. (main' = "delete" => open' # NoSuffix)
    BY <1>1 DEF Poll
  <2>3. steady' \in BOOLEAN
    BY <1>1 DEF Poll
  <2> QED
    BY <1>1, <2>1, <2>2, <2>3 DEF Poll
<1>2. CASE PublishNoData
  <2>1. avail' \in {"none", "online", "offline"}
    BY <1>2 DEF PublishNoData, Publish
  <2> QED
    BY <1>2, <2>1 DEF PublishNoData, Publish
<1>3. CASE Announce
  BY <1>3 DEF Announce, PublishConfigs, Publish
<1>4. CASE Discover
  BY <1>4 DEF Discover, PublishConfigs, Publish
<1>5. CASE RecordSent
  BY <1>5 DEF RecordSent
<1>6. CASE AttributesSent
  BY <1>6 DEF AttributesSent
<1>7. CASE ListGone
  BY <1>7 DEF ListGone
<1>8. CASE DeleteGone
  BY <1>8 DEF DeleteGone
<1>9. CASE GoneEmptiedAll
  BY <1>9 DEF GoneEmptiedAll
<1>10. CASE PublishState
  BY <1>10 DEF PublishState, Publish, StateOf
<1>11. CASE PublishOnline
  BY <1>11 DEF PublishOnline, Publish
<1>12. CASE NextPoll
  BY <1>12 DEF NextPoll
<1>13. CASE CloseOffline
  BY <1>13 DEF CloseOffline, Publish
<1>14. CASE Leave
  <2>1. session' \in BOOLEAN
    BY <1>14 DEF Leave, Forget
  <2>2. got' \in [Suffixes -> Payloads \cup {NoPayload}] /\ sent' \in [Suffixes -> Payloads \cup {NoPayload}]
    BY <1>14 DEF Leave, Forget
  <2> QED
    BY <1>14, <2>1, <2>2 DEF Leave, Forget
<1>15. CASE Start
  BY <1>15 DEF Start
<1>16. CASE Signal
  BY <1>16 DEF Signal
<1>17. CASE Crash
  BY <1>17 DEF Crash, Forget
<1>18. CASE Connect
  BY <1>18 DEF Connect
<1>19. CASE LinkDies
  <2>1. breaks' \in Nat
    BY <1>19 DEF LinkDies
  <2>2. link' \in {"up", "dead", "down"} /\ steady' \in BOOLEAN
    BY <1>19 DEF LinkDies
  <2>3. attrs' \in [Suffixes -> Payloads \cup {NoPayload, Empty}]
    BY <1>19 DEF LinkDies
  <2>4. state' \in [Suffixes -> {"missing", "null", "value"}]
    BY <1>19 DEF LinkDies
  <2> QED
    BY <1>19, <2>1, <2>2, <2>3, <2>4 DEF LinkDies
<1>20. CASE BrokerRestarts
  <2>1. breaks' \in Nat
    BY <1>20 DEF BrokerRestarts
  <2>2. link' \in {"up", "dead", "down"}
    BY <1>20 DEF BrokerRestarts
  <2>3. attrs' \in [Suffixes -> Payloads \cup {NoPayload, Empty}]
    BY <1>20 DEF BrokerRestarts
  <2>4. state' \in [Suffixes -> {"missing", "null", "value"}]
    BY <1>20 DEF BrokerRestarts
  <2> QED
    BY <1>20, <2>1, <2>2, <2>3, <2>4 DEF BrokerRestarts
<1>21. CASE LinkDown
  BY <1>21 DEF LinkDown
<1>22. CASE SessionDies
  BY <1>22 DEF SessionDies
<1>23. CASE SensorsChange
  <2>1. changes' \in Nat
    BY <1>23 DEF SensorsChange
  <2>2. readable' \in BOOLEAN
    BY <1>23 DEF SensorsChange
  <2>3. sensors' \in [Suffixes -> Payloads \cup {NoPayload}]
    BY <1>23 DEF SensorsChange
  <2> QED
    BY <1>23, <2>1, <2>2, <2>3 DEF SensorsChange
<1>24. ASSUME NEW s \in Suffixes, SendAttributes(s) PROVE TypeOK'
  BY <1>24 DEF SendAttributes, Publish, Accepted
<1>25. ASSUME NEW s \in Suffixes, EmptyGone(s) PROVE TypeOK'
  BY <1>25 DEF EmptyGone, Publish
<1>26. CASE UNCHANGED vars
  BY <1>26 DEF vars
<1> QED
  BY <1>1, <1>2, <1>3, <1>4, <1>5, <1>6, <1>7, <1>8, <1>9, <1>10,
     <1>11, <1>12, <1>13, <1>14, <1>15, <1>16, <1>17, <1>18,
     <1>19, <1>20, <1>21, <1>22, <1>23, <1>24, <1>25, <1>26
     DEF Next, MainThread, Environment

\* The type invariant holds in every reachable state (base.py L176-L332).
THEOREM TypeCorrect == Spec => []TypeOK
<1>1. Init => TypeOK
  <2> SUFFICES ASSUME Init PROVE TypeOK
    OBVIOUS
  <2>1. /\ changes \in Nat /\ breaks \in Nat /\ starts \in Nat
    BY DEF Init
  <2>2. /\ sensors \in [Suffixes -> Payloads \cup {NoPayload}]
        /\ got \in [Suffixes -> Payloads \cup {NoPayload}]
        /\ sent \in [Suffixes -> Payloads \cup {NoPayload}]
    BY DEF Init
  <2>3. attrs \in [Suffixes -> Payloads \cup {NoPayload, Empty}]
    BY DEF Init
  <2>4. state \in [Suffixes -> {"missing", "null", "value"}]
    BY DEF Init
  <2> QED
    BY <2>1, <2>2, <2>3, <2>4 DEF Init, TypeOK, MainPc
<1> QED
  BY <1>1, TypeStep, PTL DEF Spec

-------------------------------------------------------------------------------

LEMMA SessionStep ==
  ASSUME TypeOK, SessionInv, [Next]_vars PROVE SessionInv'
<1> USE DEF TypeOK, SessionInv, worldVars, mainVars, recordVars, netVars, topicVars,
        histVars, bounds
<1>1. CASE Poll
  BY <1>1 DEF Poll
<1>2. CASE PublishNoData
  BY <1>2 DEF PublishNoData, Publish
<1>3. CASE Announce
  BY <1>3 DEF Announce, PublishConfigs, Publish
<1>4. CASE Discover
  BY <1>4 DEF Discover, PublishConfigs, Publish
<1>5. CASE RecordSent
  BY <1>5 DEF RecordSent
<1>6. CASE AttributesSent
  BY <1>6 DEF AttributesSent
<1>7. CASE ListGone
  BY <1>7 DEF ListGone
<1>8. CASE DeleteGone
  BY <1>8 DEF DeleteGone
<1>9. CASE GoneEmptiedAll
  BY <1>9 DEF GoneEmptiedAll
<1>10. CASE PublishState
  BY <1>10 DEF PublishState, Publish, StateOf
<1>11. CASE PublishOnline
  BY <1>11 DEF PublishOnline, Publish
<1>12. CASE NextPoll
  BY <1>12 DEF NextPoll
<1>13. CASE CloseOffline
  BY <1>13 DEF CloseOffline, Publish
<1>14. CASE Leave
  BY <1>14 DEF Leave, Forget
<1>15. CASE Start
  BY <1>15 DEF Start
<1>16. CASE Signal
  BY <1>16 DEF Signal
<1>17. CASE Crash
  BY <1>17 DEF Crash, Forget
<1>18. CASE Connect
  BY <1>18 DEF Connect
<1>19. CASE LinkDies
  BY <1>19 DEF LinkDies
<1>20. CASE BrokerRestarts
  BY <1>20 DEF BrokerRestarts
<1>21. CASE LinkDown
  BY <1>21 DEF LinkDown
<1>22. CASE SessionDies
  BY <1>22 DEF SessionDies
<1>23. CASE SensorsChange
  BY <1>23 DEF SensorsChange
<1>24. ASSUME NEW s \in Suffixes, SendAttributes(s) PROVE SessionInv'
  BY <1>24 DEF SendAttributes, Publish, Accepted
<1>25. ASSUME NEW s \in Suffixes, EmptyGone(s) PROVE SessionInv'
  BY <1>25 DEF EmptyGone, Publish
<1>26. CASE UNCHANGED vars
  BY <1>26 DEF vars
<1> QED
  BY <1>1, <1>2, <1>3, <1>4, <1>5, <1>6, <1>7, <1>8, <1>9, <1>10,
     <1>11, <1>12, <1>13, <1>14, <1>15, <1>16, <1>17, <1>18,
     <1>19, <1>20, <1>21, <1>22, <1>23, <1>24, <1>25, <1>26
     DEF Next, MainThread, Environment

\* No collector is shown online that the broker has lost, or that has left: the
\* finally block and the Last-Will leave no order of deaths out (L240, L263-L266).
THEOREM GoneShowsOfflineHolds == Spec => []GoneShowsOffline
<1>1. Init => SessionInv
  BY DEF Init, SessionInv
<1>2. SessionInv => GoneShowsOffline
  BY DEF SessionInv, GoneShowsOffline
<1> QED
  BY <1>1, <1>2, SessionStep, TypeCorrect, PTL DEF Spec

-------------------------------------------------------------------------------

LEMMA SentStep ==
  ASSUME TypeOK, PollInv, SentInv, [Next]_vars PROVE SentInv'
<1> USE DEF TypeOK, PollInv, SentInv, worldVars, mainVars, recordVars, netVars, topicVars,
        histVars, bounds
<1>1. CASE Poll
  BY <1>1 DEF Poll
<1>2. CASE PublishNoData
  BY <1>2 DEF PublishNoData, Publish
<1>3. CASE Announce
  BY <1>3 DEF Announce, PublishConfigs, Publish
<1>4. CASE Discover
  BY <1>4 DEF Discover, PublishConfigs, Publish
<1>5. CASE RecordSent
  BY <1>5 DEF RecordSent
<1>6. CASE AttributesSent
  BY <1>6 DEF AttributesSent
<1>7. CASE ListGone
  BY <1>7 DEF ListGone
<1>8. CASE DeleteGone
  BY <1>8 DEF DeleteGone
<1>9. CASE GoneEmptiedAll
  BY <1>9 DEF GoneEmptiedAll
<1>10. CASE PublishState
  BY <1>10 DEF PublishState, Publish, StateOf
<1>11. CASE PublishOnline
  BY <1>11 DEF PublishOnline, Publish
<1>12. CASE NextPoll
  BY <1>12 DEF NextPoll
<1>13. CASE CloseOffline
  BY <1>13 DEF CloseOffline, Publish
<1>14. CASE Leave
  BY <1>14 DEF Leave, Forget
<1>15. CASE Start
  BY <1>15 DEF Start
<1>16. CASE Signal
  BY <1>16 DEF Signal
<1>17. CASE Crash
  BY <1>17 DEF Crash, Forget
<1>18. CASE Connect
  BY <1>18 DEF Connect
<1>19. CASE LinkDies
  BY <1>19 DEF LinkDies
<1>20. CASE BrokerRestarts
  BY <1>20 DEF BrokerRestarts
<1>21. CASE LinkDown
  BY <1>21 DEF LinkDown
<1>22. CASE SessionDies
  BY <1>22 DEF SessionDies
<1>23. CASE SensorsChange
  BY <1>23 DEF SensorsChange
<1>24. ASSUME NEW s \in Suffixes, SendAttributes(s) PROVE SentInv'
  BY <1>24 DEF SendAttributes, Publish, Accepted
<1>25. ASSUME NEW s \in Suffixes, EmptyGone(s) PROVE SentInv'
  BY <1>25 DEF EmptyGone, Publish
<1>26. CASE UNCHANGED vars
  BY <1>26 DEF vars
<1> QED
  BY <1>1, <1>2, <1>3, <1>4, <1>5, <1>6, <1>7, <1>8, <1>9, <1>10,
     <1>11, <1>12, <1>13, <1>14, <1>15, <1>16, <1>17, <1>18,
     <1>19, <1>20, <1>21, <1>22, <1>23, <1>24, <1>25, <1>26
     DEF Next, MainThread, Environment

LEMMA PollStep ==
  ASSUME TypeOK, PollInv, [Next]_vars PROVE PollInv'
<1> USE DEF TypeOK, PollInv, PastAttributes, Present, worldVars, mainVars, recordVars,
        netVars, topicVars, histVars, bounds
<1>1. CASE Poll
  BY <1>1 DEF Poll
<1>2. CASE PublishNoData
  BY <1>2 DEF PublishNoData, Publish
<1>3. CASE Announce
  BY <1>3 DEF Announce, PublishConfigs, Publish
<1>4. CASE Discover
  BY <1>4 DEF Discover, PublishConfigs, Publish
<1>5. CASE RecordSent
  BY <1>5 DEF RecordSent
<1>6. CASE AttributesSent
  BY <1>6 DEF AttributesSent
<1>7. CASE ListGone
  BY <1>7 DEF ListGone
<1>8. CASE DeleteGone
  BY <1>8 DEF DeleteGone
<1>9. CASE GoneEmptiedAll
  BY <1>9 DEF GoneEmptiedAll
<1>10. CASE PublishState
  BY <1>10 DEF PublishState, Publish, StateOf
<1>11. CASE PublishOnline
  BY <1>11 DEF PublishOnline, Publish
<1>12. CASE NextPoll
  BY <1>12 DEF NextPoll
<1>13. CASE CloseOffline
  BY <1>13 DEF CloseOffline, Publish
<1>14. CASE Leave
  BY <1>14 DEF Leave, Forget
<1>15. CASE Start
  BY <1>15 DEF Start
<1>16. CASE Signal
  BY <1>16 DEF Signal
<1>17. CASE Crash
  BY <1>17 DEF Crash, Forget
<1>18. CASE Connect
  BY <1>18 DEF Connect
<1>19. CASE LinkDies
  BY <1>19 DEF LinkDies
<1>20. CASE BrokerRestarts
  BY <1>20 DEF BrokerRestarts
<1>21. CASE LinkDown
  BY <1>21 DEF LinkDown
<1>22. CASE SessionDies
  BY <1>22 DEF SessionDies
<1>23. CASE SensorsChange
  BY <1>23 DEF SensorsChange
<1>24. ASSUME NEW s \in Suffixes, SendAttributes(s) PROVE PollInv'
  BY <1>24 DEF SendAttributes, Publish, Accepted
<1>25. ASSUME NEW s \in Suffixes, EmptyGone(s) PROVE PollInv'
  BY <1>25 DEF EmptyGone, Publish
<1>26. CASE UNCHANGED vars
  BY <1>26 DEF vars
<1> QED
  BY <1>1, <1>2, <1>3, <1>4, <1>5, <1>6, <1>7, <1>8, <1>9, <1>10,
     <1>11, <1>12, <1>13, <1>14, <1>15, <1>16, <1>17, <1>18,
     <1>19, <1>20, <1>21, <1>22, <1>23, <1>24, <1>25, <1>26
     DEF Next, MainThread, Environment

\* After a poll that was delivered the retained attributes are those of the poll,
\* whatever was lost before, but where a connect came between a publish and its
\* record (L238-L241, L311-L317).
THEOREM AttributesShownHolds == Spec => []AttributesShown
<1>1. Init => SentInv /\ PollInv
  BY DEF Init, SentInv, PollInv, Present, PastAttributes
<1>2. TypeOK /\ SentInv /\ PollInv => AttributesShown
  BY DEF TypeOK, SentInv, PollInv, PastAttributes, AttributesShown, PollDelivered, Present
<1> QED
  BY <1>1, <1>2, SentStep, PollStep, TypeCorrect, PTL DEF Spec

-------------------------------------------------------------------------------

LEMMA KnownStep ==
  ASSUME TypeOK, PollInv, KnownInv, [Next]_vars PROVE KnownInv'
<1> USE DEF TypeOK, PollInv, KnownInv, StateTold, PollDelivered, Present, worldVars, mainVars, recordVars,
        netVars, topicVars, histVars, bounds
<1>1. CASE Poll
  BY <1>1 DEF Poll
<1>2. CASE PublishNoData
  BY <1>2 DEF PublishNoData, Publish
<1>3. CASE Announce
  BY <1>3 DEF Announce, PublishConfigs, Publish
<1>4. CASE Discover
  BY <1>4 DEF Discover, PublishConfigs, Publish
<1>5. CASE RecordSent
  BY <1>5 DEF RecordSent
<1>6. CASE AttributesSent
  BY <1>6 DEF AttributesSent
<1>7. CASE ListGone
  BY <1>7 DEF ListGone
<1>8. CASE DeleteGone
  BY <1>8 DEF DeleteGone
<1>9. CASE GoneEmptiedAll
  BY <1>9 DEF GoneEmptiedAll
<1>10. CASE PublishState
  BY <1>10 DEF PublishState, Publish, StateOf
<1>11. CASE PublishOnline
  BY <1>11 DEF PublishOnline, Publish
<1>12. CASE NextPoll
  BY <1>12 DEF NextPoll
<1>13. CASE CloseOffline
  BY <1>13 DEF CloseOffline, Publish
<1>14. CASE Leave
  BY <1>14 DEF Leave, Forget
<1>15. CASE Start
  BY <1>15 DEF Start
<1>16. CASE Signal
  BY <1>16 DEF Signal
<1>17. CASE Crash
  BY <1>17 DEF Crash, Forget
<1>18. CASE Connect
  BY <1>18 DEF Connect
<1>19. CASE LinkDies
  BY <1>19 DEF LinkDies
<1>20. CASE BrokerRestarts
  BY <1>20 DEF BrokerRestarts
<1>21. CASE LinkDown
  BY <1>21 DEF LinkDown
<1>22. CASE SessionDies
  BY <1>22 DEF SessionDies
<1>23. CASE SensorsChange
  BY <1>23 DEF SensorsChange
<1>24. ASSUME NEW s \in Suffixes, SendAttributes(s) PROVE KnownInv'
  BY <1>24 DEF SendAttributes, Publish, Accepted
<1>25. ASSUME NEW s \in Suffixes, EmptyGone(s) PROVE KnownInv'
  BY <1>25 DEF EmptyGone, Publish
<1>26. CASE UNCHANGED vars
  BY <1>26 DEF vars
<1> QED
  BY <1>1, <1>2, <1>3, <1>4, <1>5, <1>6, <1>7, <1>8, <1>9, <1>10,
     <1>11, <1>12, <1>13, <1>14, <1>15, <1>16, <1>17, <1>18,
     <1>19, <1>20, <1>21, <1>22, <1>23, <1>24, <1>25, <1>26
     DEF Next, MainThread, Environment

LEMMA KnownHolds == Spec => []KnownInv
<1>1. Init => KnownInv /\ PollInv
  BY DEF Init, KnownInv, PollInv, PollDelivered, Present, PastAttributes
<1> QED
  BY <1>1, KnownStep, PollStep, TypeCorrect, PTL DEF Spec

\* A sensor this process has announced is never left out of the state of a poll
\* that was delivered: once it has gone it is null (L305-L309).
THEOREM GoneIsNullHolds == Spec => []GoneIsNull
<1>1. KnownInv => GoneIsNull
  BY DEF KnownInv, GoneIsNull, StateTold
<1> QED
  BY <1>1, KnownHolds, PTL

\* Whatever a delivered poll published has its discovery on the broker, unless that
\* was dropped or forgotten (L288-L303).
THEOREM EntitiesKnownHolds == Spec => []EntitiesKnown
<1>1. KnownInv => EntitiesKnown
  BY DEF KnownInv, EntitiesKnown
<1> QED
  BY <1>1, KnownHolds, PTL

===============================================================================
