---------------------------- MODULE OutletsProofs ----------------------------
(***************************************************************************)
(* What the MQTT publisher and the live dashboard guarantee for any number *)
(* of rows, changes and queued updates.                                    *)
(***************************************************************************)
EXTENDS Outlets, TLAPS

\* What the broker retains is a record with a state for each entity.
Retained ==
    /\ broker = [availability |-> broker.availability, discovery |-> broker.discovery,
                 state |-> broker.state]
    /\ broker.state = [e \in Entities |-> broker.state[e]]

\* The task publishes the states of those entities only whose discovery it has sent, and
\* what it has sent the broker has, or has lost.
PublishedIsDiscovered ==
    /\ published \subseteq broker.discovery \cup lost
    /\ StatesAreDiscoverable

\* The broker takes ThreadLens for online while the task holds its connection, or the
\* task has parted from it.
OnlineIsHeld ==
    broker.availability = "online" =>
        parted \/ (link /\ task \in InSession \cup {"leaving"})

PublisherInv == Retained /\ PublishedIsDiscovered /\ OnlineIsHeld

\* The payload that is being fetched, or the one shown, has the row as it is stored.
UpToDate(o) ==
    IF fetch.reading THEN o \in fetch.left \/ fetch.view[o] = stored[o]
    ELSE shown[o] = stored[o]

\* Something will make the browser fetch the row, or is known not to.
Coming(o) ==
    o \in untold \/ queue > 0 \/ debounce \/ stream \in {"off", "opening"} \/ o \in unannounced

FetchTypes ==
    /\ fetch = [reading |-> fetch.reading, left |-> fetch.left, view |-> fetch.view]
    /\ fetch.reading \in BOOLEAN
    /\ fetch.view = [p \in DOMAIN fetch.view |-> fetch.view[p]]
    /\ ~fetch.reading => fetch.left = {}
    /\ fetch.reading => fetch.left \subseteq Objects /\ DOMAIN fetch.view = Objects \ fetch.left

StreamTypes ==
    /\ stored \in [Objects -> Nat] /\ changes \in Nat
    /\ queue \in Nat /\ stream \in {"off", "opening", "opened", "live"}
    /\ watched \in {"mqtt", "browser"} /\ (watched = "mqtt" => stream = "off")

StreamInv ==
    /\ FetchTypes
    /\ StreamTypes
    /\ \A o \in Objects : UpToDate(o) \/ Coming(o)

-----------------------------------------------------------------------------
(* The publisher.                                                          *)

\* What a publication that changes one field leaves of the others.
LEMMA Arriving ==
    ASSUME Retained
    PROVE  /\ \A a : Arrives([broker EXCEPT !.availability = a]) =>
                  /\ Retained'
                  /\ broker'.availability = (IF link THEN a ELSE broker.availability)
                  /\ broker'.discovery = broker.discovery /\ broker'.state = broker.state
           /\ \A e : Arrives([broker EXCEPT !.discovery = @ \cup {e}]) =>
                  /\ Retained'
                  /\ broker'.discovery =
                         (IF link THEN broker.discovery \cup {e} ELSE broker.discovery)
                  /\ broker'.availability = broker.availability /\ broker'.state = broker.state
           /\ \A e, s : Arrives([broker EXCEPT !.state[e] = s]) =>
                  /\ Retained'
                  /\ \A d \in Entities : broker'.state[d] \in {broker.state[d], s}
                                         /\ (d # e => broker'.state[d] = broker.state[d])
                  /\ broker'.availability = broker.availability
                  /\ broker'.discovery = broker.discovery
<1>1. ASSUME NEW a, Arrives([broker EXCEPT !.availability = a])
      PROVE  /\ Retained'
             /\ broker'.availability = (IF link THEN a ELSE broker.availability)
             /\ broker'.discovery = broker.discovery /\ broker'.state = broker.state
  BY <1>1 DEF Retained, Arrives
<1>2. ASSUME NEW e, Arrives([broker EXCEPT !.discovery = @ \cup {e}])
      PROVE  /\ Retained'
             /\ broker'.discovery =
                    (IF link THEN broker.discovery \cup {e} ELSE broker.discovery)
             /\ broker'.availability = broker.availability /\ broker'.state = broker.state
  BY <1>2 DEF Retained, Arrives
<1>3. ASSUME NEW e, NEW s, Arrives([broker EXCEPT !.state[e] = s])
      PROVE  /\ Retained'
             /\ \A d \in Entities : broker'.state[d] \in {broker.state[d], s}
                                    /\ (d # e => broker'.state[d] = broker.state[d])
             /\ broker'.availability = broker.availability
             /\ broker'.discovery = broker.discovery
  BY <1>3 DEF Retained, Arrives
<1> QED
  BY <1>1, <1>2, <1>3

\* Every step of the publisher, of its broker and of the process.
LEMMA PublisherStep == PublisherInv /\ [Next]_vars => PublisherInv'
<1> SUFFICES ASSUME PublisherInv, [Next]_vars
             PROVE  PublisherInv'
  OBVIOUS
<1>1. CASE UNCHANGED broker /\ UNCHANGED <<published, lost>>
          /\ (OnlineIsHeld => OnlineIsHeld')
  BY <1>1 DEF PublisherInv, Retained, PublishedIsDiscovered, StatesAreDiscoverable
<1>2. CASE UNCHANGED publisher
  BY <1>1, <1>2 DEF publisher, OnlineIsHeld
<1>3. CASE Start
  BY <1>3 DEF Start, PublisherInv, Retained, PublishedIsDiscovered, StatesAreDiscoverable,
     OnlineIsHeld, InSession
<1>4. CASE Connect \/ ConnectFails \/ BuildReport \/ LoadNodes \/ CycleDone \/ Wake \/ WaitEnds
          \/ SnapshotFails \/ PublicationFails
  BY <1>1, <1>4 DEF Connect, ConnectFails, BuildReport, LoadNodes, CycleDone, Wake, WaitEnds,
     SnapshotFails, PublicationFails, OnlineIsHeld, InSession
<1>5. CASE Greet
  <2>1. Arrives([broker EXCEPT !.availability = "online"]) /\ UNCHANGED <<published, lost, link>>
    BY <1>5 DEF Greet
  <2>2. Retained' /\ UNCHANGED <<broker.discovery, broker.state>>
        /\ broker'.availability = (IF link THEN "online" ELSE broker.availability)
    BY <2>1, Arriving DEF PublisherInv
  <2>3. OnlineIsHeld'
    <3>1. task' = "judging" /\ parted' = (parted /\ ~link)
      BY <1>5 DEF Greet
    <3>2. CASE link
      BY <2>1, <3>1, <3>2 DEF OnlineIsHeld, InSession
    <3>3. CASE ~link
      <4>1. broker'.availability = "online" => parted
        BY <2>2, <3>3 DEF PublisherInv, OnlineIsHeld
      <4>2. parted => parted'
        BY <3>1, <3>3
      <4> QED
        BY <4>1, <4>2 DEF OnlineIsHeld
    <3> QED
      BY <3>2, <3>3
  <2> QED
    BY <2>1, <2>2, <2>3 DEF PublisherInv, PublishedIsDiscovered, StatesAreDiscoverable
<1>6. CASE PublishDiscovery
  <2>1. PICK e : /\ published' = published \cup {e}
                 /\ Arrives([broker EXCEPT !.discovery = @ \cup {e}])
                 /\ lost' = IF link THEN lost \ {e} ELSE lost \cup {e}
    BY <1>6 DEF PublishDiscovery
  <2>2. /\ Retained' /\ UNCHANGED <<broker.availability, broker.state>>
        /\ broker'.discovery =
               (IF link THEN broker.discovery \cup {e} ELSE broker.discovery)
    BY <2>1, Arriving DEF PublisherInv
  <2>3. UNCHANGED <<task, link, parted>>
    BY <1>6 DEF PublishDiscovery
  <2> QED
    BY <2>1, <2>2, <2>3
       DEF PublisherInv, PublishedIsDiscovered, StatesAreDiscoverable, OnlineIsHeld
<1>7. CASE PublishState
  <2>1. PICK e, s : e \in published /\ Arrives([broker EXCEPT !.state[e] = s])
    BY <1>7 DEF PublishState
  <2>2. /\ Retained' /\ UNCHANGED <<broker.availability, broker.discovery>>
        /\ \A d \in Entities : d # e => broker'.state[d] = broker.state[d]
    BY <2>1, Arriving DEF PublisherInv
  <2>3. UNCHANGED <<task, link, parted, published, lost>>
    BY <1>7 DEF PublishState
  <2> QED
    BY <2>1, <2>2, <2>3
       DEF PublisherInv, PublishedIsDiscovered, StatesAreDiscoverable, OnlineIsHeld
<1>8. CASE Leave
  <2>1. Arrives([broker EXCEPT !.availability = "offline"]) /\ UNCHANGED <<published, lost, parted>>
    BY <1>8 DEF Leave
  <2>2. Retained' /\ UNCHANGED <<broker.discovery, broker.state>>
        /\ broker'.availability = (IF link THEN "offline" ELSE broker.availability)
    BY <2>1, Arriving DEF PublisherInv
  <2> QED
    BY <2>1, <2>2
       DEF PublisherInv, PublishedIsDiscovered, StatesAreDiscoverable, OnlineIsHeld
<1>9. CASE Stop
  BY <1>1, <1>9 DEF Stop, OnlineIsHeld, InSession
<1>10. CASE LinkBreaks \/ PublisherDies
  BY <1>1, <1>10 DEF LinkBreaks, PublisherDies, OnlineIsHeld
<1>11. CASE BrokerForgets
  <2>1. broker' = [availability |-> "none", discovery |-> {},
                   state |-> [e \in Entities |-> Nothing]]
    BY <1>11 DEF BrokerForgets
  <2>2. lost' = broker.discovery \cup lost /\ UNCHANGED published
    BY <1>11 DEF BrokerForgets
  <2> QED
    BY <2>1, <2>2 DEF PublisherInv, Retained, PublishedIsDiscovered, StatesAreDiscoverable,
       OnlineIsHeld
<1>12. CASE ProcessDies
  BY <1>2, <1>10, <1>12 DEF ProcessDies
<1>13. ASSUME NEW o \in Objects, Upsert(o) \/ Delete(o) \/ Announce(o)
       PROVE  UNCHANGED publisher
  BY <1>13 DEF Upsert, Delete, Announce
<1> QED
  BY <1>2, <1>3, <1>4, <1>5, <1>6, <1>7, <1>8, <1>9, <1>10, <1>11, <1>12, <1>13
     DEF Next, Disturbed, OfPublisher, OfStream, PublisherWorks, PublisherDisturbed, vars

\* The broker's states can be shown and its availability is given up, for any number of
\* entities: _publish_cycle, _run and its finally block.
THEOREM PublisherCorrect == Spec => []PublisherInv
<1>1. Init => PublisherInv
  BY DEF Init, PublisherInit, PublisherInv, Retained, PublishedIsDiscovered,
     StatesAreDiscoverable, OnlineIsHeld
<1> QED
  BY <1>1, PublisherStep, PTL DEF Spec

\* Every state the broker retains has its discovery there, unless that was lost.
THEOREM StatesCorrect == Spec => []StatesAreDiscoverable
<1>1. PublisherInv => StatesAreDiscoverable
  BY DEF PublisherInv, PublishedIsDiscovered
<1> QED
  BY <1>1, PublisherCorrect, PTL

\* A task that ends in order leaves the broker with another word than online.
THEOREM EndCorrect == Spec => []EndedIsOffline
<1>1. PublisherInv => EndedIsOffline
  BY DEF PublisherInv, OnlineIsHeld, EndedIsOffline, InSession
<1> QED
  BY <1>1, PublisherCorrect, PTL
-----------------------------------------------------------------------------
(* The dashboard.                                                          *)

\* Steps that leave the rows and the fetch alone keep every row up to date that was,
\* so only what is coming counts.
LEMMA NothingRead ==
    ASSUME StreamInv, UNCHANGED <<stored, changes, fetch, shown, watched>>,
           queue' \in Nat, stream' \in {"off", "opening", "opened", "live"},
           watched = "mqtt" => stream' = "off",
           \A o \in Objects : Coming(o) => Coming(o)'
    PROVE  StreamInv'
<1>1. \A o \in Objects : UpToDate(o) => UpToDate(o)'
  BY DEF UpToDate
<1> QED
  BY <1>1 DEF StreamInv, FetchTypes, StreamTypes

\* A fetch begins.
LEMMA Loading ==
    ASSUME StreamInv, Load, UNCHANGED <<stored, changes, queue, stream, watched>>
    PROVE  StreamInv'
<1>1. fetch' = [reading |-> TRUE, left |-> Objects, view |-> [o \in {} |-> 0]]
  BY DEF Load, Idle
<1>2. \A o \in Objects : UpToDate(o)'
  BY <1>1 DEF UpToDate
<1>3. FetchTypes'
  BY <1>1 DEF FetchTypes
<1> QED
  BY <1>2, <1>3 DEF StreamInv, StreamTypes

\* A change of a row is announced, or noted as one that is not.
LEMMA Changing ==
    ASSUME StreamInv, NEW o \in Objects, Upsert(o) \/ Delete(o)
    PROVE  StreamInv'
<1>1. UNCHANGED <<stream, queue, debounce, fetch, shown, watched>>
  BY DEF Upsert, Delete, dashboard
<1>2. PICK value \in Nat : Change(o, value)
  BY DEF StreamInv, StreamTypes, Upsert, Delete, upsert_current_state, delete_current_state
<1>3. StreamTypes'
  BY <1>1, <1>2 DEF StreamInv, StreamTypes, Change
<1>4. \A p \in Objects \ {o} : stored'[p] = stored[p]
  BY <1>2 DEF StreamInv, StreamTypes, Change
<1>5. untold \subseteq untold'
  BY DEF Upsert, Delete, upsert_current_state, delete_current_state
<1>6. watched = "browser" => unannounced \subseteq unannounced'
  BY DEF Upsert, Delete, dashboard
<1>7. watched = "browser" => o \in untold' \cup unannounced'
  BY DEF Upsert, Delete, upsert_current_state
<1>8. ASSUME NEW p \in Objects
      PROVE  UpToDate(p)' \/ Coming(p)'
  <2>1. CASE watched = "mqtt"
    BY <1>1, <2>1 DEF StreamInv, StreamTypes, Coming
  <2>2. CASE watched = "browser" /\ p = o
    BY <1>7, <2>2 DEF Coming
  <2>3. CASE watched = "browser" /\ p # o
    BY <1>1, <1>4, <1>5, <1>6, <2>3 DEF StreamInv, UpToDate, Coming
  <2> QED
    BY <2>1, <2>2, <2>3 DEF StreamInv, StreamTypes
<1> QED
  BY <1>1, <1>3, <1>8 DEF StreamInv, FetchTypes

\* Every step of the stream and of the browser.
LEMMA StreamStep == StreamInv /\ [Next]_vars => StreamInv'
<1> SUFFICES ASSUME StreamInv, [Next]_vars
             PROVE  StreamInv'
  OBVIOUS
<1>1. ASSUME NEW o \in Objects, Announce(o)
      PROVE  StreamInv'
  <2>1. UNCHANGED <<stored, changes, fetch, shown, watched, stream, debounce>>
        /\ watched = "browser"
    BY <1>1 DEF Announce, Notify
  <2>2. /\ untold' = untold \ {o}
        /\ queue' = IF stream = "live" THEN queue + 1 ELSE queue
        /\ unannounced' = IF stream = "opened" THEN unannounced \cup {o} ELSE unannounced
    BY <1>1 DEF Announce, Notify
  <2>3. queue \in Nat /\ stream \in {"off", "opening", "opened", "live"}
    BY DEF StreamInv, StreamTypes
  <2>4. queue' \in Nat /\ (stream = "live" => queue' > 0) /\ (queue > 0 => queue' > 0)
    BY <2>2, <2>3
  <2>5. \A p \in Objects : Coming(p) => Coming(p)'
    BY <2>1, <2>2, <2>3, <2>4 DEF Coming
  <2> QED
    BY <2>1, <2>3, <2>4, <2>5, NothingRead
<1>2. ASSUME OfStream(OpenStream \/ FirstUpdate \/ Subscribe \/ SendUpdate)
      PROVE  StreamInv'
  <2>1. UNCHANGED <<stored, changes, fetch, shown, watched, untold, unannounced>>
        /\ watched = "browser"
    BY <1>2 DEF OfStream, OpenStream, FirstUpdate, Subscribe, SendUpdate, rows
  <2>2. queue \in Nat /\ queue' \in Nat /\ stream' \in {"off", "opening", "opened", "live"}
    BY <1>2 DEF OfStream, OpenStream, FirstUpdate, Subscribe, SendUpdate, StreamInv, StreamTypes
  <2>3. \A p \in Objects : Coming(p) => Coming(p)'
    BY <1>2, <2>1, <2>2 DEF OfStream, OpenStream, FirstUpdate, Subscribe, SendUpdate, Coming
  <2> QED
    BY <2>1, <2>2, <2>3, NothingRead
<1>3. ASSUME OfStream(StreamBreaks)
      PROVE  StreamInv'
  <2>1. UNCHANGED <<stored, changes, fetch, shown, watched>>
    BY <1>3 DEF OfStream, StreamBreaks, rows
  <2>2. stream' = "off" /\ queue' = 0
    BY <1>3 DEF OfStream, StreamBreaks
  <2>3. \A p \in Objects : Coming(p)'
    BY <2>2 DEF Coming
  <2> QED
    BY <2>1, <2>2, <2>3, NothingRead
<1>4. ASSUME OfStream(DebounceEnds \/ TimerFires \/ TimerAborts)
      PROVE  StreamInv'
  BY <1>4, Loading DEF OfStream, DebounceEnds, TimerFires, TimerAborts, rows
<1>5. ASSUME NEW o \in Objects, OfStream(ReadRow(o))
      PROVE  StreamInv'
  <2>1. /\ o \in fetch.left /\ unannounced' = unannounced \ {o}
        /\ UNCHANGED <<stored, changes, untold, watched, stream, queue, debounce, shown>>
    BY <1>5 DEF OfStream, ReadRow, rows
  <2> DEFINE view == [p \in {o} \cup DOMAIN fetch.view |->
                         IF p = o THEN stored[o] ELSE fetch.view[p]]
  <2>2. fetch' = [reading |-> fetch.reading, left |-> fetch.left \ {o}, view |-> view]
    BY <1>5 DEF OfStream, ReadRow, StreamInv, FetchTypes
  <2>3. fetch.reading /\ fetch.left \subseteq Objects /\ DOMAIN fetch.view = Objects \ fetch.left
    BY <2>1 DEF StreamInv, FetchTypes
  <2>4. DOMAIN view = Objects \ (fetch.left \ {o}) /\ view = [p \in DOMAIN view |-> view[p]]
    BY <2>1, <2>3
  <2>5. FetchTypes'
    BY <2>2, <2>3, <2>4 DEF FetchTypes
  <2>6. view[o] = stored[o] /\ \A p \in Objects \ fetch.left : p # o => view[p] = fetch.view[p]
    BY <2>3
  <2> HIDE DEF view
  <2>7. ASSUME NEW p \in Objects
        PROVE  UpToDate(p)' \/ Coming(p)'
    <3>1. CASE p = o
      BY <2>1, <2>2, <2>3, <2>6, <3>1 DEF UpToDate
    <3>2. CASE p # o
      BY <2>1, <2>2, <2>3, <2>6, <3>2 DEF UpToDate, Coming, StreamInv
    <3> QED
      BY <3>1, <3>2
  <2> QED
    BY <2>1, <2>5, <2>7 DEF StreamInv, StreamTypes
<1>6. ASSUME OfStream(FetchDone)
      PROVE  StreamInv'
  <2>1. /\ fetch.reading /\ fetch.left = {}
        /\ shown' = fetch.view /\ fetch' = Idle
        /\ UNCHANGED <<stored, changes, untold, watched, stream, queue, debounce, unannounced>>
    BY <1>6 DEF OfStream, FetchDone, rows
  <2>2. FetchTypes'
    BY <2>1 DEF FetchTypes, Idle
  <2>3. \A p \in Objects : UpToDate(p) => UpToDate(p)'
    BY <2>1 DEF UpToDate, Idle
  <2>4. \A p \in Objects : Coming(p) => Coming(p)'
    BY <2>1 DEF Coming
  <2> QED
    BY <2>1, <2>2, <2>3, <2>4 DEF StreamInv, StreamTypes
<1>7. ASSUME OfStream(FetchFails)
      PROVE  StreamInv'
  <2>1. /\ fetch' = Idle /\ unannounced' = Objects
        /\ UNCHANGED <<stored, changes, watched, stream, queue>>
    BY <1>7 DEF OfStream, FetchFails, rows
  <2>2. FetchTypes' /\ \A p \in Objects : Coming(p)'
    BY <2>1 DEF FetchTypes, Idle, Coming
  <2> QED
    BY <2>1, <2>2 DEF StreamInv, StreamTypes
<1>8. CASE ProcessDies
  <2>1. CASE watched = "mqtt"
    <3>1. UNCHANGED <<stored, changes, fetch, shown, watched, queue, stream>> /\ stream = "off"
      BY <1>8, <2>1 DEF ProcessDies, dashboard, StreamInv, StreamTypes
    <3>2. \A p \in Objects : Coming(p)'
      BY <3>1 DEF Coming
    <3>3. queue' \in Nat /\ stream' \in {"off", "opening", "opened", "live"}
      BY <3>1 DEF StreamInv, StreamTypes
    <3> QED
      BY <3>1, <3>2, <3>3, NothingRead
  <2>2. CASE watched # "mqtt"
    <3>1. stream' = "off" /\ queue' = 0 /\ fetch' = Idle /\ UNCHANGED <<stored, changes, watched>>
      BY <1>8, <2>2 DEF ProcessDies
    <3>2. FetchTypes' /\ \A p \in Objects : Coming(p)'
      BY <3>1 DEF FetchTypes, Idle, Coming
    <3> QED
      BY <3>1, <3>2 DEF StreamInv, StreamTypes
  <2> QED
    BY <2>1, <2>2
<1>9. CASE UNCHANGED <<rows, dashboard, watched>>
  BY <1>9, NothingRead DEF rows, dashboard, Coming, StreamInv, StreamTypes
<1>10. ASSUME NEW o \in Objects, Upsert(o) \/ Delete(o)
       PROVE  StreamInv'
  BY <1>10, Changing
<1>11. OfPublisher(PublisherWorks \/ PublicationFails) \/ OfPublisher(PublisherDisturbed)
           => UNCHANGED <<rows, dashboard, watched>>
  BY DEF OfPublisher
<1>12. OfStream(StreamWorks) \/ OfStream(StreamDisturbed) =>
           \/ OfStream(OpenStream \/ FirstUpdate \/ Subscribe \/ SendUpdate)
           \/ OfStream(StreamBreaks) \/ OfStream(DebounceEnds \/ TimerFires \/ TimerAborts)
           \/ \E o \in Objects : OfStream(ReadRow(o))
           \/ OfStream(FetchDone) \/ OfStream(FetchFails)
  BY DEF OfStream, StreamWorks, StreamDisturbed
<1>13. UNCHANGED vars => UNCHANGED <<rows, dashboard, watched>>
  BY DEF vars
<1> QED
  BY <1>1, <1>2, <1>3, <1>4, <1>5, <1>6, <1>7, <1>8, <1>9, <1>10, <1>11, <1>12, <1>13
     DEF Next, Disturbed

\* When nothing is under way the browser shows the rows as they are, for any number of
\* rows and updates, except those it was not told of: event_stream, useDashboard.
THEOREM ShownCorrect == Spec => []ShownIsCurrent
<1>1. Init => StreamInv
  BY DEF Init, RowsInit, StreamInit, StreamInv, FetchTypes, StreamTypes, UpToDate, Coming
<1>2. StreamInv => ShownIsCurrent
  <2> SUFFICES ASSUME StreamInv, Quiet, NEW o \in Objects
               PROVE  shown[o] = stored[o] \/ o \in unannounced
    BY DEF ShownIsCurrent
  <2>1. ~(queue > 0)
    BY DEF Quiet
  <2>2. Coming(o) => o \in unannounced
    BY <2>1 DEF Coming, Quiet
  <2>3. UpToDate(o) => shown[o] = stored[o]
    BY DEF UpToDate, Quiet
  <2> QED
    BY <2>2, <2>3 DEF StreamInv
<1> QED
  BY <1>1, <1>2, StreamStep, PTL DEF Spec
=============================================================================
