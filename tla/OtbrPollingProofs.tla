------------------------- MODULE OtbrPollingProofs -------------------------
(***************************************************************************)
(* What OtbrPolling guarantees for any number of border routers, networks, *)
(* devices and storage failures.                                           *)
(***************************************************************************)
EXTENDS OtbrPolling, TLAPS

\* Places with a router in hand: it is one of those left to poll.
Busy == InPoll \cup {"raised", "handling"}

RouterInHand ==
    /\ at \in Busy => cur \in left
    /\ at \in {"syncing", "correlating", "sleeping"} => left = {}

Leftovers ==
    /\ at = "pruning" => toStore = {}
    /\ at \notin {"telling", "marking", "handling", "syncing"} => toTell = <<>>

Types == TypeOK /\ RouterInHand /\ Leftovers

\* What the cycle has noted of the routers polled so far is what their records say.
SeenByRecords ==
    \A n \in Networks :
        seenBy[n] = {o \in configured \ left : Reachable(o) /\ otbr[o].network = n}

Full(n) == [visible |-> TRUE, primary |-> classify_primary_network(n), routers |-> seenBy[n]]

\* The networks that the sync has been through are up to date, and after it all are.
NetworksInStep ==
    /\ at = "syncing" => \A n \in Reported \ toSee : net[n] = Full(n)
    /\ at \in {"correlating", "sleeping"} =>
           \A n \in Networks : IF n \in Reported THEN net[n] = Full(n) ELSE ~Visible(n)

\* A router polled in this cycle counts as reachable if it answered, and the one in
\* hand will unless its poll is spoilt.
AnswersInStep ==
    /\ \A o \in configured \ (left \cup spoilt) : Reachable(o) <=> o \in answered
    /\ at # "dead" => \A o \in answered \cap left : at \in Busy /\ o = cur
    /\ at \in {"telling", "persisting", "pruning", "enriching"} =>
           Reachable(cur) /\ cur \in answered
    /\ at = "marking" => ~Reachable(cur) /\ cur \notin answered
    /\ at \in {"raised", "handling"} => (cur \in answered => cur \in spoilt)
    /\ at = "handling" => ~Reachable(cur)

\* An inventory being stored is the last one of its router, and what it listed is
\* stored or still to store.
InventoryInStep ==
    /\ \A o \in Otbrs \ torn : device[o] = last[o]
    /\ at \in {"persisting", "pruning"} =>
           cur \in torn /\ last[cur] = inventory /\ inventory \ toStore \subseteq device[cur]

IInv ==
    /\ Types
    /\ SeenByRecords
    /\ NetworksInStep
    /\ AnswersInStep
    /\ InventoryInStep

\* An event to be told of a transition stands alone and names the side of its row;
\* until storage fails the rows are the caches.
TellsOfRows ==
    \A i \in 1..Len(toTell) : toTell[i].kind \in Sides =>
        Len(toTell) = 1 /\ Shown[toTell[i].subject] = toTell[i].kind
RowsAreCaches == faults = 0 => otbrRow = otbr /\ netRow = net
EventsInStep == TellsOfRows /\ RowsAreCaches

-----------------------------------------------------------------------------
(* Records and events.                                                     *)

\* A missing record is no record.
LEMMA AbsentIsNoRecord == Absent \notin Otbr /\ Absent \notin Network
<1>1. DOMAIN Absent = {"none"}
  BY DEF Absent
<1>2. \A r \in Otbr : "reachable" \in DOMAIN r
  BY DEF Otbr
<1>3. \A r \in Network : "visible" \in DOMAIN r
  BY DEF Network
<1> QED
  BY <1>1, <1>2, <1>3

\* The events an action leaves to tell are events.
LEMMA EventsAreEvents ==
    /\ \A s \in Subjects, side \in Sides :
           Transition(s, side) \in Events /\ <<Transition(s, side)>> \in Seq(Events)
    /\ <<>> \in Seq(Events)
    /\ \A o \in Otbrs, dataset \in Datasets, newRole \in BOOLEAN :
           Changes(o, dataset, newRole) \in Seq(Events)
<1>1. \A s \in Subjects, side \in Sides : Transition(s, side) \in Events
  BY DEF Transition, Events
<1>2. ASSUME NEW o \in Otbrs
      PROVE  /\ [subject |-> o, kind |-> "role"] \in Events
             /\ [subject |-> o, kind |-> "dataset"] \in Events
  BY DEF Events
<1>3. ASSUME NEW o \in Otbrs, NEW dataset \in Datasets, NEW newRole \in BOOLEAN
      PROVE  Changes(o, dataset, newRole) \in Seq(Events)
  BY <1>2 DEF Changes
<1> QED
  BY <1>1, <1>3

\* What storing a router's record changes, in a poll and in the except clause.
LEMMA StoringOtbr ==
    ASSUME Types, NEW o \in left, NEW record \in Otbr, NEW place \in Busy,
           NEW events \in Seq(Events), at \in {"polling", "raised"},
           at = "raised" => place = "handling",
           StoreOtbr(o, record, place, events)
    PROVE  /\ otbr' = [otbr EXCEPT ![o] = record] /\ otbr' \in [Otbrs -> Otbr \cup {Absent}]
           /\ otbrRow' \in [Otbrs -> Otbr \cup {Absent}]
           /\ cur' = o /\ o \in Otbrs /\ toTell' \in Seq(Events)
           /\ \/ at' = place
              \/ at' = (IF at = "raised" THEN "dead" ELSE "raised") /\ toTell' = <<>>
           /\ toStore' \in SUBSET toStore /\ faults' \in 0..MaxFaults
           /\ UNCHANGED <<configured, net, netRow, device, collected, recent, told, last,
                          torn, left, inventory, seenBy, toSee>>
<1>1. o \in Otbrs /\ faults \in 0..MaxFaults /\ MaxFaults \in Nat
  BY PollingAssumption DEF Types, TypeOK
<1>2. CASE otbrRow' = [otbrRow EXCEPT ![o] = record] /\ at' = place /\ toTell' = events
           /\ UNCHANGED <<left, inventory, toStore, seenBy, toSee, faults>>
  BY <1>1, <1>2 DEF StoreOtbr, Types, TypeOK
<1>3. CASE Raises /\ UNCHANGED otbrRow
  BY <1>1, <1>3, EventsAreEvents DEF StoreOtbr, Types, TypeOK, Raises, InPoll
<1> QED
  BY <1>2, <1>3 DEF StoreOtbr
\* The same as a poll ends with what the record says.
LEMMA EndingPoll ==
    ASSUME Types, cur \in left, at \in Busy, toTell = <<>>, EndPoll
    PROVE  Types'
<1>1. /\ at' = "polling" /\ left' = left \ {cur} /\ cur' = NoOtbr
      /\ UNCHANGED <<configured, otbr, otbrRow, net, netRow, device, collected, recent, told,
                     toTell, inventory, toStore, toSee, faults, answered, spoilt, last, torn>>
  BY DEF EndPoll, stored, cached, history
<1>2. seenBy' \in [Networks -> SUBSET configured]
  BY DEF EndPoll, Types, TypeOK
<1>3. \A n \in Networks : seenBy[n] \subseteq seenBy'[n]
  BY DEF EndPoll, Types, TypeOK
<1>4. toSee \subseteq Reported'
  BY <1>3 DEF Types, TypeOK, Reported
<1> QED
  BY <1>1, <1>2, <1>4 DEF Types, TypeOK, RouterInHand, Leftovers, Places, InPoll, Busy

LEMMA StartingCycle ==
    ASSUME Types, NEW routers \in SUBSET Otbrs, StartCycle(routers)
    PROVE  /\ left' = routers /\ at' = "polling" /\ cur' = NoOtbr /\ toTell' = <<>>
           /\ inventory' = {} /\ toStore' = {} /\ toSee' = {}
           /\ answered' = {} /\ spoilt' = {}
           /\ seenBy' = [n \in Networks |-> {}] /\ RouterInHand'
  BY DEF StartCycle, NobodySaw, RouterInHand, Busy, InPoll

\* Types and the router in hand are kept by every step.
LEMMA TypesStep == Types /\ [Next]_vars => Types'
<1> SUFFICES ASSUME Types, [Next]_vars
             PROVE  Types'
  OBVIOUS
<1> USE DEF Types
<1>1. ASSUME NEW o \in Otbrs, PollAnswered(o)
      PROVE  Types'
  <2>1. PICK dataset \in Datasets, newRole \in BOOLEAN : ApplyReachableState(o, dataset, newRole)
    BY <1>1 DEF PollAnswered
  <2> DEFINE record == [reachable |-> TRUE, network |-> dataset]
             events == IF Reachable(o) THEN Changes(o, dataset, newRole)
                       ELSE <<Transition(o, "up")>>
  <2>2. record \in Otbr /\ events \in Seq(Events) /\ o \in left /\ at = "polling"
    BY <1>1, EventsAreEvents DEF Otbr, PollAnswered, Subjects, Sides
  <2>3. StoreOtbr(o, record, "telling", events)
    BY <2>1 DEF ApplyReachableState
  <2> HIDE DEF record, events
  <2>4. /\ UNCHANGED <<configured, net, netRow, device, collected, recent, told, last, torn,
                       left, inventory, seenBy, toSee>>
        /\ otbr' \in [Otbrs -> Otbr \cup {Absent}] /\ otbrRow' \in [Otbrs -> Otbr \cup {Absent}]
        /\ cur' = o /\ toTell' \in Seq(Events)
        /\ at' = "telling" \/ (at' = "raised" /\ toTell' = <<>>)
        /\ toStore' \in SUBSET toStore /\ faults' \in 0..MaxFaults
    BY <2>2, <2>3, StoringOtbr DEF Busy, InPoll
  <2> QED
    BY <1>1, <2>2, <2>4 DEF PollAnswered, TypeOK, RouterInHand, Leftovers, Reported, Busy, InPoll, Places
<1>2. ASSUME NEW o \in left, NEW place \in {"marking", "handling"}, MarkUnreachable(o, place),
             UNCHANGED <<answered, spoilt>>,
             at \in {"polling", "raised"}, at = "raised" => place = "handling"
      PROVE  Types'
  <2> DEFINE record == [reachable |-> FALSE,
                        network |-> IF otbr[o] = Absent THEN NoNetwork ELSE otbr[o].network]
             events == IF otbr[o] = Absent \/ Reachable(o) THEN <<Transition(o, "down")>>
                       ELSE <<>>
  <2>1. o \in Otbrs
    BY DEF TypeOK
  <2>2. record \in Otbr
    <3>1. otbr[o] \in Otbr \cup {Absent}
      BY <2>1 DEF TypeOK
    <3> QED
      BY <3>1 DEF Otbr, Datasets
  <2>3. events \in Seq(Events)
    BY <2>1, EventsAreEvents DEF Subjects, Sides
  <2>4. StoreOtbr(o, record, place, events)
    BY <1>2 DEF MarkUnreachable
  <2> HIDE DEF record, events
  <2>5. /\ UNCHANGED <<configured, net, netRow, device, collected, recent, told, last, torn,
                       left, inventory, seenBy, toSee>>
        /\ otbr' \in [Otbrs -> Otbr \cup {Absent}] /\ otbrRow' \in [Otbrs -> Otbr \cup {Absent}]
        /\ cur' = o /\ toTell' \in Seq(Events)
        /\ at' \in {"marking", "handling"} \/ (at' \in {"dead", "raised"} /\ toTell' = <<>>)
        /\ toStore' \in SUBSET toStore /\ faults' \in 0..MaxFaults
    BY <1>2, <2>2, <2>3, <2>4, StoringOtbr DEF Busy, InPoll
  <2> QED
    BY <1>2, <2>1, <2>5 DEF TypeOK, RouterInHand, Leftovers, Reported, Busy, InPoll, Places
<1>3. ASSUME NEW o \in Otbrs, PollRefused(o)
      PROVE  Types'
  BY <1>2, <1>3 DEF PollRefused
<1>4. ASSUME HandleException
      PROVE  Types'
  BY <1>2, <1>4 DEF HandleException, RouterInHand, Busy
<1>5. ASSUME NEW o \in Otbrs, PollGarbled(o)
      PROVE  Types'
  BY <1>5 DEF PollGarbled, TypeOK, RouterInHand, Leftovers, Reported, Busy, InPoll, Places, stored, cached,
              history
<1>6. CASE Tell
  <2>1. Head(toTell) \in Events /\ Tail(toTell) \in Seq(Events) /\ toTell # <<>>
    BY <1>6 DEF Tell, TypeOK
  <2>2. Head(toTell).kind \in Sides => Head(toTell) \in [subject : Subjects, kind : Sides]
    BY <2>1 DEF Events, Sides
  <2>3. UNCHANGED <<configured, otbr, net, collected, otbrRow, netRow, device, cur, answered,
                    last, torn, left, inventory, seenBy, toSee>>
    BY <1>6 DEF Tell, Raises
  <2>4. /\ toTell' \in Seq(Events)
        /\ at' # at => toTell' = <<>>
    BY <1>6, <2>1, EventsAreEvents DEF Tell, Raises
  <2>8. toStore' \in SUBSET toStore
    BY <1>6 DEF Tell, Raises
  <2>9. faults' \in 0..MaxFaults
    BY <1>6, PollingAssumption DEF Tell, Raises, TypeOK
  <2>5. recent' \subseteq [subject : Subjects, kind : Sides]
    BY <1>6, <2>2 DEF Tell, TypeOK
  <2>6. told' \in [Subjects -> Sides \cup {"unknown"}]
    BY <1>6, <2>2 DEF Tell, TypeOK, Raises
  <2>7. /\ spoilt' \in SUBSET answered
        /\ at' \in {at, IF at \in InPoll THEN "raised" ELSE "dead"}
        /\ at \in {"telling", "marking", "handling", "syncing"}
    BY <1>6 DEF Tell, Raises, Spoil, TypeOK, Leftovers
  <2> QED
    BY <2>3, <2>4, <2>5, <2>6, <2>7, <2>8, <2>9 DEF TypeOK, RouterInHand, Leftovers, Reported, Busy, InPoll, Places
<1>7. CASE PollDone
  BY <1>7, EndingPoll DEF PollDone, RouterInHand, Busy, InPoll
<1>8. CASE CollectDevices
  BY <1>8 DEF CollectDevices, CollectionDue, TypeOK, RouterInHand, Leftovers, Reported, Busy, InPoll, Places,
              stored, cached
<1>9. CASE CollectionGarbled
  BY <1>9 DEF CollectionGarbled, CollectionDue, Spoil, TypeOK, RouterInHand, Leftovers, Reported, Busy,
              InPoll, Places, stored, cached
<1>10. ASSUME NEW d \in Devices, PersistDevice(d) \/ PruneDevice(d)
       PROVE  Types'
  <2>1. cur \in Otbrs /\ at \in {"persisting", "pruning"} /\ cur \in left
    BY <1>10 DEF PersistDevice, PruneDevice, TypeOK, RouterInHand, Busy, InPoll
  <2>2. device' \in [Otbrs -> SUBSET Devices]
    BY <1>10, <2>1 DEF PersistDevice, PruneDevice, TypeOK
  <2>3. /\ UNCHANGED <<configured, otbrRow, netRow, told, otbr, net, collected, recent, cur,
                       answered, last, torn, left, inventory, seenBy, toSee>>
        /\ toStore' \in SUBSET toStore /\ spoilt' \in SUBSET answered
        /\ at' \in {at, "raised"} /\ toTell' \in {toTell, <<>>}
    BY <1>10, <2>1 DEF PersistDevice, PruneDevice, Raises, Spoil, TypeOK, InPoll, cached
  <2>4. faults' \in 0..MaxFaults
    BY <1>10, PollingAssumption DEF PersistDevice, PruneDevice, Raises, TypeOK
  <2> QED
    BY <2>1, <2>2, <2>3, <2>4, EventsAreEvents
       DEF TypeOK, RouterInHand, Leftovers, Reported, Busy, InPoll, Places
<1>11. CASE DevicesStored
  BY <1>11 DEF DevicesStored, TypeOK, RouterInHand, Leftovers, Reported, Busy, InPoll, Places, stored, cached,
               history
<1>12. CASE DevicesPruned
  BY <1>12 DEF DevicesPruned, TypeOK, RouterInHand, Leftovers, Reported, Busy, InPoll, Places, stored
<1>13. CASE Enriched
  BY <1>13, EndingPoll DEF Enriched, RouterInHand, Leftovers, Busy, InPoll
<1>14. CASE EnrichingRaises
  <2>1. faults' \in 0..MaxFaults
    BY <1>14, PollingAssumption DEF EnrichingRaises, Raises, TypeOK
  <2> QED
    BY <1>14, <2>1, EventsAreEvents
       DEF EnrichingRaises, Raises, Spoil, TypeOK, RouterInHand, Leftovers, Reported, Busy, InPoll,
           Places, stored, cached
<1>15. CASE BeginSync
  BY <1>15 DEF BeginSync, TypeOK, RouterInHand, Leftovers, Reported, Busy, InPoll, Places, stored,
               cached, history
<1>16. ASSUME NEW n \in Networks, NetworkSeen(n) \/ NetworkLost(n)
       PROVE  Types'
  <2>1. PICK record \in Network, events \in Seq(Events) : StoreNetwork(n, record, events)
    <3>1. CASE NetworkSeen(n)
      <4> DEFINE record == [visible |-> TRUE, primary |-> classify_primary_network(n),
                            routers |-> seenBy[n]]
                 events == IF Visible(n) THEN <<>> ELSE <<Transition(n, "up")>>
      <4>1. record \in Network
        BY DEF Network, classify_primary_network, TypeOK
      <4>2. events \in Seq(Events)
        BY EventsAreEvents DEF Subjects, Sides
      <4>3. StoreNetwork(n, record, events)
        BY <3>1 DEF NetworkSeen
      <4> QED
        BY <4>1, <4>2, <4>3
    <3>2. CASE NetworkLost(n)
      <4> DEFINE record == [net[n] EXCEPT !.visible = FALSE]
      <4>1. record \in Network
        BY <3>2, ZenonT(40) DEF NetworkLost, LostNetworks, Visible, TypeOK, Network
      <4>2. <<Transition(n, "down")>> \in Seq(Events)
        BY EventsAreEvents DEF Subjects, Sides
      <4> QED
        BY <3>2, <4>1, <4>2 DEF NetworkLost
    <3> QED
      BY <1>16, <3>1, <3>2
  <2>2. /\ at = "syncing" /\ at' \in {"syncing", "dead"}
        /\ net' \in [Networks -> Network \cup {Absent}]
        /\ netRow' \in [Networks -> Network \cup {Absent}]
        /\ UNCHANGED <<configured, otbr, otbrRow, device, collected, recent, told, cur, left,
                       inventory, seenBy, answered, spoilt, last, torn>>
        /\ toSee' \in SUBSET toSee /\ toStore' \in SUBSET toStore
        /\ at' = "dead" => toTell' = <<>>
    BY <2>1 DEF StoreNetwork, Raises, TypeOK, InPoll, history
  <2>3. toTell' \in Seq(Events)
    BY <2>1, EventsAreEvents DEF StoreNetwork, Raises
  <2>4. faults' \in 0..MaxFaults
    BY <2>1, PollingAssumption DEF StoreNetwork, Raises, TypeOK
  <2> QED
    BY <2>2, <2>3, <2>4 DEF TypeOK, RouterInHand, Leftovers, Reported, Busy, InPoll, Places
<1>17. CASE SyncDone \/ CycleEnds
  BY <1>17 DEF SyncDone, CycleEnds, TypeOK, RouterInHand, Leftovers, Reported, Busy, InPoll,
               Places, stored, cached, history
<1>18. CASE CorrelationRaises
  <2>1. faults' \in 0..MaxFaults
    BY <1>18, PollingAssumption DEF CorrelationRaises, Raises, TypeOK
  <2> QED
    BY <1>18, <2>1, EventsAreEvents
       DEF CorrelationRaises, Raises, TypeOK, RouterInHand, Leftovers, Reported, Busy, InPoll,
           Places, stored, cached, history
<1>19. CASE NextCycle
  <2>1. configured \in SUBSET Otbrs /\ StartCycle(configured)
    BY <1>19 DEF NextCycle, TypeOK
  <2>2. UNCHANGED <<configured, otbr, otbrRow, net, netRow, device, collected, recent, told,
                    faults, last, torn>>
    BY <1>19 DEF NextCycle, stored, cached
  <2> QED
    BY <2>1, <2>2, StartingCycle, EventsAreEvents
       DEF TypeOK, Leftovers, Reported, Places
<1>20. CASE Restart
  <2>1. PICK routers \in (SUBSET Otbrs) \ {{}} : configured' = routers
    BY <1>20 DEF Restart
  <2>2. StartCycle(routers)
    BY <1>20, <2>1 DEF Restart
  <2>3. /\ otbr' = otbrRow /\ net' = netRow /\ collected' = {} /\ recent' = {}
        /\ UNCHANGED <<otbrRow, netRow, device, told, faults, last, torn>>
    BY <1>20 DEF Restart, stored
  <2> QED
    BY <2>1, <2>2, <2>3, StartingCycle, EventsAreEvents
       DEF TypeOK, Leftovers, Reported, Places
<1>21. ASSUME NEW o \in Otbrs, IntervalEnds(o)
       PROVE  Types'
  BY <1>21 DEF IntervalEnds, TypeOK, RouterInHand, Leftovers, Reported, task, stored, history
<1>22. CASE UNCHANGED vars
  BY <1>22 DEF vars, stored, cached, task, history, TypeOK, RouterInHand, Leftovers, Reported
<1> QED
  BY <1>1, <1>3, <1>4, <1>5, <1>6, <1>7, <1>8, <1>9, <1>10, <1>11, <1>12, <1>13, <1>14, <1>15,
     <1>16, <1>17, <1>18, <1>19, <1>20, <1>21, <1>22 DEF Next, PollStep

-----------------------------------------------------------------------------
(* The cycle's account of the routers and the networks.                    *)

\* What a failed or successful write of a router's record leaves alone.
LEMMA StoringOtbrKeeps ==
    ASSUME NEW o, NEW record, NEW place, NEW events, StoreOtbr(o, record, place, events)
    PROVE  /\ otbr' = [otbr EXCEPT ![o] = record] /\ cur' = o
           /\ at' = place \/ at' \in {"raised", "dead"}
           /\ UNCHANGED <<configured, left, seenBy, toSee, net, device, last, torn>>
  BY DEF StoreOtbr, Raises

\* A step changes the record of a router left to poll, or ends its poll, or starts a
\* cycle; the others change no record of a router.
LEMMA PollKinds ==
    ASSUME Types, [Next]_vars
    PROVE  \/ /\ UNCHANGED <<configured, left, seenBy>>
              /\ \A o \in configured \ left : otbr'[o] = otbr[o]
           \/ EndPoll /\ cur \in left
           \/ left' = configured' /\ seenBy' = [n \in Networks |-> {}]
<1> DEFINE Keeps == /\ UNCHANGED <<configured, left, seenBy>>
                    /\ \A o \in configured \ left : otbr'[o] = otbr[o]
<1> SUFFICES Keeps \/ (EndPoll /\ cur \in left)
                   \/ (left' = configured' /\ seenBy' = [n \in Networks |-> {}])
  OBVIOUS
<1>1. ASSUME NEW o \in left, NEW record, NEW place, NEW events,
             StoreOtbr(o, record, place, events)
      PROVE  Keeps
  BY <1>1, StoringOtbrKeeps DEF Types, TypeOK
<1>2. ASSUME NEW o \in Otbrs, PollAnswered(o) \/ PollRefused(o) \/ PollGarbled(o)
      PROVE  Keeps
  <2>1. CASE PollAnswered(o)
    BY <1>1, <2>1 DEF PollAnswered, ApplyReachableState
  <2>2. CASE PollRefused(o)
    BY <1>1, <2>2 DEF PollRefused, MarkUnreachable
  <2>3. CASE PollGarbled(o)
    BY <2>3 DEF PollGarbled, cached
  <2> QED
    BY <1>2, <2>1, <2>2, <2>3
<1>3. CASE HandleException
  <2>1. cur \in left
    BY <1>3 DEF HandleException, Types, RouterInHand, Busy
  <2> QED
    BY <1>1, <1>3, <2>1 DEF HandleException, MarkUnreachable
<1>4. CASE PollDone \/ Enriched
  BY <1>4 DEF PollDone, Enriched, Types, RouterInHand, Busy, InPoll
<1>5. CASE Tell
  BY <1>5 DEF Tell, Raises
<1>6. CASE CollectDevices \/ CollectionGarbled \/ DevicesStored \/ DevicesPruned
  BY <1>6 DEF CollectDevices, CollectionGarbled, DevicesStored, DevicesPruned, cached
<1>7. ASSUME NEW d \in Devices, PersistDevice(d) \/ PruneDevice(d)
      PROVE  Keeps
  BY <1>7 DEF PersistDevice, PruneDevice, Raises, cached
<1>8. CASE EnrichingRaises \/ CorrelationRaises
  BY <1>8 DEF EnrichingRaises, CorrelationRaises, Raises, cached
<1>9. CASE BeginSync \/ SyncDone \/ CycleEnds
  BY <1>9 DEF BeginSync, SyncDone, CycleEnds, cached
<1>10. ASSUME NEW n \in Networks, NetworkSeen(n) \/ NetworkLost(n)
       PROVE  Keeps
  BY <1>10 DEF NetworkSeen, NetworkLost, StoreNetwork, Raises
<1>11. CASE NextCycle \/ Restart
  BY <1>11 DEF NextCycle, Restart, StartCycle, NobodySaw, cached
<1>12. ASSUME NEW o \in Otbrs, IntervalEnds(o)
       PROVE  Keeps
  BY <1>12 DEF IntervalEnds, task
<1>13. CASE UNCHANGED vars
  BY <1>13 DEF vars, cached, task
<1> QED
  BY <1>2, <1>3, <1>4, <1>5, <1>6, <1>7, <1>8, <1>9, <1>10, <1>11, <1>12, <1>13
     DEF Next, PollStep

LEMMA SeenByStep == Types /\ SeenByRecords /\ [Next]_vars => SeenByRecords'
<1> SUFFICES ASSUME Types, SeenByRecords, [Next]_vars
             PROVE  SeenByRecords'
  OBVIOUS
<1>1. CASE /\ UNCHANGED <<configured, left, seenBy>>
           /\ \A o \in configured \ left : otbr'[o] = otbr[o]
  BY <1>1 DEF SeenByRecords, Reachable
<1>2. CASE EndPoll /\ cur \in left
  <2>1. left \subseteq configured /\ seenBy \in [Networks -> SUBSET configured]
    BY DEF Types, TypeOK
  <2>2. configured' = configured /\ otbr' = otbr /\ left' = left \ {cur}
    BY <1>2 DEF EndPoll, cached
  <2>3. ASSUME NEW n \in Networks
        PROVE  seenBy'[n] = {o \in configured' \ left' : Reachable(o)' /\ otbr'[o].network = n}
    <3>1. seenBy'[n] = IF Reachable(cur) /\ otbr[cur].network = n THEN seenBy[n] \cup {cur}
                       ELSE seenBy[n]
      BY <1>2 DEF EndPoll
    <3>2. seenBy[n] = {o \in configured \ left : Reachable(o) /\ otbr[o].network = n}
      BY DEF SeenByRecords
    <3> QED
      BY <1>2, <2>1, <2>2, <3>1, <3>2 DEF Reachable
  <2> QED
    BY <2>3 DEF SeenByRecords
<1>3. CASE left' = configured' /\ seenBy' = [n \in Networks |-> {}]
  BY <1>3 DEF SeenByRecords
<1> QED
  BY <1>1, <1>2, <1>3, PollKinds

\* A step that is none of the sync's leaves the networks alone or leads to a place
\* where they need not be in step.
LEMMA NetworkKinds ==
    ASSUME Types, [Next]_vars
    PROVE  \/ UNCHANGED <<at, net, seenBy, toSee>>
           \/ at' \notin {"syncing", "correlating", "sleeping"}
           \/ BeginSync
           \/ \E n \in Networks : NetworkSeen(n) \/ NetworkLost(n)
           \/ SyncDone \/ CycleEnds
<1>1. ASSUME NEW o, NEW record, NEW place \in Busy, NEW events,
             StoreOtbr(o, record, place, events)
      PROVE  at' \notin {"syncing", "correlating", "sleeping"}
  BY <1>1, StoringOtbrKeeps DEF Busy, InPoll
<1>2. ASSUME NEW o \in Otbrs, PollAnswered(o) \/ PollRefused(o) \/ PollGarbled(o)
      PROVE  at' \notin {"syncing", "correlating", "sleeping"}
  BY <1>1, <1>2 DEF PollAnswered, ApplyReachableState, PollRefused, MarkUnreachable, PollGarbled,
                    Busy, InPoll
<1>3. CASE HandleException
  BY <1>1, <1>3 DEF HandleException, MarkUnreachable, Busy, InPoll
<1>4. CASE PollDone \/ Enriched
  BY <1>4 DEF PollDone, Enriched, EndPoll
<1>5. CASE Tell
  BY <1>5 DEF Tell, Raises
<1>6. CASE CollectDevices \/ CollectionGarbled \/ DevicesStored \/ DevicesPruned
  BY <1>6 DEF CollectDevices, CollectionGarbled, DevicesStored, DevicesPruned
<1>7. ASSUME NEW d \in Devices, PersistDevice(d) \/ PruneDevice(d)
      PROVE  at' \notin {"syncing", "correlating", "sleeping"}
  BY <1>7 DEF PersistDevice, PruneDevice, Raises
<1>8. CASE EnrichingRaises \/ CorrelationRaises
  BY <1>8 DEF EnrichingRaises, CorrelationRaises, Raises
<1>9. CASE NextCycle \/ Restart
  BY <1>9 DEF NextCycle, Restart, StartCycle
<1>10. ASSUME NEW o \in Otbrs, IntervalEnds(o)
       PROVE  UNCHANGED <<at, net, seenBy, toSee>>
  BY <1>10 DEF IntervalEnds, task
<1>11. CASE UNCHANGED vars
  BY <1>11 DEF vars, cached, task
<1> QED
  BY <1>2, <1>3, <1>4, <1>5, <1>6, <1>7, <1>8, <1>9, <1>10, <1>11 DEF Next, PollStep

LEMMA NetworksStep == Types /\ NetworksInStep /\ [Next]_vars => NetworksInStep'
<1> SUFFICES ASSUME Types, NetworksInStep, [Next]_vars
             PROVE  NetworksInStep'
  OBVIOUS
<1>1. CASE UNCHANGED <<at, net, seenBy, toSee>>
  BY <1>1 DEF NetworksInStep, Full, Reported, Visible, classify_primary_network
<1>2. CASE at' \notin {"syncing", "correlating", "sleeping"}
  BY <1>2 DEF NetworksInStep
<1>3. CASE BeginSync
  BY <1>3 DEF BeginSync, NetworksInStep, Reported
<1>4. ASSUME NEW n \in Networks, NetworkSeen(n) \/ NetworkLost(n)
      PROVE  NetworksInStep'
  <2>1. at = "syncing" /\ at' \in {"syncing", "dead"} /\ UNCHANGED seenBy
    BY <1>4 DEF NetworkSeen, NetworkLost, StoreNetwork, Raises, InPoll
  <2>2. SUFFICES ASSUME at' = "syncing", NEW m \in Reported \ toSee'
                 PROVE  net'[m] = Full(m)
    BY <2>1 DEF NetworksInStep, Reported, Full, classify_primary_network
  <2>3. net \in [Networks -> Network \cup {Absent}] /\ toSee \subseteq Reported
    BY DEF Types, TypeOK
  <2>4. m \in Networks /\ (m \notin toSee => net[m] = Full(m))
    BY <2>1, <2>2 DEF NetworksInStep, Reported
  <2>5. CASE NetworkSeen(n)
    <3>1. net' = [net EXCEPT ![n] = Full(n)] /\ toSee' = toSee \ {n}
      BY <2>1, <2>2, <2>5 DEF NetworkSeen, StoreNetwork, Raises, Full, InPoll
    <3> QED
      BY <2>2, <2>3, <2>4, <3>1
  <2>6. CASE NetworkLost(n)
    <3>1. n \notin Reported /\ toSee = {}
      BY <2>6 DEF NetworkLost, LostNetworks
    <3>2. net' = [net EXCEPT ![n] = [net[n] EXCEPT !.visible = FALSE]]
      BY <2>6 DEF NetworkLost, StoreNetwork
    <3> QED
      BY <2>2, <2>3, <2>4, <3>1, <3>2
  <2> QED
    BY <1>4, <2>5, <2>6
<1>5. CASE SyncDone
  <2>1. /\ at = "syncing" /\ at' = "correlating" /\ toSee = {} /\ LostNetworks = {}
        /\ UNCHANGED <<net, seenBy>>
    BY <1>5 DEF SyncDone, cached
  <2> QED
    BY <2>1 DEF NetworksInStep, LostNetworks, Reported, Full, Visible, classify_primary_network
<1>6. CASE CycleEnds
  <2>1. at = "correlating" /\ at' = "sleeping" /\ UNCHANGED <<net, seenBy>>
    BY <1>6 DEF CycleEnds, cached
  <2> QED
    BY <2>1 DEF NetworksInStep, Reported, Full, Visible, classify_primary_network
<1> QED
  BY <1>1, <1>2, <1>3, <1>4, <1>5, <1>6, NetworkKinds

-----------------------------------------------------------------------------
(* Answers and inventories.                                                *)

\* A router found reachable is so in its record, and one marked unreachable is not.
LEMMA Recorded ==
    ASSUME Types, NEW o \in left, NEW record \in Otbr, otbr' = [otbr EXCEPT ![o] = record]
    PROVE  /\ Reachable(o)' <=> record.reachable
           /\ \A p \in configured \ {o} : Reachable(p)' <=> Reachable(p)
BY AbsentIsNoRecord DEF Types, TypeOK, Reachable, Otbr

\* Steps inside a poll that leave the records alone, and go on in it or spoil it.
LEMMA AnswersUndisturbed ==
    ASSUME AnswersInStep, UNCHANGED <<configured, otbr, cur, left, answered>>,
           spoilt' = spoilt \cup (answered \cap {cur}) \/ (UNCHANGED spoilt /\ at' # "raised"),
           \/ at' \in {at, "dead"}
           \/ at' = "raised" /\ at \in Busy
           \/ {at, at'} \subseteq {"telling", "persisting", "pruning", "enriching"}
           \/ {at, at'} \cap (Busy \cup {"dead"}) = {}
    PROVE  AnswersInStep'
BY DEF AnswersInStep, Reachable, Busy, InPoll

LEMMA AnswersStep == Types /\ AnswersInStep /\ [Next]_vars => AnswersInStep'
<1> SUFFICES ASSUME Types, AnswersInStep, [Next]_vars
             PROVE  AnswersInStep'
  OBVIOUS
<1>1. ASSUME NEW o \in Otbrs, PollAnswered(o)
      PROVE  AnswersInStep'
  <2>1. PICK dataset \in Datasets, newRole \in BOOLEAN : ApplyReachableState(o, dataset, newRole)
    BY <1>1 DEF PollAnswered
  <2> DEFINE record == [reachable |-> TRUE, network |-> dataset]
             events == IF Reachable(o) THEN Changes(o, dataset, newRole)
                       ELSE <<Transition(o, "up")>>
  <2>2. record \in Otbr /\ record.reachable /\ o \in left /\ at = "polling"
    BY <1>1 DEF Otbr, PollAnswered
  <2>3. StoreOtbr(o, record, "telling", events)
    BY <2>1 DEF ApplyReachableState
  <2> HIDE DEF record, events
  <2>4. /\ UNCHANGED <<configured, left>> /\ cur' = o
        /\ otbr' = [otbr EXCEPT ![o] = record] /\ at' \in {"telling", "raised"}
    BY <2>2, <2>3 DEF StoreOtbr, Raises
  <2>5. Reachable(o)' /\ \A p \in configured \ {o} : Reachable(p)' <=> Reachable(p)
    BY <2>2, <2>4, Recorded
  <2>6. answered' = answered \cup {o} /\ spoilt' = IF at' = "raised" THEN spoilt \cup {o} ELSE spoilt
    BY <1>1 DEF PollAnswered
  <2>7. answered \cap left = {}
    BY <2>2 DEF AnswersInStep, Busy, InPoll
  <2> QED
    BY <2>2, <2>4, <2>5, <2>6, <2>7 DEF AnswersInStep, Busy, InPoll
<1>2. ASSUME NEW o \in left, NEW place \in {"marking", "handling"}, MarkUnreachable(o, place),
             UNCHANGED <<answered, spoilt>>,
             \/ at = "polling" /\ place = "marking"
             \/ at = "raised" /\ o = cur /\ place = "handling"
      PROVE  AnswersInStep'
  <2> DEFINE record == [reachable |-> FALSE,
                        network |-> IF otbr[o] = Absent THEN NoNetwork ELSE otbr[o].network]
             events == IF otbr[o] = Absent \/ Reachable(o) THEN <<Transition(o, "down")>>
                       ELSE <<>>
  <2>1. otbr[o] \in Otbr \cup {Absent}
    BY DEF Types, TypeOK
  <2>2. record \in Otbr /\ ~record.reachable
    BY <2>1 DEF Otbr, Datasets
  <2>3. StoreOtbr(o, record, place, events)
    BY <1>2 DEF MarkUnreachable
  <2> HIDE DEF record, events
  <2>4. /\ UNCHANGED <<configured, left>> /\ cur' = o
        /\ otbr' = [otbr EXCEPT ![o] = record]
        /\ at' = place \/ at' = IF at = "polling" THEN "raised" ELSE "dead"
    BY <1>2, <2>3 DEF StoreOtbr, Raises, InPoll
  <2>5. ~Reachable(o)' /\ \A p \in configured \ {o} : Reachable(p)' <=> Reachable(p)
    BY <2>2, <2>4, Recorded
  <2>6. at = "polling" => answered \cap left = {}
    BY DEF AnswersInStep, Busy, InPoll
  <2> QED
    BY <1>2, <2>4, <2>5, <2>6 DEF AnswersInStep, Busy, InPoll
<1>3. ASSUME NEW o \in Otbrs, PollRefused(o)
      PROVE  AnswersInStep'
  BY <1>2, <1>3 DEF PollRefused
<1>4. CASE HandleException
  BY <1>2, <1>4 DEF HandleException, Types, RouterInHand, Busy
<1>5. ASSUME NEW o \in Otbrs, PollGarbled(o)
      PROVE  AnswersInStep'
  <2>1. /\ at = "polling" /\ o \in left /\ at' = "raised" /\ cur' = o
        /\ UNCHANGED <<configured, otbr, left, answered, spoilt>>
    BY <1>5 DEF PollGarbled, cached, history
  <2> QED
    BY <2>1 DEF AnswersInStep, Reachable, Busy, InPoll
<1>6. CASE Tell
  <2>1. UNCHANGED <<configured, otbr, cur, left, answered>>
    BY <1>6 DEF Tell, Raises
  <2>2. at \in {"telling", "marking", "handling", "syncing"}
    BY <1>6 DEF Tell, Types, Leftovers
  <2>3. \/ at' = at /\ UNCHANGED spoilt
        \/ at' = "raised" /\ at \in InPoll /\ spoilt' = spoilt \cup (answered \cap {cur})
        \/ at' = "dead" /\ UNCHANGED spoilt
    BY <1>6, <2>2 DEF Tell, Raises, Spoil
  <2> QED
    BY <2>1, <2>2, <2>3, AnswersUndisturbed DEF Busy, InPoll
<1>7. CASE PollDone \/ Enriched
  <2>1. at \in {"telling", "marking", "handling", "enriching"} /\ EndPoll /\ cur \in left
    BY <1>7 DEF PollDone, Enriched, Types, RouterInHand, Busy, InPoll
  <2>2. /\ at' = "polling" /\ left' = left \ {cur}
        /\ UNCHANGED <<configured, otbr, answered, spoilt>>
    BY <2>1 DEF EndPoll, cached, history
  <2> QED
    BY <2>1, <2>2 DEF AnswersInStep, Reachable, Busy, InPoll
<1>8. CASE CollectDevices \/ DevicesStored \/ DevicesPruned
  <2>1. {at, at'} \subseteq {"telling", "persisting", "pruning", "enriching"}
    BY <1>8 DEF CollectDevices, CollectionDue, DevicesStored, DevicesPruned
  <2>2. UNCHANGED <<configured, otbr, cur, left, answered, spoilt>>
    BY <1>8 DEF CollectDevices, DevicesStored, DevicesPruned, cached, history
  <2> QED
    BY <2>1, <2>2, AnswersUndisturbed
<1>9. CASE CollectionGarbled \/ EnrichingRaises
  <2>1. at \in {"telling", "enriching"} /\ at' = "raised"
    BY <1>9 DEF CollectionGarbled, CollectionDue, EnrichingRaises, Raises, InPoll
  <2>2. /\ UNCHANGED <<configured, otbr, cur, left, answered>>
        /\ spoilt' = spoilt \cup (answered \cap {cur})
    BY <1>9 DEF CollectionGarbled, EnrichingRaises, Raises, Spoil, cached
  <2> QED
    BY <2>1, <2>2, AnswersUndisturbed DEF Busy, InPoll
<1>10. ASSUME NEW d \in Devices, PersistDevice(d) \/ PruneDevice(d)
       PROVE  AnswersInStep'
  <2>1. UNCHANGED <<configured, otbr, cur, left, answered>>
    BY <1>10 DEF PersistDevice, PruneDevice, Raises, cached
  <2>2. at \in InPoll
    BY <1>10 DEF PersistDevice, PruneDevice, InPoll
  <2>3. \/ at' = at /\ UNCHANGED spoilt
        \/ at' = "raised" /\ spoilt' = spoilt \cup (answered \cap {cur})
    BY <1>10, <2>2 DEF PersistDevice, PruneDevice, Raises, Spoil
  <2> QED
    BY <2>1, <2>2, <2>3, AnswersUndisturbed DEF Busy, InPoll
<1>11. CASE CorrelationRaises \/ BeginSync \/ SyncDone \/ CycleEnds
  <2>1. at' \in {"dead", "syncing", "correlating", "sleeping"}
    BY <1>11 DEF CorrelationRaises, Raises, InPoll, BeginSync, SyncDone, CycleEnds
  <2>2. at \in {"polling", "syncing", "correlating"}
    BY <1>11 DEF CorrelationRaises, BeginSync, SyncDone, CycleEnds
  <2>3. UNCHANGED <<configured, otbr, cur, left, answered, spoilt>>
    BY <1>11 DEF CorrelationRaises, Raises, BeginSync, SyncDone, CycleEnds, cached, history
  <2> QED
    BY <2>1, <2>2, <2>3, AnswersUndisturbed DEF Busy, InPoll
<1>12. ASSUME NEW n \in Networks, NetworkSeen(n) \/ NetworkLost(n)
       PROVE  AnswersInStep'
  <2>1. at = "syncing" /\ at' \in {"syncing", "dead"}
    BY <1>12 DEF NetworkSeen, NetworkLost, StoreNetwork, Raises, InPoll
  <2>2. UNCHANGED <<configured, otbr, cur, left, answered, spoilt>>
    BY <1>12 DEF NetworkSeen, NetworkLost, StoreNetwork, Raises, history
  <2> QED
    BY <2>1, <2>2, AnswersUndisturbed DEF Busy, InPoll
<1>13. CASE NextCycle \/ Restart
  <2>1. at' = "polling" /\ left' = configured' /\ answered' = {}
    BY <1>13 DEF NextCycle, Restart, StartCycle, cached
  <2> QED
    BY <2>1 DEF AnswersInStep
<1>14. ASSUME NEW o \in Otbrs, IntervalEnds(o)
       PROVE  AnswersInStep'
  BY <1>14, AnswersUndisturbed DEF IntervalEnds, task, history, AnswersInStep, Reachable
<1>15. CASE UNCHANGED vars
  BY <1>15 DEF vars, cached, task, history, AnswersInStep, Reachable
<1> QED
  BY <1>1, <1>3, <1>4, <1>5, <1>6, <1>7, <1>8, <1>9, <1>10, <1>11, <1>12, <1>13, <1>14, <1>15
     DEF Next, PollStep

LEMMA InventoryStep == Types /\ InventoryInStep /\ [Next]_vars => InventoryInStep'
<1> SUFFICES ASSUME Types, InventoryInStep, [Next]_vars
             PROVE  InventoryInStep'
  OBVIOUS
<1>1. CASE CollectDevices
  <2>1. PICK devices \in SUBSET Devices :
            /\ inventory' = devices /\ toStore' = devices
            /\ last' = [last EXCEPT ![cur] = devices]
    BY <1>1 DEF CollectDevices
  <2>2. torn' = torn \cup {cur} /\ UNCHANGED <<device, cur>> /\ cur \in Otbrs
    BY <1>1 DEF CollectDevices, CollectionDue, stored, Types, TypeOK, RouterInHand, Busy, InPoll
  <2> QED
    BY <2>1, <2>2 DEF InventoryInStep, Types, TypeOK
<1>2. ASSUME NEW d \in Devices, PersistDevice(d)
      PROVE  InventoryInStep'
  <2>1. /\ at = "persisting" /\ cur \in torn /\ last[cur] = inventory
        /\ inventory \ toStore \subseteq device[cur]
    BY <1>2 DEF PersistDevice, InventoryInStep
  <2>2. UNCHANGED <<last, torn, cur, inventory>> /\ cur \in Otbrs
    BY <1>2, <2>1 DEF PersistDevice, Raises, Types, TypeOK
  <2>3. \/ at' = at /\ device' = [device EXCEPT ![cur] = @ \cup {d}] /\ toStore' = toStore \ {d}
        \/ at' = "raised" /\ UNCHANGED device
    BY <1>2, <2>1 DEF PersistDevice, Raises, InPoll
  <2> QED
    BY <2>1, <2>2, <2>3 DEF InventoryInStep, Types, TypeOK
<1>3. ASSUME NEW d \in Devices, PruneDevice(d)
      PROVE  InventoryInStep'
  <2>1. /\ at = "pruning" /\ cur \in torn /\ last[cur] = inventory
        /\ inventory \ toStore \subseteq device[cur] /\ d \notin inventory
    BY <1>3 DEF PruneDevice, StaleDevices, InventoryInStep
  <2>2. UNCHANGED <<last, torn, cur, inventory>> /\ cur \in Otbrs
    BY <1>3, <2>1 DEF PruneDevice, Raises, Types, TypeOK
  <2>3. \/ at' = at /\ device' = [device EXCEPT ![cur] = @ \ {d}] /\ UNCHANGED toStore
        \/ at' = "raised" /\ UNCHANGED device
    BY <1>3, <2>1 DEF PruneDevice, Raises, InPoll
  <2> QED
    BY <2>1, <2>2, <2>3 DEF InventoryInStep, Types, TypeOK
<1>4. CASE DevicesPruned
  <2>1. at = "pruning" /\ toStore = {} /\ device[cur] \subseteq inventory
    BY <1>4 DEF DevicesPruned, StaleDevices, Types, Leftovers
  <2>2. last[cur] = inventory /\ inventory \subseteq device[cur]
    BY <2>1 DEF InventoryInStep
  <2>3. at' = "enriching" /\ torn' = torn \ {cur} /\ UNCHANGED <<device, last>>
    BY <1>4 DEF DevicesPruned, stored
  <2> QED
    BY <2>1, <2>2, <2>3 DEF InventoryInStep
<1>5. CASE DevicesStored
  BY <1>5 DEF DevicesStored, stored, history, InventoryInStep
<1>6. CASE UNCHANGED <<device, last, torn>> /\ at' \notin {"persisting", "pruning"}
  BY <1>6 DEF InventoryInStep
<1>7. CASE UNCHANGED <<device, last, torn, at, cur, inventory, toStore>>
  BY <1>7 DEF InventoryInStep
<1>8. ASSUME NEW o \in Otbrs, PollAnswered(o) \/ PollRefused(o) \/ PollGarbled(o)
      PROVE  UNCHANGED <<device, last, torn>> /\ at' \notin {"persisting", "pruning"}
  <2>1. CASE PollAnswered(o)
    BY <2>1, StoringOtbrKeeps DEF PollAnswered, ApplyReachableState
  <2>2. CASE PollRefused(o)
    BY <2>2, StoringOtbrKeeps DEF PollRefused, MarkUnreachable
  <2>3. CASE PollGarbled(o)
    BY <2>3 DEF PollGarbled, stored, history
  <2> QED
    BY <1>8, <2>1, <2>2, <2>3
<1>9. CASE HandleException
  BY <1>6, <1>9, StoringOtbrKeeps DEF HandleException, MarkUnreachable
<1>10. CASE Tell
  <2>1. at \notin {"persisting", "pruning"}
    BY <1>10 DEF Tell, Types, Leftovers
  <2>2. UNCHANGED <<device, last, torn>> /\ at' \in {at, "raised", "dead"}
    BY <1>10 DEF Tell, Raises
  <2> QED
    BY <1>6, <2>1, <2>2
<1>11. CASE PollDone \/ Enriched
  BY <1>6, <1>11 DEF PollDone, Enriched, EndPoll, stored, history
<1>12. CASE CollectionGarbled \/ EnrichingRaises \/ CorrelationRaises
  BY <1>6, <1>12 DEF CollectionGarbled, EnrichingRaises, CorrelationRaises, Raises, stored, history
<1>13. CASE BeginSync \/ SyncDone \/ CycleEnds
  BY <1>6, <1>13 DEF BeginSync, SyncDone, CycleEnds, stored, history
<1>14. ASSUME NEW n \in Networks, NetworkSeen(n) \/ NetworkLost(n)
       PROVE  UNCHANGED <<device, last, torn>> /\ at' \notin {"persisting", "pruning"}
  BY <1>14 DEF NetworkSeen, NetworkLost, StoreNetwork, Raises, history
<1>15. CASE NextCycle \/ Restart
  BY <1>6, <1>15 DEF NextCycle, Restart, StartCycle, stored
<1>16. ASSUME NEW o \in Otbrs, IntervalEnds(o)
       PROVE  InventoryInStep'
  BY <1>7, <1>16 DEF IntervalEnds, stored, task, history
<1>17. CASE UNCHANGED vars
  BY <1>7, <1>17 DEF vars, stored, task, history
<1> QED
  BY <1>1, <1>2, <1>3, <1>4, <1>5, <1>6, <1>8, <1>9, <1>10, <1>11, <1>12, <1>13, <1>14, <1>15,
     <1>16, <1>17 DEF Next, PollStep

-----------------------------------------------------------------------------
(* Theorems.                                                               *)

\* The inductive invariant of OtbrPolling: what the cycle has noted of the routers it
\* has polled, of the networks it has brought in step and of an inventory it is storing
\* is what the records and rows say.
THEOREM SpecIInv == Spec => []IInv
<1>1. Init => IInv
  <2> SUFFICES ASSUME Init
               PROVE  IInv
    OBVIOUS
  <2>1. Types
    BY PollingAssumption, EventsAreEvents
       DEF Init, Types, TypeOK, RouterInHand, Leftovers, Places, Busy, InPoll, NobodySaw, Reported
  <2>2. SeenByRecords
    BY DEF Init, SeenByRecords, NobodySaw
  <2>3. NetworksInStep /\ AnswersInStep /\ InventoryInStep
    BY DEF Init, NetworksInStep, AnswersInStep, InventoryInStep
  <2> QED
    BY <2>1, <2>2, <2>3 DEF IInv
<1>2. IInv /\ [Next]_vars => IInv'
  BY TypesStep, SeenByStep, NetworksStep, AnswersStep, InventoryStep DEF IInv
<1> QED
  BY <1>1, <1>2, PTL DEF Spec

\* All variables keep their types.
THEOREM TypeCorrect == Spec => []TypeOK
<1>1. IInv => TypeOK
  BY DEF IInv, Types
<1> QED
  BY <1>1, SpecIInv, PTL

\* Between two cycles the Thread networks shown are those that the reachable configured
\* routers report: _sync_thread_networks, for any number of routers and networks, after
\* any failures, restarts and changes of the configuration.
THEOREM NetworksCorrect == Spec => []NetworksMatchRouters
<1>1. IInv => NetworksMatchRouters
  <2> SUFFICES ASSUME IInv, at = "sleeping", NEW n \in Networks
               PROVE  LET sources == {o \in configured : Reachable(o) /\ otbr[o].network = n}
                      IN  /\ Visible(n) <=> sources # {}
                          /\ Visible(n) => /\ net[n].routers = sources
                                           /\ net[n].primary <=>
                                                 \A o \in configured : Reachable(o) =>
                                                     otbr[o].network \in {n, NoNetwork}
    BY DEF NetworksMatchRouters
  <2> DEFINE sources(m) == {o \in configured : Reachable(o) /\ otbr[o].network = m}
  <2>1. \A m \in Networks : seenBy[m] = sources(m)
    BY DEF IInv, Types, RouterInHand, SeenByRecords
  <2>2. IF n \in Reported THEN net[n] = Full(n) ELSE ~Visible(n)
    BY DEF IInv, NetworksInStep
  <2>3. Full(n) \in Network /\ Full(n).visible /\ Full(n).routers = seenBy[n]
        /\ (Full(n).primary <=> Reported = {n})
    BY DEF IInv, Types, TypeOK, Network, Full, classify_primary_network
  <2>4. Visible(n) <=> n \in Reported
    BY <2>2, <2>3, AbsentIsNoRecord DEF Visible
  <2>5. \A o \in configured : Reachable(o) => otbr[o].network \in Networks \cup {NoNetwork}
    BY DEF IInv, Types, TypeOK, Reachable, Otbr, Datasets
  <2>6. ASSUME n \in Reported
        PROVE  Reported = {n} <=> \A o \in configured : Reachable(o) =>
                                      otbr[o].network \in {n, NoNetwork}
    BY <2>1, <2>5, <2>6, PollingAssumption DEF Reported
  <2> QED
    BY <2>1, <2>2, <2>3, <2>4, <2>6 DEF Reported
<1> QED
  BY <1>1, SpecIInv, PTL

\* Between two cycles a configured router counts as reachable exactly when /api/node
\* answered in the last one, unless its poll raised after that: poll_one, poll_all.
THEOREM ReachabilityCorrect == Spec => []AnsweredIsReachable
<1>1. IInv => AnsweredIsReachable
  BY DEF IInv, Types, RouterInHand, AnswersInStep, AnsweredIsReachable
<1> QED
  BY <1>1, SpecIInv, PTL

\* The device rows of a router are its last inventory, whatever is stored for others,
\* unless storing it was cut short: _persist_device_inventory.
THEOREM InventoriesCorrect == Spec => []DevicesAreLastInventory
<1>1. IInv => DevicesAreLastInventory
  BY DEF IInv, InventoryInStep, DevicesAreLastInventory
<1> QED
  BY <1>1, SpecIInv, PTL

-----------------------------------------------------------------------------
(* OtbrPolling implements Presence.                                        *)

\* The transitions in a sequence of events.
OwingOf(events) ==
    {s \in Subjects : \E i \in 1..Len(events) : events[i].subject = s /\ events[i].kind \in Sides}

\* What the sequences that the actions leave to tell owe.
LEMMA Owed ==
    /\ OwingOf(<<>>) = {}
    /\ \A s \in Subjects, kind \in Sides : OwingOf(<<Transition(s, kind)>>) = {s}
    /\ \A o \in Otbrs, dataset \in Datasets, newRole \in BOOLEAN :
           OwingOf(Changes(o, dataset, newRole)) = {}
<1>1. OwingOf(<<>>) = {}
  BY DEF OwingOf
<1>2. ASSUME NEW s \in Subjects, NEW kind \in Sides
      PROVE  OwingOf(<<Transition(s, kind)>>) = {s}
  <2>1. Len(<<Transition(s, kind)>>) = 1 /\ <<Transition(s, kind)>>[1] = Transition(s, kind)
    OBVIOUS
  <2>2. Transition(s, kind).subject = s /\ Transition(s, kind).kind = kind
    BY DEF Transition
  <2> QED
    BY <2>1, <2>2 DEF OwingOf
<1>3. ASSUME NEW o \in Otbrs, NEW dataset \in Datasets, NEW newRole \in BOOLEAN,
             NEW i \in 1..Len(Changes(o, dataset, newRole))
      PROVE  Changes(o, dataset, newRole)[i].kind \notin Sides
  <2>1. [subject |-> o, kind |-> "role"].kind \notin Sides
        /\ [subject |-> o, kind |-> "dataset"].kind \notin Sides
    BY DEF Sides
  <2> QED
    BY <2>1 DEF Changes
<1> QED
  BY <1>1, <1>2, <1>3 DEF OwingOf


\* The sides of the rows.
LEMMA SidesOfRows ==
    /\ \A o \in Otbrs : o \notin Networks /\ o \in Subjects
    /\ \A n \in Networks : n \notin Otbrs /\ n \in Subjects
    /\ Shown = [s \in Subjects |-> Shown[s]]
    /\ \A o \in Otbrs : Shown[o] = IF otbrRow[o] = Absent THEN "unknown"
                                   ELSE IF otbrRow[o].reachable THEN "up" ELSE "down"
    /\ \A n \in Networks : Shown[n] = IF netRow[n] = Absent THEN "unknown"
                                      ELSE IF netRow[n].visible THEN "up" ELSE "down"
BY PollingAssumption DEF Shown, Subjects

PresenceStep == [Presences!Next]_(Presences!vars)

\* Steps that leave the rows and the events told of alone: at most they give events up.
LEMMA QuietStep ==
    ASSUME EventsInStep, UNCHANGED <<otbrRow, netRow, told, faults>>, toTell' \in {toTell, <<>>},
           UNCHANGED <<otbr, net>> \/ (otbr' = otbrRow /\ net' = netRow)
    PROVE  EventsInStep' /\ PresenceStep
<1>1. Shown' = Shown
  BY DEF Shown
<1>2. EventsInStep'
  BY <1>1 DEF EventsInStep, TellsOfRows, RowsAreCaches
<1>3. Owing' = Owing \/ Owing' = {}
  BY DEF Owing
<1>4. (faults > 0)' = (faults > 0)
  OBVIOUS
<1>5. PresenceStep
  <2>1. CASE Owing' = Owing
    BY <1>1, <1>4, <2>1 DEF PresenceStep, Presences!vars
  <2>2. CASE Owing' = {}
    BY <1>1, <1>4, <2>2 DEF PresenceStep, Presences!Next, Presences!GiveUp
  <2> QED
    BY <1>3, <2>1, <2>2
<1> QED
  BY <1>2, <1>5

\* A storage call raises: nothing is told any more.
LEMMA FailingStep ==
    ASSUME Types, Raises, UNCHANGED <<otbrRow, netRow, told>>
    PROVE  EventsInStep' /\ PresenceStep
<1>1. Shown' = Shown
  BY DEF Shown
<1>2. faults' > 0 /\ faults' # 0
  BY DEF Raises, Types, TypeOK
<1>3. toTell' = <<>>
  BY DEF Raises
<1>4. EventsInStep'
  BY <1>2, <1>3 DEF EventsInStep, TellsOfRows, RowsAreCaches
<1>5. Owing' = {}
  BY <1>3 DEF Owing
<1>6. (faults > 0)' = TRUE
  BY <1>2
<1>7. Presences!Fail
  BY <1>1, <1>5, <1>6 DEF Presences!Fail
<1> QED
  BY <1>4, <1>7 DEF PresenceStep, Presences!Next

\* A row is written while nothing is left to tell.
LEMMA WritingStep ==
    ASSUME Types, Types', toTell = <<>>, UNCHANGED <<told, faults>>,
           NEW s \in Subjects, NEW side \in Sides, Shown' = [Shown EXCEPT ![s] = side],
           \/ toTell' = <<Transition(s, side)>> /\ (faults = 0 => Shown[s] # side)
           \/ OwingOf(toTell') = {} /\ (faults = 0 => Shown[s] = side)
    PROVE  TellsOfRows' /\ PresenceStep
<1>1. Owing = {} /\ Owing' = OwingOf(toTell')
  BY DEF Owing, OwingOf
<1>2. faults \in Nat /\ ((faults > 0)' <=> faults > 0)
  BY DEF Types, TypeOK
<1>3. side \in Presences!Sides /\ Shown'[s] = side
  BY SidesOfRows DEF Presences!Sides, Sides
<1>4. CASE toTell' = <<Transition(s, side)>> /\ (faults = 0 => Shown[s] # side)
  <2>1. Owing' = {s}
    BY <1>1, <1>4, Owed
  <2>2. Len(toTell') = 1 /\ toTell'[1].subject = s
    BY <1>4 DEF Transition
  <2>3. TellsOfRows'
    BY <1>3, <1>4, <2>2 DEF TellsOfRows, Transition
  <2>4. CASE faults = 0
    <3>1. side \in Presences!Sides \ {Shown[s]}
      BY <1>3, <1>4, <2>4
    <3>2. Presences!Change(s)
      BY <1>1, <1>2, <2>1, <3>1 DEF Presences!Change
    <3> QED
      BY <2>3, <3>2 DEF PresenceStep, Presences!Next
  <2>5. CASE faults > 0
    <3>1. Presences!CatchUp(s)
      BY <1>1, <1>2, <1>3, <2>1, <2>5 DEF Presences!CatchUp
    <3> QED
      BY <2>3, <3>1 DEF PresenceStep, Presences!Next
  <2> QED
    BY <1>2, <2>4, <2>5
<1>5. CASE OwingOf(toTell') = {} /\ (faults = 0 => Shown[s] = side)
  <2>1. ASSUME NEW i \in 1..Len(toTell')
        PROVE  toTell'[i].kind \notin Sides
    <3>1. toTell' \in Seq(Events)
      BY DEF Types, TypeOK
    <3>2. toTell'[i] \in Events
      BY <3>1
    <3>3. toTell'[i].subject \in Subjects
      BY <3>2 DEF Events, Subjects
    <3> QED
      BY <1>5, <3>3 DEF OwingOf
  <2>2. TellsOfRows'
    BY <2>1 DEF TellsOfRows
  <2>3. CASE faults = 0
    <3>1. Shown' = Shown
      BY <1>5, <2>3, SidesOfRows
    <3> QED
      BY <1>1, <1>2, <1>5, <2>2, <3>1 DEF PresenceStep, Presences!vars
  <2>4. CASE faults > 0
    <3>1. Presences!CatchUp(s)
      BY <1>1, <1>2, <1>3, <1>5, <2>4 DEF Presences!CatchUp
    <3> QED
      BY <2>2, <3>1 DEF PresenceStep, Presences!Next
  <2> QED
    BY <1>2, <2>3, <2>4
<1> QED
  BY <1>4, <1>5

\* A router's row is written, with the events of its change.
LEMMA OtbrWritten ==
    ASSUME Types, Types', EventsInStep, toTell = <<>>,
           NEW o \in left, NEW record \in Otbr, NEW place, NEW events,
           StoreOtbr(o, record, place, events),
           \/ /\ events = <<Transition(o, IF record.reachable THEN "up" ELSE "down")>>
              /\ otbr[o] = Absent \/ otbr[o].reachable # record.reachable
           \/ OwingOf(events) = {} /\ otbr[o] # Absent /\ otbr[o].reachable = record.reachable
    PROVE  EventsInStep' /\ PresenceStep
<1>1. CASE Raises /\ UNCHANGED otbrRow
  BY <1>1, FailingStep DEF StoreOtbr
<1>2. CASE otbrRow' = [otbrRow EXCEPT ![o] = record] /\ toTell' = events /\ UNCHANGED faults
  <2> DEFINE side == IF record.reachable THEN "up" ELSE "down"
  <2>1. o \in Otbrs /\ o \in Subjects /\ side \in Sides
    BY DEF Types, TypeOK, Subjects, Sides
  <2>2. otbr \in [Otbrs -> Otbr \cup {Absent}] /\ otbrRow \in [Otbrs -> Otbr \cup {Absent}]
    BY DEF Types, TypeOK
  <2>3. otbr' = [otbr EXCEPT ![o] = record] /\ UNCHANGED <<told, net, netRow>>
    BY DEF StoreOtbr
  <2>4. record # Absent
    BY AbsentIsNoRecord
  <2>5. Shown' = [Shown EXCEPT ![o] = side]
    BY <1>2, <2>1, <2>2, <2>3, <2>4 DEF Shown
  <2>6. RowsAreCaches
    BY DEF EventsInStep
  <2>7. ASSUME faults = 0
        PROVE  Shown[o] = side <=> otbr[o] # Absent /\ otbr[o].reachable = record.reachable
    <3>1. Shown[o] = IF otbr[o] = Absent THEN "unknown"
                     ELSE IF otbr[o].reachable THEN "up" ELSE "down"
      BY <2>1, <2>6, <2>7, SidesOfRows DEF RowsAreCaches
    <3>2. record.reachable \in BOOLEAN /\ (otbr[o] # Absent => otbr[o].reachable \in BOOLEAN)
      BY <2>1, <2>2 DEF Otbr
    <3> QED
      BY <3>1, <3>2
  <2>8. \/ toTell' = <<Transition(o, side)>> /\ (faults = 0 => Shown[o] # side)
        \/ OwingOf(toTell') = {} /\ (faults = 0 => Shown[o] = side)
    BY <1>2, <2>7
  <2> HIDE DEF side
  <2>9. TellsOfRows' /\ PresenceStep
    BY <1>2, <2>1, <2>3, <2>5, <2>8, WritingStep
  <2>10. RowsAreCaches'
    BY <1>2, <2>3, <2>6 DEF RowsAreCaches
  <2> QED
    BY <2>9, <2>10 DEF EventsInStep
<1> QED
  BY <1>1, <1>2 DEF StoreOtbr

\* The same of a network.
LEMMA NetworkWritten ==
    ASSUME Types, Types', EventsInStep,
           NEW n \in Networks, NEW record \in Network, NEW events,
           StoreNetwork(n, record, events),
           \/ /\ events = <<Transition(n, IF record.visible THEN "up" ELSE "down")>>
              /\ net[n] = Absent \/ net[n].visible # record.visible
           \/ OwingOf(events) = {} /\ net[n] # Absent /\ net[n].visible = record.visible
    PROVE  EventsInStep' /\ PresenceStep
<1>1. CASE Raises /\ UNCHANGED netRow
  BY <1>1, FailingStep DEF StoreNetwork
<1>2. CASE netRow' = [netRow EXCEPT ![n] = record] /\ toTell' = events /\ UNCHANGED faults
  <2> DEFINE side == IF record.visible THEN "up" ELSE "down"
  <2>1. n \in Subjects /\ n \notin Otbrs /\ side \in Sides
    BY PollingAssumption DEF Subjects, Sides
  <2>2. net \in [Networks -> Network \cup {Absent}] /\ netRow \in [Networks -> Network \cup {Absent}]
    BY DEF Types, TypeOK
  <2>3. /\ net' = [net EXCEPT ![n] = record] /\ UNCHANGED <<told, otbr, otbrRow>>
        /\ toTell = <<>>
    BY DEF StoreNetwork
  <2>4. record # Absent
    BY AbsentIsNoRecord
  <2>5. Shown' = [Shown EXCEPT ![n] = side]
    BY <1>2, <2>1, <2>2, <2>3, <2>4, SidesOfRows, ZenonT(40) DEF Shown, Subjects
  <2>6. RowsAreCaches
    BY DEF EventsInStep
  <2>7. ASSUME faults = 0
        PROVE  Shown[n] = side <=> net[n] # Absent /\ net[n].visible = record.visible
    <3>1. Shown[n] = IF net[n] = Absent THEN "unknown"
                     ELSE IF net[n].visible THEN "up" ELSE "down"
      BY <2>6, <2>7, SidesOfRows DEF RowsAreCaches
    <3>2. record.visible \in BOOLEAN /\ (net[n] # Absent => net[n].visible \in BOOLEAN)
      BY <2>2 DEF Network
    <3> QED
      BY <3>1, <3>2
  <2>8. \/ toTell' = <<Transition(n, side)>> /\ (faults = 0 => Shown[n] # side)
        \/ OwingOf(toTell') = {} /\ (faults = 0 => Shown[n] = side)
    BY <1>2, <2>7
  <2> HIDE DEF side
  <2>9. TellsOfRows' /\ PresenceStep
    BY <1>2, <2>1, <2>3, <2>5, <2>8, WritingStep
  <2>10. RowsAreCaches'
    BY <1>2, <2>3, <2>6 DEF RowsAreCaches
  <2> QED
    BY <2>9, <2>10 DEF EventsInStep
<1> QED
  BY <1>1, <1>2 DEF StoreNetwork

\* A router that does not answer, or whose poll raises.
LEMMA UnreachableWritten ==
    ASSUME Types, Types', EventsInStep, toTell = <<>>, NEW o \in left, NEW place,
           MarkUnreachable(o, place)
    PROVE  EventsInStep' /\ PresenceStep
<1> DEFINE record == [reachable |-> FALSE,
                      network |-> IF otbr[o] = Absent THEN NoNetwork ELSE otbr[o].network]
           events == IF otbr[o] = Absent \/ Reachable(o) THEN <<Transition(o, "down")>> ELSE <<>>
<1>1. o \in Otbrs /\ otbr \in [Otbrs -> Otbr \cup {Absent}]
  BY DEF Types, TypeOK
<1>2. record \in Otbr /\ record.reachable = FALSE
  BY <1>1 DEF Otbr, Datasets
<1>3. \/ /\ events = <<Transition(o, IF record.reachable THEN "up" ELSE "down")>>
         /\ otbr[o] = Absent \/ otbr[o].reachable # record.reachable
      \/ OwingOf(events) = {} /\ otbr[o] # Absent /\ otbr[o].reachable = record.reachable
  <2>1. CASE otbr[o] = Absent
    BY <1>2, <2>1
  <2>2. CASE otbr[o] # Absent
    <3>1. otbr[o].reachable \in BOOLEAN
      BY <1>1, <2>2 DEF Otbr
    <3> QED
      BY <1>2, <2>2, <3>1, Owed DEF Reachable
  <2> QED
    BY <2>1, <2>2
<1>4. StoreOtbr(o, record, place, events)
  BY DEF MarkUnreachable
<1> HIDE DEF record, events
<1> QED
  BY <1>2, <1>3, <1>4, OtbrWritten

\* A router that answers.
LEMMA ReachableWritten ==
    ASSUME Types, Types', EventsInStep, toTell = <<>>, NEW o \in left,
           NEW dataset \in Datasets, NEW newRole \in BOOLEAN,
           ApplyReachableState(o, dataset, newRole)
    PROVE  EventsInStep' /\ PresenceStep
<1> DEFINE record == [reachable |-> TRUE, network |-> dataset]
           events == IF Reachable(o) THEN Changes(o, dataset, newRole)
                     ELSE <<Transition(o, "up")>>
<1>1. o \in Otbrs /\ otbr \in [Otbrs -> Otbr \cup {Absent}]
  BY DEF Types, TypeOK
<1>2. record \in Otbr /\ record.reachable = TRUE
  BY DEF Otbr
<1>3. \/ /\ events = <<Transition(o, IF record.reachable THEN "up" ELSE "down")>>
         /\ otbr[o] = Absent \/ otbr[o].reachable # record.reachable
      \/ OwingOf(events) = {} /\ otbr[o] # Absent /\ otbr[o].reachable = record.reachable
  <2>1. CASE otbr[o] = Absent
    BY <1>2, <2>1 DEF Reachable
  <2>2. CASE otbr[o] # Absent
    <3>1. otbr[o].reachable \in BOOLEAN
      BY <1>1, <2>2 DEF Otbr
    <3> QED
      BY <1>1, <1>2, <2>2, <3>1, Owed DEF Reachable
  <2> QED
    BY <2>1, <2>2
<1>4. StoreOtbr(o, record, "telling", events)
  BY DEF ApplyReachableState
<1> HIDE DEF record, events
<1> QED
  BY <1>2, <1>3, <1>4, OtbrWritten

\* The sync of the networks.
LEMMA SyncWritten ==
    ASSUME Types, Types', EventsInStep, NEW n \in Networks, NetworkSeen(n) \/ NetworkLost(n)
    PROVE  EventsInStep' /\ PresenceStep
<1>1. net \in [Networks -> Network \cup {Absent}]
  BY DEF Types, TypeOK
<1>2. net[n] # Absent => net[n].visible \in BOOLEAN
  BY <1>1 DEF Network
<1>3. CASE NetworkSeen(n)
  <2> DEFINE record == [visible |-> TRUE, primary |-> classify_primary_network(n),
                        routers |-> seenBy[n]]
             events == IF Visible(n) THEN <<>> ELSE <<Transition(n, "up")>>
  <2>1. record \in Network /\ record.visible = TRUE
    BY DEF Types, TypeOK, Network, classify_primary_network
  <2>2. \/ /\ events = <<Transition(n, IF record.visible THEN "up" ELSE "down")>>
           /\ net[n] = Absent \/ net[n].visible # record.visible
        \/ OwingOf(events) = {} /\ net[n] # Absent /\ net[n].visible = record.visible
    BY <1>2, <2>1, Owed DEF Visible
  <2>3. StoreNetwork(n, record, events)
    BY <1>3 DEF NetworkSeen
  <2> HIDE DEF record, events
  <2> QED
    BY <2>1, <2>2, <2>3, NetworkWritten
<1>4. CASE NetworkLost(n)
  <2> DEFINE record == [net[n] EXCEPT !.visible = FALSE]
             events == <<Transition(n, "down")>>
  <2>1. net[n] # Absent /\ net[n].visible
    BY <1>4 DEF NetworkLost, LostNetworks, Visible
  <2>2. record \in Network /\ record.visible = FALSE
    BY <1>1, <2>1 DEF Network
  <2>3. StoreNetwork(n, record, events)
    BY <1>4 DEF NetworkLost
  <2>4. /\ events = <<Transition(n, IF record.visible THEN "up" ELSE "down")>>
        /\ net[n].visible # record.visible
    BY <2>1, <2>2
  <2> HIDE DEF record, events
  <2> QED
    BY <2>2, <2>3, <2>4, NetworkWritten
<1> QED
  BY <1>3, <1>4

\* An event is told, or suppressed, or storing it fails.
LEMMA Telling ==
    ASSUME Types, EventsInStep, Tell
    PROVE  EventsInStep' /\ PresenceStep
<1>1. toTell \in Seq(Events) /\ toTell # <<>>
  BY DEF Tell, Types, TypeOK
<1>2. UNCHANGED <<otbr, net, otbrRow, netRow>>
  BY DEF Tell
<1>3. Shown' = Shown
  BY <1>2 DEF Shown
<1>4. TellsOfRows /\ RowsAreCaches
  BY DEF EventsInStep
<1>5. CASE toTell' = Tail(toTell) /\ UNCHANGED <<told, faults>>
  <2>1. \A i \in 1..Len(toTell') : i + 1 \in 1..Len(toTell) /\ toTell'[i] = toTell[i + 1]
    BY <1>1, <1>5
  <2>2. Len(toTell') = Len(toTell) - 1 /\ Len(toTell) \in Nat /\ Len(toTell') \in Nat
    BY <1>1, <1>5
  <2>3. \A i \in 1..Len(toTell') : toTell'[i].kind \notin Sides
    BY <1>4, <2>1, <2>2 DEF TellsOfRows
  <2>4. TellsOfRows' /\ Owing' = {}
    BY <2>3 DEF TellsOfRows, Owing
  <2>5. RowsAreCaches'
    BY <1>2, <1>4, <1>5 DEF RowsAreCaches
  <2>6. Presences!GiveUp
    BY <1>3, <1>5, <2>4 DEF Presences!GiveUp
  <2> QED
    BY <2>4, <2>5, <2>6 DEF EventsInStep, PresenceStep, Presences!Next
<1>6. ASSUME NEW e \in Events, e = Head(toTell), toTell' = Tail(toTell), e.kind \in Sides,
             told' = [told EXCEPT ![e.subject] = e.kind], UNCHANGED faults
      PROVE  EventsInStep' /\ PresenceStep
  <2>1. e = toTell[1] /\ 1 \in 1..Len(toTell)
    BY <1>1, <1>6
  <2>2. Len(toTell) = 1 /\ Shown[e.subject] = e.kind
    BY <1>4, <1>6, <2>1 DEF TellsOfRows
  <2>3. e.subject \in Subjects
    BY DEF Events, Subjects
  <2>4. Len(toTell') = 0
    BY <1>1, <1>6, <2>2
  <2>5. TellsOfRows' /\ Owing' = {}
    BY <2>4 DEF TellsOfRows, Owing
  <2>6. RowsAreCaches'
    BY <1>2, <1>4, <1>6 DEF RowsAreCaches
  <2>7. Owing = {e.subject}
    BY <1>6, <2>1, <2>2, <2>3 DEF Owing
  <2>8. Presences!Report(e.subject)
    BY <1>3, <1>6, <2>2, <2>5, <2>7 DEF Presences!Report
  <2> QED
    BY <2>3, <2>5, <2>6, <2>8 DEF EventsInStep, PresenceStep, Presences!Next
<1>7. CASE Raises /\ UNCHANGED told
  BY <1>2, <1>7, FailingStep
<1>8. Head(toTell) \in Events
  BY <1>1
<1> QED
  BY <1>5, <1>6, <1>7, <1>8 DEF Tell

\* Every step of the poll loop is a step of Presence, or none.
LEMMA RefinementStep ==
    ASSUME Types, Types', EventsInStep, [Next]_vars
    PROVE  EventsInStep' /\ PresenceStep
<1>1. at \in {"polling", "raised"} => toTell = <<>>
  BY DEF Types, Leftovers
<1>2. ASSUME NEW o \in Otbrs, PollAnswered(o)
      PROVE  EventsInStep' /\ PresenceStep
  BY <1>1, <1>2, ReachableWritten DEF PollAnswered
<1>3. ASSUME NEW o \in Otbrs, PollRefused(o)
      PROVE  EventsInStep' /\ PresenceStep
  BY <1>1, <1>3, UnreachableWritten DEF PollRefused
<1>4. CASE HandleException
  BY <1>1, <1>4, UnreachableWritten DEF HandleException, Types, RouterInHand, Busy
<1>5. CASE Tell
  BY <1>5, Telling
<1>6. ASSUME NEW n \in Networks, NetworkSeen(n) \/ NetworkLost(n)
      PROVE  EventsInStep' /\ PresenceStep
  BY <1>6, SyncWritten
<1>7. CASE EnrichingRaises \/ CorrelationRaises
  BY <1>7, FailingStep DEF EnrichingRaises, CorrelationRaises, stored
<1>8. ASSUME NEW d \in Devices, PersistDevice(d) \/ PruneDevice(d)
      PROVE  EventsInStep' /\ PresenceStep
  <2>1. CASE Raises
    BY <1>8, <2>1, FailingStep DEF PersistDevice, PruneDevice
  <2>2. CASE ~Raises
    BY <1>8, <2>2, QuietStep DEF PersistDevice, PruneDevice, cached
  <2> QED
    BY <2>1, <2>2
<1>9. CASE NextCycle \/ Restart
  BY <1>9, QuietStep DEF NextCycle, Restart, StartCycle, stored, cached
<1>10. CASE PollDone \/ Enriched
  BY <1>10, QuietStep DEF PollDone, Enriched, EndPoll, stored, cached
<1>11. ASSUME NEW o \in Otbrs, PollGarbled(o) \/ IntervalEnds(o)
       PROVE  EventsInStep' /\ PresenceStep
  BY <1>11, QuietStep DEF PollGarbled, IntervalEnds, stored, cached, task
<1>12. CASE CollectDevices \/ CollectionGarbled \/ DevicesStored \/ DevicesPruned
  BY <1>12, QuietStep DEF CollectDevices, CollectionGarbled, DevicesStored, DevicesPruned,
     stored, cached
<1>13. CASE BeginSync \/ SyncDone \/ CycleEnds
  BY <1>13, QuietStep DEF BeginSync, SyncDone, CycleEnds, stored, cached
<1>14. CASE UNCHANGED vars
  BY <1>14, QuietStep DEF vars, stored, cached, task
<1> QED
  BY <1>2, <1>3, <1>4, <1>5, <1>6, <1>7, <1>8, <1>9, <1>10, <1>11, <1>12, <1>13, <1>14
     DEF Next, PollStep

\* Whatever the routers answer and whenever storage fails or the process ends: the
\* event of a change of a router's reachability or of a network's visibility is stored
\* before the next change of the same subject, or never.
THEOREM ImplementsPresence == Spec => PresenceSpec
<1>1. Init => EventsInStep /\ Presences!Init
  <2> SUFFICES ASSUME Init
               PROVE  EventsInStep /\ Presences!Init
    OBVIOUS
  <2>1. Shown = [s \in Subjects |-> "unknown"]
    BY DEF Init, Shown, Subjects
  <2>2. TellsOfRows /\ Owing = {}
    BY DEF Init, TellsOfRows, Owing
  <2>3. RowsAreCaches
    BY DEF Init, RowsAreCaches
  <2>4. (faults > 0) = FALSE
    BY DEF Init
  <2> QED
    BY <2>1, <2>2, <2>3, <2>4 DEF Init, EventsInStep, Presences!Init
<1>2. IInv /\ IInv' /\ EventsInStep /\ [Next]_vars => EventsInStep' /\ PresenceStep
  BY RefinementStep DEF IInv
<1> QED
  BY <1>1, <1>2, SpecIInv, PTL DEF Spec, PresenceSpec, Presences!Spec, PresenceStep
=============================================================================
