---------------------------- MODULE OtbrPolling ----------------------------
(***************************************************************************)
(* The poll loop of the OTBR collector (collectors/otbr_rest.py): each     *)
(* cycle asks every configured border router in turn, stores what it       *)
(* answers or that it does not, collects its device inventory when that is *)
(* due, and then brings the Thread networks and the verdicts of the TREL   *)
(* services in line with the answers.                                      *)
(*                                                                         *)
(* One task does all of it, so what can go wrong lies between its awaits:  *)
(* the process may end, a storage call may raise, a body may not be what   *)
(* its reader expects.  An action is the code up to the next statement     *)
(* sent to storage; the statement takes effect in it, or raises.           *)
(*                                                                         *)
(* A border router's dataset (extended PAN id, channel, name, PAN id) is   *)
(* the network it reports; polls are independent, so the order of the      *)
(* configured list is left open.  TREL verdicts and the correlation with   *)
(* Matter nodes are in Discovery and MatterNodes: here they are places     *)
(* where storage may raise.                                                *)
(***************************************************************************)
EXTENDS Naturals, Sequences

CONSTANTS
    Otbrs,      \* ids of border routers that some configuration lists
    Networks,   \* extended PAN ids
    NoNetwork,  \* a dataset without one
    Devices,    \* extended addresses in a device inventory
    NoOtbr,
    CollectsDevices, \* otbr.allow_read_only_actions
    MaxFaults   \* storage failures (bound)

ASSUME PollingAssumption ==
    /\ NoNetwork \notin Networks /\ NoOtbr \notin Otbrs
    /\ Otbrs \cap Networks = {}
    /\ CollectsDevices \in BOOLEAN /\ MaxFaults \in Nat

VARIABLES
    configured, \* the otbrs of the configuration the process was started with
    otbr,       \* _known_otbrs
    otbrRow,    \* the otbr rows
    net,        \* _known_networks
    netRow,     \* the thread_network rows
    device,     \* the thread_device rows
    collected,  \* routers whose _last_device_collection_at is within the interval
    recent,     \* EventDebouncer: transitions sent before, whose window may be open
    told        \* the side named by the last stored event of a router or a network

VARIABLES
    at,         \* where the poll task is
    cur,        \* the router being polled
    left,       \* routers still to poll in this cycle
    toTell,     \* events to emit once the current await returns
    inventory,  \* the device inventory being stored
    toStore,    \* its devices without a row yet
    seenBy,     \* configured_ext_pan_ids: the routers that reported each network
    toSee,      \* networks still to upsert in this cycle
    faults

VARIABLES
    answered,   \* history: routers whose /api/node was good in this cycle
    spoilt,     \* history: those of them whose poll raised after that
    last,       \* history: the last inventory read completely, per router
    torn        \* history: routers whose last inventory was not stored completely

stored == <<otbrRow, netRow, device, told>>
cached == <<otbr, net, collected, recent>>
task == <<at, cur, left, toTell, inventory, toStore, seenBy, toSee>>
history == <<answered, spoilt, last, torn>>
vars == <<configured, stored, cached, task, faults, history>>

Subjects == Otbrs \cup Networks
Sides == {"up", "down"}
Datasets == Networks \cup {NoNetwork}

Absent == [none |-> TRUE]
Otbr == [reachable : BOOLEAN, network : Datasets]
Network == [visible : BOOLEAN, primary : BOOLEAN, routers : SUBSET Otbrs]

\* A transition names the side; the other events of a router are its change of
\* role and its change of dataset.
Events == [subject : Subjects, kind : Sides] \cup [subject : Otbrs, kind : {"role", "dataset"}]
Transition(s, side) == [subject |-> s, kind |-> side]

\* telling: the writes of a reachable router; persisting, pruning: its inventory;
\* enriching: apply_thread_identity_correlation; raised: in the except clause of
\* poll_all; marking, handling: _mark_unreachable called by poll_one, by the except
\* clause; syncing: _sync_thread_networks; correlating: _correlate_trel_services.
InPoll == {"telling", "persisting", "pruning", "enriching", "marking"}
Places == InPoll \cup {"sleeping", "polling", "raised", "handling", "syncing",
                       "correlating", "dead"}

NobodySaw == [n \in Networks |-> {}]
Reported == {n \in Networks : seenBy[n] # {}}

TypeOK ==
    /\ configured \subseteq Otbrs /\ configured # {}
    /\ otbr \in [Otbrs -> Otbr \cup {Absent}] /\ otbrRow \in [Otbrs -> Otbr \cup {Absent}]
    /\ net \in [Networks -> Network \cup {Absent}]
    /\ netRow \in [Networks -> Network \cup {Absent}]
    /\ device \in [Otbrs -> SUBSET Devices] /\ collected \subseteq Otbrs
    /\ recent \subseteq [subject : Subjects, kind : Sides]
    /\ told \in [Subjects -> Sides \cup {"unknown"}]
    /\ at \in Places /\ cur \in Otbrs \cup {NoOtbr} /\ left \subseteq configured
    /\ toTell \in Seq(Events)
    /\ inventory \subseteq Devices /\ toStore \subseteq inventory
    /\ seenBy \in [Networks -> SUBSET configured] /\ toSee \subseteq Reported
    /\ faults \in 0..MaxFaults
    /\ answered \subseteq configured /\ spoilt \subseteq answered
    /\ last \in [Otbrs -> SUBSET Devices] /\ torn \subseteq Otbrs

StartCycle(routers) ==
    /\ at' = "polling" /\ left' = routers /\ cur' = NoOtbr
    /\ toTell' = <<>> /\ inventory' = {} /\ toStore' = {}
    /\ seenBy' = NobodySaw /\ toSee' = {}
    /\ answered' = {} /\ spoilt' = {}

Init ==
    /\ configured \in (SUBSET Otbrs) \ {{}}
    /\ otbr = [o \in Otbrs |-> Absent] /\ otbrRow = otbr
    /\ net = [n \in Networks |-> Absent] /\ netRow = net
    /\ device = [o \in Otbrs |-> {}] /\ collected = {} /\ recent = {}
    /\ told = [s \in Subjects |-> "unknown"]
    /\ at = "polling" /\ left = configured /\ cur = NoOtbr /\ toTell = <<>>
    /\ inventory = {} /\ toStore = {} /\ seenBy = NobodySaw /\ toSee = {}
    /\ faults = 0
    /\ answered = {} /\ spoilt = {} /\ last = device /\ torn = {}

Reachable(o) == otbr[o] # Absent /\ otbr[o].reachable
Visible(n) == net[n] # Absent /\ net[n].visible

-----------------------------------------------------------------------------
(* Storage calls that raise.                                               *)

\* poll_all catches what a poll raises; nothing catches what _mark_unreachable
\* raises in its except clause, or the two steps after the polls.
Raises ==
    /\ faults < MaxFaults /\ faults' = faults + 1
    /\ at' = IF at \in InPoll \cup {"polling"} THEN "raised" ELSE "dead"
    /\ toTell' = <<>> /\ toStore' = {}
    /\ UNCHANGED <<left, inventory, seenBy, toSee>>

\* Storing router o's record and then telling events, or failing to.
StoreOtbr(o, record, place, events) ==
    /\ otbr' = [otbr EXCEPT ![o] = record]
    /\ cur' = o
    /\ \/ /\ otbrRow' = [otbrRow EXCEPT ![o] = record]
          /\ at' = place /\ toTell' = events
          /\ UNCHANGED <<left, inventory, toStore, seenBy, toSee, faults>>
       \/ Raises /\ UNCHANGED otbrRow
    /\ UNCHANGED <<configured, net, netRow, device, collected, recent, told, last, torn>>

-----------------------------------------------------------------------------
(* Polling one border router.                                              *)

\* The event of a router that was already reachable, if its role or dataset is new.
Changes(o, dataset, newRole) ==
    (IF newRole THEN <<[subject |-> o, kind |-> "role"]>> ELSE <<>>)
    \o (IF dataset # otbr[o].network THEN <<[subject |-> o, kind |-> "dataset"]>> ELSE <<>>)

ApplyReachableState(o, dataset, newRole) ==
    StoreOtbr(o, [reachable |-> TRUE, network |-> dataset], "telling",
              IF Reachable(o) THEN Changes(o, dataset, newRole)
              ELSE <<Transition(o, "up")>>)

\* Mutation: every failed poll tells of the router again.
MarkUnreachableAgain(o, place) ==
    StoreOtbr(o, [reachable |-> FALSE,
                  network |-> IF otbr[o] = Absent THEN NoNetwork ELSE otbr[o].network],
              place, <<Transition(o, "down")>>)

\* Mutation: a known router's record is copied without the new reachability.
MarkUnreachableKeeps(o, place) ==
    StoreOtbr(o, IF otbr[o] = Absent THEN [reachable |-> FALSE, network |-> NoNetwork]
                 ELSE otbr[o],
              place,
              IF otbr[o] = Absent \/ Reachable(o) THEN <<Transition(o, "down")>> ELSE <<>>)

\* The record keeps its dataset; the event is for a router reachable until now, or
\* never seen.
MarkUnreachable(o, place) ==
    StoreOtbr(o, [reachable |-> FALSE,
                  network |-> IF otbr[o] = Absent THEN NoNetwork ELSE otbr[o].network],
              place,
              IF otbr[o] = Absent \/ Reachable(o) THEN <<Transition(o, "down")>> ELSE <<>>)

\* /api/node answers, /api/devices and /node do or fail, and what came back is
\* readable.
PollAnswered(o) ==
    /\ at = "polling" /\ o \in left
    /\ \E dataset \in Datasets, newRole \in BOOLEAN : ApplyReachableState(o, dataset, newRole)
    /\ answered' = answered \cup {o}
    /\ spoilt' = IF at' = "raised" THEN spoilt \cup {o} ELSE spoilt

\* /api/node raises an HTTPError or answers with another status.
PollRefused(o) ==
    /\ at = "polling" /\ o \in left
    /\ MarkUnreachable(o, "marking")
    /\ UNCHANGED <<answered, spoilt>>

\* A body that is not JSON, or not of the expected types, raises no HTTPError.
PollGarbled(o) ==
    /\ at = "polling" /\ o \in left
    /\ at' = "raised" /\ cur' = o
    /\ UNCHANGED <<configured, stored, cached, left, toTell, inventory, toStore, seenBy,
                   toSee, faults, history>>

HandleException ==
    /\ at = "raised"
    /\ MarkUnreachable(cur, "handling")
    /\ UNCHANGED <<answered, spoilt>>

\* An exception raised while router cur was being polled.
Spoil == spoilt' = spoilt \cup (answered \cap {cur})

\* should_emit may be false.
Suppressible(e) == e.kind \in Sides => e \in recent

\* An event, or its suppression.  The keys of role and dataset events are not kept:
\* nothing but further events of the kind depends on them.
Tell ==
    /\ toTell # <<>>
    /\ LET e == Head(toTell) IN
       \/ /\ toTell' = Tail(toTell)
          /\ \/ Suppressible(e) /\ UNCHANGED <<recent, told>>
             \/ /\ e.kind \in Sides
                /\ recent' = recent \cup {e}
                /\ told' = [told EXCEPT ![e.subject] = e.kind]
          /\ UNCHANGED <<at, left, inventory, toStore, seenBy, toSee, faults, spoilt>>
       \/ /\ Raises
          /\ recent' = IF e.kind \in Sides THEN recent \cup {e} ELSE recent
          /\ IF at' = "raised" THEN Spoil ELSE UNCHANGED spoilt
          /\ UNCHANGED told
    /\ UNCHANGED <<configured, otbr, net, collected, otbrRow, netRow, device, cur,
                   answered, last, torn>>

\* poll_all takes the result: the record as the poll left it.
EndPoll ==
    /\ at' = "polling" /\ left' = left \ {cur} /\ cur' = NoOtbr
    /\ seenBy' = [n \in Networks |->
                     IF Reachable(cur) /\ otbr[cur].network = n THEN seenBy[n] \cup {cur}
                     ELSE seenBy[n]]
    /\ UNCHANGED <<configured, stored, cached, toTell, inventory, toStore, toSee, faults,
                   history>>

PollDone ==
    /\ at \in {"telling", "marking", "handling"} /\ toTell = <<>>
    /\ EndPoll

-----------------------------------------------------------------------------
(* The device inventory.                                                   *)

CollectionDue ==
    /\ at = "telling" /\ toTell = <<>>
    /\ CollectsDevices /\ cur \notin collected

\* The action completes and the devices are read.
CollectDevices ==
    /\ CollectionDue
    /\ \E devices \in SUBSET Devices :
           /\ inventory' = devices /\ toStore' = devices
           /\ last' = [last EXCEPT ![cur] = devices]
    /\ at' = "persisting" /\ torn' = torn \cup {cur}
    /\ UNCHANGED <<configured, stored, cached, cur, left, toTell, seenBy, toSee, faults,
                   answered, spoilt>>

\* A body that is not JSON in one of its three requests.
CollectionGarbled ==
    /\ CollectionDue
    /\ at' = "raised" /\ Spoil
    /\ UNCHANGED <<configured, stored, cached, cur, left, toTell, inventory, toStore, seenBy,
                   toSee, faults, answered, last, torn>>

PersistDevice(d) ==
    /\ at = "persisting" /\ d \in toStore
    /\ \/ /\ device' = [device EXCEPT ![cur] = @ \cup {d}]
          /\ toStore' = toStore \ {d}
          /\ UNCHANGED <<at, left, toTell, inventory, seenBy, toSee, faults, spoilt>>
       \/ Raises /\ Spoil /\ UNCHANGED device
    /\ UNCHANGED <<configured, otbrRow, netRow, told, cached, cur, answered, last, torn>>

\* All stored: the rows are listed.
DevicesStored ==
    /\ at = "persisting" /\ toStore = {}
    /\ at' = "pruning"
    /\ UNCHANGED <<configured, stored, cached, cur, left, toTell, inventory, toStore, seenBy,
                   toSee, faults, history>>

\* Mutation: rows are never deleted.
NothingStale == {}

\* Rows of this router the inventory does not list.
StaleDevices == device[cur] \ inventory

PruneDevice(d) ==
    /\ at = "pruning" /\ d \in StaleDevices
    /\ \/ /\ device' = [device EXCEPT ![cur] = @ \ {d}]
          /\ UNCHANGED <<at, left, toTell, inventory, toStore, seenBy, toSee, faults, spoilt>>
       \/ Raises /\ Spoil /\ UNCHANGED device
    /\ UNCHANGED <<configured, otbrRow, netRow, told, cached, cur, answered, last, torn>>

\* The time of the collection is noted before its result reaches the Matter nodes.
DevicesPruned ==
    /\ at = "pruning" /\ StaleDevices = {}
    /\ collected' = collected \cup {cur} /\ torn' = torn \ {cur}
    /\ at' = "enriching" /\ inventory' = {}
    /\ UNCHANGED <<configured, stored, otbr, net, recent, cur, left, toTell, toStore, seenBy,
                   toSee, faults, answered, spoilt, last>>

Enriched == at = "enriching" /\ EndPoll

EnrichingRaises ==
    /\ at = "enriching"
    /\ Raises /\ Spoil
    /\ UNCHANGED <<configured, stored, cached, cur, answered, last, torn>>

IntervalEnds(o) ==
    /\ o \in collected /\ collected' = collected \ {o}
    /\ UNCHANGED <<configured, stored, otbr, net, recent, task, faults, history>>

-----------------------------------------------------------------------------
(* After the polls.                                                        *)

\* The only configured network is the primary one; of several none is.
classify_primary_network(n) == Reported = {n}

\* Mutation: every known or unknown network is taken for a reported one.
BeginSyncOfAll ==
    /\ at = "polling" /\ left = {}
    /\ at' = "syncing" /\ toSee' = Networks
    /\ UNCHANGED <<configured, stored, cached, cur, left, toTell, inventory, toStore, seenBy,
                   faults, history>>

BeginSync ==
    /\ at = "polling" /\ left = {}
    /\ at' = "syncing" /\ toSee' = Reported
    /\ UNCHANGED <<configured, stored, cached, cur, left, toTell, inventory, toStore, seenBy,
                   faults, history>>

\* Storing network n's record and then telling events, or failing to.
StoreNetwork(n, record, events) ==
    /\ at = "syncing" /\ toTell = <<>>
    /\ net' = [net EXCEPT ![n] = record]
    /\ \/ /\ netRow' = [netRow EXCEPT ![n] = record]
          /\ toTell' = events
          /\ UNCHANGED <<at, left, inventory, toStore, seenBy, faults>>
          /\ toSee' = toSee \ {n}
       \/ Raises /\ UNCHANGED netRow
    /\ UNCHANGED <<configured, otbr, otbrRow, device, collected, recent, told, cur, history>>

NetworkSeen(n) ==
    /\ n \in toSee
    /\ StoreNetwork(n, [visible |-> TRUE, primary |-> classify_primary_network(n),
                        routers |-> seenBy[n]],
                    IF Visible(n) THEN <<>> ELSE <<Transition(n, "up")>>)

\* Mutation: a network is lost only when no router at all reported one.
LostWhenNoneReported == {n \in Networks : Visible(n) /\ Reported = {}}

LostNetworks == {n \in Networks : Visible(n) /\ n \notin Reported}

NetworkLost(n) ==
    /\ toSee = {} /\ n \in LostNetworks
    /\ StoreNetwork(n, [net[n] EXCEPT !.visible = FALSE], <<Transition(n, "down")>>)

SyncDone ==
    /\ at = "syncing" /\ toTell = <<>> /\ toSee = {} /\ LostNetworks = {}
    /\ at' = "correlating"
    /\ UNCHANGED <<configured, stored, cached, cur, left, toTell, inventory, toStore, seenBy,
                   toSee, faults, history>>

\* Mutation: the loop ends after its first cycle.
CycleEndsLoop ==
    /\ at = "correlating"
    /\ at' = "dead"
    /\ UNCHANGED <<configured, stored, cached, cur, left, toTell, inventory, toStore, seenBy,
                   toSee, faults, history>>

CycleEnds ==
    /\ at = "correlating"
    /\ at' = "sleeping"
    /\ UNCHANGED <<configured, stored, cached, cur, left, toTell, inventory, toStore, seenBy,
                   toSee, faults, history>>

CorrelationRaises ==
    /\ at = "correlating"
    /\ Raises
    /\ UNCHANGED <<configured, stored, cached, cur, history>>

NextCycle ==
    /\ at = "sleeping"
    /\ StartCycle(configured)
    /\ UNCHANGED <<configured, stored, cached, faults, last, torn>>

\* The process ends, at any await, and starts again, perhaps with other routers in
\* its configuration: _load_cache reads the rows, and the loop begins.
Restart ==
    /\ configured' \in (SUBSET Otbrs) \ {{}}
    /\ otbr' = otbrRow /\ net' = netRow /\ collected' = {} /\ recent' = {}
    /\ StartCycle(configured')
    /\ UNCHANGED <<stored, faults, last, torn>>

PollStep ==
    \/ \E o \in Otbrs : PollAnswered(o) \/ PollRefused(o) \/ PollGarbled(o)
    \/ HandleException \/ Tell \/ PollDone
    \/ CollectDevices \/ CollectionGarbled
    \/ \E d \in Devices : PersistDevice(d) \/ PruneDevice(d)
    \/ DevicesStored \/ DevicesPruned \/ Enriched \/ EnrichingRaises
    \/ BeginSync \/ (\E n \in Networks : NetworkSeen(n) \/ NetworkLost(n))
    \/ SyncDone \/ CycleEnds \/ CorrelationRaises \/ NextCycle

Next == PollStep \/ (\E o \in Otbrs : IntervalEnds(o)) \/ Restart

Spec == Init /\ [][Next]_vars

\* The event loop runs the poll task: every request and every wait for an action
\* has a timeout, and storage calls return or raise.
FairSpec == Spec /\ WF_vars(PollStep)

-----------------------------------------------------------------------------
(* Properties.                                                             *)

\* Between two cycles the networks shown are those the reachable configured routers
\* report, with these routers as their sources, and a network is primary exactly
\* when it is the only one: whatever the cycle found, restarts, changes of the
\* configuration and events included.
NetworksMatchRouters ==
    at = "sleeping" =>
        \A n \in Networks :
            LET sources == {o \in configured : Reachable(o) /\ otbr[o].network = n}
            IN  /\ Visible(n) <=> sources # {}
                /\ Visible(n) => /\ net[n].routers = sources
                                 /\ net[n].primary <=>
                                       \A o \in configured : Reachable(o) =>
                                           otbr[o].network \in {n, NoNetwork}

\* Between two cycles a configured router counts as reachable exactly when it
\* answered in the last one; except one whose poll raised after that, on a garbled
\* inventory or a storage failure.
AnsweredIsReachable ==
    at = "sleeping" =>
        \A o \in configured \ spoilt : Reachable(o) <=> o \in answered

\* The thread_device rows of a router are its last inventory, whatever other routers
\* list and in whatever order they are collected, unless storing it was cut short.
DevicesAreLastInventory ==
    \A o \in Otbrs \ torn : device[o] = last[o]

Shown ==
    [s \in Subjects |->
        IF s \in Otbrs
        THEN IF otbrRow[s] = Absent THEN "unknown"
             ELSE IF otbrRow[s].reachable THEN "up" ELSE "down"
        ELSE IF netRow[s] = Absent THEN "unknown"
             ELSE IF netRow[s].visible THEN "up" ELSE "down"]

Owing == {s \in Subjects : \E i \in 1..Len(toTell) : toTell[i].subject = s /\ toTell[i].kind \in Sides}

Presences == INSTANCE Presence WITH
    Subjects <- Subjects, shown <- Shown, owed <- Owing, told <- told, failed <- faults > 0

\* Each change of a router's reachability or of a network's visibility is followed
\* by its own event before the next change, or by none.
PresenceSpec == Presences!Spec

\* Unless the process keeps being restarted, cycles keep coming to their end, or a
\* storage failure has ended the loop.
KeepsPolling ==
    <>[][~Restart]_vars => []<>(at = "sleeping" \/ (at = "dead" /\ faults > 0))
=============================================================================
