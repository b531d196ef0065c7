---------------------------- MODULE MqttPublisher ----------------------------
(***************************************************************************)
(* The MQTT publisher (mqtt/publisher.py) with discovery enabled, its      *)
(* broker, and what the broker retains.                                    *)
(*                                                                         *)
(* One task connects, says that it is online, and then publishes a         *)
(* snapshot again and again: of each entity its discovery once, by the     *)
(* task's own account, and its state every time.  An exception ends the    *)
(* connection with an attempt to say that it is offline, and the task      *)
(* waits and connects anew; a cancellation ends the task the same way.     *)
(* The delays, attributes and the other topics are left out.               *)
(*                                                                         *)
(* The messages have quality of service 0: one written to a connection     *)
(* that is already dead may be lost without an error.                      *)
(***************************************************************************)
EXTENDS Rows, Sequences, FiniteSetsExt, SequencesExt

CONSTANT Summary    \* the entity made of the report and the nodes' rows

ASSUME PublisherAssumption == Summary \notin Objects

Entities == Objects \cup {Summary}
Nothing == <<>>

VARIABLES
    task,       \* off, connecting, greeting, judging, loading, publishing, sleeping,
                \* leaving or waiting
    stopping,   \* stop has been called
    link,       \* the connection to the broker works
    judgedRows, \* rows the health report was built from
    todo,       \* publications of this cycle that are left
    published,  \* _published_discovery
    broker,     \* what it retains: availability, discovery, state
    parted,     \* history: since it last said online, the task lost a connection,
                \* died, or was cancelled while it said offline
    lost        \* history: entities whose discovery was lost after it was published

publisher == <<task, stopping, link, judgedRows, todo, published, broker, parted, lost>>

PublisherInit ==
    /\ task = "off" /\ stopping = FALSE /\ link = FALSE
    /\ judgedRows = stored /\ todo = <<>> /\ published = {}
    /\ broker = [availability |-> "none", discovery |-> {},
                 state |-> [e \in Entities |-> Nothing]]
    /\ parted = FALSE /\ lost = {}

InSession == {"greeting", "judging", "loading", "publishing", "sleeping"}

Start ==
    /\ task = "off"
    /\ task' = "connecting" /\ stopping' = FALSE /\ published' = {}
    /\ UNCHANGED <<link, judgedRows, todo, broker, parted, lost>>

Connect ==
    /\ task = "connecting"
    /\ task' = "greeting" /\ link' = TRUE
    /\ UNCHANGED <<stopping, judgedRows, todo, published, broker, parted, lost>>

ConnectFails ==
    /\ task = "connecting"
    /\ task' = "waiting"
    /\ UNCHANGED <<stopping, link, judgedRows, todo, published, broker, parted, lost>>

\* A publication that raises no error: it reaches the broker, if the link works.
Arrives(retained) == broker' = IF link THEN retained ELSE broker

Greet ==
    /\ task = "greeting"
    /\ Arrives([broker EXCEPT !.availability = "online"])
    /\ parted' = (parted /\ ~link)
    /\ task' = "judging"
    /\ UNCHANGED <<stopping, link, judgedRows, todo, published, lost>>

\* The snapshot reads the nodes twice: for the report, and to publish them.
BuildReport ==
    /\ task = "judging"
    /\ judgedRows' = stored
    /\ task' = "loading"
    /\ UNCHANGED <<stopping, link, todo, published, broker, parted, lost>>

LoadNodes ==
    /\ task = "loading"
    /\ todo' = <<[entity |-> Summary, state |-> <<judgedRows, stored>>]>>
                   \o SetToSeq({[entity |-> o, state |-> <<stored[o]>>] :
                                   o \in {p \in Objects : stored[p] # 0}})
    /\ task' = "publishing"
    /\ UNCHANGED <<stopping, link, judgedRows, published, broker, parted, lost>>

\* Mutation: the account is made up before the message is sent.
DiscoveryAccountedFirst ==
    /\ task = "publishing" /\ todo # <<>>
    /\ LET e == Head(todo).entity
       IN  /\ e \notin published
           /\ published' = published \cup {e}
           /\ \/ /\ Arrives([broker EXCEPT !.discovery = @ \cup {e}])
                 /\ lost' = IF link THEN lost \ {e} ELSE lost \cup {e}
                 /\ UNCHANGED task
              \/ task' = "leaving" /\ UNCHANGED <<broker, lost>>
    /\ UNCHANGED <<stopping, link, judgedRows, todo, parted>>

PublishDiscovery ==
    /\ task = "publishing" /\ todo # <<>>
    /\ LET e == Head(todo).entity
       IN  /\ e \notin published
           /\ published' = published \cup {e}
           /\ Arrives([broker EXCEPT !.discovery = @ \cup {e}])
           /\ lost' = IF link THEN lost \ {e} ELSE lost \cup {e}
    /\ UNCHANGED <<task, stopping, link, judgedRows, todo, parted>>

PublishState ==
    /\ task = "publishing" /\ todo # <<>>
    /\ LET p == Head(todo)
       IN  /\ p.entity \in published
           /\ Arrives([broker EXCEPT !.state[p.entity] = p.state])
    /\ todo' = Tail(todo)
    /\ UNCHANGED <<task, stopping, link, judgedRows, published, parted, lost>>

CycleDone ==
    /\ task = "publishing" /\ todo = <<>>
    /\ task' = "sleeping"
    /\ UNCHANGED <<stopping, link, judgedRows, todo, published, broker, parted, lost>>

\* Mutation: one cycle is published per connection.
WakeWhenDead ==
    /\ task = "sleeping" /\ ~link
    /\ task' = "judging"
    /\ UNCHANGED <<stopping, link, judgedRows, todo, published, broker, parted, lost>>

Wake ==
    /\ task = "sleeping"
    /\ task' = "judging"
    /\ UNCHANGED <<stopping, link, judgedRows, todo, published, broker, parted, lost>>

\* A publication finds the connection dead.
PublicationFails ==
    /\ task \in {"greeting", "publishing"} /\ ~link
    /\ task' = "leaving" /\ todo' = <<>>
    /\ UNCHANGED <<stopping, link, judgedRows, published, broker, parted, lost>>

SnapshotFails ==
    /\ task \in {"judging", "loading"}
    /\ task' = "leaving" /\ todo' = <<>>
    /\ UNCHANGED <<stopping, link, judgedRows, published, broker, parted, lost>>

\* The finally block, errors suppressed; leaving the transport disconnects.
Leave ==
    /\ task = "leaving"
    /\ Arrives([broker EXCEPT !.availability = "offline"])
    /\ link' = FALSE
    /\ task' = IF stopping THEN "off" ELSE "waiting"
    /\ UNCHANGED <<stopping, judgedRows, todo, published, parted, lost>>

WaitEnds ==
    /\ task = "waiting"
    /\ task' = "connecting"
    /\ UNCHANGED <<stopping, link, judgedRows, todo, published, broker, parted, lost>>

\* Mutation: only an error says offline.
StopSilently ==
    /\ task # "off" /\ ~stopping
    /\ task' = "off" /\ stopping' = TRUE /\ link' = FALSE /\ todo' = <<>>
    /\ UNCHANGED <<judgedRows, published, broker, parted, lost>>

\* The task is cancelled where it waits.  In the finally block of an error, the message
\* may or may not have left.
Stop ==
    /\ task # "off" /\ ~stopping
    /\ stopping' = TRUE /\ todo' = <<>>
    /\ \/ task \in InSession /\ task' = "leaving" /\ UNCHANGED <<link, parted>>
       \/ task \in {"connecting", "waiting"} /\ task' = "off" /\ UNCHANGED <<link, parted>>
       \/ task = "leaving" /\ task' = "off" /\ link' = FALSE /\ parted' = TRUE
    /\ UNCHANGED <<judgedRows, published, broker, lost>>

PublisherDies ==
    /\ task' = "off" /\ link' = FALSE /\ todo' = <<>> /\ parted' = TRUE
    /\ UNCHANGED <<stopping, judgedRows, published, broker, lost>>

LinkBreaks ==
    /\ link
    /\ link' = FALSE /\ parted' = TRUE
    /\ UNCHANGED <<task, stopping, judgedRows, todo, published, broker, lost>>

\* A broker that restarts without persistence keeps nothing.
BrokerForgets ==
    /\ link' = FALSE /\ parted' = TRUE
    /\ broker' = [availability |-> "none", discovery |-> {},
                  state |-> [e \in Entities |-> Nothing]]
    /\ lost' = broker.discovery \cup lost
    /\ UNCHANGED <<task, stopping, judgedRows, todo, published>>

PublisherWorks ==
    \/ Connect \/ Greet \/ BuildReport \/ LoadNodes \/ PublishDiscovery \/ PublishState
    \/ CycleDone \/ Wake \/ Leave \/ WaitEnds

PublisherDisturbed ==
    Start \/ ConnectFails \/ SnapshotFails \/ Stop \/ LinkBreaks \/ BrokerForgets

-----------------------------------------------------------------------------
(* Properties.                                                             *)

\* Home Assistant can show every state the broker retains: its discovery is there too,
\* unless it was lost after the task had taken it as published.
StatesAreDiscoverable ==
    \A e \in Entities :
        broker.state[e] # Nothing => e \in broker.discovery \/ e \in lost

\* When the task has ended, the broker does not say that ThreadLens is online, unless
\* the task lost its connection, was killed, or was stopped in the middle of saying so.
EndedIsOffline == task = "off" /\ broker.availability = "online" => parted
=============================================================================
