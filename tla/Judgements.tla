----------------------------- MODULE Judgements -----------------------------
(***************************************************************************)
(* What a user is told, composed: one node with its probes (NodeSignals),  *)
(* in a world of routers, servers and services as their rows describe it,  *)
(* judged by the engine (HealthRules) and presented twice (Presentation).  *)
(*                                                                         *)
(* Verdicts depend on present rows only, so the world stands still while   *)
(* the node lives.  A report reads its tables one after another; the rows  *)
(* it finds are such a world, if not one that held at any one moment.      *)
(***************************************************************************)
EXTENDS NodeSignals, Presentation

CONSTANTS
    Worlds,         \* environments a report may find
    LivedWorlds,    \* those of them in which the node's life is followed (bound)
    Records,        \* records the node may have in the others
    Answers         \* bodies router "a" may have answered with

\* Rows of a router and a server, what a report finds, and the record of a node.
OtbrFields ==
    {"reachable", "thread_state", "role", "network", "source", "json_state", "legacy_state",
     "mismatch"}
ServerFields == {"connected", "inventory", "availability", "unavailable"}

World(w) ==
    /\ DOMAIN w = {"configured", "rows", "roleChanges", "servers", "serverRows", "networks",
                   "mdns", "mdnsFlaps", "trelFlaps", "foreignTrel", "logged", "relevant"}
    /\ "a" \in DOMAIN w.rows /\ w.configured \subseteq DOMAIN w.rows
    /\ \A o \in DOMAIN w.rows :
           w.rows[o] = Absent \/ (DOMAIN w.rows[o] = OtbrFields /\ w.rows[o].mismatch \in BOOLEAN)
    /\ "s" \in DOMAIN w.serverRows /\ w.servers \subseteq DOMAIN w.serverRows
    /\ \A s \in DOMAIN w.serverRows :
           \/ w.serverRows[s] = Absent
           \/ /\ DOMAIN w.serverRows[s] = ServerFields
              /\ w.serverRows[s].connected \in BOOLEAN
    /\ w.mdns.degraded \in {"no", Null}    \* no observer says that it is degraded

Recorded(n) ==
    /\ n \in NodeRecord /\ IsFiniteSet(n.keys)
    /\ n.limited => n.ok # "yes"
    /\ n.ok = "yes" => n.path \in Paths \ n.unsupported

ASSUME JudgementAssumption ==
    /\ LivedWorlds \subseteq Worlds /\ \A w \in Worlds : World(w)
    /\ \A n \in Records : Recorded(n)
    /\ Critical = Flapping.unavailable_critical

VARIABLES
    world,
    answers     \* what router "a" answered in its last poll, if that matters

NoAnswers == [node |-> Unanswered, devices |-> Unanswered, legacy |-> Unanswered]

judged == <<vars, world, answers>>

\* A world with the row a poll of router "a" would store, the worlds with a node that
\* stands still, and those with a node that lives.
JudgeInit ==
    \/ /\ answers \in Answers
       /\ \E w \in LivedWorlds :
              world = [w EXCEPT !.rows["a"] =
                          Row(answers.node, answers.devices, answers.legacy)]
       /\ mode \in Modes /\ run = Idle /\ replanned = FALSE
       /\ node = Fresh /\ log = [k \in Kinds |-> 0] /\ outage = 0
    \/ /\ answers = NoAnswers
       /\ world \in Worlds \ LivedWorlds
       /\ mode \in Modes /\ run = Idle /\ replanned = TRUE
       /\ node \in Records
       /\ log = [[k \in Kinds |-> 0] EXCEPT !.down = node.flaps]
       /\ outage = node.down
    \/ /\ answers = NoAnswers
       /\ world \in LivedWorlds
       /\ Init

JudgeNext ==
    /\ world \in LivedWorlds /\ answers = NoAnswers
    /\ SignalsNext
    /\ UNCHANGED <<world, answers>>

Spec == JudgeInit /\ [][JudgeNext]_judged

-----------------------------------------------------------------------------
(* The report's view.                                                      *)

Server == "s"

NodeRow ==
    [f \in DOMAIN node \cup {"server", "transitions"} |->
        CASE f = "server" -> Server
          [] f = "transitions" -> log.down + log.up
          [] OTHER -> node[f]]

\* A server's row counts its unavailable nodes, and a server without a row has none.
Seen ==
    IF world.serverRows[Server] = Absent THEN world
    ELSE [world EXCEPT !.serverRows[Server].unavailable = IF node.available THEN 0 ELSE 1]

NodeRows == IF world.serverRows[Server] = Absent THEN {} ELSE {NodeRow}

Verdicts == Statuses(Seen, NodeRows)
Report == build_report(Seen, NodeRows)
Overall == overall_health(Seen, NodeRows)
Incident == build_incident_summary(Seen, NodeRows)
Engine == NodeVerdict(Seen, NodeRow)
Class == classify_matter_node(NodeRow)
Bucket == node_lens_bucket(NodeRow)

Observable == AvailabilityObservable(world.serverRows[Server])

-----------------------------------------------------------------------------
(* Properties.                                                             *)

\* The dashboard's class of a node, its bucket in MQTT and the engine's verdict were
\* written apart over the same record, and agree as far as this: on unavailability; a
\* node that needs attention is unstable and at least degraded; one the engine finds
\* healthy is not called unstable for its probes; one the dashboard finds healthy has
\* nothing against it but a failed read among successes or a failed ping.
ViewsAgree ==
    Observable =>
        /\ (Class = "unavailable") <=> ~node.available
        /\ (Bucket = "unavailable") <=> (Class = "unavailable")
        /\ (Class = "unavailable") => Severe(Engine.state)
        /\ (Class = "needs_attention") => Bucket = "recently_unstable" /\ Severe(Engine.state)
        /\ (Engine.state = "healthy") =>
               /\ Bucket \in {"healthy", "diagnostics_limited"}
               /\ (Class = "recently_unstable") => availability_unstable(NodeRow)
        /\ (Class = "healthy") =>
               Engine.reasons \subseteq {"matter_node_read_probe_failures_24h",
                                         "matter_node_ping_probe_failed"}

\* The header says healthy only when every verdict is healthy, or when the worst of
\* them are warnings a user need not act on: foreign TREL services, and routers whose
\* endpoints disagree while one of them names an active state.  These hide verdicts
\* that are unknown, and nothing worse.
DisplayedHealthIsEarned ==
    LET informational == {v \in Verdicts :
                             /\ v.state = "warning"
                             /\ v.reasons \subseteq {"foreign_trel_services_observed", MISMATCH}}
    IN  Overall = "healthy" =>
            /\ \A v \in Verdicts \ informational : v.state \in {"healthy", "unknown"}
            /\ (\E v \in Verdicts : v.state = "unknown") => informational # {}
            /\ \A o \in world.configured :
                   MISMATCH \in OtbrVerdict(Seen, o).reasons =>
                       effective_state(world.rows[o]) # Null

\* The dashboard and the engine grow alarmed together.  Whatever the engine finds
\* critical is an incident, except that one of several servers is disconnected, or
\* that nothing but servers has ever been seen.  An incident is degraded or critical to
\* the engine too, unless it is about a router or server that is not configured, a
\* reachable router without a known role, or a node whose availability cannot be
\* observed.
IncidentCoversCritical ==
    /\ Report.state = "critical" =>
           \/ Incident = "incident"
           \/ \E s, t \in Servers(world) :
                  world.serverRows[s].connected # world.serverRows[t].connected
           \/ NodeRows = {} /\ Rows(world) = {} /\ ~world.relevant
    /\ Incident = "incident" =>
           \/ Severe(Report.state)
           \/ \E o \in Rows(world) :
                  \/ o \notin world.configured
                  \/ world.rows[o].reachable /\ effective_state(world.rows[o]) = Null
           \/ \E s \in Servers(world) : s \notin world.servers
           \/ ~Observable

\* A router that runs Thread by its legacy endpoint is shown in the state it gives
\* there, whatever the other two say, unless they say nothing about the stack.
LiveStackIsBelieved ==
    answers # NoAnswers =>
        LET row == world.rows["a"]
        IN  row.legacy_state \in OperationalRoles /\ row.json_state # Null =>
                row.thread_state = row.legacy_state

\* A router is shown in a state that it reported of itself, at /api/node or at /node.
\* Another device of its network, which may come first in /api/devices, lends it one
\* only when /api/node gives no role that is active.
EffectiveStateIsOwn ==
    answers # NoAnswers =>
        LET row == world.rows["a"]
            own == UNION {{parse_role(body), parse_thread_state(body)} :
                              body \in {answers.node, answers.legacy}}
        IN  \/ effective_state(row) \in own \cup {Null}
            \/ parse_role(answers.node) \in INACTIVE_STATES

\* A node that has been unavailable for the configured number of minutes is critical.
LongOutageIsCritical ==
    Observable /\ ~node.available /\ outage >= Critical => Engine.state = "critical"
=============================================================================
