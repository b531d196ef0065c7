----------------------------- MODULE HealthRules -----------------------------
(***************************************************************************)
(* The health engine (health/engine.py) and its rollup (health/rollup.py): *)
(* the verdict on every router, server and node, and on the environment,   *)
(* from the rows it loads.                                                 *)
(*                                                                         *)
(* A verdict is a state and the set of its reasons.  Counts of events are  *)
(* given; Flapping holds the configured thresholds.  A Thread network the  *)
(* poll loop stores is primary or unknown, so the verdicts on networks     *)
(* never reach the environment and are left out; so are the counts of the  *)
(* summary.                                                                *)
(*                                                                         *)
(* world is what the engine loads besides the nodes:                       *)
(*   configured, rows     router ids of the configuration; a row per router*)
(*   roleChanges          role events per router in the last hour          *)
(*   servers, serverRows  the same of Matter servers                       *)
(*   networks             the classes of the visible networks              *)
(*   mdns                 enabled, running, degraded ("yes", "no", Null)   *)
(*   mdnsFlaps, trelFlaps, foreignTrel                                     *)
(*   logged               whether there are events of the last 24 hours    *)
(***************************************************************************)
EXTENDS OtbrReadings, FiniteSets

CONSTANT Flapping

ASSUME HealthAssumption ==
    Flapping \in [{"role_warning", "role_degraded", "availability_warning",
                   "availability_degraded", "probe_warning", "probe_degraded",
                   "service_warning", "service_degraded", "unavailable_critical"} -> Nat]

-----------------------------------------------------------------------------
(* Rollup.                                                                 *)

STATE_RANK == [critical |-> 0, degraded |-> 1, warning |-> 2, unknown |-> 3, healthy |-> 4]
HealthStates == DOMAIN STATE_RANK

Verdict(state, reason) == [state |-> state, reasons |-> {reason}]
Healthy == [state |-> "healthy", reasons |-> {}]

pick_worst(states) == CHOOSE s \in states : \A t \in states : STATE_RANK[s] <= STATE_RANK[t]

\* Mutation: the last of the states wins a comparison it should lose.
MergeToMildest(statuses) ==
    LET mildest == CHOOSE s \in {v.state : v \in statuses} :
                       \A v \in statuses : STATE_RANK[s] >= STATE_RANK[v.state]
    IN  [state |-> mildest,
         reasons |-> UNION {v.reasons : v \in {w \in statuses : w.state = mildest}}]

\* The worst state, with the reasons of those that are in it.
merge_health(statuses) ==
    IF statuses = {} THEN Verdict("unknown", "insufficient_data")
    ELSE LET worst == pick_worst({v.state : v \in statuses})
         IN  [state |-> worst,
              reasons |-> UNION {v.reasons : v \in {w \in statuses : w.state = worst}}]

\* A rule that applies or not, a count against its two thresholds, and the verdict
\* of the rules that apply.
Rule(applies, state, reason) == IF applies THEN {Verdict(state, reason)} ELSE {}

Tally(count, warning, degraded, warningReason, degradedReason) ==
    Rule(count >= degraded, "degraded", degradedReason)
        \cup Rule(count >= warning /\ count < degraded, "warning", warningReason)

Judged(rules) == merge_health(IF rules = {} THEN {Healthy} ELSE rules)

-----------------------------------------------------------------------------
(* Routers, servers and nodes.                                             *)

calculate_otbr_health(row, roleChanges) ==
    IF row = Absent THEN Verdict("unknown", "otbr_not_observed")
    ELSE IF ~row.reachable THEN Verdict("critical", "otbr_unreachable")
    ELSE IF row.thread_state = "disabled"
         THEN Verdict("degraded", "otbr_thread_stack_disabled")
    ELSE Judged(Rule(row.mismatch, "warning", "otbr_rest_endpoint_mismatch")
                \cup Rule(row.network = Null, "warning", "otbr_dataset_unknown")
                \cup Tally(roleChanges, Flapping.role_warning, Flapping.role_degraded,
                           "otbr_role_flapping_warning", "otbr_role_flapping_degraded"))

calculate_matter_server_health(row) ==
    IF row = Absent THEN Verdict("unknown", "matter_server_not_observed")
    ELSE IF ~row.connected THEN Verdict("critical", "matter_server_disconnected")
    ELSE Judged(Rule(~row.inventory, "warning", "matter_node_inventory_unavailable")
                \cup Rule(row.unavailable > 0, "warning", "matter_nodes_unavailable"))

\* The age of the last report of unavailability stands for that of the outage.
UnavailableVerdict(node) ==
    IF node.down >= Flapping.unavailable_critical THEN Verdict("critical", "matter_node_unavailable_critical")
    ELSE Verdict("degraded", "matter_node_unavailable")

ProbeRules(node) ==
    IF node.diagnostics /\ ~node.limited
    THEN Rule(node.ok = "no", "warning", "matter_node_read_probe_failed")
         \cup Tally(node.failures, Flapping.probe_warning, Flapping.probe_degraded,
                    "matter_node_read_probe_failures_24h",
                    "matter_node_read_probe_failures_24h")
    ELSE {}

\* Whether the node's server has ever told the availability of its nodes.
AvailabilityObservable(serverRow) == serverRow # Absent /\ serverRow.availability

calculate_matter_node_health(node, serverRow) ==
    IF ~AvailabilityObservable(serverRow)
    THEN Verdict("unknown", "matter_node_availability_unknown")
    ELSE IF ~node.available THEN UnavailableVerdict(node)
    ELSE Judged(Tally(node.flaps, Flapping.availability_warning,
                      Flapping.availability_degraded,
                      "matter_node_availability_flapping_warning",
                      "matter_node_availability_flapping_degraded")
                \cup ProbeRules(node)
                \cup Rule(node.ping = "no", "warning", "matter_node_ping_probe_failed"))

-----------------------------------------------------------------------------
(* Discovery and the agreement of the routers.                             *)

FlapRules(count) ==
    Tally(count, Flapping.service_warning, Flapping.service_degraded,
          "mdns_service_flapping_warning", "mdns_service_flapping_degraded")

Disabled == Verdict("unknown", "mdns_observation_disabled")
CapabilityUnknown == Verdict("unknown", "mdns_observation_capability_unknown")

calculate_mdns_health(world) ==
    IF ~world.mdns.enabled THEN Disabled
    ELSE IF ~world.mdns.running THEN Verdict("warning", "mdns_observer_not_running")
    ELSE IF world.mdns.degraded = "yes" THEN Verdict("warning", "mdns_observation_degraded")
    ELSE IF world.mdns.degraded = Null THEN CapabilityUnknown
    ELSE Judged(FlapRules(world.mdnsFlaps))

calculate_trel_health(world) ==
    LET rules == Rule(world.foreignTrel, "warning", "foreign_trel_services_observed")
                     \cup FlapRules(world.trelFlaps)
    IN  IF rules # {} THEN merge_health(rules)
        ELSE IF ~world.mdns.enabled THEN Disabled
        ELSE IF world.mdns.running /\ world.mdns.degraded = "no" THEN Healthy
        ELSE CapabilityUnknown

ConfiguredRows(world) == {o \in world.configured : world.rows[o] # Absent}
ReachableRows(world) == {o \in ConfiguredRows(world) : world.rows[o].reachable}
ReportedNetworks(world) ==
    {world.rows[o].network : o \in ReachableRows(world)} \ {Null}

\* Two networks are reported by two reachable routers: the milder verdict of the
\* code is never reached.
configured_otbr_disagreement(world) ==
    IF Cardinality(ReportedNetworks(world)) > 1
    THEN Verdict("degraded", "configured_otbrs_disagree_on_ext_pan_id")
    ELSE Healthy

primary_network_unknown(world) ==
    IF /\ world.configured # {}
       /\ \/ Cardinality(ReportedNetworks(world)) > 1
          \/ "unknown" \in world.networks /\ ReportedNetworks(world) = {}
    THEN Verdict("warning", "primary_thread_network_unknown")
    ELSE Healthy

-----------------------------------------------------------------------------
(* The report.                                                             *)

OtbrVerdict(world, o) == calculate_otbr_health(world.rows[o], world.roleChanges[o])

ServerVerdict(world, s) == calculate_matter_server_health(world.serverRows[s])

NodeVerdict(world, node) ==
    calculate_matter_node_health(node, world.serverRows[node.server])

\* Only configured routers and servers are judged, but every node with a row is.
Statuses(world, nodes) ==
    {OtbrVerdict(world, o) : o \in world.configured}
        \cup {ServerVerdict(world, s) : s \in world.servers}
        \cup {NodeVerdict(world, node) : node \in nodes}
        \cup {calculate_mdns_health(world), calculate_trel_health(world),
              configured_otbr_disagreement(world), primary_network_unknown(world)}

insufficient_data(world, nodes) ==
    /\ world.configured = {} /\ world.servers = {} /\ ~world.mdns.enabled
    /\ \A o \in DOMAIN world.rows : world.rows[o] # Absent => ~world.rows[o].reachable
    /\ \A s \in DOMAIN world.serverRows :
           world.serverRows[s] # Absent => ~world.serverRows[s].connected
    /\ nodes = {} /\ world.networks = {} /\ ~world.foreignTrel /\ ~world.logged

\* Overall and environment health are the same verdict.
build_report(world, nodes) ==
    merge_health(Statuses(world, nodes)
                 \cup Rule(insufficient_data(world, nodes), "unknown", "insufficient_data"))
=============================================================================
