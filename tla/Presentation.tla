---------------------------- MODULE Presentation ----------------------------
(***************************************************************************)
(* What is made of the engine's verdicts and of the same rows a second     *)
(* time: the dashboard's display states, its classification of the nodes   *)
(* and its incident (server/dashboard.py), and the buckets that MQTT       *)
(* counts (presentation/lens_mqtt.py).                                     *)
(*                                                                         *)
(* The three were written apart, each with its own conditions over the     *)
(* same fields.  Names, labels and sentences are left out: a reason is its *)
(* code, and of an incident its state.                                     *)
(*                                                                         *)
(* Of the world the dashboard reads one thing more: relevant, whether any  *)
(* relevant event is among those it fetched.                               *)
(***************************************************************************)
EXTENDS HealthRules

INFO_REASON_CODES ==
    {"foreign_trel_services_observed", "matter_node_read_probe_diagnostics_limited"}
MISMATCH == "otbr_rest_endpoint_mismatch"

INACTIVE_STATES == {"disabled", "inactive", "unknown", Null}

-----------------------------------------------------------------------------
(* Routers.                                                                *)

\* The first of role and Thread state that is active.
effective_state(row) ==
    IF row.role \notin INACTIVE_STATES THEN row.role
    ELSE IF row.thread_state \notin INACTIVE_STATES THEN row.thread_state
    ELSE Null

ACTIVE_EFFECTIVE_STATES == OperationalRoles \cup {"active", "leader/router"}

is_reconciled_endpoint_mismatch(row) ==
    /\ row.mismatch /\ row.reachable /\ effective_state(row) # Null
    /\ \/ row.json_state \in INACTIVE_STATES /\ row.legacy_state \notin INACTIVE_STATES
       \/ effective_state(row) \in ACTIVE_EFFECTIVE_STATES

\* The dashboard lists every row, those of routers no longer configured included;
\* these keep the health stored with the row, because the engine judges them no more.
Rows(world) == {o \in DOMAIN world.rows : world.rows[o] # Absent}

ListedHealth(world, o) ==
    IF o \in world.configured THEN OtbrVerdict(world, o)
    ELSE IF world.rows[o].reachable THEN [state |-> "unknown", reasons |-> {}]
    ELSE Verdict("critical", "otbr_unreachable")

display_health(world, o) ==
    LET health == ListedHealth(world, o)
    IN  IF is_reconciled_endpoint_mismatch(world.rows[o]) /\ health.reasons \subseteq {MISMATCH}
        THEN "healthy" ELSE health.state

-----------------------------------------------------------------------------
(* Header.                                                                 *)

all_mismatch_otbrs_reconciled(world) ==
    LET mismatched == {o \in Rows(world) : world.rows[o].mismatch}
    IN  /\ mismatched # {}
        /\ \A o \in mismatched : is_reconciled_endpoint_mismatch(world.rows[o])

Prominent(world, codes) ==
    {code \in codes \ INFO_REASON_CODES :
        code = MISMATCH => ~all_mismatch_otbrs_reconciled(world)}

\* A warning whose reasons are all informational is displayed as health.
Displayed(world, verdict) ==
    IF verdict.state = "warning" /\ Prominent(world, verdict.reasons) = {}
    THEN "healthy" ELSE verdict.state

overall_health(world, nodes) == Displayed(world, build_report(world, nodes))

trel_display_health(world) ==
    LET verdict == calculate_trel_health(world)
    IN  IF verdict.state = "warning" /\ verdict.reasons \subseteq INFO_REASON_CODES
        THEN "healthy" ELSE verdict.state

-----------------------------------------------------------------------------
(* Nodes.                                                                  *)

READ_PROBE_FAILURES_DEGRADED_24H == 3

\* A success outweighs a record that calls itself limited.
Limited(node) == node.limited /\ node.ok # "yes"

\* The transitions in the events shown, or the count kept with the node.
availability_unstable(node) == node.transitions > 0 \/ node.flaps > 0

classify_matter_node(node) ==
    IF ~node.available THEN "unavailable"
    ELSE IF node.diagnostics /\ Limited(node) THEN "diagnostics_limited"
    ELSE IF node.diagnostics /\ node.failures >= READ_PROBE_FAILURES_DEGRADED_24H
         THEN "needs_attention"
    ELSE IF (node.diagnostics /\ node.ok = "no") \/ availability_unstable(node)
         THEN "recently_unstable"
    ELSE "healthy"

matter_read_probe_issue(node) ==
    node.diagnostics /\ ~node.limited /\ (node.ok = "no" \/ node.failures >= 1)

\* Mutation: the bucket follows the last probe only.
BucketOfLastProbe(node) ==
    IF ~node.available THEN "unavailable"
    ELSE IF node.diagnostics /\ ~node.limited /\ node.ok = "no" THEN "recently_unstable"
    ELSE IF ~node.diagnostics THEN "diagnostics_limited"
    ELSE "healthy"

\* A limited node counts as healthy here, and one never probed as limited.
node_lens_bucket(node) ==
    IF ~node.available THEN "unavailable"
    ELSE IF matter_read_probe_issue(node) THEN "recently_unstable"
    ELSE IF ~node.diagnostics THEN "diagnostics_limited"
    ELSE "healthy"

-----------------------------------------------------------------------------
(* Incident.                                                               *)

Severe(state) == STATE_RANK[state] <= STATE_RANK.degraded

Servers(world) == {s \in DOMAIN world.serverRows : world.serverRows[s] # Absent}

AllDisconnected(world) ==
    Servers(world) # {} /\ \A s \in Servers(world) : ~world.serverRows[s].connected

\* Mutation: routers are no infrastructure.
UnhealthyWhenUnreachable(world) ==
    AllDisconnected(world) \/ world.mdns.degraded = "yes"
    \/ Severe(calculate_mdns_health(world).state) \/ Severe(trel_display_health(world))

infrastructure_unhealthy(world) ==
    \/ \E o \in Rows(world) :
           \/ ~world.rows[o].reachable
           \/ /\ effective_state(world.rows[o]) = Null
              /\ ~is_reconciled_endpoint_mismatch(world.rows[o])
    \/ AllDisconnected(world)
    \/ world.mdns.degraded = "yes"
    \/ Severe(calculate_mdns_health(world).state)
    \/ Severe(trel_display_health(world))

build_incident_summary(world, nodes) ==
    LET classes == {classify_matter_node(node) : node \in nodes}
    IN  IF nodes = {} /\ Rows(world) = {} /\ ~world.relevant THEN "unknown"
        ELSE IF "unavailable" \in classes \/ infrastructure_unhealthy(world) THEN "incident"
        ELSE IF classes \cap {"needs_attention", "recently_unstable"} # {} THEN "watch"
        ELSE IF nodes = {} THEN "unknown"
        ELSE "ok"
=============================================================================
