---------------------------- MODULE OtbrReadings ----------------------------
(***************************************************************************)
(* What one poll makes of the bodies a border router answers with          *)
(* (collectors/otbr_parse.py and the row built from them in otbr_rest.py). *)
(*                                                                         *)
(* Three endpoints speak of the same router: /api/node (JSON:API),         *)
(* /api/devices, whose list may begin with another router of the network,  *)
(* and the legacy /node.  They disagree in practice, and ThreadLens has to *)
(* decide which to believe.                                                *)
(*                                                                         *)
(* A body is the sequence of its attribute sources, the body itself first  *)
(* and its nested dictionaries after it; each gives a state, a role and an *)
(* extended PAN id, or Null.  The other attributes go the way of the       *)
(* network.                                                                *)
(***************************************************************************)
EXTENDS Naturals, Sequences

Null == "null"
Unanswered == <<>>              \* a request that failed or was not made
Absent == [none |-> FALSE]      \* no row

OperationalRoles == {"detached", "child", "router", "leader"}
ThreadStates == OperationalRoles \cup {"disabled"}

\* Python's `a or b`.
Or(a, b) == IF a # Null THEN a ELSE b

attribute(body, key) ==
    LET given == SelectSeq(body, LAMBDA source : source[key] # Null)
    IN  IF given = <<>> THEN Null ELSE given[1][key]

\* An operational state stands in for a role that is not one.
parse_role(body) ==
    LET role == attribute(body, "role")
        state == attribute(body, "state")
    IN  IF role \in OperationalRoles THEN role
        ELSE IF state \in OperationalRoles THEN state
        ELSE IF "disabled" \in {role, state} THEN Null
        ELSE role

\* Only the body's own attributes are asked for the state.
parse_thread_state(body) ==
    IF body # <<>> /\ body[1].state \in ThreadStates THEN body[1].state ELSE Null

Snapshot(body) ==
    [thread_state |-> parse_thread_state(body), role |-> parse_role(body),
     network |-> attribute(body, "network")]

\* Mutation: the device list comes first.
MergeDevicesFirst(node, devices) ==
    [thread_state |-> Or(devices.thread_state, node.thread_state),
     role |-> Or(devices.role, node.role),
     network |-> Or(devices.network, node.network)]

merge_snapshots(node, devices) ==
    [thread_state |-> Or(node.thread_state, devices.thread_state),
     role |-> Or(node.role, devices.role),
     network |-> Or(node.network, devices.network)]

materially_differs(a, b) == Null \notin {a, b} /\ a # b

prefer_legacy_snapshot(json, legacy) ==
    [thread_state |-> legacy.thread_state,
     role |-> Or(legacy.role, legacy.thread_state),
     network |-> Or(legacy.network, json.network)]

\* Mutation: the legacy endpoint is believed only about an operational JSON:API state.
LegacyContradicts(json, legacy) ==
    {json.thread_state, legacy.thread_state} \subseteq OperationalRoles
    /\ json.thread_state # legacy.thread_state

\* The legacy endpoint is believed when it is operational and JSON:API is not, or is
\* in another role.
LegacyBelieved(json, legacy) ==
    /\ legacy.thread_state \in OperationalRoles
    /\ json.thread_state \in ThreadStates \ {legacy.thread_state}

\* The row of a reachable router.  use_legacy_node_fallback decides whether /node is
\* asked at all.
Row(node, devices, legacyBody) ==
    LET json == merge_snapshots(Snapshot(node), Snapshot(devices))
        answered == legacyBody # Unanswered
        legacy == Snapshot(legacyBody)
        believed == answered /\ LegacyBelieved(json, legacy)
        chosen == IF believed THEN prefer_legacy_snapshot(json, legacy) ELSE json
    IN  [reachable |-> TRUE,
         thread_state |-> chosen.thread_state, role |-> chosen.role,
         network |-> chosen.network,
         source |-> IF believed THEN "legacy_node"
                    ELSE IF ~answered /\ json.thread_state = Null THEN "unknown"
                    ELSE "json_api",
         json_state |-> json.thread_state, legacy_state |-> legacy.thread_state,
         mismatch |-> materially_differs(json.thread_state, legacy.thread_state)]

\* An unreachable router keeps the rest of its last row, if it ever had one.
Unreachable(row) ==
    IF row = Absent
    THEN [reachable |-> FALSE, thread_state |-> Null, role |-> Null, network |-> Null,
          source |-> Null, json_state |-> Null, legacy_state |-> Null, mismatch |-> FALSE]
    ELSE [row EXCEPT !.reachable = FALSE]
=============================================================================
