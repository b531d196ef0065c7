-------------------------- MODULE JudgementsProofs --------------------------
(***************************************************************************)
(* What the header, the incident, the views of a node, its record and the  *)
(* reading of a router's endpoints guarantee in every world, and for every *)
(* life of the node.                                                       *)
(***************************************************************************)
EXTENDS Judgements, NodeSignalsProofs, HealthRulesProofs, TLAPS

-----------------------------------------------------------------------------
(* The world, and the row of router "a".                                   *)

ReadRow == Row(answers.node, answers.devices, answers.legacy)

WorldInv ==
    /\ World(world)
    /\ answers # NoAnswers => world.rows["a"] = ReadRow

\* A row that is read is a row.
LEMMA RowIsRow ==
    ASSUME NEW body, NEW devices, NEW legacy
    PROVE  /\ Row(body, devices, legacy) # Absent
           /\ DOMAIN Row(body, devices, legacy) = OtbrFields
           /\ Row(body, devices, legacy).mismatch \in BOOLEAN
<1>1. DOMAIN Row(body, devices, legacy) = OtbrFields
  BY DEF Row, OtbrFields
<1>2. DOMAIN Absent = {"none"}
  BY DEF Absent
<1>3. Row(body, devices, legacy) # Absent
  BY <1>1, <1>2 DEF OtbrFields
<1>4. Row(body, devices, legacy).mismatch \in BOOLEAN
  BY DEF Row, materially_differs
<1> QED
  BY <1>1, <1>3, <1>4

\* The world stands still.
LEMMA WorldStands == Spec => []WorldInv
<1>1. JudgeInit => WorldInv
  <2> SUFFICES ASSUME JudgeInit
               PROVE  WorldInv
    OBVIOUS
  <2>1. CASE answers = NoAnswers /\ world \in Worlds
    BY <2>1, JudgementAssumption DEF WorldInv
  <2>2. ASSUME NEW w \in LivedWorlds, world = [w EXCEPT !.rows["a"] = ReadRow]
        PROVE  WorldInv
    <3>1. World(w)
      BY JudgementAssumption
    <3>2. /\ DOMAIN world = DOMAIN w /\ world.rows = [w.rows EXCEPT !["a"] = ReadRow]
          /\ world.configured = w.configured /\ world.servers = w.servers
          /\ world.serverRows = w.serverRows /\ world.mdns = w.mdns
      BY <2>2, <3>1 DEF World
    <3>3. DOMAIN world.rows = DOMAIN w.rows /\ world.rows["a"] = ReadRow
          /\ \A o \in DOMAIN w.rows : o # "a" => world.rows[o] = w.rows[o]
      BY <3>1, <3>2 DEF World
    <3>4. DOMAIN ReadRow = OtbrFields /\ ReadRow.mismatch \in BOOLEAN
      BY RowIsRow DEF ReadRow
    <3>5. World(world)
      BY <3>1, <3>2, <3>3, <3>4 DEF World
    <3> QED
      BY <3>3, <3>5 DEF WorldInv
  <2> QED
    BY <2>1, <2>2, JudgementAssumption DEF JudgeInit, ReadRow
<1>2. WorldInv /\ [JudgeNext]_judged => WorldInv'
  BY DEF WorldInv, JudgeNext, judged, ReadRow
<1> QED
  BY <1>1, <1>2, PTL DEF Spec

\* What is read of a body's state.
LEMMA ThreadStateRead ==
    ASSUME NEW body
    PROVE  /\ parse_thread_state(body) \in ThreadStates \cup {Null}
           /\ parse_thread_state(body) # Null => body # Unanswered
BY DEF parse_thread_state, Unanswered, ThreadStates, OperationalRoles, Null

\* Whatever the other two endpoints say of the stack, the legacy endpoint is believed
\* when it names an operational role: _legacy_believed, prefer_legacy_snapshot.
THEOREM LegacyCorrect == Spec => []LiveStackIsBelieved
<1>1. WorldInv => LiveStackIsBelieved
  <2> SUFFICES ASSUME world.rows["a"] = ReadRow,
                      ReadRow.legacy_state \in OperationalRoles, ReadRow.json_state # Null
               PROVE  ReadRow.thread_state = ReadRow.legacy_state
    BY DEF WorldInv, LiveStackIsBelieved
  <2> DEFINE json == merge_snapshots(Snapshot(answers.node), Snapshot(answers.devices))
             legacy == Snapshot(answers.legacy)
  <2>1. /\ ReadRow.legacy_state = legacy.thread_state
        /\ ReadRow.json_state = json.thread_state
        /\ ReadRow.thread_state =
               (IF answers.legacy # Unanswered /\ LegacyBelieved(json, legacy)
                THEN prefer_legacy_snapshot(json, legacy) ELSE json).thread_state
    BY DEF ReadRow, Row
  <2>2. prefer_legacy_snapshot(json, legacy).thread_state = legacy.thread_state
    BY DEF prefer_legacy_snapshot
  <2>3. json.thread_state \in ThreadStates \cup {Null}
    BY ThreadStateRead DEF merge_snapshots, Snapshot, Or
  <2>4. legacy.thread_state = parse_thread_state(answers.legacy)
    BY DEF Snapshot
  <2>5. answers.legacy # Unanswered
    BY <2>1, <2>4, ThreadStateRead DEF OperationalRoles, Null
  <2> HIDE DEF json, legacy
  <2>6. json.thread_state # legacy.thread_state => LegacyBelieved(json, legacy)
    BY <2>1, <2>3 DEF LegacyBelieved
  <2> QED
    BY <2>1, <2>2, <2>5, <2>6
<1> QED
  BY <1>1, WorldStands, PTL

\* A router is shown in a state that one of its own endpoints gave, unless /api/node
\* gave no active role: merge_snapshots, effective_state.
THEOREM StatesAreOwn == Spec => []EffectiveStateIsOwn
<1>1. WorldInv => EffectiveStateIsOwn
  <2> DEFINE own == UNION {{parse_role(body), parse_thread_state(body)} :
                              body \in {answers.node, answers.legacy}}
  <2> SUFFICES ASSUME world.rows["a"] = ReadRow, parse_role(answers.node) \notin INACTIVE_STATES
               PROVE  effective_state(ReadRow) \in own \cup {Null}
    BY DEF WorldInv, EffectiveStateIsOwn
  <2> DEFINE json == merge_snapshots(Snapshot(answers.node), Snapshot(answers.devices))
             legacy == Snapshot(answers.legacy)
  <2>1. {parse_role(answers.node), parse_role(answers.legacy),
         parse_thread_state(answers.legacy)} \subseteq own
    OBVIOUS
  <2>2. json.role = parse_role(answers.node)
    BY DEF merge_snapshots, Snapshot, Or, INACTIVE_STATES
  <2>3. /\ legacy.role = parse_role(answers.legacy)
        /\ legacy.thread_state = parse_thread_state(answers.legacy)
    BY DEF Snapshot
  <2>4. \/ ReadRow.role = json.role
        \/ /\ ReadRow.role = Or(legacy.role, legacy.thread_state)
           /\ ReadRow.thread_state = legacy.thread_state
    BY DEF ReadRow, Row, prefer_legacy_snapshot
  <2> HIDE DEF json, legacy, own
  <2>5. CASE ReadRow.role = json.role
    BY <2>1, <2>2, <2>5 DEF effective_state
  <2>6. CASE /\ ReadRow.role = Or(legacy.role, legacy.thread_state)
             /\ ReadRow.thread_state = legacy.thread_state
    BY <2>1, <2>3, <2>6 DEF effective_state, Or
  <2> QED
    BY <2>4, <2>5, <2>6
<1> QED
  BY <1>1, WorldStands, PTL

-----------------------------------------------------------------------------
(* The header.                                                             *)

\* A router whose verdict gives the disagreement of its endpoints has a row that says
\* so, and the verdict is a warning.
LEMMA MismatchIsAWarning ==
    ASSUME NEW row, NEW changes, MISMATCH \in calculate_otbr_health(row, changes).reasons
    PROVE  /\ row # Absent /\ row.mismatch
           /\ calculate_otbr_health(row, changes).state = "warning"
<1> DEFINE rules == Rule(row.mismatch, "warning", "otbr_rest_endpoint_mismatch")
                    \cup Rule(row.network = Null, "warning", "otbr_dataset_unknown")
                    \cup Tally(changes, Flapping.role_warning, Flapping.role_degraded,
                           "otbr_role_flapping_warning", "otbr_role_flapping_degraded")
<1>1. row # Absent /\ calculate_otbr_health(row, changes) = Judged(rules)
  BY DEF calculate_otbr_health, MISMATCH, Verdict
<1>2. rules # {} /\ Judged(rules) = merge_health(rules)
  <2>1. Healthy.state \in HealthStates /\ Healthy.reasons = {}
    BY DEF Healthy, HealthStates, STATE_RANK
  <2>2. MISMATCH \notin merge_health({Healthy}).reasons
    BY <2>1, RollupIsWorst
  <2> QED
    BY <1>1, <2>2 DEF Judged
<1>3. \A v \in rules : v.state \in HealthStates
  BY DEF Rule, Tally, Verdict, HealthStates, STATE_RANK
<1>4. PICK v \in rules : v.state = merge_health(rules).state /\ MISMATCH \in v.reasons
  <2> HIDE DEF rules
  <2> QED
    BY <1>1, <1>2, <1>3, RollupIsWorst
<1>5. row.mismatch /\ v.state = "warning"
  BY <1>4 DEF Rule, Tally, Verdict, MISMATCH
<1> QED
  BY <1>1, <1>2, <1>4, <1>5

\* A header that says healthy hides informational warnings, and what is unknown
\* beside them, but nothing worse: overall_health over merge_health.
THEOREM HeaderCorrect == Spec => []DisplayedHealthIsEarned
<1>1. WorldInv => DisplayedHealthIsEarned
  <2> SUFFICES ASSUME WorldInv, Overall = "healthy"
               PROVE  DisplayedHealthIsEarned
    BY DEF DisplayedHealthIsEarned
  <2> DEFINE informational ==
                 {v \in Verdicts :
                     /\ v.state = "warning"
                     /\ v.reasons \subseteq {"foreign_trel_services_observed", MISMATCH}}
             extra == Rule(insufficient_data(Seen, NodeRows), "unknown", "insufficient_data")
             all == Verdicts \cup extra
  <2>1. Seen.rows = world.rows /\ Seen.configured = world.configured
    BY DEF Seen, WorldInv, World
  <2>2. Report = merge_health(all)
    BY DEF Report, build_report, Verdicts
  <2>3. \A v \in Verdicts : Sound(v)
    BY VerdictsAreSound DEF Verdicts
  <2>4. \A v \in extra : v.state = "unknown" /\ v.state \in HealthStates
    BY DEF Rule, Verdict, HealthStates, STATE_RANK
  <2>5. all # {}
    BY DEF Verdicts, Statuses
  <2>6. HealthStates = {"critical", "degraded", "warning", "unknown", "healthy"}
    BY DEF HealthStates, STATE_RANK
  <2>7. \A o \in world.configured : OtbrVerdict(Seen, o) \in Verdicts
    BY <2>1 DEF Verdicts, Statuses
  <2> HIDE DEF extra
  <2>8. /\ \E v \in all : Report.state = v.state
        /\ \A v \in all : STATE_RANK[Report.state] <= STATE_RANK[v.state]
        /\ \A v \in all : v.state = Report.state => v.reasons \subseteq Report.reasons
    <3>1. \A v \in all : v.state \in HealthStates
      BY <2>3, <2>4 DEF Sound
    <3> HIDE DEF all
    <3> QED
      BY <2>2, <2>5, <3>1, RollupIsWorst
  <2>9. \/ Report.state = "healthy"
        \/ Report.state = "warning" /\ Prominent(Seen, Report.reasons) = {}
    BY DEF Overall, overall_health, Displayed, Report
  <2>10. CASE Report.state = "healthy"
    <3>1. \A v \in Verdicts : v.state = "healthy"
      BY <2>3, <2>6, <2>8, <2>10 DEF Sound, STATE_RANK
    <3>2. \A o \in world.configured : MISMATCH \notin OtbrVerdict(Seen, o).reasons
      BY <2>7, <3>1, MismatchIsAWarning DEF OtbrVerdict
    <3> QED
      BY <3>1, <3>2 DEF DisplayedHealthIsEarned
  <2>11. CASE Report.state = "warning" /\ Prominent(Seen, Report.reasons) = {}
    <3>1. \A code \in Report.reasons :
              \/ code \in INFO_REASON_CODES
              \/ code = MISMATCH /\ all_mismatch_otbrs_reconciled(Seen)
      BY <2>11 DEF Prominent
    <3>2. \A v \in Verdicts : v.state \in {"warning", "unknown", "healthy"}
      BY <2>3, <2>6, <2>8, <2>11 DEF Sound, STATE_RANK
    <3>3. \A v \in Verdicts : v.state = "warning" => v \in informational
      BY <2>3, <2>8, <2>11, <3>1 DEF Sound, INFO_REASON_CODES
    <3>4. informational # {}
      BY <2>4, <2>8, <2>11, <3>3
    <3>5. ASSUME NEW o \in world.configured, MISMATCH \in OtbrVerdict(Seen, o).reasons
          PROVE  effective_state(world.rows[o]) # Null
      <4>1. /\ world.rows[o] # Absent /\ world.rows[o].mismatch
            /\ OtbrVerdict(Seen, o).state = "warning"
        BY <2>1, <3>5, MismatchIsAWarning DEF OtbrVerdict
      <4>2. MISMATCH \in Report.reasons
        BY <2>7, <2>8, <2>11, <3>5, <4>1
      <4>3. all_mismatch_otbrs_reconciled(Seen)
        BY <3>1, <4>2 DEF INFO_REASON_CODES, MISMATCH
      <4>4. o \in Rows(Seen) /\ Seen.rows[o].mismatch
        BY <2>1, <4>1 DEF Rows, WorldInv, World
      <4> QED
        BY <2>1, <4>3, <4>4
        DEF all_mismatch_otbrs_reconciled, is_reconciled_endpoint_mismatch
    <3> QED
      BY <3>2, <3>3, <3>4, <3>5 DEF DisplayedHealthIsEarned
  <2> QED
    BY <2>9, <2>10, <2>11
<1> QED
  BY <1>1, WorldStands, PTL

-----------------------------------------------------------------------------
(* The views of a node.                                                    *)

\* The record's invariant holds throughout, of a record that stands still as of one
\* that lives.
LEMMA SignalsStand == Spec => []SignalsInv
<1>1. JudgeInit => SignalsInv
  <2> SUFFICES ASSUME JudgeInit
               PROVE  SignalsInv
    OBVIOUS
  <2>1. CASE /\ mode \in Modes /\ run = Idle /\ replanned = FALSE
             /\ node = Fresh /\ log = [k \in Kinds |-> 0] /\ outage = 0
    <3>1. node = [Fresh EXCEPT !.keys = {}]
      <4>1. Fresh \in [DOMAIN Fresh -> {Fresh[f] : f \in DOMAIN Fresh}] /\ Fresh.keys = {}
        BY DEF Fresh
      <4>2. Fresh = [Fresh EXCEPT !.keys = {}]
        BY <4>1, Zenon
      <4> QED
        BY <2>1, <4>2
    <3>2. {} \in SUBSET Paths /\ IsFiniteSet({})
      BY FS_EmptySet
    <3> QED
      BY <2>1, <3>1, <3>2, FreshIsSound
  <2>2. CASE /\ mode \in Modes /\ run = Idle /\ replanned = TRUE
             /\ node \in Records /\ outage = node.down
             /\ log = [[k \in Kinds |-> 0] EXCEPT !["down"] = node.flaps]
    <3>1. /\ node \in NodeRecord /\ IsFiniteSet(node.keys)
          /\ node.limited => node.ok # "yes"
          /\ node.ok = "yes" => node.path \in Paths \ node.unsupported
      BY <2>2, JudgementAssumption DEF Recorded
    <3>2. outage \in 0..Critical /\ node.flaps \in 0..MaxEvents["down"]
      BY <2>2, <3>1 DEF NodeRecord
    <3>3. log \in [Kinds -> Nat] /\ \A k \in Kinds : log[k] <= MaxEvents[k]
      BY <2>2, <3>2, BoundsAreNumbers
    <3>4. TypeOK /\ RunApart /\ RunReasoned
      BY <2>2, <3>1, <3>2, <3>3, IdleIsApart DEF TypeOK
    <3>5. RecordBacked /\ ExhaustedIsLimited
      BY <2>2, <3>1 DEF RecordBacked, ExhaustedIsLimited
    <3> QED
      BY <3>4, <3>5 DEF SignalsInv
  <2>3. CASE Init
    <3>1. PICK keys \in KeySets : node = [Fresh EXCEPT !.keys = keys]
      BY <2>3 DEF Init
    <3>2. keys \in SUBSET Paths /\ IsFiniteSet(keys)
      BY SignalsAssumption
    <3> QED
      BY <2>3, <3>1, <3>2, FreshIsSound DEF Init
  <2> QED
    BY <2>1, <2>2, <2>3 DEF JudgeInit
<1>2. SignalsInv /\ [JudgeNext]_judged => SignalsInv'
  <2>1. CASE SignalsNext
    BY <2>1, SignalsKeep
  <2>2. CASE UNCHANGED vars
    BY <2>2
    DEF vars, SignalsInv, TypeOK, RunApart, RecordBacked, RunReasoned, ExhaustedIsLimited
  <2> QED
    BY <2>1, <2>2 DEF JudgeNext, judged
<1> QED
  BY <1>1, <1>2, PTL DEF Spec

\* Whatever reports, probe runs and restarts a node lives through, its record stays a
\* record within its bounds, and a run tries no path twice: MatterNodeState,
\* _dedupe_candidates.
THEOREM TypeCorrect == Spec => []TypeOK
<1>1. SignalsInv => TypeOK
  BY DEF SignalsInv
<1> QED
  BY <1>1, SignalsStand, PTL

\* A node whose last path has turned out unsupported is told as limited, in any order
\* of reports, runs and restarts: _run_probe_for_node, plan.
THEOREM ExhaustionIsTold == Spec => []ExhaustedIsLimited
<1>1. SignalsInv => ExhaustedIsLimited
  BY DEF SignalsInv
<1> QED
  BY <1>1, SignalsStand, PTL

\* The path of a success is supported and planned, even while a later run is under way
\* or was cut short: _aggregate_probe_outcomes, plan.
THEOREM SuccessHasItsPath == Spec => []OkIsBacked
BY SuccessIsBacked, SignalsStand, PTL

\* What the views of a node need of its record.
RecordInv ==
    /\ DOMAIN node = DOMAIN Fresh
    /\ {node.available, node.diagnostics, node.limited} \subseteq BOOLEAN
    /\ {node.flaps, node.failures} \subseteq Nat
    /\ node.limited => node.ok # "yes"
    /\ log \in [Kinds -> Nat]

LEMMA RecordStands == Spec => []RecordInv
<1>1. SignalsInv => RecordInv
  <2> SUFFICES ASSUME SignalsInv
               PROVE  RecordInv
    OBVIOUS
  <2>1. node \in NodeRecord /\ log \in [Kinds -> Nat] /\ (node.limited => node.ok # "yes")
    BY DEF SignalsInv, TypeOK, RecordBacked
  <2>2. DOMAIN node = DOMAIN Fresh
    BY <2>1 DEF NodeRecord, Fresh
  <2> QED
    BY <2>1, <2>2, BoundsAreNumbers DEF RecordInv, NodeRecord
<1> QED
  BY <1>1, SignalsStand, PTL

\* What the engine says of an observable node that is available, from its rules.
NodeRules(n) ==
    Tally(n.flaps, Flapping.availability_warning, Flapping.availability_degraded,
          "matter_node_availability_flapping_warning",
          "matter_node_availability_flapping_degraded")
        \cup ProbeRules(n)
        \cup Rule(n.ping = "no", "warning", "matter_node_ping_probe_failed")

LEMMA EngineOfNode ==
    ASSUME NEW n, NEW serverRow, AvailabilityObservable(serverRow), n.available
    PROVE  LET verdict == calculate_matter_node_health(n, serverRow)
           IN  /\ verdict.state = "healthy" => NodeRules(n) = {}
               /\ \A v \in NodeRules(n) : v.state = "degraded" => Severe(verdict.state)
               /\ \A r \in verdict.reasons : \E v \in NodeRules(n) : r \in v.reasons
<1> DEFINE rules == NodeRules(n)
           verdict == calculate_matter_node_health(n, serverRow)
<1>1. verdict = Judged(rules)
  BY DEF calculate_matter_node_health, NodeRules
<1>2. \A v \in rules : v.state \in {"warning", "degraded"}
  BY DEF NodeRules, ProbeRules, Tally, Rule, Verdict
<1>3. {"warning", "degraded"} \subseteq HealthStates
  BY DEF HealthStates, STATE_RANK
<1> HIDE DEF rules, verdict
<1>4. CASE rules = {}
  <2>1. Healthy.state \in HealthStates /\ Healthy.reasons = {}
    BY DEF Healthy, HealthStates, STATE_RANK
  <2>2. \A r : r \notin merge_health({Healthy}).reasons
    BY <2>1, RollupIsWorst
  <2> QED
    BY <1>1, <1>4, <2>2 DEF rules, verdict, Judged
<1>5. CASE rules # {}
  <2>1. verdict = merge_health(rules)
    BY <1>1, <1>5 DEF Judged
  <2>2. /\ \E v \in rules : verdict.state = v.state
        /\ \A v \in rules : STATE_RANK[verdict.state] <= STATE_RANK[v.state]
        /\ \A r : r \in verdict.reasons => \E v \in rules : r \in v.reasons
    BY <1>2, <1>3, <1>5, <2>1, RollupIsWorst
  <2>3. verdict.state \in {"warning", "degraded"}
    BY <1>2, <2>2
  <2> QED
    BY <2>2, <2>3 DEF rules, verdict, Severe
<1> QED
  BY <1>4, <1>5

\* Thresholds no higher than those the dashboard has built in, and none of zero, the
\* three views of a node agree: classify_matter_node, node_lens_bucket,
\* calculate_matter_node_health.
THEOREM ViewsCorrect ==
    ASSUME Flapping.probe_warning <= 1,
           Flapping.probe_degraded <= READ_PROBE_FAILURES_DEGRADED_24H,
           Flapping.availability_warning > 0, Flapping.availability_degraded > 0
    PROVE  Spec => []ViewsAgree
<1>1. WorldInv /\ RecordInv => ViewsAgree
  <2> SUFFICES ASSUME WorldInv, RecordInv, Observable
               PROVE  ViewsAgree
    BY DEF ViewsAgree
  <2> DEFINE n == NodeRow
  <2>1. /\ n.available = node.available /\ n.diagnostics = node.diagnostics
        /\ n.limited = node.limited /\ n.ok = node.ok /\ n.flaps = node.flaps
        /\ n.failures = node.failures /\ n.ping = node.ping
        /\ n.server = Server /\ n.transitions = log["down"] + log["up"]
    BY DEF NodeRow, RecordInv, Fresh
  <2>2. /\ {n.available, n.diagnostics, n.limited} \subseteq BOOLEAN
        /\ {n.flaps, n.failures, n.transitions} \subseteq Nat
        /\ n.limited => n.ok # "yes"
    BY <2>1 DEF RecordInv, Kinds
  <2>3. AvailabilityObservable(Seen.serverRows[Server])
    <3>1. world.serverRows[Server] # Absent /\ world.serverRows[Server].availability
      BY DEF Observable, AvailabilityObservable
    <3>2. DOMAIN world.serverRows[Server] = ServerFields /\ Server \in DOMAIN world.serverRows
      BY <3>1 DEF WorldInv, World, Server
    <3>3. Seen.serverRows[Server] =
              [world.serverRows[Server] EXCEPT !.unavailable = IF node.available THEN 0 ELSE 1]
      BY <3>1, <3>2 DEF Seen, WorldInv, World
    <3>4. DOMAIN Absent = {"none"}
      BY DEF Absent
    <3> QED
      BY <3>1, <3>2, <3>3, <3>4 DEF AvailabilityObservable, ServerFields
  <2>4. Engine = calculate_matter_node_health(n, Seen.serverRows[Server])
    BY <2>1 DEF Engine, NodeVerdict
  <2>5. /\ {Flapping.probe_warning, Flapping.probe_degraded, Flapping.availability_warning,
            Flapping.availability_degraded} \subseteq Nat
        /\ READ_PROBE_FAILURES_DEGRADED_24H = 3
    BY HealthAssumption DEF READ_PROBE_FAILURES_DEGRADED_24H
  <2>6. Class = classify_matter_node(n) /\ Bucket = node_lens_bucket(n)
    BY DEF Class, Bucket
  <2> HIDE DEF n
  <2>7. CASE ~n.available
    <3>1. Engine.state \in {"critical", "degraded"}
      BY <2>3, <2>4, <2>7
      DEF calculate_matter_node_health, UnavailableVerdict, Verdict
    <3>2. Class = "unavailable" /\ Bucket = "unavailable"
      BY <2>6, <2>7 DEF classify_matter_node, node_lens_bucket
    <3> QED
      BY <2>1, <2>7, <3>1, <3>2 DEF ViewsAgree, Severe, STATE_RANK
  <2>8. CASE n.available
    <3>1. /\ Engine.state = "healthy" => NodeRules(n) = {}
          /\ \A v \in NodeRules(n) : v.state = "degraded" => Severe(Engine.state)
          /\ \A r \in Engine.reasons : \E v \in NodeRules(n) : r \in v.reasons
      BY <2>3, <2>4, <2>8, EngineOfNode
    <3>2. Class # "unavailable" /\ Bucket # "unavailable"
      BY <2>6, <2>8 DEF classify_matter_node, node_lens_bucket
    <3>3. Class = "needs_attention" => Bucket = "recently_unstable" /\ Severe(Engine.state)
      <4> SUFFICES ASSUME Class = "needs_attention"
                   PROVE  Bucket = "recently_unstable" /\ Severe(Engine.state)
        OBVIOUS
      <4>1. n.diagnostics /\ ~n.limited /\ n.failures >= 3
        BY <2>2, <2>5, <2>6 DEF classify_matter_node, Limited
      <4>2. Verdict("degraded", "matter_node_read_probe_failures_24h") \in NodeRules(n)
        BY <2>2, <2>5, <4>1 DEF NodeRules, ProbeRules, Tally, Rule
      <4>3. Severe(Engine.state)
        BY <3>1, <4>2 DEF Verdict
      <4>4. Bucket = "recently_unstable"
        BY <2>2, <2>6, <2>8, <4>1 DEF node_lens_bucket, matter_read_probe_issue
      <4> QED
        BY <4>3, <4>4
    <3>4. NodeRules(n) = {} =>
              /\ ~matter_read_probe_issue(n)
              /\ n.diagnostics /\ ~n.limited => n.ok # "no"
      BY <2>2, <2>5
      DEF NodeRules, ProbeRules, Tally, Rule, matter_read_probe_issue
    <3>5. Engine.state = "healthy" =>
              /\ Bucket \in {"healthy", "diagnostics_limited"}
              /\ (Class = "recently_unstable") => availability_unstable(n)
      BY <2>2, <2>6, <2>8, <3>1, <3>4 DEF classify_matter_node, node_lens_bucket, Limited
    <3>6. Class = "healthy" =>
              Engine.reasons \subseteq {"matter_node_read_probe_failures_24h",
                                        "matter_node_ping_probe_failed"}
      <4> SUFFICES ASSUME Class = "healthy"
                   PROVE  \A v \in NodeRules(n) :
                              v.reasons \subseteq {"matter_node_read_probe_failures_24h",
                                                   "matter_node_ping_probe_failed"}
        BY <3>1
      <4>1. /\ n.flaps = 0
            /\ n.diagnostics /\ ~n.limited => n.ok # "no"
        BY <2>2, <2>6 DEF classify_matter_node, availability_unstable, Limited
      <4> QED
        BY <2>2, <2>5, <4>1 DEF NodeRules, ProbeRules, Tally, Rule, Verdict
    <3> QED
      BY <2>1, <2>8, <3>2, <3>3, <3>5, <3>6 DEF ViewsAgree, n
  <2> QED
    BY <2>2, <2>7, <2>8
<1> QED
  BY <1>1, WorldStands, RecordStands, PTL

-----------------------------------------------------------------------------
(* The incident.                                                           *)

\* No rule is critical, nor is a verdict drawn from rules.
LEMMA JudgedIsMild ==
    ASSUME NEW S, \A v \in S : v.state \in {"warning", "degraded"}
    PROVE  Judged(S).state # "critical" /\ (S # {} => merge_health(S).state # "critical")
<1>1. {"warning", "degraded", "healthy"} \subseteq HealthStates /\ Healthy.state = "healthy"
  BY DEF HealthStates, STATE_RANK, Healthy
<1>2. CASE S = {}
  <2>1. \E v \in {Healthy} : merge_health({Healthy}).state = v.state
    BY <1>1, RollupIsWorst
  <2> QED
    BY <1>1, <1>2, <2>1 DEF Judged
<1>3. CASE S # {}
  <2>1. \E v \in S : merge_health(S).state = v.state
    BY <1>1, <1>3, RollupIsWorst
  <2> QED
    BY <1>3, <2>1 DEF Judged
<1> QED
  BY <1>2, <1>3

LEMMA TalliesAreMild ==
    /\ \A applies, state, reason : \A v \in Rule(applies, state, reason) : v.state = state
    /\ \A count, warning, degraded, r, s :
           \A v \in Tally(count, warning, degraded, r, s) : v.state \in {"warning", "degraded"}
BY DEF Rule, Tally, Verdict

\* What is critical: an unreachable router, a disconnected server, a node that is
\* unavailable.
LEMMA CriticalOtbr ==
    ASSUME NEW row, NEW changes, calculate_otbr_health(row, changes).state = "critical"
    PROVE  row # Absent /\ ~row.reachable
<1> DEFINE rules == Rule(row.mismatch, "warning", "otbr_rest_endpoint_mismatch")
                    \cup Rule(row.network = Null, "warning", "otbr_dataset_unknown")
                    \cup Tally(changes, Flapping.role_warning, Flapping.role_degraded,
                           "otbr_role_flapping_warning", "otbr_role_flapping_degraded")
<1>1. \A v \in rules : v.state \in {"warning", "degraded"}
  BY TalliesAreMild
<1>2. Judged(rules).state # "critical"
  BY <1>1, JudgedIsMild
<1> QED
  BY <1>2 DEF calculate_otbr_health, Verdict

LEMMA CriticalServer ==
    ASSUME NEW row, calculate_matter_server_health(row).state = "critical"
    PROVE  row # Absent /\ ~row.connected
<1> DEFINE rules == Rule(~row.inventory, "warning", "matter_node_inventory_unavailable")
                    \cup Rule(row.unavailable > 0, "warning", "matter_nodes_unavailable")
<1>1. \A v \in rules : v.state \in {"warning", "degraded"}
  BY TalliesAreMild
<1>2. Judged(rules).state # "critical"
  BY <1>1, JudgedIsMild
<1> QED
  BY <1>2 DEF calculate_matter_server_health, Verdict

LEMMA CriticalNode ==
    ASSUME NEW n, NEW serverRow,
           calculate_matter_node_health(n, serverRow).state = "critical"
    PROVE  ~n.available
<1>1. \A v \in NodeRules(n) : v.state \in {"warning", "degraded"}
  BY TalliesAreMild DEF NodeRules, ProbeRules
<1>2. Judged(NodeRules(n)).state # "critical"
  BY <1>1, JudgedIsMild
<1> QED
  BY <1>2 DEF calculate_matter_node_health, NodeRules, Verdict

LEMMA NothingElseCritical ==
    ASSUME NEW w
    PROVE  "critical" \notin {calculate_mdns_health(w).state, calculate_trel_health(w).state,
                              configured_otbr_disagreement(w).state,
                              primary_network_unknown(w).state}
<1>1. \A count : /\ \A v \in FlapRules(count) : v.state \in {"warning", "degraded"}
                 /\ Judged(FlapRules(count)).state # "critical"
  BY TalliesAreMild, JudgedIsMild DEF FlapRules
<1>2. calculate_mdns_health(w).state # "critical"
  BY <1>1 DEF calculate_mdns_health, Disabled, CapabilityUnknown, Verdict
<1>3. calculate_trel_health(w).state # "critical"
  <2> DEFINE rules == Rule(w.foreignTrel, "warning", "foreign_trel_services_observed")
                          \cup FlapRules(w.trelFlaps)
  <2>1. \A v \in rules : v.state \in {"warning", "degraded"}
    BY <1>1, TalliesAreMild
  <2>2. rules # {} => merge_health(rules).state # "critical"
    BY <2>1, JudgedIsMild
  <2> QED
    BY <2>2 DEF calculate_trel_health, Disabled, CapabilityUnknown, Verdict, Healthy
<1> QED
  BY <1>2, <1>3 DEF configured_otbr_disagreement, primary_network_unknown, Verdict, Healthy

\* What the engine finds critical and what the dashboard calls an incident cover each
\* other but for the exceptions named: build_report, build_incident_summary.
THEOREM IncidentCorrect == Spec => []IncidentCoversCritical
<1>1. WorldInv /\ RecordInv => IncidentCoversCritical
  <2> SUFFICES ASSUME WorldInv, RecordInv
               PROVE  IncidentCoversCritical
    OBVIOUS
  <2> DEFINE extra == Rule(insufficient_data(Seen, NodeRows), "unknown", "insufficient_data")
             all == Verdicts \cup extra
             nothing == NodeRows = {} /\ Rows(world) = {} /\ ~world.relevant
  <2>1. /\ DOMAIN Seen = DOMAIN world /\ Seen.rows = world.rows
        /\ Seen.configured = world.configured /\ Seen.servers = world.servers
        /\ Seen.mdns = world.mdns /\ Seen.relevant = world.relevant
        /\ DOMAIN Seen.serverRows = DOMAIN world.serverRows
    BY DEF Seen, WorldInv, World
  <2>2. DOMAIN Absent = {"none"}
    BY DEF Absent
  <2>3. \A s \in DOMAIN world.serverRows :
            /\ (Seen.serverRows[s] = Absent) <=> (world.serverRows[s] = Absent)
            /\ world.serverRows[s] # Absent =>
                   /\ Seen.serverRows[s].connected = world.serverRows[s].connected
                   /\ Seen.serverRows[s].availability = world.serverRows[s].availability
                   /\ world.serverRows[s].connected \in BOOLEAN
    BY <2>2 DEF Seen, WorldInv, World, ServerFields
  <2>4. Rows(Seen) = Rows(world) /\ Servers(Seen) = Servers(world)
    BY <2>1, <2>3 DEF Rows, Servers
  <2>5. AllDisconnected(Seen) <=> AllDisconnected(world)
    BY <2>3, <2>4 DEF AllDisconnected, Servers
  <2>6. Report = merge_health(all)
    BY DEF Report, build_report, Verdicts
  <2>7. \A v \in all : v.state \in HealthStates
    BY VerdictsAreSound DEF Sound, Verdicts, Rule, Verdict, HealthStates, STATE_RANK
  <2>8. \A v \in extra : v.state = "unknown"
    BY DEF Rule, Verdict
  <2>9. all # {}
    BY DEF Verdicts, Statuses
  <2> HIDE DEF extra, all
  <2>10. /\ \E v \in all : Report.state = v.state
         /\ \A v \in all : STATE_RANK[Report.state] <= STATE_RANK[v.state]
    BY <2>6, <2>7, <2>9, RollupIsWorst
  <2>11. \A v \in all : Severe(v.state) => Severe(Report.state)
    <3>1. \A s \in HealthStates : STATE_RANK[s] \in Nat
      BY DEF HealthStates, STATE_RANK
    <3> QED
      BY <2>7, <2>10, <3>1 DEF Severe, STATE_RANK
  <2>12. Severe("critical") /\ Severe("degraded")
         /\ ~Severe("healthy") /\ ~Severe("warning") /\ ~Severe("unknown")
    BY DEF Severe, STATE_RANK
  <2>13. /\ \A o \in world.configured : OtbrVerdict(Seen, o) \in all
         /\ \A s \in world.servers : ServerVerdict(Seen, s) \in all
         /\ \A n \in NodeRows : NodeVerdict(Seen, n) \in all
         /\ calculate_mdns_health(Seen) \in all /\ calculate_trel_health(Seen) \in all
    BY <2>1 DEF all, Verdicts, Statuses
  <2>14. \A n \in NodeRows : n = NodeRow /\ n.available = node.available /\ n.server = Server
    BY DEF NodeRows, NodeRow, RecordInv, Fresh
  <2>15. Incident = "incident" <=>
             /\ ~nothing
             /\ \/ \E n \in NodeRows : classify_matter_node(n) = "unavailable"
                \/ infrastructure_unhealthy(Seen)
    BY <2>1, <2>4 DEF Incident, build_incident_summary
  <2>16. \A n \in NodeRows : (classify_matter_node(n) = "unavailable") <=> ~n.available
    BY DEF classify_matter_node
  <2> HIDE DEF nothing
  <2>17. ASSUME Report.state = "critical"
         PROVE  \/ Incident = "incident"
                \/ \E s, t \in Servers(world) :
                       world.serverRows[s].connected # world.serverRows[t].connected
                \/ nothing
    <3>1. PICK v \in Verdicts : v.state = "critical"
      BY <2>8, <2>10, <2>17 DEF all
    <3>2. CASE \E o \in world.configured : v = OtbrVerdict(Seen, o)
      <4>1. PICK o \in world.configured : v = OtbrVerdict(Seen, o)
        BY <3>2
      <4>2. Seen.rows[o] # Absent /\ ~Seen.rows[o].reachable
        BY <3>1, <4>1, CriticalOtbr DEF OtbrVerdict
      <4>3. o \in Rows(Seen)
        BY <2>1, <4>2 DEF Rows, WorldInv, World
      <4> QED
        BY <2>4, <2>15, <4>2, <4>3 DEF infrastructure_unhealthy, nothing
    <3>3. CASE \E s \in world.servers : v = ServerVerdict(Seen, s)
      <4>1. PICK s \in world.servers : v = ServerVerdict(Seen, s)
        BY <3>3
      <4>2. Seen.serverRows[s] # Absent /\ ~Seen.serverRows[s].connected
        BY <3>1, <4>1, CriticalServer DEF ServerVerdict
      <4>3. s \in DOMAIN world.serverRows
        BY DEF WorldInv, World
      <4>4. s \in Servers(world) /\ world.serverRows[s].connected = FALSE
        BY <2>3, <4>2, <4>3 DEF Servers
      <4>5. CASE AllDisconnected(Seen)
        BY <2>15, <4>5 DEF infrastructure_unhealthy
      <4>6. CASE ~AllDisconnected(Seen)
        <5>1. PICK t \in Servers(world) : world.serverRows[t].connected
          BY <2>5, <4>4, <4>6 DEF AllDisconnected
        <5> QED
          BY <4>4, <5>1
      <4> QED
        BY <4>5, <4>6
    <3>4. CASE \E n \in NodeRows : v = NodeVerdict(Seen, n)
      <4>1. PICK n \in NodeRows : v = NodeVerdict(Seen, n)
        BY <3>4
      <4>2. ~n.available
        BY <3>1, <4>1, CriticalNode DEF NodeVerdict
      <4> QED
        BY <2>15, <2>16, <4>2 DEF nothing
    <3>5. CASE v \in {calculate_mdns_health(Seen), calculate_trel_health(Seen),
                      configured_otbr_disagreement(Seen), primary_network_unknown(Seen)}
      BY <3>1, <3>5, NothingElseCritical
    <3> QED
      BY <2>1, <3>2, <3>3, <3>4, <3>5 DEF Verdicts, Statuses
  <2>18. ASSUME Incident = "incident"
         PROVE  \/ Severe(Report.state)
                \/ \E o \in Rows(world) :
                       \/ o \notin world.configured
                       \/ /\ world.rows[o].reachable
                          /\ effective_state(world.rows[o]) = Null
                \/ \E s \in Servers(world) : s \notin world.servers
                \/ ~Observable
    <3>1. CASE \E n \in NodeRows : ~n.available
      <4>1. PICK n \in NodeRows : ~n.available
        BY <3>1
      <4>2. Server \in DOMAIN world.serverRows
        BY DEF WorldInv, World, Server
      <4>3. ASSUME Observable
            PROVE  Severe(NodeVerdict(Seen, n).state)
        <5>1. AvailabilityObservable(Seen.serverRows[Server])
          BY <2>3, <4>2, <4>3 DEF Observable, AvailabilityObservable
        <5>2. NodeVerdict(Seen, n).state \in {"critical", "degraded"}
          BY <2>14, <4>1, <5>1
          DEF NodeVerdict, calculate_matter_node_health, UnavailableVerdict, Verdict
        <5> QED
          BY <2>12, <5>2
      <4> QED
        BY <2>11, <2>13, <4>3
    <3>2. CASE \E o \in Rows(Seen) :
                   \/ ~Seen.rows[o].reachable
                   \/ effective_state(Seen.rows[o]) = Null
      <4>1. PICK o \in Rows(Seen) :
                   \/ ~Seen.rows[o].reachable
                   \/ effective_state(Seen.rows[o]) = Null
        BY <3>2
      <4>2. CASE o \in world.configured /\ ~world.rows[o].reachable
        <5>1. OtbrVerdict(Seen, o).state = "critical"
          BY <2>1, <4>1, <4>2 DEF OtbrVerdict, calculate_otbr_health, Verdict, Rows
        <5> QED
          BY <2>11, <2>12, <2>13, <4>2, <5>1
      <4> QED
        BY <2>1, <2>4, <4>1, <4>2
    <3>3. CASE AllDisconnected(Seen)
      <4>1. PICK s \in Servers(world) : ~world.serverRows[s].connected
        BY <2>5, <3>3 DEF AllDisconnected
      <4>2. ASSUME s \in world.servers
            PROVE  ServerVerdict(Seen, s).state = "critical"
        BY <2>3, <4>1 DEF ServerVerdict, calculate_matter_server_health, Verdict, Servers
      <4> QED
        BY <2>11, <2>12, <2>13, <4>1, <4>2
    <3>4. CASE Severe(calculate_mdns_health(Seen).state)
      BY <2>11, <2>13, <3>4
    <3>5. CASE Severe(trel_display_health(Seen))
      BY <2>11, <2>12, <2>13, <3>5 DEF trel_display_health
    <3>6. Seen.mdns.degraded # "yes"
      BY <2>1 DEF WorldInv, World, Null
    <3> QED
      BY <2>15, <2>16, <2>18, <3>1, <3>2, <3>3, <3>4, <3>5, <3>6
      DEF infrastructure_unhealthy
  <2> QED
    BY <2>17, <2>18 DEF IncidentCoversCritical, nothing
<1> QED
  BY <1>1, WorldStands, RecordStands, PTL
=============================================================================
