-------------------------- MODULE HealthRulesProofs --------------------------
(***************************************************************************)
(* What the rollup of verdicts guarantees, and that no verdict gets better *)
(* when what it is drawn from gets worse.                                  *)
(***************************************************************************)
EXTENDS HealthRules, TLAPS

-----------------------------------------------------------------------------
(* The rollup.                                                             *)

\* Of some states of health one is the worst.
LEMMA WorstExists ==
    ASSUME NEW states \in SUBSET HealthStates, states # {}
    PROVE  /\ pick_worst(states) \in states
           /\ \A t \in states : STATE_RANK[pick_worst(states)] <= STATE_RANK[t]
<1>1. HealthStates = {"critical", "degraded", "warning", "unknown", "healthy"}
  BY DEF HealthStates, STATE_RANK
<1>2. /\ STATE_RANK["critical"] = 0 /\ STATE_RANK["degraded"] = 1
      /\ STATE_RANK["warning"] = 2 /\ STATE_RANK["unknown"] = 3 /\ STATE_RANK["healthy"] = 4
  BY DEF STATE_RANK
<1>3. \E s \in states : \A t \in states : STATE_RANK[s] <= STATE_RANK[t]
  <2>1. CASE "critical" \in states
    BY <1>1, <1>2, <2>1
  <2>2. CASE "critical" \notin states /\ "degraded" \in states
    BY <1>1, <1>2, <2>2
  <2>3. CASE states \cap {"critical", "degraded"} = {} /\ "warning" \in states
    BY <1>1, <1>2, <2>3
  <2>4. CASE states \cap {"critical", "degraded", "warning"} = {} /\ "unknown" \in states
    BY <1>1, <1>2, <2>4
  <2>5. CASE states = {"healthy"}
    BY <1>2, <2>5
  <2> QED
    BY <1>1, <2>1, <2>2, <2>3, <2>4, <2>5
<1> QED
  BY <1>3 DEF pick_worst

\* The verdict on several things is as bad as the worst of them, and gives all the
\* reasons of those that are as bad: merge_health.
THEOREM RollupIsWorst ==
    ASSUME NEW S, S # {}, \A v \in S : v.state \in HealthStates
    PROVE  /\ \E v \in S : merge_health(S).state = v.state
           /\ \A v \in S : STATE_RANK[merge_health(S).state] <= STATE_RANK[v.state]
           /\ \A r : r \in merge_health(S).reasons <=>
                         \E v \in S : v.state = merge_health(S).state /\ r \in v.reasons
<1> DEFINE states == {v.state : v \in S}
<1>1. states \in SUBSET HealthStates /\ states # {}
  OBVIOUS
<1>2. pick_worst(states) \in states
      /\ \A t \in states : STATE_RANK[pick_worst(states)] <= STATE_RANK[t]
  BY <1>1, WorstExists
<1>3. /\ merge_health(S).state = pick_worst(states)
      /\ merge_health(S).reasons =
             UNION {v.reasons : v \in {w \in S : w.state = pick_worst(states)}}
  BY DEF merge_health
<1> QED
  BY <1>2, <1>3

\* Merged in stages or at once, verdicts give the same: merge_health over the verdicts
\* that merge_health drew from the rules of each subject.
THEOREM RollupInStages ==
    ASSUME NEW F, F # {}, {} \notin F,
           \A S \in F : \A v \in S : v.state \in HealthStates
    PROVE  merge_health({merge_health(S) : S \in F}) = merge_health(UNION F)
<1> DEFINE merged == {merge_health(S) : S \in F}
           all == UNION F
           outer == merge_health(merged)
           flat == merge_health(all)
<1>1. \A S \in F : /\ \E v \in S : merge_health(S).state = v.state
                   /\ \A v \in S : STATE_RANK[merge_health(S).state] <= STATE_RANK[v.state]
                   /\ \A r : r \in merge_health(S).reasons <=>
                                 \E v \in S : v.state = merge_health(S).state /\ r \in v.reasons
  <2> SUFFICES ASSUME NEW S \in F
               PROVE  /\ \E v \in S : merge_health(S).state = v.state
                      /\ \A v \in S :
                             STATE_RANK[merge_health(S).state] <= STATE_RANK[v.state]
                      /\ \A r : r \in merge_health(S).reasons <=>
                                 \E v \in S : v.state = merge_health(S).state /\ r \in v.reasons
    OBVIOUS
  <2>1. S # {} /\ \A v \in S : v.state \in HealthStates
    OBVIOUS
  <2> QED
    BY <2>1, RollupIsWorst
<1>2. all # {} /\ \A v \in all : v.state \in HealthStates
  OBVIOUS
<1>3. merged # {} /\ \A m \in merged : m.state \in HealthStates
  BY <1>1
<1>4. /\ \E v \in all : flat.state = v.state
      /\ \A v \in all : STATE_RANK[flat.state] <= STATE_RANK[v.state]
      /\ \A r : r \in flat.reasons <=> \E v \in all : v.state = flat.state /\ r \in v.reasons
  <2> HIDE DEF all
  <2> QED
    BY <1>2, RollupIsWorst
<1>5. /\ \E m \in merged : outer.state = m.state
      /\ \A m \in merged : STATE_RANK[outer.state] <= STATE_RANK[m.state]
      /\ \A r : r \in outer.reasons <=> \E m \in merged : m.state = outer.state /\ r \in m.reasons
  <2> HIDE DEF merged
  <2> QED
    BY <1>3, RollupIsWorst
<1>6. \A s, t \in HealthStates : STATE_RANK[s] <= STATE_RANK[t] /\ STATE_RANK[t] <= STATE_RANK[s]
                                    => s = t
  BY DEF HealthStates, STATE_RANK
<1>7. \A s, t, u \in HealthStates : STATE_RANK[s] <= STATE_RANK[t] /\ STATE_RANK[t] <= STATE_RANK[u]
                                       => STATE_RANK[s] <= STATE_RANK[u]
  BY DEF HealthStates, STATE_RANK
<1>8. DOMAIN outer = {"state", "reasons"} /\ DOMAIN flat = {"state", "reasons"}
      /\ outer = [state |-> outer.state, reasons |-> outer.reasons]
      /\ flat = [state |-> flat.state, reasons |-> flat.reasons]
  BY <1>2, <1>3 DEF merge_health
<1> HIDE DEF outer, flat
<1>9. outer.state \in HealthStates /\ flat.state \in HealthStates
  BY <1>2, <1>3, <1>4, <1>5
<1>10. outer.state = flat.state
  <2>1. STATE_RANK[flat.state] <= STATE_RANK[outer.state]
    <3>1. PICK S \in F : outer.state = merge_health(S).state
      BY <1>5
    <3>2. PICK v \in S : merge_health(S).state = v.state
      BY <1>1
    <3> QED
      BY <1>4, <3>1, <3>2
  <2>2. STATE_RANK[outer.state] <= STATE_RANK[flat.state]
    <3>1. PICK S \in F : \E v \in S : flat.state = v.state
      BY <1>4
    <3>2. /\ STATE_RANK[outer.state] <= STATE_RANK[merge_health(S).state]
          /\ STATE_RANK[merge_health(S).state] <= STATE_RANK[flat.state]
          /\ merge_health(S).state \in HealthStates
      BY <1>1, <1>3, <1>5, <3>1
    <3> QED
      BY <1>7, <1>9, <3>2
  <2> QED
    BY <1>6, <1>9, <2>1, <2>2
<1>11. \A r : r \in outer.reasons <=> r \in flat.reasons
  <2> TAKE r
  <2>1. ASSUME r \in outer.reasons
        PROVE  r \in flat.reasons
    <3>1. PICK S \in F : merge_health(S).state = outer.state /\ r \in merge_health(S).reasons
      BY <1>5, <2>1
    <3>2. PICK v \in S : v.state = merge_health(S).state /\ r \in v.reasons
      BY <1>1, <3>1
    <3> QED
      BY <1>4, <1>10, <3>1, <3>2
  <2>2. ASSUME r \in flat.reasons
        PROVE  r \in outer.reasons
    <3>1. PICK v \in all : v.state = flat.state /\ r \in v.reasons
      BY <1>4, <2>2
    <3>2. PICK S \in F : v \in S
      OBVIOUS
    <3>3. merge_health(S).state = outer.state
      <4>1. /\ STATE_RANK[outer.state] <= STATE_RANK[merge_health(S).state]
            /\ STATE_RANK[merge_health(S).state] <= STATE_RANK[outer.state]
            /\ merge_health(S).state \in HealthStates
        BY <1>1, <1>3, <1>5, <1>10, <3>1, <3>2
      <4> QED
        BY <1>6, <1>9, <4>1
    <3>4. r \in merge_health(S).reasons
      BY <1>1, <1>10, <3>1, <3>2, <3>3
    <3> QED
      BY <1>5, <3>2, <3>3, <3>4
  <2> QED
    BY <2>1, <2>2
<1>12. outer.reasons = flat.reasons
  <2>1. outer.reasons = UNION {m.reasons : m \in {n \in merged : n.state = outer.state}}
    BY <1>3 DEF outer, merge_health
  <2>2. flat.reasons = UNION {v.reasons : v \in {w \in all : w.state = flat.state}}
    BY <1>2 DEF flat, merge_health
  <2> QED
    BY <1>11, <2>1, <2>2
<1>13. outer = flat
  BY <1>8, <1>10, <1>12
<1> QED
  BY <1>13 DEF outer, flat

-----------------------------------------------------------------------------
(* Verdicts are in a state of health.                                      *)

\* A verdict is in a state of health, and the second informational reason of the
\* dashboard is none the engine gives.
Sound(v) ==
    /\ v.state \in HealthStates
    /\ "matter_node_read_probe_diagnostics_limited" \notin v.reasons

LEMMA RulesAreSound ==
    ASSUME NEW state \in HealthStates, NEW reason,
           reason # "matter_node_read_probe_diagnostics_limited"
    PROVE  /\ Sound(Verdict(state, reason))
           /\ \A applies : \A v \in Rule(applies, state, reason) : Sound(v)
BY DEF Sound, Verdict, Rule

LEMMA TalliesAreSound ==
    ASSUME NEW count, NEW warning, NEW degraded, NEW r, NEW s,
           r # "matter_node_read_probe_diagnostics_limited",
           s # "matter_node_read_probe_diagnostics_limited"
    PROVE  \A v \in Tally(count, warning, degraded, r, s) : Sound(v)
<1>1. "warning" \in HealthStates /\ "degraded" \in HealthStates
  BY DEF HealthStates, STATE_RANK
<1> QED
  BY <1>1 DEF Tally, Rule, Verdict, Sound

\* A verdict merged from sound ones is sound.
LEMMA MergeIsSound ==
    ASSUME NEW S, S # {}, \A v \in S : Sound(v)
    PROVE  Sound(merge_health(S))
<1>1. PICK v \in S : merge_health(S).state = v.state
  BY RollupIsWorst DEF Sound
<1>2. \A r : r \in merge_health(S).reasons =>
                 \E w \in S : w.state = merge_health(S).state /\ r \in w.reasons
  BY RollupIsWorst DEF Sound
<1> QED
  BY <1>1, <1>2 DEF Sound

LEMMA JudgedIsSound ==
    ASSUME NEW S, \A v \in S : Sound(v)
    PROVE  Sound(Judged(S))
<1>1. Sound(Healthy)
  BY DEF Sound, Healthy, HealthStates, STATE_RANK
<1>2. CASE S = {}
  <2>1. Judged(S) = merge_health({Healthy})
    BY <1>2 DEF Judged
  <2> QED
    BY <1>1, <2>1, MergeIsSound
<1>3. CASE S # {}
  BY <1>3, MergeIsSound DEF Judged
<1> QED
  BY <1>2, <1>3

LEMMA OtbrSound ==
    ASSUME NEW row, NEW changes
    PROVE  Sound(calculate_otbr_health(row, changes))
<1> DEFINE rules == Rule(row.mismatch, "warning", "otbr_rest_endpoint_mismatch")
                    \cup Rule(row.network = Null, "warning", "otbr_dataset_unknown")
                    \cup Tally(changes, Flapping.role_warning, Flapping.role_degraded,
                           "otbr_role_flapping_warning", "otbr_role_flapping_degraded")
<1>1. {"warning", "degraded", "critical", "unknown"} \subseteq HealthStates
  BY DEF HealthStates, STATE_RANK
<1>2. \A v \in rules : Sound(v)
  BY <1>1, RulesAreSound, TalliesAreSound
<1>3. Sound(Judged(rules))
  BY <1>2, JudgedIsSound
<1>4. /\ Sound(Verdict("unknown", "otbr_not_observed"))
      /\ Sound(Verdict("critical", "otbr_unreachable"))
      /\ Sound(Verdict("degraded", "otbr_thread_stack_disabled"))
  BY <1>1, RulesAreSound
<1> QED
  BY <1>3, <1>4 DEF calculate_otbr_health

LEMMA ServerSound ==
    ASSUME NEW row
    PROVE  Sound(calculate_matter_server_health(row))
<1> DEFINE rules == Rule(~row.inventory, "warning", "matter_node_inventory_unavailable")
                    \cup Rule(row.unavailable > 0, "warning", "matter_nodes_unavailable")
<1>1. {"warning", "critical", "unknown"} \subseteq HealthStates
  BY DEF HealthStates, STATE_RANK
<1>2. Sound(Judged(rules))
  <2>1. \A v \in rules : Sound(v)
    BY <1>1, RulesAreSound
  <2> QED
    BY <2>1, JudgedIsSound
<1>3. /\ Sound(Verdict("unknown", "matter_server_not_observed"))
      /\ Sound(Verdict("critical", "matter_server_disconnected"))
  BY <1>1, RulesAreSound
<1> QED
  BY <1>2, <1>3 DEF calculate_matter_server_health

LEMMA NodeSound ==
    ASSUME NEW row, NEW serverRow
    PROVE  Sound(calculate_matter_node_health(row, serverRow))
<1> DEFINE rules == Tally(row.flaps, Flapping.availability_warning,
                          Flapping.availability_degraded,
                          "matter_node_availability_flapping_warning",
                          "matter_node_availability_flapping_degraded")
                    \cup ProbeRules(row)
                    \cup Rule(row.ping = "no", "warning", "matter_node_ping_probe_failed")
<1>1. {"warning", "degraded", "critical", "unknown"} \subseteq HealthStates
  BY DEF HealthStates, STATE_RANK
<1>2. \A v \in ProbeRules(row) : Sound(v)
  BY <1>1, RulesAreSound, TalliesAreSound DEF ProbeRules
<1>3. Sound(Judged(rules))
  <2>1. \A v \in rules : Sound(v)
    BY <1>1, <1>2, RulesAreSound, TalliesAreSound
  <2> QED
    BY <2>1, JudgedIsSound
<1>4. /\ Sound(Verdict("unknown", "matter_node_availability_unknown"))
      /\ Sound(Verdict("critical", "matter_node_unavailable_critical"))
      /\ Sound(Verdict("degraded", "matter_node_unavailable"))
  BY <1>1, RulesAreSound
<1> QED
  BY <1>3, <1>4 DEF calculate_matter_node_health, UnavailableVerdict

LEMMA DiscoverySound ==
    ASSUME NEW w
    PROVE  Sound(calculate_mdns_health(w)) /\ Sound(calculate_trel_health(w))
<1>1. {"warning", "degraded", "unknown"} \subseteq HealthStates
  BY DEF HealthStates, STATE_RANK
<1>2. \A count : \A v \in FlapRules(count) : Sound(v)
  BY TalliesAreSound DEF FlapRules
<1>3. /\ Sound(Disabled) /\ Sound(CapabilityUnknown)
      /\ Sound(Verdict("warning", "mdns_observer_not_running"))
      /\ Sound(Verdict("warning", "mdns_observation_degraded"))
  BY <1>1, RulesAreSound DEF Disabled, CapabilityUnknown
<1>4. Sound(calculate_mdns_health(w))
  BY <1>2, <1>3, JudgedIsSound DEF calculate_mdns_health
<1>5. Sound(calculate_trel_health(w))
  <2> DEFINE rules == Rule(w.foreignTrel, "warning", "foreign_trel_services_observed")
                          \cup FlapRules(w.trelFlaps)
  <2>1. \A v \in rules : Sound(v)
    BY <1>1, <1>2, RulesAreSound
  <2>2. rules # {} => Sound(merge_health(rules))
    BY <2>1, MergeIsSound
  <2>3. Sound(Healthy)
    BY DEF Sound, Healthy, HealthStates, STATE_RANK
  <2> QED
    BY <1>3, <2>2, <2>3 DEF calculate_trel_health
<1> QED
  BY <1>4, <1>5

LEMMA VerdictsAreSound ==
    ASSUME NEW w, NEW nodes
    PROVE  \A v \in Statuses(w, nodes) : Sound(v)
<1>1. {"warning", "degraded"} \subseteq HealthStates
  BY DEF HealthStates, STATE_RANK
<1>2. Sound(Healthy)
  BY DEF Sound, Healthy, HealthStates, STATE_RANK
<1>3. Sound(configured_otbr_disagreement(w)) /\ Sound(primary_network_unknown(w))
  BY <1>1, <1>2, RulesAreSound DEF configured_otbr_disagreement, primary_network_unknown
<1> QED
  BY <1>3, OtbrSound, ServerSound, NodeSound, DiscoverySound
  DEF Statuses, OtbrVerdict, ServerVerdict, NodeVerdict

-----------------------------------------------------------------------------
(* Worse signals, no better verdicts.                                      *)

NoBetter(v, w) == STATE_RANK[v.state] <= STATE_RANK[w.state]

LEMMA Ranks ==
    /\ HealthStates = {"critical", "degraded", "warning", "unknown", "healthy"}
    /\ STATE_RANK["critical"] = 0 /\ STATE_RANK["degraded"] = 1
    /\ STATE_RANK["warning"] = 2 /\ STATE_RANK["unknown"] = 3 /\ STATE_RANK["healthy"] = 4
    /\ \A s \in HealthStates : STATE_RANK[s] \in 0..4
BY DEF HealthStates, STATE_RANK

\* Of two sets of verdicts, the one that has something as bad for each of the other.
LEMMA MergeMonotone ==
    ASSUME NEW A, NEW B, A # {}, B # {},
           \A v \in A \cup B : v.state \in HealthStates,
           \A w \in B : \E v \in A : NoBetter(v, w)
    PROVE  NoBetter(merge_health(A), merge_health(B))
<1>1. PICK w \in B : merge_health(B).state = w.state
  <2>1. \A v \in B : v.state \in HealthStates
    OBVIOUS
  <2> QED
    BY <2>1, RollupIsWorst
<1>2. PICK v \in A : NoBetter(v, w)
  OBVIOUS
<1>3. /\ \E u \in A : merge_health(A).state = u.state
      /\ STATE_RANK[merge_health(A).state] <= STATE_RANK[v.state]
  <2>1. \A u \in A : u.state \in HealthStates
    OBVIOUS
  <2> QED
    BY <2>1, RollupIsWorst
<1>4. /\ STATE_RANK[merge_health(A).state] \in Nat /\ STATE_RANK[v.state] \in Nat
      /\ STATE_RANK[w.state] \in Nat
  BY <1>3, Ranks
<1> QED
  BY <1>1, <1>2, <1>3, <1>4 DEF NoBetter

LEMMA JudgedMonotone ==
    ASSUME NEW A, NEW B,
           \A v \in A \cup B : v.state \in HealthStates,
           \A w \in B : \E v \in A : NoBetter(v, w)
    PROVE  NoBetter(Judged(A), Judged(B)) /\ Judged(A).state \in HealthStates
<1>1. Healthy.state = "healthy" /\ "healthy" \in HealthStates
  BY Ranks DEF Healthy
<1> DEFINE a == IF A = {} THEN {Healthy} ELSE A
           b == IF B = {} THEN {Healthy} ELSE B
<1>2. a # {} /\ b # {} /\ \A v \in a \cup b : v.state \in HealthStates
  BY <1>1
<1>3. \A w \in b : \E v \in a : NoBetter(v, w)
  <2>1. CASE B = {}
    BY <1>1, <1>2, <2>1, Ranks DEF NoBetter
  <2>2. CASE B # {}
    BY <2>2
  <2> QED
    BY <2>1, <2>2
<1>4. Judged(A) = merge_health(a) /\ Judged(B) = merge_health(b)
  BY DEF Judged
<1> HIDE DEF a, b
<1>5. NoBetter(merge_health(a), merge_health(b))
  BY <1>2, <1>3, MergeMonotone
<1>6. merge_health(a).state \in HealthStates
  <2>1. \A v \in a : v.state \in HealthStates
    BY <1>2
  <2>2. \E v \in a : merge_health(a).state = v.state
    BY <1>2, <2>1, RollupIsWorst
  <2> QED
    BY <2>1, <2>2
<1> QED
  BY <1>4, <1>5, <1>6

\* Rules are warnings or degraded, and so is what is drawn from them.
LEMMA JudgedFromRules ==
    ASSUME NEW S, \A v \in S : v.state \in {"warning", "degraded"}
    PROVE  Judged(S).state \in {"warning", "degraded", "healthy"}
<1>1. \A v \in S \cup {Healthy} : v.state \in HealthStates
  BY Ranks DEF Healthy
<1>2. CASE S = {}
  <2>1. \E v \in {Healthy} : merge_health({Healthy}).state = v.state
    BY <1>1, RollupIsWorst
  <2> QED
    BY <1>2, <2>1 DEF Judged, Healthy
<1>3. CASE S # {}
  <2>1. \E v \in S : merge_health(S).state = v.state
    BY <1>1, <1>3, RollupIsWorst
  <2> QED
    BY <1>3, <2>1 DEF Judged
<1> QED
  BY <1>2, <1>3

LEMMA TallyMonotone ==
    ASSUME NEW more \in Nat, NEW fewer \in Nat, more >= fewer,
           NEW warning \in Nat, NEW degraded \in Nat, NEW r, NEW s
    PROVE  /\ \A v \in Tally(more, warning, degraded, r, s) : v.state \in {"warning", "degraded"}
           /\ \A v \in Tally(fewer, warning, degraded, r, s) : v.state \in {"warning", "degraded"}
           /\ \A w \in Tally(fewer, warning, degraded, r, s) :
                  \E v \in Tally(more, warning, degraded, r, s) : NoBetter(v, w)
<1> DEFINE T(count) == Tally(count, warning, degraded, r, s)
<1>1. \A count \in Nat :
          T(count) = IF count >= degraded THEN {Verdict("degraded", s)}
                     ELSE IF count >= warning THEN {Verdict("warning", r)} ELSE {}
  BY DEF Tally, Rule
<1>2. Verdict("degraded", s).state = "degraded" /\ Verdict("warning", r).state = "warning"
  BY DEF Verdict
<1> HIDE DEF T
<1>3. \A count \in Nat : \A v \in T(count) : v.state \in {"warning", "degraded"}
  BY <1>1, <1>2
<1>4. ASSUME NEW w \in T(fewer)
      PROVE  \E v \in T(more) : NoBetter(v, w)
  <2>1. CASE fewer >= degraded
    <3>1. T(more) = T(fewer)
      BY <1>1, <2>1
    <3> QED
      BY <1>2, <1>3, <3>1, Ranks DEF NoBetter
  <2>2. CASE ~(fewer >= degraded) /\ fewer >= warning
    <3>1. w = Verdict("warning", r)
      BY <1>1, <2>2
    <3>2. T(more) = {Verdict("degraded", s)} \/ T(more) = {Verdict("warning", r)}
      BY <1>1, <2>2
    <3> QED
      BY <1>2, <3>1, <3>2, Ranks DEF NoBetter
  <2>3. CASE ~(fewer >= degraded) /\ ~(fewer >= warning)
    BY <1>1, <2>3
  <2> QED
    BY <2>1, <2>2, <2>3
<1> QED
  BY <1>3, <1>4 DEF T

\* Each signal of record m is as bad as that of n.
SignalsNoBetter(m, n) ==
    /\ m.available => n.available
    /\ m.down >= n.down /\ m.flaps >= n.flaps /\ m.failures >= n.failures
    /\ n.diagnostics /\ ~n.limited => m.diagnostics /\ ~m.limited
    /\ n.ok = "no" => m.ok = "no"
    /\ n.ping = "no" => m.ping = "no"

\* The engine never judges a node better for worse signals, whatever the thresholds:
\* calculate_matter_node_health.
THEOREM NodeVerdictMonotone ==
    ASSUME NEW m, NEW n, NEW serverRow, SignalsNoBetter(m, n),
           {m.down, n.down, m.flaps, n.flaps, m.failures, n.failures} \subseteq Nat
    PROVE  NoBetter(calculate_matter_node_health(m, serverRow),
                    calculate_matter_node_health(n, serverRow))
<1> DEFINE rules(x) ==
               Tally(x.flaps, Flapping.availability_warning, Flapping.availability_degraded,
                     "matter_node_availability_flapping_warning",
                     "matter_node_availability_flapping_degraded")
                   \cup ProbeRules(x)
                   \cup Rule(x.ping = "no", "warning", "matter_node_ping_probe_failed")
           A == rules(m)
           B == rules(n)
<1>1. {Flapping.availability_warning, Flapping.availability_degraded, Flapping.probe_warning,
       Flapping.probe_degraded, Flapping.unavailable_critical} \subseteq Nat
  BY HealthAssumption
<1>2. \A x \in {m, n} : x.available /\ AvailabilityObservable(serverRow) =>
          calculate_matter_node_health(x, serverRow) = Judged(rules(x))
  BY DEF calculate_matter_node_health
<1>3. /\ \A v \in A \cup B : v.state \in {"warning", "degraded"}
      /\ \A w \in B : \E v \in A : NoBetter(v, w)
  <2> DEFINE Flaps(x) ==
                 Tally(x.flaps, Flapping.availability_warning, Flapping.availability_degraded,
                       "matter_node_availability_flapping_warning",
                       "matter_node_availability_flapping_degraded")
             Failures(x) ==
                 Tally(x.failures, Flapping.probe_warning, Flapping.probe_degraded,
                       "matter_node_read_probe_failures_24h",
                       "matter_node_read_probe_failures_24h")
             Pinged(x) == Rule(x.ping = "no", "warning", "matter_node_ping_probe_failed")
             Read(x) == Rule(x.ok = "no", "warning", "matter_node_read_probe_failed")
  <2>1. /\ \A v \in Flaps(m) \cup Flaps(n) : v.state \in {"warning", "degraded"}
        /\ \A w \in Flaps(n) : \E v \in Flaps(m) : NoBetter(v, w)
    BY <1>1, TallyMonotone DEF SignalsNoBetter
  <2>2. /\ \A v \in Failures(m) \cup Failures(n) : v.state \in {"warning", "degraded"}
        /\ \A w \in Failures(n) : \E v \in Failures(m) : NoBetter(v, w)
    BY <1>1, TallyMonotone DEF SignalsNoBetter
  <2>3. /\ \A v \in Pinged(m) \cup Pinged(n) \cup Read(m) \cup Read(n) : v.state = "warning"
        /\ Pinged(n) \subseteq Pinged(m) /\ Read(n) \subseteq Read(m)
    BY DEF SignalsNoBetter, Rule, Verdict
  <2>4. \A v : NoBetter(v, v) \/ v.state \notin HealthStates
    BY Ranks DEF NoBetter
  <2>5. /\ ProbeRules(m) \subseteq Read(m) \cup Failures(m)
        /\ ProbeRules(n) \subseteq Read(n) \cup Failures(n)
        /\ ProbeRules(n) # {} => ProbeRules(m) = Read(m) \cup Failures(m)
    BY DEF ProbeRules, SignalsNoBetter
  <2>6. /\ A = Flaps(m) \cup ProbeRules(m) \cup Pinged(m)
        /\ B = Flaps(n) \cup ProbeRules(n) \cup Pinged(n)
    OBVIOUS
  <2> HIDE DEF Flaps, Failures, Pinged, Read, A, B
  <2>7. \A v \in A \cup B : v.state \in {"warning", "degraded"}
    BY <2>1, <2>2, <2>3, <2>5, <2>6
  <2>8. ASSUME NEW w \in B
        PROVE  \E v \in A : NoBetter(v, w)
    <3>1. CASE w \in Flaps(n)
      BY <2>1, <2>6, <3>1
    <3>2. CASE w \in Failures(n) /\ w \in ProbeRules(n)
      BY <2>2, <2>5, <2>6, <3>2
    <3>3. CASE (w \in Read(n) /\ w \in ProbeRules(n)) \/ w \in Pinged(n)
      BY <2>3, <2>4, <2>5, <2>6, <2>7, <3>3, Ranks
    <3> QED
      BY <2>5, <2>6, <3>1, <3>2, <3>3
  <2> QED
    BY <2>7, <2>8
<1> HIDE DEF A, B
<1>4. \A v \in A \cup B : v.state \in HealthStates
  BY <1>3, Ranks
<1>5. NoBetter(Judged(A), Judged(B))
  BY <1>3, <1>4, JudgedMonotone
<1>6. Judged(B).state \in {"warning", "degraded", "healthy"}
  BY <1>3, JudgedFromRules
<1>7. CASE ~AvailabilityObservable(serverRow)
  BY <1>7, Ranks DEF calculate_matter_node_health, NoBetter, Verdict
<1>8. CASE AvailabilityObservable(serverRow) /\ m.available
  BY <1>2, <1>5, <1>8 DEF SignalsNoBetter, A, B
<1>9. CASE AvailabilityObservable(serverRow) /\ ~m.available /\ n.available
  <2>1. calculate_matter_node_health(m, serverRow).state \in {"critical", "degraded"}
    BY <1>9 DEF calculate_matter_node_health, UnavailableVerdict, Verdict
  <2>2. calculate_matter_node_health(n, serverRow) = Judged(B)
    BY <1>2, <1>9 DEF B
  <2> QED
    BY <1>6, <2>1, <2>2, Ranks DEF NoBetter
<1>10. CASE AvailabilityObservable(serverRow) /\ ~m.available /\ ~n.available
  BY <1>1, <1>10, Ranks
  DEF calculate_matter_node_health, UnavailableVerdict, Verdict, NoBetter, SignalsNoBetter
<1> QED
  BY <1>7, <1>8, <1>9, <1>10

\* Each signal of a router's row m, and its changes of role, is as bad as that of n.
RowNoBetter(m, mChanges, n, nChanges) ==
    /\ m.reachable => n.reachable
    /\ n.thread_state = "disabled" => m.thread_state = "disabled"
    /\ n.mismatch => m.mismatch
    /\ n.network = Null => m.network = Null
    /\ mChanges >= nChanges

\* The engine never judges a router better for worse signals: calculate_otbr_health.
THEOREM RouterVerdictMonotone ==
    ASSUME NEW m, NEW n, m # Absent, n # Absent, NEW c \in Nat, NEW d \in Nat,
           RowNoBetter(m, c, n, d)
    PROVE  NoBetter(calculate_otbr_health(m, c), calculate_otbr_health(n, d))
<1> DEFINE Roles(count) ==
               Tally(count, Flapping.role_warning, Flapping.role_degraded,
                     "otbr_role_flapping_warning", "otbr_role_flapping_degraded")
           Others(x) == Rule(x.mismatch, "warning", "otbr_rest_endpoint_mismatch")
                            \cup Rule(x.network = Null, "warning", "otbr_dataset_unknown")
           A == Others(m) \cup Roles(c)
           B == Others(n) \cup Roles(d)
<1>1. {Flapping.role_warning, Flapping.role_degraded} \subseteq Nat
  BY HealthAssumption
<1>2. /\ \A v \in Roles(c) \cup Roles(d) : v.state \in {"warning", "degraded"}
      /\ \A w \in Roles(d) : \E v \in Roles(c) : NoBetter(v, w)
  BY <1>1, TallyMonotone DEF RowNoBetter
<1>3. /\ \A v \in Others(m) \cup Others(n) : v.state = "warning"
      /\ Others(n) \subseteq Others(m)
  BY DEF RowNoBetter, Rule, Verdict
<1>4. \A x, count : calculate_otbr_health(x, count) =
          IF x = Absent THEN Verdict("unknown", "otbr_not_observed")
          ELSE IF ~x.reachable THEN Verdict("critical", "otbr_unreachable")
          ELSE IF x.thread_state = "disabled"
               THEN Verdict("degraded", "otbr_thread_stack_disabled")
          ELSE Judged(Others(x) \cup Roles(count))
  BY DEF calculate_otbr_health
<1> HIDE DEF Roles, Others
<1>5. \A v \in A \cup B : v.state \in {"warning", "degraded"} /\ v.state \in HealthStates
  BY <1>2, <1>3, Ranks
<1>6. \A w \in B : \E v \in A : NoBetter(v, w)
  <2>1. \A w \in Others(n) : w \in A /\ NoBetter(w, w)
    BY <1>3, <1>5, Ranks DEF NoBetter
  <2> QED
    BY <1>2, <2>1
<1> HIDE DEF A, B
<1>7. NoBetter(Judged(A), Judged(B))
  BY <1>5, <1>6, JudgedMonotone
<1>8. Judged(B).state \in {"warning", "degraded", "healthy"}
  BY <1>5, JudgedFromRules
<1>9. CASE ~m.reachable
  <2>1. calculate_otbr_health(m, c).state = "critical"
    BY <1>4, <1>9 DEF Verdict
  <2>2. calculate_otbr_health(n, d).state \in HealthStates
    BY <1>4, <1>8, Ranks DEF Verdict, B
  <2> QED
    BY <2>1, <2>2, Ranks DEF NoBetter
<1>10. CASE m.reachable /\ m.thread_state = "disabled"
  <2>1. calculate_otbr_health(m, c).state = "degraded"
    BY <1>4, <1>10 DEF Verdict
  <2>2. calculate_otbr_health(n, d).state \in {"warning", "degraded", "healthy"}
    BY <1>4, <1>8, <1>10 DEF Verdict, RowNoBetter, B
  <2> QED
    BY <2>1, <2>2, Ranks DEF NoBetter
<1>11. CASE m.reachable /\ m.thread_state # "disabled"
  BY <1>4, <1>7, <1>11 DEF RowNoBetter, A, B
<1> QED
  BY <1>9, <1>10, <1>11

\* The report is no better if nothing it is drawn from is, although with insufficient
\* data it has a verdict more: build_report.
THEOREM ReportMonotone ==
    ASSUME NEW worse, NEW moreNodes, NEW world, NEW nodes,
           \A w \in Statuses(world, nodes) :
               \E v \in Statuses(worse, moreNodes) : NoBetter(v, w)
    PROVE  NoBetter(build_report(worse, moreNodes), build_report(world, nodes))
<1> DEFINE extra == Rule(insufficient_data(world, nodes), "unknown", "insufficient_data")
           more == Rule(insufficient_data(worse, moreNodes), "unknown", "insufficient_data")
           A == Statuses(worse, moreNodes) \cup more
           B == Statuses(world, nodes) \cup extra
<1>1. A # {} /\ B # {}
  BY DEF Statuses
<1>2. \A v \in A \cup B : v.state \in HealthStates
  BY VerdictsAreSound, Ranks DEF Sound, Rule, Verdict
<1>3. ASSUME NEW w \in B
      PROVE  \E v \in A : NoBetter(v, w)
  <2>1. CASE w \in Statuses(world, nodes)
    BY <2>1
  <2>2. CASE w \in extra
    <3>1. insufficient_data(world, nodes) /\ w.state = "unknown"
      BY <2>2 DEF Rule, Verdict
    <3>2. calculate_mdns_health(world) = Disabled
      BY <3>1 DEF insufficient_data, calculate_mdns_health
    <3>3. Disabled \in Statuses(world, nodes) /\ Disabled.state = "unknown"
      BY <3>2 DEF Statuses, Disabled, Verdict
    <3>4. PICK v \in Statuses(worse, moreNodes) : NoBetter(v, Disabled)
      BY <3>3
    <3> QED
      BY <3>1, <3>3, <3>4 DEF NoBetter
  <2> QED
    BY <2>1, <2>2
<1>4. /\ build_report(worse, moreNodes) = merge_health(A)
      /\ build_report(world, nodes) = merge_health(B)
  BY DEF build_report
<1> HIDE DEF A, B
<1> QED
  BY <1>1, <1>2, <1>3, <1>4, MergeMonotone

\* A report of more nodes is no better: merge_health over every node with a row.
COROLLARY MoreNodesNoBetter ==
    ASSUME NEW world, NEW nodes, NEW moreNodes, nodes \subseteq moreNodes
    PROVE  NoBetter(build_report(world, moreNodes), build_report(world, nodes))
<1>1. Statuses(world, nodes) \subseteq Statuses(world, moreNodes)
  BY DEF Statuses
<1>2. \A w \in Statuses(world, nodes) : NoBetter(w, w)
  BY VerdictsAreSound, Ranks DEF Sound, NoBetter
<1> QED
  BY <1>1, <1>2, ReportMonotone

\* Nor is the report of a node whose signals have got worse: NodeVerdictMonotone,
\* rolled up.
COROLLARY WorseNodeNoBetter ==
    ASSUME NEW world, NEW nodes, NEW m, NEW n, SignalsNoBetter(m, n), m.server = n.server,
           {m.down, n.down, m.flaps, n.flaps, m.failures, n.failures} \subseteq Nat
    PROVE  NoBetter(build_report(world, nodes \cup {m}), build_report(world, nodes \cup {n}))
<1> DEFINE A == Statuses(world, nodes \cup {m})
           B == Statuses(world, nodes \cup {n})
<1>1. NoBetter(NodeVerdict(world, m), NodeVerdict(world, n))
  BY NodeVerdictMonotone DEF NodeVerdict
<1>2. /\ NodeVerdict(world, m) \in A
      /\ \A w \in B : w \in A \/ w = NodeVerdict(world, n)
  BY DEF Statuses
<1>3. \A w \in B : NoBetter(w, w)
  BY VerdictsAreSound, Ranks DEF Sound, NoBetter
<1>4. \A w \in B : \E v \in A : NoBetter(v, w)
  BY <1>1, <1>2, <1>3
<1> QED
  BY <1>4, ReportMonotone
=============================================================================
