---------------------------- MODULE NodeSignals ----------------------------
(***************************************************************************)
(* The signals one Matter node's record collects, by which its health is   *)
(* judged: its availability with the changes counted, and the outcomes of  *)
(* its read probes (collectors/matter_probes.py and                        *)
(* matter_probe_planner.py).                                               *)
(*                                                                         *)
(* A probe run plans the attribute paths to try, tries one after another,  *)
(* writes counts and an event after each, and draws its conclusion at the  *)
(* end.  The counts are those of the event log at that moment; they stay   *)
(* on the record while the log grows older.                                *)
(*                                                                         *)
(* The node is known and its server connected; a run that loses the        *)
(* connection gets refusals, which count as failures.  One run at a time   *)
(* and no report during one of its writes: what overlapping writers do to  *)
(* a record is in MatterNodes.                                             *)
(***************************************************************************)
EXTENDS Integers, Sequences, FiniteSets, SequencesExt

CONSTANTS
    Modes,          \* probe modes the configuration may choose
    Preferred,      \* advanced.per_node.preferred of this node
    Fallback,       \* advanced.attributes.fallback
    WindowCovering, \* advanced.attributes.window_covering
    KeySets,        \* attribute keys this node may report
    PingEnabled,    \* ping diagnostics
    Critical,       \* matter_node_unavailable_critical_minutes
    MaxEvents       \* events of each kind within the window (bound)

\* An attribute is named by its endpoint, its cluster and its number.
Paths == Nat \X Nat \X Nat

ASSUME SignalsAssumption ==
    /\ Modes \subseteq {"conservative", "standard", "diagnostic"}
    /\ {Preferred, Fallback, WindowCovering} \subseteq Seq(Paths)
    /\ \A keys \in KeySets : IsFiniteSet(keys) /\ keys \subseteq Paths
    /\ PingEnabled \in BOOLEAN /\ Critical \in Nat
    /\ MaxEvents \in [{"down", "up", "generic", "specific"} -> Nat]

VARIABLES
    mode,       \* effective_mode
    node,       \* the record
    log,        \* events of the last 24 hours, by kind
    run,        \* the probe run: candidates left, outcomes so far
    outage,     \* history: how long the node has been unavailable
    replanned   \* history: its keys or the mode changed since the last run began

vars == <<mode, node, log, run, outage, replanned>>

NoPath == <<>>
Idle == [todo |-> <<>>, outcomes |-> <<>>]

\* Counts of 24 hours are written when the record is.  down is the age of
\* last_unavailable.
Fresh ==
    [available |-> TRUE, down |-> 0, flaps |-> 0, diagnostics |-> FALSE, ok |-> "none",
     limited |-> FALSE, failures |-> 0, ping |-> "none", path |-> NoPath,
     unsupported |-> {}, keys |-> {}]

Kinds == {"down", "up", "generic", "specific"}

Candidate == [path : Paths, weight : {"generic", "specific", "override"}]
Result ==
    [path : Paths, weight : {"generic", "specific", "override"},
     answer : {"yes", "no", "unsupported"}]

NodeRecord ==
    [available : BOOLEAN, down : 0..Critical, flaps : 0..MaxEvents.down,
     diagnostics : BOOLEAN, ok : {"yes", "no", "none"}, limited : BOOLEAN,
     failures : 0..(MaxEvents.generic + MaxEvents.specific),
     ping : {"yes", "no", "none"}, path : Paths \cup {NoPath},
     unsupported : SUBSET Paths, keys : SUBSET Paths]

-----------------------------------------------------------------------------
(* Planning.                                                               *)

WINDOW_COVERING_CLUSTER == 258
DESCRIPTOR_CLUSTER == 29
CLUSTER_ORDER == <<40, WINDOW_COVERING_CLUSTER, DESCRIPTOR_CLUSTER>>
CLUSTER_READ_PRIORITIES ==
    <<<<2, 4, 5, 3, 1, 0, 7, 8>>, <<10, 0, 7, 8, 11, 12>>, <<0, 1, 2>>>>
EXTRA_DISCOVERED_CLUSTERS == {3, 6, 8}
MAX_DISCOVERED_CANDIDATES == 12

\* The members of a finite set in the order of a relation, and what a sequence has at
\* some of its positions.
Ascending(S, R) ==
    [k \in 1..Cardinality(S) |->
        CHOOSE x \in S : Cardinality({y \in S : <<y, x>> \in R}) = k - 1]

LessThan(S) == {pair \in S \X S : pair[1] < pair[2]}

Picked(seq, positions) ==
    LET at == Ascending(positions, LessThan(positions))
    IN  [k \in DOMAIN at |-> seq[at[k]]]

Position(seq, x) == CHOOSE i \in DOMAIN seq : seq[i] = x

\* Where a path (endpoint, cluster, attribute) comes among the discovered ones: by
\* cluster, then by the attribute's priority, then by endpoint; the extra clusters
\* follow by endpoint.
Precedence(p) ==
    IF p[2] \in Range(CLUSTER_ORDER)
    THEN LET c == Position(CLUSTER_ORDER, p[2])
         IN  <<c, Position(CLUSTER_READ_PRIORITIES[c], p[3]), p[1], 0>>
    ELSE <<Len(CLUSTER_ORDER) + 1, p[1], p[2], p[3]>>

Before(p, q) ==
    LET a == Precedence(p)
        b == Precedence(q)
    IN  \E i \in 1..4 : a[i] < b[i] /\ \A j \in 1..(i - 1) : a[j] = b[j]

Readable(keys) ==
    {p \in keys :
        \/ p[2] \in EXTRA_DISCOVERED_CLUSTERS
        \/ \E c \in DOMAIN CLUSTER_ORDER :
               p[2] = CLUSTER_ORDER[c] /\ p[3] \in Range(CLUSTER_READ_PRIORITIES[c])}

Candidates(paths, weight) == [i \in DOMAIN paths |-> [path |-> paths[i], weight |-> weight]]

InReadingOrder(S) == {pair \in S \X S : Before(pair[1], pair[2])}

discovered_candidates(keys) ==
    LET ordered == Ascending(Readable(keys), InReadingOrder(Readable(keys)))
    IN  Candidates(SubSeq(ordered, 1, Min({Len(ordered), MAX_DISCOVERED_CANDIDATES})),
                   "generic")

endpoints_with_cluster(keys, cluster) ==
    LET endpoints == {p[1] : p \in {q \in keys : q[2] = cluster}}
    IN  Ascending(endpoints, LessThan(endpoints))

\* Mutation: the path that worked is not planned.
NotCached(n) == <<>>

cached_success_candidate(n) ==
    IF n.path = NoPath THEN <<>> ELSE Candidates(<<n.path>>, "generic")

\* The node's product says window covering when its keys do not.
device_specific_candidates(keys) ==
    LET endpoints == endpoints_with_cluster(keys, WINDOW_COVERING_CLUSTER)
    IN  Candidates(IF endpoints = <<>> THEN WindowCovering
                   ELSE [i \in DOMAIN endpoints |->
                            <<endpoints[i], WINDOW_COVERING_CLUSTER, 10>>],
                   "specific")

descriptor_candidates(keys) ==
    LET endpoints == endpoints_with_cluster(keys, DESCRIPTOR_CLUSTER)
    IN  Candidates(IF endpoints = <<>> THEN <<<<0, DESCRIPTOR_CLUSTER, 0>>>>
                   ELSE [i \in DOMAIN endpoints |-> <<endpoints[i], DESCRIPTOR_CLUSTER, 0>>],
                   "generic")

\* Mutation: a path is planned once for every reason to try it.
Undeduped(candidates) == candidates

\* The first candidate of a path stays.
dedupe_candidates(candidates) ==
    Picked(candidates, {i \in DOMAIN candidates :
                           \A j \in 1..(i - 1) : candidates[j].path # candidates[i].path})

ordered_candidates(effective_mode, n) ==
    LET specific == IF effective_mode = "conservative" THEN <<>>
                    ELSE device_specific_candidates(n.keys)
        descriptors == IF effective_mode = "diagnostic" THEN descriptor_candidates(n.keys)
                       ELSE <<>>
    IN  Candidates(Preferred, "override") \o specific
            \o cached_success_candidate(n) \o discovered_candidates(n.keys)
            \o Candidates(Fallback, "generic") \o descriptors

plan(effective_mode, n) ==
    LET ordered == dedupe_candidates(ordered_candidates(effective_mode, n))
    IN  Picked(ordered, {i \in DOMAIN ordered : ordered[i].path \notin n.unsupported})

-----------------------------------------------------------------------------
(* A probe run.                                                            *)

Init ==
    /\ mode \in Modes
    /\ \E keys \in KeySets : node = [Fresh EXCEPT !.keys = keys]
    /\ log = [k \in Kinds |-> 0]
    /\ run = Idle /\ outage = 0 /\ replanned = FALSE

\* Empty plans and unavailable nodes are skipped.
BeginRun ==
    /\ run = Idle /\ node.available
    /\ plan(mode, node) # <<>>
    /\ run' = [Idle EXCEPT !.todo = plan(mode, node)] /\ replanned' = FALSE
    /\ UNCHANGED <<mode, node, log, outage>>

GENERIC == {"generic", "override"}

\* A generic success ends a conservative run, a device-specific one any run.
LastAttempt(answer, candidate) ==
    /\ answer = "yes"
    /\ candidate.weight = "specific" \/ mode = "conservative"

\* The failures logged before this attempt, and the attempt itself if it is generic.
CountedFailures(answer, candidate) ==
    log.generic + log.specific
        + IF answer = "no" /\ candidate.weight \in GENERIC THEN 1 ELSE 0

Outcome(candidate, answer) ==
    [path |-> candidate.path, weight |-> candidate.weight, answer |-> answer]

\* Mutation: an unsupported path is noted when it is met.
AttemptNotesUnsupported(answer) ==
    /\ run.todo # <<>>
    /\ LET candidate == Head(run.todo)
       IN  /\ node' = [node EXCEPT !.diagnostics = TRUE,
                                   !.unsupported = IF answer = "unsupported"
                                                   THEN @ \cup {candidate.path} ELSE @]
           /\ run' = [todo |-> IF LastAttempt(answer, candidate) THEN <<>>
                               ELSE Tail(run.todo),
                      outcomes |-> Append(run.outcomes, Outcome(candidate, answer))]
    /\ UNCHANGED <<mode, log, outage, replanned>>

\* The answer is a success, an unsupported attribute, or anything else: an error, a
\* timeout, a refusal.
AttemptReadProbe(answer) ==
    /\ run.todo # <<>>
    /\ LET candidate == Head(run.todo)
           kind == IF candidate.weight \in GENERIC THEN "generic" ELSE "specific"
       IN  /\ answer = "no" => log[kind] < MaxEvents[kind]
           /\ node' = [node EXCEPT !.diagnostics = TRUE,
                                   !.failures = CountedFailures(answer, candidate)]
           /\ log' = [log EXCEPT ![kind] = @ + IF answer = "no" THEN 1 ELSE 0]
           /\ run' = [todo |-> IF LastAttempt(answer, candidate) THEN <<>>
                               ELSE Tail(run.todo),
                      outcomes |-> Append(run.outcomes, Outcome(candidate, answer))]
    /\ UNCHANGED <<mode, outage, replanned>>

With(outcomes, answer, weights) ==
    {i \in DOMAIN outcomes : outcomes[i].answer = answer /\ outcomes[i].weight \in weights}

\* A success of any path is a success, and device-specific ones come first; without
\* one, a generic failure counts; otherwise the last outcome does.
Decisive(outcomes) ==
    LET specific == With(outcomes, "yes", {"specific"})
        generic == With(outcomes, "yes", GENERIC)
        failed == With(outcomes, "no", GENERIC)
    IN  outcomes[IF specific # {} THEN Min(specific)
                 ELSE IF generic # {} THEN Min(generic)
                 ELSE IF failed # {} THEN Min(failed)
                 ELSE Len(outcomes)]

\* The verdict on the reads is stored before the ping and the ping after it; one step
\* here.
AggregateOutcomes ==
    /\ run.todo = <<>> /\ run.outcomes # <<>>
    /\ LET decisive == Decisive(run.outcomes)
           unsupported == {o.path : o \in {p \in Range(run.outcomes) : p.answer = "unsupported"}}
       IN  \E pinged \in IF PingEnabled THEN {"yes", "no"} ELSE {node.ping} :
               node' = [node EXCEPT
                           !.ok = IF decisive.answer = "unsupported" THEN "none"
                                  ELSE decisive.answer,
                           !.limited = decisive.answer = "unsupported",
                           !.path = IF decisive.answer = "yes" THEN decisive.path ELSE @,
                           !.unsupported = @ \cup unsupported,
                           !.ping = pinged]
    /\ run' = Idle
    /\ UNCHANGED <<mode, log, outage, replanned>>

-----------------------------------------------------------------------------
(* Reports of the node, and time.                                          *)

\* A change of availability is logged first, and the unavailable events of the
\* window, this one included, are the flaps.  Every report of unavailability dates it
\* anew; one that does not tell leaves the availability as it is.
ProcessReport(told, keys) ==
    LET available == told = "yes" \/ (told = "missing" /\ node.available)
        changed == available # node.available
        kind == IF available THEN "up" ELSE "down"
    IN  /\ changed => log[kind] < MaxEvents[kind]
        /\ log' = IF changed THEN [log EXCEPT ![kind] = @ + 1] ELSE log
        /\ node' = [node EXCEPT !.available = available,
                                !.down = IF told = "no" THEN 0 ELSE @,
                                !.flaps = log'.down, !.keys = keys]
        /\ outage' = IF available \/ changed THEN 0 ELSE outage
        /\ replanned' = (replanned \/ keys # node.keys)
        /\ UNCHANGED <<mode, run>>

Older(age) == IF age < Critical THEN age + 1 ELSE age

MinutesPass ==
    /\ ~node.available
    /\ node' = [node EXCEPT !.down = Older(@)]
    /\ outage' = Older(outage)
    /\ UNCHANGED <<mode, log, run, replanned>>

\* An event is older than 24 hours; no record changes for that.
EventAges(k) ==
    /\ log[k] > 0
    /\ log' = [log EXCEPT ![k] = @ - 1]
    /\ UNCHANGED <<mode, node, run, outage, replanned>>

\* The process ends, perhaps during a run, whose attempts are stored but not its
\* conclusion; it starts again, perhaps in another mode.
Restart ==
    /\ run' = Idle /\ mode' \in Modes
    /\ replanned' = (replanned \/ mode' # mode)
    /\ UNCHANGED <<node, log, outage>>

SignalsNext ==
    \/ BeginRun
    \/ \E answer \in {"yes", "no", "unsupported"} : AttemptReadProbe(answer)
    \/ AggregateOutcomes
    \/ \E told \in {"yes", "no", "missing"}, keys \in KeySets : ProcessReport(told, keys)
    \/ MinutesPass
    \/ \E k \in Kinds : EventAges(k)
    \/ Restart

-----------------------------------------------------------------------------
(* Properties.                                                             *)

\* The paths of candidates, or of outcomes.
PathsOf(candidates) == {candidates[i].path : i \in DOMAIN candidates}

NoRepeats(candidates) ==
    \A i, j \in DOMAIN candidates : candidates[i].path = candidates[j].path => i = j

\* Types and bounds; and no attempt of a run is of the path of another.
TypeOK ==
    /\ mode \in Modes /\ replanned \in BOOLEAN
    /\ node \in NodeRecord /\ IsFiniteSet(node.keys)
    /\ log \in [Kinds -> Nat] /\ \A k \in Kinds : log[k] <= MaxEvents[k]
    /\ outage \in 0..Critical
    /\ run \in [todo : Seq(Candidate), outcomes : Seq(Result)]
    /\ NoRepeats(run.todo)

\* A node whose every path has turned out unsupported, so that no run will ever try
\* one again, says that its diagnostics are limited; except when its keys, or the
\* configured mode, changed after its last run began.
ExhaustedIsLimited ==
    run = Idle /\ node.unsupported # {} /\ plan(mode, node) = <<>> =>
        node.limited \/ replanned

\* A node whose last run succeeded has a path that works, is not known as
\* unsupported and will be tried again.
OkIsBacked ==
    node.ok = "yes" =>
        node.path \notin node.unsupported /\ node.path \in PathsOf(plan(mode, node))
=============================================================================
