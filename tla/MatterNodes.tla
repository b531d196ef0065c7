----------------------------- MODULE MatterNodes -----------------------------
(***************************************************************************)
(* The Matter node records: the observer's cache _nodes, the matter_node   *)
(* rows of current_state, and the tasks that write them.                   *)
(*   - the websocket session processes one node report or removal at a     *)
(*     time (_process_node, _process_node_removed in matter_server.py);    *)
(*   - probe runs and Thread identity captures (matter_probes.py) write    *)
(*     copies of a record they read before awaiting the Matter Server;     *)
(*   - the Home Assistant name push (ha_matter.py) and the Thread          *)
(*     correlation after a probe (thread_matter.py) rewrite rows from a    *)
(*     list of rows they read before, and never touch the cache.           *)
(*                                                                         *)
(* An action is the code between two awaits of one task.  The single       *)
(* aiosqlite connection runs statements in the order they are issued, so   *)
(* a statement takes effect in the action that issues it: a cache write    *)
(* followed by its upsert is one action, a listing and the upserts made    *)
(* from it are not.  Which candidates a probe tries and why it is skipped  *)
(* are choices here; the events and the 24 hour counts are left out.       *)
(***************************************************************************)
EXTENDS Naturals

CONSTANTS
    Nodes,      \* node ids of one Matter Server
    Probers,    \* tasks that probe: scheduler, manual requests, identity capture
    Pushers,    \* Home Assistant name pushes that may be in progress together
    PingEnabled,  \* matter.probes.advanced.ping_enabled
    NoNode,
    MaxVerdict  \* bound: how many read probe results are written

ASSUME NodesAssumption ==
    /\ NoNode \notin Nodes
    /\ Probers \cap Pushers = {}
    /\ PingEnabled \in BOOLEAN
    /\ MaxVerdict \in Nat

VARIABLES
    cache,      \* _nodes
    row,        \* the matter_node rows
    session,    \* what the websocket session is processing
    task,       \* what each prober is doing, with the copy `node` it holds
    listed,     \* the rows an enrichment read and has still to rewrite
    clock,      \* read probe results written so far
    reported,   \* history: what the server last said of the node
    raced,      \* history: a task held a copy when that was processed
    probed,     \* history: the number of the node's last read probe result
    overlapped  \* history: somebody held a copy when that was written

history == <<reported, raced, probed, overlapped>>
vars == <<cache, row, session, task, listed, clock, history>>

\* available; last_read_probe_ok and its companions, as the number of the probe
\* run they come from; thread_ipv6_address, thread_extended_address and
\* ha_device_name, as whether they are set.
Record == [avail : BOOLEAN, verdict : 0..MaxVerdict, ipv6 : BOOLEAN,
           ext : BOOLEAN, name : BOOLEAN]

Blank == [avail |-> FALSE, verdict |-> 0, ipv6 |-> FALSE, ext |-> FALSE, name |-> FALSE]

Absent == [none |-> TRUE]
Stored == Record \cup {Absent}

\* A report says that the node is available, that it is not, or neither.
Reports == {"yes", "no", "missing"}
NothingListed == [n \in Nodes |-> Absent]

\* A task whose `node` is older than what it will write it over: it awaits the
\* answer and the event counts, or sits between the writes of one result.
Exposed == {"asking", "pinging", "rewriting", "capturing"}
TaskStates == Exposed \cup {"idle", "emitting", "correlating"}

NoSession == [at |-> "idle", node |-> NoNode, report |-> "missing", existing |-> Absent]
NoTask == [at |-> "idle", node |-> NoNode, copy |-> Blank]

TypeOK ==
    /\ cache \in [Nodes -> Stored] /\ row \in [Nodes -> Stored]
    /\ session \in [at : {"idle", "processing"}, node : Nodes \cup {NoNode},
                    report : Reports, existing : Stored]
    /\ task \in [Probers -> [at : TaskStates, node : Nodes \cup {NoNode}, copy : Record]]
    /\ listed \in [Probers \cup Pushers -> [Nodes -> Stored]]
    /\ clock \in 0..MaxVerdict
    /\ reported \in [Nodes -> {"never", "unstated", "yes", "no", "removed"}]
    /\ raced \in [Nodes -> BOOLEAN] /\ overlapped \in [Nodes -> BOOLEAN]
    /\ probed \in [Nodes -> 0..MaxVerdict]

Init ==
    /\ cache = [n \in Nodes |-> Absent]
    /\ row = [n \in Nodes |-> Absent]
    /\ session = NoSession
    /\ task = [p \in Probers |-> NoTask]
    /\ listed = [q \in Probers \cup Pushers |-> NothingListed]
    /\ clock = 0
    /\ reported = [n \in Nodes |-> "never"]
    /\ raced = [n \in Nodes |-> FALSE]
    /\ probed = [n \in Nodes |-> 0]
    /\ overlapped = [n \in Nodes |-> FALSE]

\* A cache write and its upsert (_process_node, _persist_node_state).
Store(n, record) ==
    /\ cache' = [cache EXCEPT ![n] = record]
    /\ row' = [row EXCEPT ![n] = record]

-----------------------------------------------------------------------------
(* History: who holds an older copy of node n.                             *)

CopyHeld(n) ==
    \/ \E p \in Probers : task[p].node = n /\ task[p].at \in Exposed
    \/ \E q \in Probers \cup Pushers : listed[q][n] # Absent

RunInProgress(n) ==
    \/ \E p \in Probers : task[p].node = n /\ task[p].at # "idle"
    \/ \E q \in Probers \cup Pushers : listed[q][n] # Absent

-----------------------------------------------------------------------------
(* The websocket session.                                                  *)

\* _process_node reads _nodes and awaits the event insert and the flap count.
BeginReport(n, report) ==
    /\ session.at = "idle"
    /\ session' = [at |-> "processing", node |-> n, report |-> report,
                   existing |-> cache[n]]
    /\ UNCHANGED <<cache, row, task, listed, clock, history>>

\* Mutation: a report starts the read probe fields afresh.
ProcessedAfresh ==
    LET old == IF session.existing = Absent THEN Blank ELSE session.existing
    IN  [old EXCEPT !.verdict = 0,
            !.avail = IF session.report = "missing" THEN @ ELSE session.report = "yes"]

\* The new record: availability from the report, everything a report does not
\* carry from the record that was read before the awaits.
Processed ==
    LET old == IF session.existing = Absent THEN Blank ELSE session.existing
    IN  IF session.report = "missing" THEN old
        ELSE [old EXCEPT !.avail = session.report = "yes"]

FinishReport ==
    /\ session.at = "processing"
    /\ LET n == session.node
       IN  /\ Store(n, Processed)
           /\ reported' = [reported EXCEPT ![n] =
                  IF session.report # "missing" THEN session.report
                  ELSE IF session.existing = Absent THEN "unstated" ELSE @]
           /\ raced' = [raced EXCEPT ![n] =
                  CopyHeld(n) \/ (session.report = "missing" /\ @)]
    /\ session' = NoSession
    /\ UNCHANGED <<task, listed, clock, probed, overlapped>>

\* Mutation: the node leaves the cache and its row stays.
RemoveKeepsRow(n) ==
    /\ session.at = "idle"
    /\ cache[n] # Absent
    /\ cache' = [cache EXCEPT ![n] = Absent]
    /\ reported' = [reported EXCEPT ![n] = "removed"]
    /\ raced' = [raced EXCEPT ![n] = RunInProgress(n)]
    /\ probed' = [probed EXCEPT ![n] = 0]
    /\ UNCHANGED <<row, session, task, listed, clock, overlapped>>

\* Mutation: the row is deleted and the cache entry stays until a restart.
RemoveKeepsCache(n) ==
    /\ session.at = "idle"
    /\ cache[n] # Absent
    /\ row' = [row EXCEPT ![n] = Absent]
    /\ reported' = [reported EXCEPT ![n] = "removed"]
    /\ raced' = [raced EXCEPT ![n] = RunInProgress(n)]
    /\ probed' = [probed EXCEPT ![n] = 0]
    /\ UNCHANGED <<cache, session, task, listed, clock, overlapped>>

\* _process_node_removed: unknown nodes are ignored.
RemoveNode(n) ==
    /\ session.at = "idle"
    /\ cache[n] # Absent
    /\ cache' = [cache EXCEPT ![n] = Absent]
    /\ row' = [row EXCEPT ![n] = Absent]
    /\ reported' = [reported EXCEPT ![n] = "removed"]
    /\ raced' = [raced EXCEPT ![n] = RunInProgress(n)]
    /\ probed' = [probed EXCEPT ![n] = 0]
    /\ UNCHANGED <<session, task, listed, clock, overlapped>>

-----------------------------------------------------------------------------
(* Probe runs (MatterProbeRunner).                                         *)

\* _run_probe_for_node reads the record of an available node and asks.
StartProbe(p, n) ==
    /\ task[p].at = "idle" /\ listed[p] = NothingListed
    /\ cache[n] # Absent /\ cache[n].avail
    /\ task' = [task EXCEPT ![p] = [at |-> "asking", node |-> n, copy |-> cache[n]]]
    /\ UNCHANGED <<cache, row, session, listed, clock, history>>

\* _attempt_read_probe has its outcome and the counts: the copy goes to cache
\* and row with the new counts, and the event insert is awaited.
AttemptEnds(p) ==
    /\ task[p].at = "asking"
    /\ Store(task[p].node, task[p].copy)
    /\ task' = [task EXCEPT ![p].at = "emitting"]
    /\ UNCHANGED <<session, listed, clock, history>>

\* Mutation: get_node(node_id), without the fallback for a removed node.
RefreshedOrNone(p) == cache[task[p].node]

\* Mutation: the loop keeps the record it started with.
NotRefreshed(p) == task[p].copy

\* get_node(node_id) or node
Refreshed(p) == IF cache[task[p].node] # Absent THEN cache[task[p].node] ELSE task[p].copy

\* Another candidate is tried, with the record as it is now.
NextAttempt(p) ==
    /\ task[p].at = "emitting"
    /\ task' = [task EXCEPT ![p] = [@ EXCEPT !.at = "asking", !.copy = Refreshed(p)]]
    /\ UNCHANGED <<cache, row, session, listed, clock, history>>

\* The loop over the candidates is over: the result of all outcomes is written
\* onto the record as it is now, and the ping that follows starts from it.
Aggregate(p) ==
    /\ task[p].at = "emitting"
    /\ clock < MaxVerdict
    /\ clock' = clock + 1
    /\ LET n == task[p].node
           record == [Refreshed(p) EXCEPT !.verdict = clock + 1]
       IN  /\ Store(n, record)
           /\ task' = [task EXCEPT ![p] = [@ EXCEPT !.at = "pinging", !.copy = record]]
           /\ probed' = [probed EXCEPT ![n] = clock + 1]
           /\ overlapped' = [overlapped EXCEPT ![n] = session.node = n \/ CopyHeld(n)]
    /\ UNCHANGED <<session, listed, reported, raced>>

\* _run_ping: a failed or unanswered ping clears thread_ipv6_address.  With
\* ping diagnostics the record is written in _run_ping and again by its caller.
PingEnds(p) ==
    /\ task[p].at = "pinging"
    /\ \E answered \in BOOLEAN :
          LET record == [task[p].copy EXCEPT !.ipv6 = answered]
          IN  /\ Store(task[p].node, record)
              /\ task' = [task EXCEPT ![p] =
                     IF PingEnabled THEN [@ EXCEPT !.at = "rewriting", !.copy = record]
                     ELSE [NoTask EXCEPT !.at = "correlating"]]
    /\ UNCHANGED <<session, listed, clock, history>>

RewriteAfterPing(p) ==
    /\ task[p].at = "rewriting"
    /\ Store(task[p].node, task[p].copy)
    /\ task' = [task EXCEPT ![p] = [NoTask EXCEPT !.at = "correlating"]]
    /\ UNCHANGED <<session, listed, clock, history>>

\* run_thread_identity_capture, the ping alone.
StartCapture(p, n) ==
    /\ task[p].at = "idle" /\ listed[p] = NothingListed
    /\ cache[n] # Absent /\ cache[n].avail
    /\ task' = [task EXCEPT ![p] = [at |-> "capturing", node |-> n, copy |-> cache[n]]]
    /\ UNCHANGED <<cache, row, session, listed, clock, history>>

CaptureEnds(p) ==
    /\ task[p].at = "capturing"
    /\ \E answered \in BOOLEAN :
          Store(task[p].node, [task[p].copy EXCEPT !.ipv6 = answered])
    /\ \E next \in {"idle", "correlating"} :  \* another node, or the last one
          task' = [task EXCEPT ![p] = [NoTask EXCEPT !.at = next]]
    /\ UNCHANGED <<session, listed, clock, history>>

\* The probe is skipped; the correlation that follows a probe is not.
SkipProbe(p) ==
    /\ task[p].at = "idle" /\ listed[p] = NothingListed
    /\ task' = [task EXCEPT ![p].at = "correlating"]
    /\ UNCHANGED <<cache, row, session, listed, clock, history>>

\* _request_command raises (the KeyError and the failed send of MatterRequests):
\* a probe ends without writing, an identity capture goes on.
ProbeRaises(p) ==
    /\ task[p].at \in {"asking", "pinging", "capturing"}
    /\ task' = [task EXCEPT ![p] = [NoTask EXCEPT
           !.at = IF task[p].at = "capturing" THEN "correlating" ELSE "idle"]]
    /\ UNCHANGED <<cache, row, session, listed, clock, history>>

-----------------------------------------------------------------------------
(* Enrichment: rows are listed, and rewritten one await later each.        *)

\* apply_thread_identity_correlation lists the rows; those with an address in
\* the device inventory (a choice) and no extended address are rewritten.
Correlate(p) ==
    /\ task[p].at = "correlating"
    /\ task' = [task EXCEPT ![p] = NoTask]
    /\ \E known \in SUBSET {n \in Nodes : row[n] # Absent /\ row[n].ipv6 /\ ~row[n].ext} :
          listed' = [listed EXCEPT ![p] = [n \in Nodes |-> IF n \in known THEN row[n] ELSE Absent]]
    /\ UNCHANGED <<cache, row, session, clock, history>>

\* apply_ha_matter_device_names lists the rows; those the payload names are
\* rewritten.
PushNames(h) ==
    /\ listed[h] = NothingListed
    /\ \E named \in SUBSET {n \in Nodes : row[n] # Absent} :
          /\ named # {}
          /\ listed' = [listed EXCEPT ![h] = [n \in Nodes |-> IF n \in named THEN row[n] ELSE Absent]]
    /\ UNCHANGED <<cache, row, session, task, clock, history>>

RewriteRow(q, n) ==
    /\ listed[q][n] # Absent
    /\ row' = [row EXCEPT ![n] = IF q \in Pushers THEN [listed[q][n] EXCEPT !.name = TRUE]
                                 ELSE [listed[q][n] EXCEPT !.ext = TRUE]]
    /\ listed' = [listed EXCEPT ![q][n] = Absent]
    /\ UNCHANGED <<cache, session, task, clock, history>>

-----------------------------------------------------------------------------
\* The process ends, at any await, and starts again: _load_cache.
Restart ==
    /\ cache' = row
    /\ session' = NoSession
    /\ task' = [p \in Probers |-> NoTask]
    /\ listed' = [q \in Probers \cup Pushers |-> NothingListed]
    /\ UNCHANGED <<row, clock, history>>

SessionNext ==
    \/ \E n \in Nodes : RemoveNode(n) \/ \E report \in Reports : BeginReport(n, report)
    \/ FinishReport

ProbeNext(p) ==
    \/ \E n \in Nodes : StartProbe(p, n) \/ StartCapture(p, n)
    \/ SkipProbe(p)
    \/ AttemptEnds(p) \/ NextAttempt(p) \/ Aggregate(p)
    \/ PingEnds(p) \/ RewriteAfterPing(p) \/ CaptureEnds(p)
    \/ ProbeRaises(p)
    \/ Correlate(p)

EnrichNext ==
    \/ \E h \in Pushers : PushNames(h)
    \/ \E q \in Probers \cup Pushers, n \in Nodes : RewriteRow(q, n)

Next ==
    \/ SessionNext
    \/ \E p \in Probers : ProbeNext(p)
    \/ EnrichNext
    \/ Restart

Spec == Init /\ [][Next]_vars

-----------------------------------------------------------------------------
(* Properties.                                                             *)

\* A cached node has its row: after a restart no node that the observer knew
\* is lost, whatever enrichment did to the rows in between.
CacheHasRow == \A n \in Nodes : cache[n] # Absent => row[n] # Absent

SaysOtherwise(record, n) ==
    /\ record # Absent
    /\ reported[n] \in {"yes", "no"}
    /\ record.avail # (reported[n] = "yes")

\* A node's availability, in the cache and in its row, is what the server last
\* said of it, unless that report was processed while a task awaited something
\* with an older copy in its hands; the copies a probe run reads again between
\* its attempts lose nothing.
AvailabilityIsReported ==
    \A n \in Nodes :
        SaysOtherwise(cache[n], n) \/ SaysOtherwise(row[n], n) => raced[n]

\* A node the server removed is in neither the cache nor the rows, also after a
\* restart, unless a probe run of it or an enrichment was in progress then.
RemovedStaysRemoved ==
    \A n \in Nodes :
        reported[n] = "removed" /\ ~raced[n] => cache[n] = Absent /\ row[n] = Absent

\* A passive report keeps the result of the last probe run, in the cache and
\* in the row, unless the result was written while the session, another probe
\* or an enrichment held a copy from before it.
ProbeResultIsKept ==
    \A n \in Nodes : \A record \in {cache[n], row[n]} \ {Absent} :
        record.verdict < probed[n] => overlapped[n]

\* docs/troubleshooting.md:150 says "`ha_device_name` should be set when
\* enrichment succeeded": a row that has its name keeps it.
NameIsKept ==
    [][\A n \in Nodes :
          row[n] # Absent /\ row[n].name /\ row'[n] # Absent => row'[n].name]_row
=============================================================================
