------------------------------ MODULE Discovery ------------------------------
(***************************************************************************)
(* What ThreadLens knows of the services on the local network: the mDNS    *)
(* observer (collectors/mdns.py) and the TREL correlation of the OTBR poll *)
(* cycle (collectors/otbr_rest.py), which share the trel_service rows.     *)
(*                                                                         *)
(* Each zeroconf callback is a task of its own.  A removal is processed as *)
(* soon as its task runs; an addition or an update first resolves the      *)
(* service, which takes as long as it takes, and may fail.  Processing is  *)
(* a chain of database calls (service row, service event, TREL row) with   *)
(* the tasks of other callbacks in between.                                *)
(*                                                                         *)
(* An action is the code between two awaits.  The one aiosqlite connection *)
(* serves its calls in the order they are issued and wakes their callers   *)
(* in that order, which is the queue db; a statement takes effect in the   *)
(* action that issues it.  The events of TREL services come last in a task *)
(* and are left out.                                                       *)
(***************************************************************************)
EXTENDS Naturals, Sequences

CONSTANTS
    Services,   \* service ids of the configured service types
    TrelServices, \* those of type _trel._udp
    Tasks,      \* callback tasks that can be in progress at a time (bound)
    Networks,   \* extended PAN ids
    NoNetwork,  \* a record without one
    NoService

ASSUME DiscoveryAssumption ==
    /\ TrelServices \subseteq Services
    /\ NoService \notin Services
    /\ NoNetwork \notin Networks

VARIABLES
    present,    \* external: services the browser has added and not removed
    advertised, \* external: what a resolution of the service returns
    known,      \* _known_mdns
    row,        \* the mdns_service rows
    trel,       \* _known_trel
    trelRow,    \* the trel_service rows
    task,       \* what each callback task is doing
    db,         \* tasks awaiting the database, in the order of their calls
    recent,     \* EventDebouncer: the (service, event type) keys inside their window
    logged,     \* the type of the last event stored for the service
    configured, \* external: networks of the border routers that answer polls
    cycle       \* the correlation in progress: its networks and the rows it listed

VARIABLES
    missed,     \* history: a callback was lost, or overtaken by a removal
    muted,      \* history: the last event of the service was suppressed
    overtaken,  \* history: the task of a later callback reached the TREL part first
    clobbered   \* history: the TREL row changed under a correlation

world == <<present, advertised, configured>>
history == <<missed, muted, overtaken, clobbered>>
vars == <<world, known, row, trel, trelRow, task, db, recent, logged,
          cycle, history>>

\* What _meaningful_snapshot tells apart, cut down to the extended PAN id.
Contents == Networks \cup {NoNetwork}

Absent == [none |-> TRUE]
Service == [visible : BOOLEAN, content : Contents]

\* is_foreign with network_classification: not correlated yet; no network in the
\* record; the primary network; another configured one; none of the configured.
Verdicts == {"none", "unknown", "primary", "other", "foreign"}
Peer == [visible : BOOLEAN, content : Contents, verdict : Verdicts]

\* resolving: async_get_service_info; touching: the upsert of an unchanged
\* service; storing, telling, peering: the awaits of a change (service row,
\* service event, TREL row).
Awaiting == {"touching", "storing", "telling", "peering"}
TaskStates == Awaiting \cup {"idle", "resolving"}
Kinds == {"added", "updated", "changed", "removed"}
NoTask == [at |-> "idle", srv |-> NoService, kind |-> "added", content |-> NoNetwork]

NothingListed == [s \in TrelServices |-> Absent]

TypeOK ==
    /\ present \in [Services -> BOOLEAN] /\ advertised \in [Services -> Contents]
    /\ known \in [Services -> Service \cup {Absent}]
    /\ row \in [Services -> Service \cup {Absent}]
    /\ trel \in [TrelServices -> Peer \cup {Absent}]
    /\ trelRow \in [TrelServices -> Peer \cup {Absent}]
    /\ task \in [Tasks -> [at : TaskStates, srv : Services \cup {NoService},
                           kind : Kinds, content : Contents]]
    /\ db \in Seq(Tasks)
    /\ \A t \in Tasks :
           (task[t].at \in Awaiting) <=> (\E i \in 1..Len(db) : db[i] = t)
    /\ \A i, j \in 1..Len(db) : db[i] = db[j] => i = j
    /\ recent \subseteq Services \X Kinds
    /\ logged \in [Services -> Kinds \cup {"nothing"}]
    /\ configured \subseteq Networks
    /\ cycle \in [networks : SUBSET Networks, listed : [TrelServices -> Peer \cup {Absent}]]
    /\ missed \in [Services -> BOOLEAN] /\ muted \in [Services -> BOOLEAN]
    /\ overtaken \in [Services -> BOOLEAN] /\ clobbered \in [TrelServices -> BOOLEAN]

None == [s \in Services |-> FALSE]

Init ==
    /\ present = None /\ advertised = [s \in Services |-> NoNetwork] /\ configured = {}
    /\ known = [s \in Services |-> Absent] /\ row = known
    /\ trel = NothingListed /\ trelRow = NothingListed
    /\ task = [t \in Tasks |-> NoTask] /\ db = <<>>
    /\ recent = {} /\ logged = [s \in Services |-> "nothing"]
    /\ cycle = [networks |-> {}, listed |-> NothingListed]
    /\ missed = None /\ muted = None /\ overtaken = None
    /\ clobbered = [s \in TrelServices |-> FALSE]

Visible(record) == record # Absent /\ record.visible

\* Tasks of service s in one of the given states.
Busy(s, states) == {t \in Tasks : task[t].srv = s /\ task[t].at \in states}

-----------------------------------------------------------------------------
(* Processing a callback, up to its first await.                           *)

Store(s, record) ==
    /\ known' = [known EXCEPT ![s] = record]
    /\ row' = [row EXCEPT ![s] = record]

\* Only last_seen changes.
Touch(t, s) ==
    /\ Store(s, known[s])
    /\ task' = [task EXCEPT ![t] = [NoTask EXCEPT !.at = "touching", !.srv = s]]
    /\ db' = Append(db, t)
    /\ UNCHANGED overtaken

\* Mutation: the database serves the latest call first.
ChangeServedFirst(t, s, kind, record) ==
    /\ Store(s, record)
    /\ task' = [task EXCEPT ![t] = [at |-> "storing", srv |-> s, kind |-> kind,
                                    content |-> record.content]]
    /\ db' = <<t>> \o db
    /\ overtaken' = [overtaken EXCEPT ![s] = @ /\ Busy(s, {"storing", "telling"}) # {}]

\* A change of the service begins; history: nobody is ahead of it.
Change(t, s, kind, record) ==
    /\ Store(s, record)
    /\ task' = [task EXCEPT ![t] = [at |-> "storing", srv |-> s, kind |-> kind,
                                    content |-> record.content]]
    /\ db' = Append(db, t)
    /\ overtaken' = [overtaken EXCEPT ![s] = @ /\ Busy(s, {"storing", "telling"}) # {}]

process_service_added(t, s, content) ==
    IF Visible(known[s]) /\ known[s].content = content
    THEN Touch(t, s)
    ELSE Change(t, s, IF Visible(known[s]) THEN "changed" ELSE "added",
                [visible |-> TRUE, content |-> content])

process_service_updated(t, s, content) ==
    IF known[s] # Absent /\ known[s].content = content
    THEN Touch(t, s)
    ELSE process_service_added(t, s, content)

\* Mutation: the record stays visible.
StillVisible(record) == record

\* What a removed service is replaced by.
Removed(record) == [record EXCEPT !.visible = FALSE]

process_service_removed(t, s) ==
    \/ /\ known[s] = Absent
       /\ UNCHANGED <<known, row, task, db, overtaken>>
    \/ /\ known[s] # Absent
       /\ IF known[s].visible THEN Change(t, s, "removed", Removed(known[s]))
                              ELSE Touch(t, s)

-----------------------------------------------------------------------------
(* The callbacks.  zeroconf (external) removes only what it added.         *)

Resolving(t, s, kind) ==
    /\ task' = [task EXCEPT ![t] = [NoTask EXCEPT !.at = "resolving", !.srv = s,
                                                  !.kind = kind]]
    /\ UNCHANGED <<configured, known, row, trel, trelRow, db, recent, logged,
                   cycle, history>>

add_service(t, s) ==
    /\ task[t].at = "idle" /\ ~present[s]
    /\ present' = [present EXCEPT ![s] = TRUE]
    /\ \E c \in Contents : advertised' = [advertised EXCEPT ![s] = c]
    /\ Resolving(t, s, "added")

update_service(t, s) ==
    /\ task[t].at = "idle" /\ present[s]
    /\ \E c \in Contents : advertised' = [advertised EXCEPT ![s] = c]
    /\ Resolving(t, s, "updated")
    /\ UNCHANGED present

remove_service(t, s) ==
    /\ task[t].at = "idle" /\ present[s]
    /\ present' = [present EXCEPT ![s] = FALSE]
    /\ process_service_removed(t, s)
    /\ missed' = [missed EXCEPT ![s] = Busy(s, {"resolving"}) # {}]
    /\ UNCHANGED <<advertised, configured, trel, trelRow, recent, logged, cycle,
                   muted, clobbered>>

\* async_get_service_info answers None.
Unresolved(t) ==
    /\ task[t].at = "resolving"
    /\ task' = [task EXCEPT ![t] = NoTask]
    /\ missed' = [missed EXCEPT ![task[t].srv] = TRUE]
    /\ UNCHANGED <<world, known, row, trel, trelRow, db, recent, logged,
                   cycle, muted, overtaken, clobbered>>

\* It answers, from zeroconf's cache even when the service was just withdrawn.
Resolved(t) ==
    /\ task[t].at = "resolving"
    /\ LET s == task[t].srv
       IN  /\ IF task[t].kind = "added"
              THEN process_service_added(t, s, advertised[s])
              ELSE process_service_updated(t, s, advertised[s])
           /\ missed' = [missed EXCEPT ![s] = @ /\ ~(task[t].kind = "added" /\ present[s])]
    /\ UNCHANGED <<world, trel, trelRow, recent, logged, cycle, muted, clobbered>>

-----------------------------------------------------------------------------
(* The database answers the task at the head of db.                        *)

Woken(t, state) == db # <<>> /\ Head(db) = t /\ task[t].at = state

\* Mutation: the answered call stays at the head of the queue.
ReturnInPlace(t) ==
    /\ task' = [task EXCEPT ![t] = NoTask]
    /\ db' = db

\* The task returns to the listener.
Return(t) ==
    /\ task' = [task EXCEPT ![t] = NoTask]
    /\ db' = Tail(db)

\* should_emit lets the key through.
Emits(t) == <<task[t].srv, task[t].kind>> \notin recent

\* The TREL record a service change leads to (build_trel_state, which knows
\* nothing of the verdict, or the copy of the removed one).
PeerAfter(t) ==
    LET s == task[t].srv
    IN  IF task[t].kind = "removed" THEN [trel[s] EXCEPT !.visible = FALSE]
        ELSE [visible |-> TRUE, content |-> task[t].content, verdict |-> "none"]

\* Mutation: a change whose event was suppressed does not reach the TREL part.
HasPeerIfTold(t) ==
    /\ task[t].srv \in TrelServices /\ task[t].at = "telling"
    /\ task[t].kind = "removed" => trel[task[t].srv] # Absent

HasPeer(t) ==
    /\ task[t].srv \in TrelServices
    /\ task[t].kind = "removed" => trel[task[t].srv] # Absent

\* Mutation: a row that carries a verdict is not written over.
PersistUnjudged(s, peer) ==
    trelRow' = IF trelRow[s] # Absent /\ trelRow[s].verdict \notin {"none", "unknown"}
               THEN trelRow ELSE [trelRow EXCEPT ![s] = peer]

\* _persist_trel.
PersistPeer(s, peer) == trelRow' = [trelRow EXCEPT ![s] = peer]

\* _upsert_trel, or the end of process_service_removed.
UpdatePeer(t) ==
    LET s == task[t].srv
    IN  \/ /\ ~HasPeer(t)
           /\ Return(t)
           /\ UNCHANGED <<trel, trelRow, clobbered>>
        \/ /\ HasPeer(t)
           /\ trel' = [trel EXCEPT ![s] = PeerAfter(t)]
           /\ PersistPeer(s, PeerAfter(t))
           /\ clobbered' = [clobbered EXCEPT ![s] = cycle.listed[s] # Absent]
           /\ task' = [task EXCEPT ![t] = [NoTask EXCEPT !.at = "peering", !.srv = s]]
           /\ db' = Append(Tail(db), t)

\* The service row is written: log the event, or go on without it.
Stored(t) ==
    /\ Woken(t, "storing")
    /\ LET s == task[t].srv
       IN  \/ /\ Emits(t)
              /\ recent' = recent \cup {<<s, task[t].kind>>}
              /\ logged' = [logged EXCEPT ![s] = task[t].kind]
              /\ muted' = [muted EXCEPT ![s] = FALSE]
              /\ task' = [task EXCEPT ![t].at = "telling"]
              /\ db' = Append(Tail(db), t)
              /\ UNCHANGED <<trel, trelRow, overtaken, clobbered>>
           \/ /\ ~Emits(t)
              /\ muted' = [muted EXCEPT ![s] = TRUE]
              /\ overtaken' = [overtaken EXCEPT ![s] = @ \/ Busy(s, {"telling"}) # {}]
              /\ UpdatePeer(t)
              /\ UNCHANGED <<recent, logged>>
    /\ UNCHANGED <<world, known, row, cycle, missed>>

Told(t) ==
    /\ Woken(t, "telling")
    /\ UpdatePeer(t)
    /\ UNCHANGED <<world, known, row, recent, logged, cycle, missed, muted, overtaken>>

Finished(t) ==
    /\ Woken(t, "touching") \/ Woken(t, "peering")
    /\ Return(t)
    /\ UNCHANGED <<world, known, row, trel, trelRow, recent, logged, cycle, history>>

\* The debounce window of a key ends.
WindowEnds(key) ==
    /\ key \in recent
    /\ recent' = recent \ {key}
    /\ UNCHANGED <<world, known, row, trel, trelRow, task, db, logged, cycle,
                   history>>

-----------------------------------------------------------------------------
(* The TREL correlation of a poll cycle.                                   *)

\* classify_primary_network and classify_trel_service.
classify_trel_service(content, networks) ==
    IF content = NoNetwork THEN "unknown"
    ELSE IF content \notin networks THEN "foreign"
    ELSE IF networks = {content} THEN "primary" ELSE "other"

\* The border routers that answer have changed.
PollAnswersChange ==
    /\ \E networks \in SUBSET Networks : configured' = networks
    /\ UNCHANGED <<present, advertised, known, row, trel, trelRow, task, db, recent,
                   logged, cycle, history>>

\* Mutation: only rows without a verdict are looked at.
BeginPartialCorrelation ==
    /\ cycle.listed = NothingListed
    /\ cycle' = [networks |-> configured,
                 listed |-> [s \in TrelServices |->
                     IF trelRow[s] # Absent /\ trelRow[s].verdict = "none"
                     THEN trelRow[s] ELSE Absent]]
    /\ UNCHANGED <<world, known, row, trel, trelRow, task, db, recent, logged,
                   history>>

BeginCorrelation ==
    /\ cycle.listed = NothingListed
    /\ cycle' = [networks |-> configured, listed |-> trelRow]
    /\ UNCHANGED <<world, known, row, trel, trelRow, task, db, recent, logged,
                   history>>

\* One upsert of the loop; the cache of the observer is not told.
Correlate(s) ==
    /\ cycle.listed[s] # Absent
    /\ trelRow' = [trelRow EXCEPT ![s] = [cycle.listed[s] EXCEPT
           !.verdict = classify_trel_service(cycle.listed[s].content, cycle.networks)]]
    /\ cycle' = [cycle EXCEPT !.listed[s] = Absent]
    /\ UNCHANGED <<world, known, row, trel, task, db, recent, logged, history>>

\* The process ends and starts again: the caches are loaded from the rows, the
\* new browser has seen nothing yet.
Restart ==
    /\ present' = None
    /\ known' = row /\ trel' = trelRow
    /\ task' = [t \in Tasks |-> NoTask] /\ db' = <<>>
    /\ recent' = {}
    /\ cycle' = [networks |-> {}, listed |-> NothingListed]
    /\ missed' = [s \in Services |-> known[s] # Absent]
    /\ muted' = [s \in Services |-> muted[s] \/ Busy(s, {"storing"}) # {}]
    /\ overtaken' = [s \in Services |->
           \/ overtaken[s] \/ Busy(s, {"storing", "telling"}) # {}
           \/ s \in TrelServices /\ clobbered[s]]
    /\ clobbered' = [s \in TrelServices |-> FALSE]
    /\ UNCHANGED <<advertised, configured, row, trelRow, logged>>

Next ==
    \/ \E t \in Tasks, s \in Services :
           add_service(t, s) \/ update_service(t, s) \/ remove_service(t, s)
    \/ \E t \in Tasks : Unresolved(t) \/ Resolved(t) \/ Stored(t) \/ Told(t) \/ Finished(t)
    \/ \E key \in recent : WindowEnds(key)
    \/ PollAnswersChange \/ BeginCorrelation
    \/ \E s \in TrelServices : Correlate(s)
    \/ Restart

Spec == Init /\ [][Next]_vars

\* A resolution ends within its timeout, the database answers every call, and
\* the poll loop comes round.
Fairness ==
    /\ \A t \in Tasks : WF_vars(Unresolved(t) \/ Resolved(t))
    /\ \A t \in Tasks : WF_vars(Stored(t) \/ Told(t) \/ Finished(t))
    /\ WF_vars(BeginCorrelation)
    /\ \A s \in TrelServices : WF_vars(Correlate(s))

LiveSpec == Spec /\ Fairness

-----------------------------------------------------------------------------
(* Properties.                                                             *)

\* The cache shows a service as visible exactly when the browser has it, with
\* what it last advertised, once its resolutions are done; except after one that
\* failed, or one that a removal overtook while it was under way.
MirrorsBrowser ==
    \A s \in Services :
        ~missed[s] /\ Busy(s, {"resolving"}) = {} =>
            /\ Visible(known[s]) <=> present[s]
            /\ present[s] => known[s].content = advertised[s]

\* The last stored event of a service says what the cache says, when the last one
\* due was not suppressed: tasks that overlap keep their events in the order of
\* their cache writes.
LogEndsInCurrentState ==
    \A s \in Services :
        ~muted[s] /\ Busy(s, {"storing"}) = {} =>
            (Visible(known[s]) <=> logged[s] \in {"added", "changed"})

\* A TREL service is visible exactly when the mDNS service it comes from is, with
\* the same content, when no change is on its way to it; except after a task whose
\* event was suppressed overtook one that was storing its own.
PeerFollowsService ==
    \A s \in TrelServices :
        ~overtaken[s] /\ Busy(s, {"storing", "telling"}) = {} =>
            /\ Visible(trel[s]) <=> Visible(known[s])
            /\ Visible(trel[s]) => trel[s].content = known[s].content

\* The rows show the cached records: those of services always, those of TREL
\* services in visibility and content, unless the record changed while a
\* correlation held an older copy of its row.
RowsFollowCaches ==
    /\ row = known
    /\ \A s \in TrelServices :
           ~clobbered[s] =>
               /\ (trelRow[s] = Absent) = (trel[s] = Absent)
               /\ trel[s] # Absent => /\ trelRow[s].visible = trel[s].visible
                                      /\ trelRow[s].content = trel[s].content

\* A step of the world outside, or a restart.
Outside ==
    \/ \E t \in Tasks, s \in Services :
           add_service(t, s) \/ update_service(t, s) \/ remove_service(t, s)
    \/ PollAnswersChange \/ Restart

Correlated ==
    \A s \in TrelServices :
        trelRow[s] # Absent =>
            trelRow[s].verdict = classify_trel_service(trelRow[s].content, configured)

\* Once services and border routers stay as they are, every TREL row gets the
\* verdict its content calls for and keeps it, although each mDNS write clears the
\* verdict and a correlation may write back a stale copy.
VerdictsSettle == <>[][~Outside]_vars => <>[]Correlated
=============================================================================
