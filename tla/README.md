# ThreadLens in TLA+

ThreadLens watches Matter and Thread networks: it keeps a websocket to each
Matter Server, polls OpenThread Border Routers (OTBR), listens to mDNS, stores
what it sees in SQLite, derives health from it and shows it through an HTTP API
with an event stream, through MQTT and in reports. Everything runs in one
asyncio process. This directory models the parts of that process where
something can go wrong that its tests do not reach, checks them with TLC and
proves the main results with TLAPS.

All paths below are relative to the repository (`threadlens/...`).

## 1. Inventory

| component | state | operations | hard parts | what makes it correct |
|---|---|---|---|---|
| Matter websocket observer (`collectors/matter_server.py`, `collectors/matter_ws.py`) | `_running`, `connected`, `_websocket`, `_pending` and its futures | connect, session loop, dispatch, disconnect, reconnect, stop; `_request_command` by probe tasks | an await between registering a command and waiting for its answer; timeouts against late answers; disconnects that come twice; exceptions in the handlers of exceptions | each command gets one verdict; nothing stays registered for ever; the loop always comes back |
| Matter node records (`matter_server.py`, `collectors/matter_probes.py`, `enrichment/*.py`) | `_nodes`, the `matter_node` rows, records held by tasks across awaits | node report, removal, probe run, identity capture, name push, Thread correlation, restart | read, await, write by several tasks of the same record; cache and rows written separately | the last word of the server, of a probe and of an enrichment is not undone |
| Probe planner and aggregation (`matter_probe_planner.py`, `matter_probes.py`, `matter_parse.py`) | counts of 24 hours, last path, unsupported paths | plan candidates, try them, aggregate | counts read before the own event is written; paths noted for ever; a mode or keys that change between runs | the record a run leaves says what the runs to come can rely on |
| mDNS observer (`collectors/mdns.py`) | service cache and rows, TREL records | service added, updated, removed | one task per callback, resolution in between | a service is visible if and only if it was last seen |
| OTBR collector (`collectors/otbr_rest.py`, `otbr_parse.py`) | records of routers and networks, device rows, failure of a poll | poll all, apply reachable, mark unreachable, collect devices, sync networks, correlate TREL; read three endpoints | a poll cycle sees half of a change; exceptions after a good answer; an exception ends the loop; endpoints that contradict each other | networks and reachability follow the answers; changes are told once and in order; a live stack is believed |
| Debouncer (`utils/debounce.py`) | last emission by key | `should_emit` | suppressed transitions | the log ends in the present state |
| Storage (`storage/*.py`) | `current_state`, `events`, settings | upsert, delete, list, insert, get events | one connection, statements in issue order; crash between two writes; deletions tell nobody; the order that a limit cuts | rows agree with caches; recent events are recent |
| Health engine and rollup (`health/*.py`) | none | judge router, server, node, discovery, environment | many optional inputs, missing rows | a verdict is earned by its inputs |
| Dashboard, summary (`server/dashboard*.py`, `server/summary.py`) and lens presentation (`presentation/*.py`) | none | display states, classes, buckets, header, incident | the same record judged three times by conditions written apart | the views agree, and nothing bad is displayed as good |
| MQTT publisher (`mqtt/*.py`) | connection, discovery account, delay; what the broker retains | connect, publish cycle, farewell, backoff, stop | QoS 0 on dead connections; retained messages lost by the broker; cancellation anywhere | what the broker holds converges; the end is told |
| Dashboard stream (`server/events.py`, `server/routes.py`, `web/src/hooks/useDashboard.ts`) | subscriber queues; the browser's timers and fetch | subscribe, publish, unsubscribe, fetch | a first message before the subscription; deletes do not notify; a fetch reads rows one after another | a connected browser becomes fresh |
| Probe scheduler (`matter_probe_scheduler.py`) | round-robin index | pick nodes, run | a list that changes between cycles | each node gets its turn |
| Server lifecycle (`server/app.py`, `main.py`) | collectors | start, stop | tasks that outlive stop; the process dies anywhere | a restart resumes from the rows |
| Reports' rendering, configuration, agent, HTTP routes that only read, web client's rendering | none | rendering, validation, one request | wording | not modelled |

How they interact. The observer's session, the probe tasks, the scheduler, the
mDNS callbacks, the OTBR poll loop, the MQTT loop and the HTTP handlers are
asyncio tasks of one event loop. They share the repository (every collector
writes `current_state`; the API, MQTT and the health engine read it), the
broadcaster (the repository calls it after upserts and event inserts), and,
inside one observer, `_nodes` and the request manager. asyncio switches tasks
only at an `await`, so the code between two awaits of a task is atomic, and that
is the grain of every action here.

## 2. Modules

| module | models | composed of |
|---|---|---|
| `RequestLifecycle` | what the request manager promises about one message id | |
| `MatterRequests` | the reconnect loop, the session, `_request_command` and the request manager | instantiates `RequestLifecycle` with the state function `life` |
| `MatterNodes` | cache, rows and every task that writes a node record | |
| `Discovery` | mDNS callbacks, the TREL correlation of the OTBR poll, the debouncer and the queue of the database connection | |
| `Presence` | what a collector promises about the things it watches: a change of side owes one event | |
| `OtbrPolling` | the poll loop of the OTBR collector, with storage failures and restarts | instantiates `Presence` for routers and networks |
| `OtbrReadings` | what one poll makes of the bodies of three endpoints | |
| `HealthRules` | the health engine and its rollup | extends `OtbrReadings` |
| `Presentation` | the dashboard's display states, classes and incident; the buckets of MQTT | extends `HealthRules` |
| `NodeSignals` | what a node's reports and probe runs leave on its record | |
| `Judgements` | one node's life in a world of rows, judged and presented | extends `NodeSignals` and `Presentation` |
| `Rows` | the rows of current state, for those who read them | |
| `MqttPublisher` | the publisher, its connection and its broker | extends `Rows` |
| `DashboardStream` | the broadcaster, the event stream and the browser's hook | extends `Rows` |
| `Outlets` | rows that change, both ways out, and a process that dies | extends `MqttPublisher` and `DashboardStream` |
| `EventLog` | inserting events and serving a window of them | |
| `MC...` | symmetry, views and constants for TLC | extends the module of its name |
| `...Proofs` | theorems | extends the module of its name |

### MatterRequests and the code

`observer` is the place of the task of `_run`: `connecting` (awaiting
`connect()`), `greeting` (`_on_connected` and the send of `start_listening`),
`reading`, `handling` (inside `_handle_message`), `shutdown` (inside the
`_on_disconnected` of a `server_shutdown` event), `closing` and `aborting`
(leaving the `async with`, normally or with an exception), `leaving` and
`failing` (inside the `_on_disconnected` of `_session` or of the except clause),
`backoff`, `dead`, `stopped`. `websocket`, `connected`, `running` and `pending`
are the fields of those names, `future` is the state of the future made for each
id, `link` and `wire` are the socket and the requests the server still holds.
`pc`, `req` and `outcome` are the callers: idle, inside a probe run, awaiting
`send`, about to see `send` raise, or inside `wait_for`.

Every action is the code from one await to the next. `Request` is
`_request_command` up to its `send`: it looks at `_websocket` only, not at
`connected`. `Sent` and `SentTooLate` are the two ways `wait_for` begins; the
second is its `KeyError`. `Timeout` may win against a future that was settled in
the same turn of the event loop, as `asyncio.wait_for` allows. `OnDisconnected`
is the part of `_on_disconnected` before its first await, which settles every
registered future. `StopScheduler` and `StopObserver` are `stop()`; cancelling
the observer's task closes the socket and runs no `_on_disconnected`.

A message id is `uuid4().hex`, so each id is used once. A message that is not an
answer only keeps the session busy: what it writes is `MatterNodes`.
Abstracted: the backoff lengths, the durations in the results, the fields of the
server state. The answer to `start_listening` itself is not correlated in the
code either, and appears as any other message.

### MatterNodes and the code

`cache` is `_nodes`, `row` the stored rows. A record is reduced to what the
writers disagree about: availability (reports), the probe result as the number
of the probe run that wrote it, and whether the IPv6 address, the Thread extended
address and the Home Assistant name are set. `session` is a report inside
`_process_node` with the record it read first; `task` a probe run or an identity
capture with the copy it holds; `listed` the rows an enrichment listed and has
still to rewrite. A cache write and its upsert are one action (`Store`): the
coroutine runs into the storage call without a switch, and the single SQLite
connection executes statements in the order they are issued.

`RemoveNode` requires an idle session, since one task handles all messages of a
server; `Restart` may come at any await. Which candidates a probe tries, why it
is skipped, which rows an enrichment matches and what a ping answers are
choices. Events, the debouncer, the 24 hour counts and the fields that only pass
through are left out.

The variables `reported`, `raced`, `probed` and `overlapped` are history: nothing
reads them but the properties. `raced` says that somebody held an older copy when
the last report or removal was processed, `overlapped` that somebody held one
when the last probe result was written. In those cases the code does lose the
newer value; the properties say that it does in no other.

### Discovery and the code

`present` and `advertised` are the outside: what the zeroconf browser has added,
and what a resolution returns. `known` and `row` are `_known_mdns` and the
`mdns_service` rows, `trel` and `trelRow` `_known_trel` and the `trel_service`
rows. A record is reduced to its visibility, its extended PAN id (which stands for
everything `_meaningful_snapshot` compares) and, for TREL, its verdict.

Each callback is a task (`_schedule` makes one per call). `task` is where it
stands: `resolving` (`async_get_service_info`), `touching` (the upsert of an
unchanged service), `storing` (the service row of a change), `telling` (its
event), `peering` (the TREL row). `db` holds the tasks that await the database:
the repository has one aiosqlite connection, whose thread takes the calls one at a
time and in order, so callers are woken in the order they called. A statement
takes effect in the action that issues it. No other statement can come between,
and a process that ends with calls still queued leaves the same rows as one that
ended before issuing them, which is a `Restart` one action earlier as far as the
rows go.

`recent` is the debouncer: the keys inside their window. `cycle` is a
`_correlate_trel_services` in progress, with the networks and the rows it listed
at its start; each `Correlate` is one upsert of its loop, from the listed copy.
Correlations do not overlap, because one poll loop runs them.

A resolution may still succeed after the service was withdrawn, from zeroconf's
cache; this is why an addition that resolves late can bring a removed service
back, and `missed` names that case. The history variables, read by properties
only, name the races the code does lose: `missed` (a resolution failed, or a
removal was processed while one was under way), `muted` (the debouncer suppressed
the last event), `overtaken` (a task whose event was suppressed reached the TREL
part before one that was storing its own), `clobbered` (the TREL row was written
while a correlation held an older copy).

Left out: TREL events (the last thing a task does), counters and times,
`observation_degraded`, storage faults, and the decoding of TXT records.

### OtbrPolling, OtbrReadings and the code

`at` is where the poll task is: `polling` (between the polls of `poll_all`),
`telling` (the writes of `_apply_reachable_state`), `persisting` and `pruning`
(`_persist_device_inventory`), `enriching` (`apply_thread_identity_correlation`),
`marking` and `handling` (`_mark_unreachable` called by `poll_one` and by the
except clause), `raised` (in that clause), `syncing`, `correlating`, `sleeping`
and `dead`. `otbr` and `net` are the caches `_known_otbrs` and `_known_networks`,
`otbrRow`, `netRow` and `device` the rows; `configured` is the list of the
configuration, which another start may change.

An action is the code up to the next statement sent to storage, and the statement
takes effect in it or raises (`Raises`, at most `MaxFaults` times). The cache is
written first, so a failure leaves it ahead of the row, and the event is lost.
`poll_all` catches what a poll raises; nothing catches what its own except clause,
the sync or the correlation raises, and the loop is `dead`. `PollGarbled` is a
body that is not what its reader expects, which is no `HTTPError`. A record is
reduced to its side and its network, the source routers and whether it is
primary; channel, names and PAN ids go with the network. The order of the
configured list is left open. `recent` is the debouncer: an event in it may be
suppressed.

The history variables are read by properties only: `answered` (routers whose
`/api/node` was good in this cycle), `spoilt` (those whose poll raised after
that), `last` and `torn` (the last inventory read, and the routers for which
storing it was cut short).

`OtbrReadings` has no state. A body is the sequence of its attribute sources, and
each operator is a function of `otbr_parse.py` or of `_apply_reachable_state`:
`Row` is the whole way from three bodies to the stored row.

### HealthRules, Presentation, NodeSignals, Judgements and the code

`HealthRules` and `Presentation` are pure: a function of the code is an operator
of the same name over rows. A verdict is a state with its set of reasons. Counts
of events are given to them; the thresholds are the constant `Flapping`. What is
left out of a verdict is wording; the verdict on a Thread network cannot reach the
environment's, because the poll loop stores none but primary and unknown ones.

`NodeSignals` is the life of one node's record: `ordered_candidates` is the list of the
planner with every source of candidates in its order, `plan` that list without
repeated and unsupported paths, `AttemptReadProbe` an attempt with its counts
and its event, `AggregateOutcomes` the conclusion, `ProcessReport` a report,
`MinutesPass` and `EventAges` time, `Restart` a start in a mode of the
configuration. An attribute path is a triple of numbers and an answer one of
success, unsupported and anything else. Several writers of one record are the
subject of `MatterNodes`, so a run and a report do not overlap here. What the code sorts is `Ascending` here
(the members of a set by how many come before each), and what it filters is `Picked`
(a sequence at some of its positions), so that theorems about plans need no recursion.

`Judgements` puts this node into a world: the rows of two routers, two servers, the
networks and the services. Verdicts depend on present rows only, so a world stands
still. A behaviour is one of three: a healthy world in which the node lives; one of
some 600 worlds that differ from it in up to two respects, with one of seven
records; and the healthy world with the row that one combination of three answers
gives router `a`.

### Rows, MqttPublisher, DashboardStream, Outlets and the code

`Rows` gives every change a value of its own. An upsert announces itself later
(`untold`), a deletion never.

`MqttPublisher` is `_run`: `connecting`, `greeting` (the availability message),
`judging` and `loading` (the two readings of the snapshot: for the report, and to
publish the nodes), `publishing`, `sleeping`, `leaving` (the finally block),
`waiting` (backoff) and `off`. `published` is `_published_discovery`; `broker` is
what is retained. A message written to a connection that no longer works is lost
(`Arrives`) until a publication fails (`PublicationFails`). `Stop` cancels the task
where it is: in a session it still says that it is offline, in the delay or while
it connects it says nothing, and in the farewell the message may be lost.

`DashboardStream` is the generator of the event route (`opening`: its first update;
`opened`: before it subscribes; `live`), its queue, and the browser's hook:
debounce, timers, and a fetch that reads one row after another. An update or a timer
starts a fetch and aborts the one before: `TimerFires` is a timer that finds no fetch
under way, `TimerAborts` one that does, or the user asking for another. The second timer,
which the hook runs while the stream is off, needs no state: a timer may fire at any time.

`Outlets` composes both with the rows and a process that dies at any moment. The two
outlets only read rows, so each behaviour looks at one of them (`watched`).

### EventLog and the code

`events` are rows of the event table, `served` the last answer with the window it
was taken from. `build_events_payload` is the events page: it bounds the limit and
asks `get_events`, which orders by time and then cuts.

## 3. Runs

| run | shows | bounds |
|---|---|---|
| `requests` | `TypeOK`; `WaiterIsResolvable`: no caller sleeps on a future that nobody can settle; `NoneOutlivesDisconnect`: after a disconnect no id is registered, also when callers registered more between a `server_shutdown` and the close; `LeakOnlyWhileDown`: an entry without a caller exists only while the socket is down or the service stops | one scheduled and one manual caller, 3 ids, 1 storage fault |
| `requests_live` | `LifecycleSpec`: the manager implements `RequestLifecycle`; `EntriesDrain`: every entry leaves `_pending`; `KeepsTrying`: the observer comes back to a connection or an attempt for ever | 2 callers, 2 ids, no storage fault |
| `nodes` | `TypeOK`; `CacheHasRow`; `AvailabilityIsReported`, `RemovedStaysRemoved`, `ProbeResultIsKept`: the value can be lost only to a writer with an older copy | 1 node, 1 prober, 1 name push, 2 probe results |
| `names_lost` | violation: a pushed name is lost at the next report, because it never reaches the cache | 1 node, 1 name push, no probe |
| `discovery` | `TypeOK`; `MirrorsBrowser`: the cache shows what the browser has once resolutions are done; `LogEndsInCurrentState`: the last stored event agrees with the cache; `PeerFollowsService`: the TREL record agrees with its service; `RowsFollowCaches`: rows show the caches; each except in the race its history variable names | 1 TREL service, 2 overlapping callbacks, 1 network, restarts |
| `discovery_live` | `VerdictsSettle`: when services, border routers and the process stay as they are, every TREL row gets its verdict and keeps it, although a service change clears it and a correlation may write a stale copy | 1 TREL service, 1 callback, 1 network, restarts |
| `polling` | `TypeOK`; `NetworksMatchRouters`: after each completed cycle the networks shown, their sources and the primary one are those the reachable configured routers call for; `AnsweredIsReachable`: and a router is reachable exactly if it answered, unless its poll raised after that | 2 routers of which any may be configured, 2 networks, 1 storage failure at any statement, restarts, empty inventories |
| `polling_live` | `DevicesAreLastInventory`: device rows are the last inventory unless storing it was cut short; `PresenceSpec`: every change of side is told before the next one or never; `KeepsPolling`: cycles keep ending, unless a storage failure has killed the loop | 1 router, 1 network, 1 device, 1 storage failure, restarts |
| `judgements` | `TypeOK`; `ExhaustedIsLimited`, `OkIsBacked`: what a run leaves on the record is backed by what the next will try; `ViewsAgree`: engine, dashboard class and MQTT bucket of a node; `DisplayedHealthIsEarned`: a header that says healthy; `IncidentCoversCritical`: incident and engine; `LiveStackIsBelieved`, `EffectiveStateIsOwn`: what three endpoints make of a router | 2 routers, 2 servers, 1 node with 2 paths, two modes, thresholds scaled down, 2 generic failures and 1 device-specific one, 1 unavailability and 1 recovery within the window, 196 pairs of `/api` bodies by 15 legacy ones |
| `long_outage` | violation: repeated reports of unavailability date the outage anew, so that it never becomes critical | as `judgements` |
| `outlets` | `StatesAreDiscoverable`: the broker has the discovery of each state it retains, unless it lost it; `EndedIsOffline`: a publisher that ended in order is not online; `ShownIsCurrent`: with nothing under way the browser shows the rows; `EventuallyPublished`, `EventuallyShown`: when disturbances end, broker and browser come to show what is stored | 2 rows, 2 changes, 2 queued updates |
| `recent_events` | violation: the page of recent events is the oldest part of its window | 2 subjects, limits below the number of events |

Why the bounds are enough. Ids are only compared for equality and two callers
with three ids allow both to be in flight and one of them to send again after a
verdict; a third caller repeats the role of one of the two. The proofs of
section 5 cover every number of callers, ids and faults. Nodes do not interact:
each writer holds copies of one node, or writes rows one at a time. Two probe
results distinguish the older from the newer; the configuration with two probers
and no name push passes as well, and the proofs cover every number.

In `Discovery` services interact through the queue of the database only, which
keeps order; what can go wrong happens between the tasks of one service, and two
of them already overtake each other at every await. One network makes a record
with it and a record without it. The verdict for one of several networks
(`other`) does not occur with one; it differs from `primary` in its name only,
and the proofs cover any number of services, callbacks and networks.

In `OtbrPolling` two routers with two networks agree, disagree, leave a network and
leave the configuration. A second failure finds the loop either dead, as after the
first, or between polls, as before it. Inventories concern one router at a time, so
they are in the smaller run, whose states fit a liveness check. The proofs cover
every number of all of these.

In `Judgements` each rule that can alarm is in some world, and each pair of them, so
that one may hide the other; a header or a rollup compares the worst with the rest
and needs no third. Thresholds are scaled to 1 and 2 (and 3 where the dashboard has a
3 of its own). Two paths, a generic one that is also the fallback and a
device-specific one that is also discovered, make an order, duplicates, a success of
each weight and an exhausted plan. With one unavailability in the window the upper of
the two thresholds of flaps is out of reach of the living node; it is the same `Tally`
as the others, and the proofs cover all. Only one world differs in more than two respects, a first
server that has never answered: it alone has neither a node nor a router. In
`Outlets` two rows are what a fetch and a snapshot need to read one of them before a
change and the other after it; two changes make a change and a deletion, or two
changes of which the first is announced late.

`CHECK_DEADLOCK FALSE` stands in the runs of `MatterRequests` because the service
may be stopped, and then does stop, and in those of `Judgements`, whose worlds stand
still but for one. The other systems never stop: a restart is always possible.

Symmetry is used in the `requests` run, on message ids, whose only use is
comparison, in the `discovery` run, on callback tasks, and in the `polling` run, on
routers and networks; none of them checks liveness. The view of the `discovery` run
leaves out the verdicts, `configured` and the networks of the correlation: nothing
but verdicts is computed from them, and no invariant of the run other than `TypeOK`
looks at a verdict. That of the `polling` run leaves out the debouncer and the last event
told: they decide only whether an event is written. That of the `judgements` run leaves out the
age of an outage that is over: the next one is dated anew.

## 4. Fairness

`FairSpec` of `MatterRequests` assumes weak fairness of the observer's own steps
and of each caller's steps: the event loop runs ready tasks, `connect()` has an
`open_timeout`, storage calls return, a suspended `send` ends or its socket is
found dead by the keepalive, and `wait_for` has a timeout. It assumes strong
fairness of the end of a session whose socket is lost: such a socket holds
finitely many frames, so a session that keeps reading gets to their end. It
assumes nothing of the server (which may never answer), of the network, or of
what the callers choose to do. The liveness run has no storage fault because one
can end the loop for good (section 6).

`LiveSpec` of `Discovery` assumes weak fairness of each task's resolution
(`async_get_service_info` has a timeout), of each task's answer from the database
(the queue is served in order, so no task is passed over), of the next correlation
(the poll loop comes round while a border router is configured) and of its
upserts. Nothing is assumed of the browser, the border routers, the debounce
windows or restarts.

`FairSpec` of `OtbrPolling` assumes weak fairness of the poll task as a whole: each
request and each wait for a collection has a timeout, a storage call returns or
raises, the sleep ends. Which of the ways a request ends is left open. A process
that is restarted again and again may never end a cycle, so `KeepsPolling` is about
behaviours in which restarts cease.

`Outlets` assumes weak fairness of the publisher's own steps and of each step of the
stream and the browser: the event loop runs ready tasks, the browser's timers fire,
a request is answered unless it fails or is aborted. It assumes strong fairness of a
publication that fails: a dead connection does not swallow messages for ever, because
the keepalive finds it dead. Each of its liveness properties is about behaviours that
disturbances (breaks, failures, losses, stops, deaths, and fetches so slow that a timer
aborts them) leave alone from some moment on; the rows' own changes are bounded.

## 5. Proofs

`MatterRequestsProofs` proves, for all `Callers`, `Scheduled`, `Ids` and
`MaxFaults` that satisfy `RequestsAssumption`, the four invariants of the
`requests` run and the refinement `Spec => LifecycleSpec`. The invariants are not
inductive alone. `IInv` adds: a registered id has an unsettled future
(`PendingIsUnsettled`: whatever settles a future also discards its id); callers
hold different ids, that no timeout cancelled (`HoldersAreApart`); the websocket
field and the socket follow the place of the session (`SocketFollowsSession`); a
caller whose `send` raises on a socket of an earlier session lost its entry to
the `cancel_all` in between (`BrokenIsForgotten`). The refinement maps each id to
`life`: open while registered, otherwise the state of its future, `abandoned` if
the future is left unsettled by a cancelled caller. One lemma per kind of step:
`cancel_all` is `Disconnect`, a dispatched answer is `Answer`, a timeout is
`Expire` or a stutter, stopping the scheduler is `Abandon`.

`MatterNodesProofs` proves, for all sets of nodes, probers and pushers and every
bound that satisfies `NodesAssumption`, the five invariants of the `nodes` run.
`IInv` says what each kind of held copy still has in common with the record:
after a removal that raced with nobody no copy is held (`CleanRemoval`); after a
report that raced with nobody every held copy agrees with the server
(`CopiesAgree`); after a probe result that overlapped with nobody no held copy is
older (`CopiesAreRecent`), where a node without a record has no result to lose.
A copy between two attempts of a probe run is not among the held ones, because
the code reads the record again before it goes on; the mutant that drops this
violates `AvailabilityIsReported`.

`DiscoveryProofs` proves, for all sets of services, callback tasks and networks,
the five invariants of the `discovery` run. Three things have to be added to make
them inductive. `ListedFollowsCache`: a row a correlation has listed shows the
cached TREL record, unless it changed since. `MirrorsOrResolves`: a service the
browser has is shown or has its addition still resolving. And the order of the
queue: of the tasks storing a change of a service, the last in the queue carries
the change the cache shows (`StoringInOrder`), and when none is storing, the last
of those telling does, unless it was overtaken (`TellingInOrder`). So the last task to
write its event and its TREL record is the one with the latest change. The lemmas
`Joins`, `Leaves`, `Rotates` and `StaysOut` say what a step of one task does to the
queue (it holds each waiting task once, and the order of the others stays), and
`StepKinds` reduces every step to those that matter to the order of changes.

`OtbrPollingProofs` proves, for all sets of routers, networks and devices and any
number of storage failures, the three invariants of the `polling` run, that device
rows are the last inventory, and that `OtbrPolling` implements `Presence`. The
invariants speak of the end of a cycle, so `IInv` has to say what holds half way:
a router in hand is one of those left (`RouterInHand`); the routers noted for each
network are those polled so far whose records name it (`SeenByRecords`); the
networks the sync has been through are as they should be, and after it all are
(`NetworksInStep`); a router polled so far is reachable exactly if it answered, and
the one in hand will be or its poll is spoilt (`AnswersInStep`); an inventory being
stored is the last one, and what of it is not left to store is stored
(`InventoryInStep`). For the refinement, `EventsInStep` adds that the event of a
transition stands alone among those left to tell and names the side its row is on,
and that rows and caches agree until storage fails; the lemmas `QuietStep`,
`FailingStep` and `WritingStep` then match each step to `GiveUp`, `Fail`, `Change`
or `CatchUp`, and `Telling` matches a stored event to `Report`.

`OutletsProofs` proves the three invariants of the `outlets` run for any number of
rows, changes and updates. For the publisher: what it has accounted as published the
broker has or has lost, and the broker says online only while the task holds its
connection or has parted from it. For the dashboard: a row that is not as stored,
in the fetch under way or on the screen, is about to be announced, fetched, or was
changed unannounced (`StreamInv`).

`NodeSignalsProofs` has two parts. The first is about what the planner computes, for
any keys, configured paths and records: `DedupeKeepsFirsts` and `PlanIsComplete` say
that a plan has each path some source gives and that is not noted as unsupported, once,
with the weight of the first candidate of that path and in the order of the sources; `DecisiveIsFair` says
which outcome a run is concluded from. They rest on `AscendingLists` and `PickedLists`:
what is listed in a strict total order lists each member once and in that order, and a
selection keeps the order. The second is the inductive invariant `SignalsInv` of the life
of a record. To `TypeOK` and `ExhaustedIsLimited` it adds: no path left to try was tried in
this run (`RunApart`), without which a path could end a run both as the one that worked
and as unsupported; a record of a success has its path, and that path is supported
(`RecordBacked`); and as long as nothing has been replanned, the paths a run has left
and has tried are among those the sources give (`RunReasoned`), so that a run after which
the plan is empty has found every path it tried unsupported, and its conclusion is that of an unsupported answer. A
restart in the middle of a run drops it, and `replanned` stays as the run left it. One
lemma per action; TLC checked the three parts as invariants first. `OkIsBacked`
follows (`SuccessIsBacked`), during runs as well: a path on the record is among
the candidates of every plan.

`HealthRulesProofs` is about the engine's verdicts and has no behaviour. `RollupIsWorst`
says that the merged verdict is in the worst state of those merged and has exactly the
reasons of those that are in it, `RollupInStages` that merging in groups gives the same.
The engine is monotone: a node or a router whose signals are at least as bad as
another's never has a better verdict (`NodeVerdictMonotone`, `RouterVerdictMonotone`, for
all thresholds, a degraded one below the warning included), and a report is no better for
a verdict that got worse (`ReportMonotone`), a node more (`MoreNodesNoBetter`) or a node
that got worse (`WorseNodeNoBetter`). Better and worse are those of the engine's rank,
in which unknown is between warning and healthy. This is about the report and not
about the header, where an informational warning beside an unknown verdict is
displayed as healthy (the exception in `DisplayedHealthIsEarned`).

`JudgementsProofs` proves the eight invariants of the `judgements` run, for every set
of worlds, records and answers that are well formed (`World`, `Recorded` in
`JudgementAssumption`). Three of them are about the record of the living node and come from
`SignalsInv` (`SignalsStand`). The world stands still (`WorldStands`), so what is said of a
header or an incident is about one state, and the argument is about the rollup
(`RollupIsWorst`). `VerdictsAreSound` and the
`Critical...` lemmas say what each verdict can be, and give `DisplayedHealthIsEarned`
and `IncidentCoversCritical` by cases. `LiveStackIsBelieved` and
`EffectiveStateIsOwn` follow for all bodies, nested ones included. `ViewsAgree` needs what
`SignalsInv` says of the record (`RecordStands`: counts are numbers, and no record calls
itself limited after a success) and a condition on the configuration, which the
defaults meet: a warning at the first failed read, a degradation at no more than the 3
that the dashboard has built in, and no threshold of zero for flaps.

The only assumptions are the named ones about the constants; TLC evaluates
all. Only model-checked: `EntriesDrain`, `KeepsTrying`, `VerdictsSettle`,
`KeepsPolling`, `EventuallyPublished` and `EventuallyShown`, because liveness under
fairness is out of the prover's reach; and the violations. Every other property of a
run is a theorem.

## 6. What the code does otherwise than it says

Three runs show a disagreement (`names_lost`, `long_outage`, `recent_events`); the
findings in `PROJECT.json` quote both sides. Others, met while modelling, are part of
the models or named in a property's exception:

- `wait_for` (`collectors/matter_ws.py:66`) raises `KeyError` when the answer or a
  disconnect is handled while `send` is suspended (`SentTooLate`).
- A storage failure in the except clause of `_run` (`collectors/matter_server.py:176`)
  ends the reconnect loop for good; so does one outside a poll with the loop of all
  border routers (`collectors/otbr_rest.py:214`, the exception in `KeepsPolling`).
- A process that ends between the service row and the TREL row
  (`collectors/mdns.py:245`) leaves an announced TREL service that is never listed.
- The dashboard counts an incident when all servers are disconnected, the guide when
  one is (`web/src/lib/monitoringGuide.ts`; the exception in `IncidentCoversCritical`).
- The dashboard has its own threshold of 3 failures, whatever the configured one; a
  node with one failed read among successes is healthy there and not in MQTT, which
  in turn counts a node of limited diagnostics as healthy.
- Counts stay on a record while the log grows older; device-specific failures are
  counted by the next attempt of the run (`collectors/matter_probes.py:447`); the
  candidates left when a connection is lost in the middle of a run count as failures.
- `ViewsAgree` holds under thresholds no higher than the built-in one. With a higher
  `matter_node_read_probe_failures_degraded_24h` the dashboard says that a node needs
  attention before the engine calls it degraded.
- A first Matter server that does not answer is critical to the engine, while the
  incident says that there is not enough data (the exception in
  `IncidentCoversCritical`).
- Conservative mode tries the paths it discovered.
- A mismatch of a reachable router is always taken as reconciled, while a stale one
  of a router that is unreachable and no longer configured keeps the header's
  warning prominent.
- A publisher that is stopped in its delay, while it connects or on a dead link does
  not say that it is offline, and it registers no last will; its delay is never
  reset after a success; entities of nodes that are gone stay with the broker.

## 7. Plan

1. `Discovery` with storage faults; TREL events.
2. The answer to `start_listening` as a request of `MatterRequests`; a first report
   without availability in `NodeSignals`.
3. The round-robin of the scheduler over a list that changes.
4. The verdict on Thread networks, and the remaining selection of the lens reports.
5. The order of start and stop of the lifespan, with identity captures that outlive
   `stop()`.

## 8. Not modelled

SQL, migrations and settings; HTTP routes that read rows once and keep nothing;
payload formats, topics and the mode of the publisher without discovery; rendering of
the dashboard, reports and the web client; configuration validation; the agent;
packaging. They keep no state between calls or only format it. `PROJECT.json` lists
each component with its reason.

Hazards without a property stand in `PROJECT.json` with their reason. Of some others the
outcome itself is what a property excepts, because the code does come to it: the property
then says that nothing else does, and a note in `PROJECT.json` says what is excepted.
Some smaller
ones are not in that list: the queue of a stream has no bound (`server/events.py:23`);
nothing calls `cleanup_events` (`storage/repositories.py:301`); a process that ends
between a node's event and its record tells of the transition twice
(`collectors/matter_server.py:417`); the scheduler's index runs over a list whose
length changes (`collectors/matter_probe_scheduler.py:86`); an identity capture
outlives `stop()` (`collectors/matter_server.py:350`).

Out of the prover's reach are liveness under fairness, `ENABLED`, and induction over
data. No module declares a recursive operator: what the code computes in loops over
lists is defined here by sets and positions.
