--------------------------- MODULE MatterRequests ---------------------------
(***************************************************************************)
(* The websocket side of a MatterServerObserver: the reconnect loop and    *)
(* the session (src/threadlens/collectors/matter_server.py), the request   *)
(* manager that correlates answers by message_id (matter_ws.py), and the   *)
(* tasks that send commands through them: the probe scheduler's, which     *)
(* stop() cancels, and the manual probes and identity captures, which it   *)
(* does not.                                                               *)
(*                                                                         *)
(* asyncio runs one task at a time and switches only at an await, so an    *)
(* action is the code between two awaits of one task.  What a node report  *)
(* or a probe writes is the subject of MatterNodes; here a message that is *)
(* not an answer only keeps the session busy.                              *)
(***************************************************************************)
EXTENDS Naturals

CONSTANTS
    Callers,    \* tasks that call _request_command
    Scheduled,  \* the callers that run under the probe scheduler's task
    Ids,        \* message ids; uuid4().hex never repeats, so one is used once
    NoId,
    MaxFaults   \* bound: how many storage operations of the observer fail

ASSUME RequestsAssumption ==
    /\ Scheduled \subseteq Callers
    /\ NoId \notin Ids
    /\ MaxFaults \in Nat

VARIABLES
    running,    \* the observer's _running
    observer,   \* where the task of _run is
    websocket,  \* _websocket is not None
    connected,  \* self.connected
    link,       \* the socket itself: "none", "open", or "lost" and not yet noticed
    wire,       \* ids the server holds and may still answer on this socket
    pending,    \* keys of _pending
    future,     \* the future made for each id
    pc,         \* where each caller is
    req,        \* the message_id each caller sends or waits for
    outcome,    \* how the caller's last command ended
    faults      \* storage operations that failed so far

sessionVars == <<running, observer, websocket, connected, link, faults>>
managerVars == <<pending, future>>
callerVars  == <<pc, req, outcome>>
vars == <<sessionVars, wire, managerVars, callerVars>>

ObserverStates ==
    {"connecting",  \* awaiting connect()
     "greeting",    \* in _on_connected and the send of start_listening
     "reading",     \* waiting for the next frame
     "handling",    \* in _handle_message, at a storage await
     "shutdown",    \* in _on_disconnected for a server_shutdown event
     "closing",     \* the frames ended; leaving the async with
     "aborting",    \* an exception is leaving the async with
     "leaving",     \* in the _on_disconnected that ends _session
     "failing",     \* in the _on_disconnected of _run's except clause
     "backoff",     \* sleeping before the next attempt
     "dead",        \* an exception left _run
     "stopped"}

InSession == {"greeting", "reading", "handling", "shutdown"}

\* A caller is idle, inside a probe run between two commands, awaiting send,
\* about to see send raise, or awaiting its future.
CallerStates == {"idle", "probing", "sending", "broken", "waiting"}
HoldsId == {"sending", "broken", "waiting"}

Settled == {"result", "error", "failed", "cancelled"}
FutureStates == {"unused", "waiting"} \cup Settled
Outcomes == {"none", "result", "error", "failed", "timed_out",
             "not_connected", "key_error", "send_error", "stopped"}

TypeOK ==
    /\ running \in BOOLEAN /\ websocket \in BOOLEAN /\ connected \in BOOLEAN
    /\ observer \in ObserverStates
    /\ link \in {"none", "open", "lost"}
    /\ wire \subseteq Ids /\ pending \subseteq Ids
    /\ future \in [Ids -> FutureStates]
    /\ pc \in [Callers -> CallerStates]
    /\ req \in [Callers -> Ids \cup {NoId}]
    /\ outcome \in [Callers -> Outcomes]
    /\ faults \in 0..MaxFaults

\* start(): the observer's task exists and nothing was sent yet.
Init ==
    /\ running = TRUE
    /\ observer = "connecting"
    /\ websocket = FALSE
    /\ connected = FALSE
    /\ link = "none"
    /\ wire = {}
    /\ pending = {}
    /\ future = [i \in Ids |-> "unused"]
    /\ pc = [c \in Callers |-> "idle"]
    /\ req = [c \in Callers |-> NoId]
    /\ outcome = [c \in Callers |-> "none"]
    /\ faults = 0

-----------------------------------------------------------------------------
(* The request manager.                                                    *)

\* Mutation: cancel_all empties _pending and leaves the futures unsettled.
CancelAllUnsettled ==
    /\ pending' = {}
    /\ UNCHANGED future

\* cancel_all: settle every registered future that is not done, forget it.
CancelAll ==
    /\ future' = [i \in Ids |-> IF i \in pending /\ future[i] = "waiting"
                                THEN "failed" ELSE future[i]]
    /\ pending' = {}

\* Mutation: dispatch_incoming settles any future it made, registered or not.
DispatchUnregistered(i, verdict) ==
    IF verdict \in {"result", "error"}
    THEN /\ future' = [future EXCEPT ![i] = verdict]
         /\ pending' = pending \ {i}
    ELSE UNCHANGED managerVars

\* dispatch_incoming for a frame that carries message_id i.
DispatchIncoming(i, verdict) ==
    IF i \in pending /\ verdict \in {"result", "error"}
    THEN /\ future' = [future EXCEPT ![i] = IF @ = "waiting" THEN verdict ELSE @]
         /\ pending' = pending \ {i}
    ELSE UNCHANGED managerVars

\* The senders that were awaiting a socket that is gone: their send raises.
BreakSends(p) == [c \in Callers |-> IF p[c] = "sending" THEN "broken" ELSE p[c]]

-----------------------------------------------------------------------------
(* The observer's task: _run, _session and the connection callbacks.       *)

\* Mutation: cancel_all is part of the "was connected" branch.
OnDisconnectedOnce ==
    /\ IF connected THEN CancelAll ELSE UNCHANGED managerVars
    /\ connected' = FALSE

\* Mutation: no cancel_all at all; the timeouts are trusted to clean up.
OnDisconnectedWithoutCancel ==
    /\ UNCHANGED managerVars
    /\ connected' = FALSE

\* _on_disconnected up to its first await.
OnDisconnected ==
    /\ CancelAll
    /\ connected' = FALSE

\* connect() returns; _websocket is set and _on_connected starts.
Connect ==
    /\ observer = "connecting"
    /\ observer' = "greeting"
    /\ websocket' = TRUE
    /\ connected' = TRUE
    /\ link' = "open"
    /\ UNCHANGED <<running, faults, wire, managerVars, callerVars>>

\* connect() raises: _run's except clause.
ConnectFails ==
    /\ observer = "connecting"
    /\ observer' = "failing"
    /\ OnDisconnected
    /\ UNCHANGED <<running, websocket, link, faults, wire, callerVars>>

\* The connected state is stored and start_listening is sent.
Greet ==
    /\ observer = "greeting"
    /\ link = "open"
    /\ observer' = "reading"
    /\ UNCHANGED <<running, websocket, connected, link, faults>>
    /\ UNCHANGED <<wire, managerVars, callerVars>>

\* A frame with a message_id: the answer to a registered command, or a late
\* answer that no longer has an entry and falls through _handle_result.
Answer(i) ==
    /\ observer = "reading"
    /\ i \in wire
    /\ wire' = wire \ {i}
    /\ \E verdict \in {"result", "error", "neither"} : DispatchIncoming(i, verdict)
    /\ UNCHANGED <<sessionVars, callerVars>>

\* An inventory, a node event or the server info: _handle_message awaits.
HandleMessage ==
    /\ observer = "reading"
    /\ observer' = "handling"
    /\ UNCHANGED <<running, websocket, connected, link, faults>>
    /\ UNCHANGED <<wire, managerVars, callerVars>>

\* A server_shutdown event runs _on_disconnected while the socket is open.
ServerShutdown ==
    /\ observer = "reading"
    /\ observer' = "shutdown"
    /\ OnDisconnected
    /\ UNCHANGED <<running, websocket, link, faults, wire, callerVars>>

MessageHandled ==
    /\ observer \in {"handling", "shutdown"}
    /\ observer' = "reading"
    /\ UNCHANGED <<running, websocket, connected, link, faults>>
    /\ UNCHANGED <<wire, managerVars, callerVars>>

\* The finally clause of _session.
LeaveSession(next) ==
    /\ observer' = next
    /\ websocket' = FALSE
    /\ UNCHANGED <<running, connected, link>>
    /\ UNCHANGED <<wire, managerVars, callerVars>>

\* The socket closed cleanly and the frames end.
FramesEnd ==
    /\ observer = "reading"
    /\ link = "lost"
    /\ LeaveSession("closing")
    /\ UNCHANGED faults

\* The socket failed: the iteration, or the send of start_listening, raises.
SessionRaises ==
    /\ observer \in {"greeting", "reading"}
    /\ link = "lost"
    /\ LeaveSession("aborting")
    /\ UNCHANGED faults

\* A storage operation raises inside the session.
StorageFailsInSession ==
    /\ observer \in {"greeting", "handling", "shutdown"}
    /\ faults < MaxFaults
    /\ faults' = faults + 1
    /\ LeaveSession("aborting")

\* The async with is left and the socket is closed; then _on_disconnected,
\* in _session after a clean close, in _run's except clause otherwise.
SessionExit ==
    /\ observer \in {"closing", "aborting"}
    /\ observer' = IF observer = "closing" THEN "leaving" ELSE "failing"
    /\ link' = "none"
    /\ wire' = {}
    /\ pc' = BreakSends(pc)
    /\ OnDisconnected
    /\ UNCHANGED <<running, websocket, faults, req, outcome>>

\* Mutation: a clean close ends the reconnect loop.
DisconnectStoredAndDone ==
    /\ observer \in {"leaving", "failing"}
    /\ observer' = IF observer = "leaving" THEN "stopped" ELSE "backoff"
    /\ UNCHANGED <<running, websocket, connected, link, faults>>
    /\ UNCHANGED <<wire, managerVars, callerVars>>

\* _on_disconnected stored the state and its event.
DisconnectStored ==
    /\ observer \in {"leaving", "failing"}
    /\ observer' = "backoff"
    /\ UNCHANGED <<running, websocket, connected, link, faults>>
    /\ UNCHANGED <<wire, managerVars, callerVars>>

\* _on_disconnected raises: out of _session into the except clause, whose own
\* _on_disconnected has nothing around it.
StorageFailsOnDisconnect ==
    /\ observer \in {"leaving", "failing"}
    /\ faults < MaxFaults
    /\ faults' = faults + 1
    /\ IF observer = "leaving"
       THEN /\ observer' = "failing"
            /\ OnDisconnected
       ELSE /\ observer' = "dead"
            /\ UNCHANGED <<managerVars, connected>>
    /\ UNCHANGED <<running, websocket, link, wire, callerVars>>

\* The sleep ends and _run looks at _running again.
Retry ==
    /\ observer = "backoff"
    /\ observer' = IF running THEN "connecting" ELSE "stopped"
    /\ UNCHANGED <<running, websocket, connected, link, faults>>
    /\ UNCHANGED <<wire, managerVars, callerVars>>

\* The network or the server closes the socket.
LinkLost ==
    /\ link = "open"
    /\ link' = "lost"
    /\ pc' = BreakSends(pc)
    /\ UNCHANGED <<running, observer, websocket, connected, faults>>
    /\ UNCHANGED <<wire, managerVars, req, outcome>>

-----------------------------------------------------------------------------
(* The callers: a probe run, and _request_command with wait_for.           *)

\* A probe run starts after _is_connected(); it may send several commands.
BeginProbe(c) ==
    /\ pc[c] = "idle"
    /\ websocket /\ connected
    /\ c \in Scheduled => running
    /\ pc' = [pc EXCEPT ![c] = "probing"]
    /\ outcome' = [outcome EXCEPT ![c] = "none"]
    /\ UNCHANGED <<sessionVars, wire, managerVars, req>>

\* _request_command without a socket.
RequestRefused(c) ==
    /\ pc[c] = "probing"
    /\ ~websocket
    /\ outcome' = [outcome EXCEPT ![c] = "not_connected"]
    /\ UNCHANGED <<sessionVars, wire, managerVars, pc, req>>

\* _request_command up to the send: it looks at _websocket only, registers a
\* fresh id and writes the frame.  On a socket that is already lost send raises.
Request(c, i) ==
    /\ pc[c] = "probing"
    /\ websocket
    /\ future[i] = "unused"
    /\ pending' = pending \cup {i}
    /\ future' = [future EXCEPT ![i] = "waiting"]
    /\ req' = [req EXCEPT ![c] = i]
    /\ IF link = "open"
       THEN /\ wire' = wire \cup {i}
            /\ pc' = [pc EXCEPT ![c] = "sending"]
       ELSE /\ pc' = [pc EXCEPT ![c] = "broken"]
            /\ UNCHANGED wire
    /\ UNCHANGED <<sessionVars, outcome>>

\* The caller's command is over; its probe run goes on or ends.
Return(c, verdict, next) ==
    /\ outcome' = [outcome EXCEPT ![c] = verdict]
    /\ pc' = [pc EXCEPT ![c] = next]
    /\ req' = [req EXCEPT ![c] = NoId]

\* send returned and wait_for finds the future.
Sent(c) ==
    /\ pc[c] = "sending"
    /\ req[c] \in pending
    /\ pc' = [pc EXCEPT ![c] = "waiting"]
    /\ UNCHANGED <<sessionVars, wire, managerVars, req, outcome>>

\* send returned, but the answer or a disconnect came first: _pending has no
\* such key any more, wait_for raises and the probe run ends.
SentTooLate(c) ==
    /\ pc[c] = "sending"
    /\ req[c] \notin pending
    /\ Return(c, "key_error", "idle")
    /\ UNCHANGED <<sessionVars, wire, managerVars>>

\* send raised; nothing discards the entry that register made.
SendFails(c) ==
    /\ pc[c] = "broken"
    /\ Return(c, "send_error", "idle")
    /\ UNCHANGED <<sessionVars, wire, managerVars>>

\* The awaited future is done; the finally clause discards the id.
Resume(c) ==
    /\ pc[c] = "waiting"
    /\ future[req[c]] \in Settled
    /\ pending' = pending \ {req[c]}
    /\ Return(c, future[req[c]], "probing")
    /\ UNCHANGED <<sessionVars, wire, future>>

\* Mutation: the timeout leaves the entry for the answer to remove.
TimeoutKeepsEntry(c) ==
    /\ pc[c] = "waiting"
    /\ Return(c, "timed_out", "probing")
    /\ UNCHANGED <<sessionVars, wire, managerVars>>

\* Mutation: the cancelled future, not a result, reaches the caller.
TimeoutRaises(c) ==
    /\ pc[c] = "waiting"
    /\ pending' = pending \ {req[c]}
    /\ future' = [future EXCEPT ![req[c]] = "cancelled"]
    /\ Return(c, "cancelled", "probing")
    /\ UNCHANGED <<sessionVars, wire>>

\* The timeout fires first: it may win even against a future that was settled
\* in the same turn of the event loop.  A late answer finds no entry.
Timeout(c) ==
    /\ pc[c] = "waiting"
    /\ pending' = pending \ {req[c]}
    /\ future' = IF req[c] \in pending
                 THEN [future EXCEPT ![req[c]] = "cancelled"]
                 ELSE future
    /\ Return(c, "timed_out", "probing")
    /\ UNCHANGED <<sessionVars, wire>>

EndProbe(c) ==
    /\ pc[c] = "probing"
    /\ pc' = [pc EXCEPT ![c] = "idle"]
    /\ UNCHANGED <<sessionVars, wire, managerVars, req, outcome>>

-----------------------------------------------------------------------------
(* stop(): first the scheduler's task with its probes, then the observer's. *)

StopScheduler ==
    LET busy == {c \in Scheduled : pc[c] # "idle"}
        heard == {req[c] : c \in {d \in busy : pc[d] = "waiting"}}
    IN  /\ running
        /\ running' = FALSE
        /\ pending' = pending \ heard
        /\ pc' = [c \in Callers |-> IF c \in busy THEN "idle" ELSE pc[c]]
        /\ req' = [c \in Callers |-> IF c \in busy THEN NoId ELSE req[c]]
        /\ outcome' = [c \in Callers |-> IF c \in busy THEN "stopped" ELSE outcome[c]]
        /\ UNCHANGED <<observer, websocket, connected, link, faults, wire, future>>

\* Cancelling the task closes the socket, but runs no _on_disconnected.
StopObserver ==
    /\ ~running
    /\ observer \notin {"stopped", "dead"}
    /\ observer' = "stopped"
    /\ websocket' = FALSE
    /\ link' = "none"
    /\ wire' = {}
    /\ pc' = BreakSends(pc)
    /\ UNCHANGED <<running, connected, faults, managerVars, req, outcome>>

-----------------------------------------------------------------------------
\* What the observer's task does by itself.
ObserverStep ==
    \/ Connect \/ ConnectFails \/ Greet
    \/ MessageHandled
    \/ FramesEnd \/ SessionRaises \/ SessionExit
    \/ DisconnectStored \/ Retry

FromNetwork ==
    \/ \E i \in Ids : Answer(i)
    \/ HandleMessage
    \/ ServerShutdown
    \/ LinkLost

StorageFault == StorageFailsInSession \/ StorageFailsOnDisconnect

\* What a caller that is awaiting a command does.
CallerStep(c) == Sent(c) \/ SentTooLate(c) \/ SendFails(c) \/ Resume(c) \/ Timeout(c)

CallerChoice(c) ==
    \/ BeginProbe(c) \/ RequestRefused(c) \/ EndProbe(c)
    \/ \E i \in Ids : Request(c, i)

Stop == StopScheduler \/ StopObserver

Next ==
    \/ ObserverStep
    \/ FromNetwork
    \/ StorageFault
    \/ \E c \in Callers : CallerStep(c) \/ CallerChoice(c)
    \/ Stop

Spec == Init /\ [][Next]_vars

\* The event loop runs every task that is ready; connect() and a storage call
\* end (open_timeout bounds the first), a suspended send ends or its socket is
\* found dead by the keepalive, and wait_for has a timeout.  A lost socket holds
\* finitely many frames, so a session that keeps reading gets to their end, which
\* is the strong fairness.  Nothing is assumed of the server, the network or the
\* choices of the callers.
Fairness ==
    /\ WF_vars(ObserverStep)
    /\ SF_vars(FramesEnd \/ SessionRaises)
    /\ \A c \in Callers : WF_vars(CallerStep(c))

FairSpec == Spec /\ Fairness

-----------------------------------------------------------------------------
(* Properties.                                                             *)

\* wait_for never sleeps on a future that nobody can settle any more: the id
\* a caller waits for is still registered, or its future is already done.
WaiterIsResolvable ==
    \A c \in Callers :
        pc[c] = "waiting" => req[c] \in pending \/ future[req[c]] \in Settled

\* A disconnect fails every command: between _on_disconnected and the next
\* connect no id is registered, also after a server_shutdown event that let
\* callers register more on the socket that was still open.
NoneOutlivesDisconnect ==
    observer \in {"leaving", "failing", "backoff", "connecting", "dead"} => pending = {}

\* While the service runs on a live socket every registered id has a caller
\* that will discard it.  The entry a failing send leaves behind (nothing in
\* _request_command removes it) can exist only until the session notices.
LeakOnlyWhileDown ==
    running /\ link = "open" =>
        \A i \in pending : \E c \in Callers : pc[c] \in HoldsId /\ req[c] = i

\* Each id goes through the life the manager promises (RequestLifecycle): one
\* verdict, from its own answer, its own timeout, or a disconnect.
life == [i \in Ids |-> IF i \in pending THEN "open"
                       ELSE IF future[i] = "waiting" THEN "abandoned"
                       ELSE future[i]]
Lifecycle == INSTANCE RequestLifecycle WITH Ids <- Ids, life <- life
LifecycleSpec == Lifecycle!Spec

\* Under Fairness no entry stays registered for ever, not even a leaked one:
\* its caller gives up, or the observer notices that the socket is gone.
EntriesDrain ==
    \A i \in Ids : i \in pending ~> (i \notin pending \/ ~running)

\* Under Fairness the observer never settles down without a connection: it
\* comes back to a live socket, or to a new attempt, for as long as it runs.
KeepsTrying == []<>(observer = "connecting" \/ link = "open" \/ ~running)
=============================================================================
