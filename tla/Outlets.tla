------------------------------- MODULE Outlets -------------------------------
(***************************************************************************)
(* The rows, changed by the collectors, and the two ways out of the        *)
(* server: the MQTT publisher and the live dashboard, in one process.      *)
(*                                                                         *)
(* Both only read the rows, and neither touches the other: one of the two  *)
(* is looked at in a behaviour, the other is not used (watched).           *)
(***************************************************************************)
EXTENDS MqttPublisher, DashboardStream

VARIABLE watched

vars == <<rows, publisher, dashboard, watched>>

Init ==
    /\ RowsInit /\ PublisherInit /\ StreamInit
    /\ watched \in {"mqtt", "browser"}

Upsert(o) ==
    /\ upsert_current_state(o)
    /\ UNCHANGED <<publisher, dashboard, watched>>

\* Nobody is told of a deletion.
Delete(o) ==
    /\ delete_current_state(o)
    /\ unannounced' = IF watched = "browser" THEN unannounced \cup {o} ELSE {}
    /\ UNCHANGED <<publisher, stream, queue, debounce, fetch, shown, watched>>

Announce(o) == watched = "browser" /\ Notify(o) /\ UNCHANGED <<publisher, watched>>

OfPublisher(step) == watched = "mqtt" /\ step /\ UNCHANGED <<rows, dashboard, watched>>
OfStream(step) == watched = "browser" /\ step /\ UNCHANGED <<rows, publisher, watched>>

\* The process is killed: the task, the stream, the fetch and the announcements that
\* were still to be made are gone.
ProcessDies ==
    /\ untold' = {}
    /\ IF watched = "mqtt" THEN PublisherDies /\ UNCHANGED dashboard
       ELSE /\ stream' = "off" /\ queue' = 0 /\ fetch' = Idle
            /\ unannounced' = IF fetch.reading THEN Objects ELSE unannounced
            /\ UNCHANGED <<publisher, debounce, shown>>
    /\ UNCHANGED <<stored, changes, watched>>

Disturbed ==
    \/ OfPublisher(PublisherDisturbed)
    \/ OfStream(StreamDisturbed)
    \/ ProcessDies

Next ==
    \/ \E o \in Objects : Upsert(o) \/ Delete(o) \/ Announce(o)
    \/ OfPublisher(PublisherWorks \/ PublicationFails)
    \/ OfStream(StreamWorks)
    \/ Disturbed

\* The event loop runs every task that is ready, a dead connection does not swallow
\* messages for ever, the browser's timers fire, and a request that neither fails nor
\* is aborted is answered.
Fairness ==
    /\ WF_vars(OfPublisher(PublisherWorks)) /\ SF_vars(OfPublisher(PublicationFails))
    /\ \A o \in Objects : WF_vars(Announce(o)) /\ WF_vars(OfStream(ReadRow(o)))
    /\ WF_vars(OfStream(OpenStream)) /\ WF_vars(OfStream(FirstUpdate))
    /\ WF_vars(OfStream(Subscribe)) /\ WF_vars(OfStream(SendUpdate))
    /\ WF_vars(OfStream(DebounceEnds)) /\ WF_vars(OfStream(TimerFires))
    /\ WF_vars(OfStream(FetchDone))

Spec == Init /\ [][Next]_vars /\ Fairness

-----------------------------------------------------------------------------
(* Properties.                                                             *)

Undisturbed == <>[][~Disturbed]_vars

\* Once nothing disturbs it any more, a publisher that runs says so, and the broker
\* comes to hold every node and the summary as they are in storage.
EventuallyPublished ==
    Undisturbed =>
        <>[](watched = "mqtt" /\ task # "off" =>
                 /\ broker.availability = "online"
                 /\ broker.state[Summary] = <<stored, stored>>
                 /\ \A o \in Objects : stored[o] # 0 => broker.state[o] = <<stored[o]>>)

\* Once nothing disturbs it any more, the browser comes to show what is stored, the
\* deletions that nobody was told of included.
EventuallyShown == Undisturbed => <>[](watched = "browser" => shown = stored)
=============================================================================
