--------------------------- MODULE DashboardStream ---------------------------
(***************************************************************************)
(* The live dashboard: the broadcaster (server/events.py), the event       *)
(* stream and the dashboard's payload (server/routes.py and                *)
(* dashboard_context.py), and the browser's hook that keeps it fresh       *)
(* (web/src/hooks/useDashboard.ts).                                        *)
(*                                                                         *)
(* The stream sends a first update when it opens and subscribes after      *)
(* that; from then on it sends what is announced.  An update makes the     *)
(* browser fetch the dashboard a moment later, aborting the fetch it may   *)
(* be in; it also fetches by a timer, of 30 seconds, and by a second one   *)
(* while the stream is off, and a slow fetch is aborted by them as well.   *)
(* A fetch reads one kind of row after another.  Rows stand for the kinds, *)
(* in any order.                                                           *)
(***************************************************************************)
EXTENDS Rows, FiniteSets

CONSTANT MaxQueue   \* updates waiting in a stream's queue (bound)

Idle == [reading |-> FALSE, left |-> {}, view |-> [o \in {} |-> 0]]

VARIABLES
    stream,     \* off, opening, opened (and not subscribed), live
    queue,      \* updates in the stream's queue
    debounce,   \* the browser's debounce timer runs
    fetch,      \* the fetch it is in: the rows left to read, the payload so far
    shown,      \* the payload it shows
    unannounced \* history: rows changed without an update, not fetched since

dashboard == <<stream, queue, debounce, fetch, shown, unannounced>>

StreamInit ==
    /\ stream = "off" /\ queue = 0 /\ debounce = FALSE
    /\ fetch = [reading |-> TRUE, left |-> Objects, view |-> [o \in {} |-> 0]]
    /\ shown = [o \in Objects |-> 0] /\ unannounced = {}

\* The listener of the repository, called after the commit.  Nobody hears it between
\* the first update of a stream and its subscription.
Notify(o) ==
    /\ o \in untold /\ queue < MaxQueue
    /\ untold' = untold \ {o}
    /\ queue' = IF stream = "live" THEN queue + 1 ELSE queue
    /\ unannounced' = IF stream = "opened" THEN unannounced \cup {o} ELSE unannounced
    /\ UNCHANGED <<stored, changes, stream, debounce, fetch, shown>>

OpenStream ==
    /\ stream = "off"
    /\ stream' = "opening"
    /\ UNCHANGED <<queue, debounce, fetch, shown, unannounced>>

\* Mutation: a stream opens without a first update.
OpenSilently ==
    /\ stream = "opening"
    /\ stream' = "opened"
    /\ UNCHANGED <<queue, debounce, fetch, shown, unannounced>>

FirstUpdate ==
    /\ stream = "opening"
    /\ stream' = "opened" /\ debounce' = TRUE
    /\ UNCHANGED <<queue, fetch, shown, unannounced>>

Subscribe ==
    /\ stream = "opened"
    /\ stream' = "live"
    /\ UNCHANGED <<queue, debounce, fetch, shown, unannounced>>

SendUpdate ==
    /\ stream = "live" /\ queue > 0
    /\ queue' = queue - 1 /\ debounce' = TRUE
    /\ UNCHANGED <<stream, fetch, shown, unannounced>>

StreamBreaks ==
    /\ stream # "off"
    /\ stream' = "off" /\ queue' = 0
    /\ UNCHANGED <<debounce, fetch, shown, unannounced>>

\* The fetch that may be under way is aborted.
Load == fetch' = [Idle EXCEPT !.reading = TRUE, !.left = Objects]

DebounceEnds ==
    /\ debounce
    /\ debounce' = FALSE /\ Load
    /\ UNCHANGED <<stream, queue, shown, unannounced>>

\* Mutation: the timer is for a stream that is off.
TimerOfBrokenStream ==
    /\ ~fetch.reading /\ stream = "off"
    /\ Load
    /\ UNCHANGED <<stream, queue, debounce, shown, unannounced>>

TimerFires ==
    /\ ~fetch.reading
    /\ Load
    /\ UNCHANGED <<stream, queue, debounce, shown, unannounced>>

\* A fetch is not over when a timer of the hook fires, or the user asks for another.
TimerAborts ==
    /\ fetch.reading
    /\ Load
    /\ UNCHANGED <<stream, queue, debounce, shown, unannounced>>

ReadRow(o) ==
    /\ o \in fetch.left
    /\ fetch' = [fetch EXCEPT !.left = @ \ {o},
                              !.view = [p \in {o} \cup DOMAIN @ |->
                                            IF p = o THEN stored[o] ELSE @[p]]]
    /\ unannounced' = unannounced \ {o}
    /\ UNCHANGED <<stream, queue, debounce, shown>>

FetchDone ==
    /\ fetch.reading /\ fetch.left = {}
    /\ shown' = fetch.view /\ fetch' = Idle
    /\ UNCHANGED <<stream, queue, debounce, unannounced>>

\* The payload shown before stays, with an error beside it.
FetchFails ==
    /\ fetch.reading
    /\ fetch' = Idle /\ unannounced' = Objects
    /\ UNCHANGED <<stream, queue, debounce, shown>>

StreamWorks ==
    \/ OpenStream \/ FirstUpdate \/ Subscribe \/ SendUpdate \/ DebounceEnds \/ TimerFires
    \/ \E o \in Objects : ReadRow(o)
    \/ FetchDone

\* A fetch that is slower than the timers may be aborted again and again.
StreamDisturbed == StreamBreaks \/ FetchFails \/ TimerAborts

-----------------------------------------------------------------------------
(* Properties.                                                             *)

Quiet ==
    /\ stream = "live" /\ queue = 0 /\ untold = {}
    /\ ~debounce /\ ~fetch.reading

\* When nothing is under way between the rows and the browser, it shows the rows as
\* they are, except those that were deleted or changed while a stream was opening,
\* since the last fetch, and unless that fetch failed.
ShownIsCurrent ==
    Quiet => \A o \in Objects : shown[o] = stored[o] \/ o \in unannounced
=============================================================================
