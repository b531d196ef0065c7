------------------------------ MODULE EventLog ------------------------------
(***************************************************************************)
(* The log of events and the window of it that is served as the recent     *)
(* events (storage/repositories.py, server/summary.py).                    *)
(*                                                                         *)
(* Collectors insert events with the time at which they made them, perhaps *)
(* one that waited for a commit after a later one.  A reader asks for the  *)
(* events of a window, of one subject or of all, and no more than a limit. *)
(* Time is counted in units.                                               *)
(***************************************************************************)
EXTENDS Naturals, FiniteSets, FiniteSetsExt

CONSTANTS
    Subjects,   \* what events are about
    Window,     \* length of the window
    Limits,     \* limits a reader asks for
    MAX_LIMIT,  \* the cap on them, positive
    MaxTime     \* time (bound)

Everything == "all"    \* no subject asked for

VARIABLES
    now,
    events, \* inserted events: [at, subject]
    served  \* the last answer: the events in its window then, and those listed

vars == <<now, events, served>>

Init == now = 0 /\ events = {} /\ served = [window |-> {}, listed |-> {}]

\* Of events made at one time, about one subject, one stands for all.
insert_event(e) ==
    /\ events' = events \cup {e}
    /\ UNCHANGED <<now, served>>

InWindow(subject) ==
    {e \in events : e.at + Window >= now /\ subject \in {e.subject, Everything}}

\* ORDER BY timestamp ASC LIMIT n: a set of n events none of
\* which is later than one left out; events of one time come in any order.
FirstByTime(window, n) ==
    {page \in kSubset(Min({n, Cardinality(window)}), window) :
        \A e \in page, f \in window \ page : e.at <= f.at}

build_events_payload(subject, limit) ==
    LET window == InWindow(subject)
        bounded == Max({1, Min({limit, MAX_LIMIT})})
    IN  /\ \E page \in FirstByTime(window, bounded) :
               served' = [window |-> window, listed |-> page]
        /\ UNCHANGED <<now, events>>

Tick == now < MaxTime /\ now' = now + 1 /\ UNCHANGED <<events, served>>

Next ==
    \/ \E s \in Subjects, at \in 0..now :
           at + 1 >= now /\ insert_event([at |-> at, subject |-> s])
    \/ \E subject \in Subjects \cup {Everything}, limit \in Limits :
           build_events_payload(subject, limit)
    \/ Tick

Spec == Init /\ [][Next]_vars

-----------------------------------------------------------------------------
(* Properties.                                                             *)

\* The events served as the recent ones are the most recent of the window.
ServedAreRecent ==
    \A e \in served.listed, f \in served.window \ served.listed : f.at <= e.at
=============================================================================
