------------------------------ MODULE Presence ------------------------------
(***************************************************************************)
(* What a collector promises about the things it watches (the reachability *)
(* of border routers, the visibility of Thread networks): a stored record  *)
(* changes side, the change owes one event, and the event is written       *)
(* before the record changes again, or never.                              *)
(*                                                                         *)
(* An event is given up when the debouncer suppresses it and when the      *)
(* process ends first.  Only after a storage failure may a record change   *)
(* without owing an event.                                                 *)
(***************************************************************************)
CONSTANT Subjects

VARIABLES
    shown,      \* the side each stored record is on
    owed,       \* the subjects with a change whose event is still to come
    told,       \* the side named by the last stored event
    failed      \* storage has failed at least once

vars == <<shown, owed, told, failed>>

Sides == {"up", "down"}

Init ==
    /\ shown = [s \in Subjects |-> "unknown"] /\ owed = {}
    /\ told = [s \in Subjects |-> "unknown"] /\ failed = FALSE

Change(s) ==
    /\ s \notin owed /\ owed' = owed \cup {s}
    /\ \E side \in Sides \ {shown[s]} : shown' = [shown EXCEPT ![s] = side]
    /\ UNCHANGED <<told, failed>>

Report(s) ==
    /\ s \in owed /\ owed' = owed \ {s}
    /\ told' = [told EXCEPT ![s] = shown[s]]
    /\ UNCHANGED <<shown, failed>>

GiveUp ==
    /\ owed' \in SUBSET owed
    /\ UNCHANGED <<shown, told, failed>>

Fail == failed' = TRUE /\ owed' \in SUBSET owed /\ UNCHANGED <<shown, told>>

\* The record follows a cache that ran ahead of it when its write failed.
CatchUp(s) ==
    /\ failed /\ s \notin owed /\ owed' \in {owed, owed \cup {s}}
    /\ \E side \in Sides : shown' = [shown EXCEPT ![s] = side]
    /\ UNCHANGED <<told, failed>>

Next ==
    \/ \E s \in Subjects : Change(s) \/ Report(s) \/ CatchUp(s)
    \/ GiveUp \/ Fail

Spec == Init /\ [][Next]_vars
=============================================================================
