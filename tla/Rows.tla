-------------------------------- MODULE Rows --------------------------------
(***************************************************************************)
(* The rows of current state as those see them who only read them          *)
(* (storage/repositories.py).                                              *)
(*                                                                         *)
(* An upsert commits and then notifies the listener; a deletion commits    *)
(* and notifies nobody.  Every change gives its row a value that no row    *)
(* had before, and a row without a value is not there.                     *)
(***************************************************************************)
EXTENDS Naturals

CONSTANTS
    Objects,    \* rows
    MaxChanges  \* changes (bound)

ASSUME RowsAssumption == MaxChanges \in Nat

VARIABLES
    stored,     \* committed value of each row; 0 without a row
    changes,    \* changes so far
    untold      \* rows whose last upsert is committed and not yet announced

rows == <<stored, changes, untold>>

RowsInit == stored = [o \in Objects |-> 0] /\ changes = 0 /\ untold = {}

Change(o, value) ==
    /\ changes < MaxChanges
    /\ changes' = changes + 1
    /\ stored' = [stored EXCEPT ![o] = value]

upsert_current_state(o) == Change(o, changes + 1) /\ untold' = untold \cup {o}

delete_current_state(o) == stored[o] # 0 /\ Change(o, 0) /\ UNCHANGED untold
=============================================================================
