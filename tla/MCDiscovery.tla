----------------------------- MODULE MCDiscovery -----------------------------
(* Discovery for TLC's safety run.  Callback tasks are interchangeable, and  *)
(* the verdicts and the networks they are computed from decide nothing but   *)
(* verdicts: states that differ only in them need one visit.                 *)
EXTENDS Discovery, TLC

Symmetry == Permutations(Tasks)

Shown(peers) ==
    [s \in TrelServices |-> IF peers[s] = Absent THEN Absent
                            ELSE <<peers[s].visible, peers[s].content>>]

View == <<present, advertised, known, row, Shown(trel), Shown(trelRow), task, db,
          recent, logged, Shown(cycle.listed), history>>
=============================================================================
