-------------------------- MODULE MCMatterRequests --------------------------
(* MatterRequests for TLC.  An id is only ever compared with other ids, so   *)
(* permuting the ids changes no safety property.                             *)
EXTENDS MatterRequests, TLC

IdSymmetry == Permutations(Ids)
=============================================================================
