---------------------------- MODULE MCOtbrPolling ----------------------------
(* OtbrPolling for TLC's safety run.  Routers, networks and devices are       *)
(* interchangeable; the event log and the debouncer decide nothing else.      *)
EXTENDS OtbrPolling, TLC

Symmetry == Permutations(Otbrs) \cup Permutations(Networks)

View == <<configured, otbr, otbrRow, net, netRow, device, collected, task, faults, history>>
=============================================================================
