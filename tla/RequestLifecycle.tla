-------------------------- MODULE RequestLifecycle --------------------------
(***************************************************************************)
(* What the request manager of src/threadlens/collectors/matter_ws.py      *)
(* promises about one correlated command, whatever the callers, the        *)
(* websocket session and the Matter Server do.  A message id is opened     *)
(* once, and leaves the open state once: by the answer that carries it, by *)
(* a disconnect, which fails every open id together, by its caller's       *)
(* timeout, or because the service stopped while its caller waited.        *)
(***************************************************************************)
CONSTANT Ids

VARIABLE life

Verdicts == {"result", "error", "failed", "cancelled", "abandoned"}

Open == {i \in Ids : life[i] = "open"}

Init == life = [i \in Ids |-> "unused"]

Register(i) ==
    /\ life[i] = "unused"
    /\ life' = [life EXCEPT ![i] = "open"]

\* An answer settles the id it carries and no other.
Answer(i) ==
    /\ life[i] = "open"
    /\ \E v \in {"result", "error"} : life' = [life EXCEPT ![i] = v]

\* The connection is gone: no command that was open can be answered any more.
Disconnect ==
    life' = [i \in Ids |-> IF i \in Open THEN "failed" ELSE life[i]]

Expire(i) ==
    /\ life[i] = "open"
    /\ life' = [life EXCEPT ![i] = "cancelled"]

\* The service cancels some of the callers that wait.
Abandon ==
    \E S \in SUBSET Open :
        life' = [i \in Ids |-> IF i \in S THEN "abandoned" ELSE life[i]]

Next ==
    \/ \E i \in Ids : Register(i) \/ Answer(i) \/ Expire(i)
    \/ Disconnect
    \/ Abandon

Spec == Init /\ [][Next]_life
=============================================================================
