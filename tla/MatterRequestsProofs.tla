------------------------ MODULE MatterRequestsProofs ------------------------
(***************************************************************************)
(* What MatterRequests guarantees for every set of callers, every set of   *)
(* message ids and every number of storage faults.                         *)
(***************************************************************************)
EXTENDS MatterRequests, TLAPS

\* An entry of _pending still has a future that is not done: whatever settles
\* a future also discards its id.
PendingIsUnsettled == \A i \in pending : future[i] = "waiting"

\* A caller that sends or waits does so for an id that was registered and that
\* no timeout cancelled, and no two callers for the same one.
HoldersAreApart ==
    /\ \A c \in Callers : pc[c] \in HoldsId =>
          req[c] \in Ids /\ future[req[c]] \notin {"unused", "cancelled"}
    /\ \A c, d \in Callers :
          c # d /\ pc[c] \in HoldsId /\ pc[d] \in HoldsId => req[c] # req[d]

\* _websocket is set exactly while _session is inside its try, and the socket
\* exists only from there to the end of the async with.
SocketFollowsSession ==
    /\ websocket <=> observer \in InSession
    /\ link # "none" => observer \in InSession \cup {"closing", "aborting"}

\* A caller whose send is about to raise on a socket of an earlier session has
\* lost its entry to the cancel_all that ended that session.
BrokenIsForgotten ==
    \A c \in Callers : pc[c] = "broken" /\ link = "open" => req[c] \notin pending

IInv ==
    /\ TypeOK
    /\ PendingIsUnsettled
    /\ HoldersAreApart
    /\ SocketFollowsSession
    /\ BrokenIsForgotten
    /\ WaiterIsResolvable
    /\ NoneOutlivesDisconnect
    /\ LeakOnlyWhileDown

USE DEF sessionVars, managerVars, callerVars

LEMMA InitIInv == Init => IInv
<1> SUFFICES ASSUME Init PROVE IInv
  OBVIOUS
<1> USE RequestsAssumption DEF Init
<1>1. TypeOK
  <2>1. running \in BOOLEAN /\ websocket \in BOOLEAN /\ connected \in BOOLEAN
    OBVIOUS
  <2>2. faults \in 0..MaxFaults
    OBVIOUS
  <2> QED
    BY <2>1, <2>2 DEF TypeOK, ObserverStates, CallerStates, FutureStates, Outcomes
<1>2. PendingIsUnsettled /\ BrokenIsForgotten /\ NoneOutlivesDisconnect /\ LeakOnlyWhileDown
  BY DEF PendingIsUnsettled, BrokenIsForgotten, NoneOutlivesDisconnect, LeakOnlyWhileDown
<1>3. HoldersAreApart /\ WaiterIsResolvable
  BY DEF HoldersAreApart, WaiterIsResolvable, HoldsId
<1>4. SocketFollowsSession
  BY DEF SocketFollowsSession, InSession
<1> QED
  BY <1>1, <1>2, <1>3, <1>4 DEF IInv

LEMMA NextIInv == IInv /\ [Next]_vars => IInv'
<1> SUFFICES ASSUME IInv, [Next]_vars PROVE IInv'
  OBVIOUS
<1> USE RequestsAssumption DEF IInv, TypeOK, PendingIsUnsettled, HoldersAreApart,
    SocketFollowsSession, BrokenIsForgotten, WaiterIsResolvable,
    NoneOutlivesDisconnect, LeakOnlyWhileDown,
    ObserverStates, InSession, CallerStates, HoldsId, FutureStates, Outcomes, Settled
<1>1. CASE Connect
  BY <1>1 DEF Connect
<1>2. CASE ConnectFails
  BY <1>2, ZenonT(40) DEF ConnectFails, OnDisconnected, CancelAll
<1>3. CASE Greet
  BY <1>3 DEF Greet
<1>4. CASE MessageHandled
  BY <1>4 DEF MessageHandled
<1>5. CASE FramesEnd
  BY <1>5 DEF FramesEnd, LeaveSession
<1>6. CASE SessionRaises
  BY <1>6 DEF SessionRaises, LeaveSession
<1>7. CASE SessionExit
  <2>1. /\ observer' \in {"leaving", "failing"} /\ observer \in {"closing", "aborting"}
        /\ link' = "none" /\ wire' = {} /\ connected' = FALSE /\ pending' = {}
        /\ UNCHANGED <<running, websocket, faults, req, outcome>>
    BY <1>7 DEF SessionExit, OnDisconnected, CancelAll
  <2>2. /\ future' \in [Ids -> FutureStates]
        /\ \A i \in Ids : future'[i] = IF i \in pending THEN "failed" ELSE future[i]
    BY <1>7 DEF SessionExit, OnDisconnected, CancelAll
  <2>3. /\ pc' \in [Callers -> CallerStates]
        /\ \A c \in Callers : pc'[c] = IF pc[c] = "sending" THEN "broken" ELSE pc[c]
    BY <1>7 DEF SessionExit, BreakSends
  <2>4. TypeOK'
    BY <2>1, <2>2, <2>3
  <2> QED
    BY <2>1, <2>2, <2>3, <2>4
<1>8. CASE DisconnectStored
  BY <1>8 DEF DisconnectStored
<1>9. CASE Retry
  BY <1>9 DEF Retry
<1>10. ASSUME NEW i \in Ids, Answer(i) PROVE IInv'
  BY <1>10 DEF Answer, DispatchIncoming
<1>11. CASE HandleMessage
  BY <1>11 DEF HandleMessage
<1>12. CASE ServerShutdown
  BY <1>12 DEF ServerShutdown, OnDisconnected, CancelAll
<1>13. CASE LinkLost
  BY <1>13 DEF LinkLost, BreakSends
<1>14. CASE StorageFailsInSession
  <2>1. faults' \in 0..MaxFaults
    BY <1>14 DEF StorageFailsInSession, LeaveSession
  <2>2. TypeOK'
    BY <1>14, <2>1 DEF StorageFailsInSession, LeaveSession
  <2> QED
    BY <1>14, <2>2 DEF StorageFailsInSession, LeaveSession
<1>15. CASE StorageFailsOnDisconnect
  <2>1. faults' \in 0..MaxFaults
    <3> faults \in 0..MaxFaults /\ faults < MaxFaults /\ faults' = faults + 1
      BY <1>15 DEF StorageFailsOnDisconnect
    <3> HIDE DEF IInv
    <3> QED
      BY RequestsAssumption
  <2>2. CASE observer = "leaving"
    <3>1. /\ observer' = "failing" /\ connected' = FALSE /\ pending' = {}
          /\ future' = [i \in Ids |-> IF i \in pending /\ future[i] = "waiting"
                                     THEN "failed" ELSE future[i]]
          /\ UNCHANGED <<running, websocket, link, wire, pc, req, outcome>>
      BY <1>15, <2>2 DEF StorageFailsOnDisconnect, OnDisconnected, CancelAll
    <3>2. TypeOK'
      BY <2>1, <3>1
    <3> QED
      BY <2>2, <3>1, <3>2
  <2>3. CASE observer = "failing"
    <3>1. /\ observer' = "dead"
          /\ UNCHANGED <<connected, pending, future>>
          /\ UNCHANGED <<running, websocket, link, wire, pc, req, outcome>>
      BY <1>15, <2>3 DEF StorageFailsOnDisconnect
    <3>2. TypeOK'
      BY <2>1, <3>1
    <3> QED
      BY <2>3, <3>1, <3>2
  <2> QED
    BY <1>15, <2>2, <2>3 DEF StorageFailsOnDisconnect
<1>16. ASSUME NEW c \in Callers, Sent(c) PROVE IInv'
  BY <1>16 DEF Sent
<1>17. ASSUME NEW c \in Callers, SentTooLate(c) PROVE IInv'
  BY <1>17 DEF SentTooLate, Return
<1>18. ASSUME NEW c \in Callers, SendFails(c) PROVE IInv'
  BY <1>18 DEF SendFails, Return
<1>19. ASSUME NEW c \in Callers, Resume(c) PROVE IInv'
  <2>1. req[c] \in Ids /\ req[c] \notin pending /\ pending' = pending
    BY <1>19 DEF Resume
  <2>2. future[req[c]] \in Outcomes /\ future' = future
    BY <1>19, <2>1 DEF Resume
  <2>3. TypeOK'
    BY <1>19, <2>1, <2>2 DEF Resume, Return
  <2> QED
    BY <1>19, <2>1, <2>2, <2>3 DEF Resume, Return
<1>20. ASSUME NEW c \in Callers, Timeout(c) PROVE IInv'
  BY <1>20 DEF Timeout, Return
<1>21. ASSUME NEW c \in Callers, BeginProbe(c) \/ RequestRefused(c) \/ EndProbe(c) PROVE IInv'
  BY <1>21 DEF BeginProbe, RequestRefused, EndProbe
<1>22. ASSUME NEW c \in Callers, NEW i \in Ids, Request(c, i) PROVE IInv'
  BY <1>22 DEF Request
<1>23. CASE StopScheduler
  <2> DEFINE busy == {c \in Scheduled : pc[c] # "idle"}
  <2>1. /\ running' = FALSE /\ pending' \subseteq pending
        /\ pc' = [c \in Callers |-> IF c \in busy THEN "idle" ELSE pc[c]]
        /\ req' = [c \in Callers |-> IF c \in busy THEN NoId ELSE req[c]]
        /\ outcome' = [c \in Callers |-> IF c \in busy THEN "stopped" ELSE outcome[c]]
        /\ UNCHANGED <<observer, websocket, connected, link, faults, wire, future>>
    BY <1>23 DEF StopScheduler
  <2>2. \A c \in Callers : pc'[c] \in HoldsId =>
           pc'[c] = pc[c] /\ req'[c] = req[c] /\ (req[c] \in pending => req[c] \in pending')
    <3> SUFFICES ASSUME NEW c \in Callers, pc'[c] \in HoldsId
                 PROVE pc'[c] = pc[c] /\ req'[c] = req[c]
                       /\ (req[c] \in pending => req[c] \in pending')
      OBVIOUS
    <3>1. c \notin busy /\ pc'[c] = pc[c] /\ req'[c] = req[c]
      BY <2>1
    <3>2. ASSUME NEW d \in busy PROVE req[d] # req[c] \/ pc[d] # "waiting"
      BY <3>1, <3>2
    <3> QED
      BY <1>23, <3>1, <3>2 DEF StopScheduler
  <2>3. TypeOK'
    BY <2>1
  <2> HIDE DEF busy
  <2>4. PendingIsUnsettled' /\ HoldersAreApart' /\ WaiterIsResolvable'
    BY <2>1, <2>2, <2>3
  <2> QED
    BY <2>1, <2>2, <2>3, <2>4
<1>24. CASE StopObserver
  <2>1. /\ running' = FALSE /\ observer' = "stopped" /\ websocket' = FALSE
        /\ link' = "none" /\ wire' = {}
        /\ UNCHANGED <<connected, faults, pending, future, req, outcome>>
    BY <1>24 DEF StopObserver
  <2>2. /\ pc' \in [Callers -> CallerStates]
        /\ \A c \in Callers : pc'[c] = IF pc[c] = "sending" THEN "broken" ELSE pc[c]
    BY <1>24 DEF StopObserver, BreakSends
  <2>3. TypeOK'
    BY <2>1, <2>2
  <2> QED
    BY <2>1, <2>2, <2>3
<1>25. CASE UNCHANGED vars
  BY <1>25 DEF vars
<1> QED
  BY <1>1, <1>2, <1>3, <1>4, <1>5, <1>6, <1>7, <1>8, <1>9, <1>10, <1>11, <1>12, <1>13,
     <1>14, <1>15, <1>16, <1>17, <1>18, <1>19, <1>20, <1>21, <1>22, <1>23, <1>24, <1>25
  DEF Next, ObserverStep, FromNetwork, StorageFault, CallerStep, CallerChoice, Stop

-----------------------------------------------------------------------------
\* IInv is an invariant of MatterRequests: the inductive invariant behind the
\* four theorems below.
THEOREM SpecIInv == Spec => []IInv
  BY InitIInv, NextIInv, PTL DEF Spec

\* The variables of the session, the manager and the callers keep their types;
\* in particular no caller is ever handed the verdict of a cancelled future.
THEOREM TypeCorrect == Spec => []TypeOK
<1>1. IInv => TypeOK
  BY DEF IInv
<1> QED
  BY <1>1, SpecIInv, PTL

\* However many callers, ids and faults there are, wait_for never waits for a
\* future that nothing can settle any more.
THEOREM WaiterAlwaysResolvable == Spec => []WaiterIsResolvable
<1>1. IInv => WaiterIsResolvable
  BY DEF IInv
<1> QED
  BY <1>1, SpecIInv, PTL

\* No registered command survives the _on_disconnected that ends a session.
THEOREM DisconnectFailsAll == Spec => []NoneOutlivesDisconnect
<1>1. IInv => NoneOutlivesDisconnect
  BY DEF IInv
<1> QED
  BY <1>1, SpecIInv, PTL

\* On a live socket every entry of _pending belongs to a caller that sends or
\* waits; only a socket that is gone can leave an entry without one.
THEOREM NoLeakOnLiveSocket == Spec => []LeakOnlyWhileDown
<1>1. IInv => LeakOnlyWhileDown
  BY DEF IInv
<1> QED
  BY <1>1, SpecIInv, PTL

-----------------------------------------------------------------------------
(* The manager implements RequestLifecycle.                                *)

\* What touches neither _pending nor a future is a stutter of the lifecycle.
LEMMA ManagerStutters == UNCHANGED managerVars => UNCHANGED life
  BY DEF managerVars, life

\* cancel_all fails every open id at once.
LEMMA CancelAllIsDisconnect ==
  ASSUME TypeOK, PendingIsUnsettled, CancelAll
  PROVE  Lifecycle!Disconnect
<1>1. \A i \in Ids : life[i] = "open" <=> i \in pending
  BY DEF TypeOK, life, FutureStates, Settled
<1>2. life' = [i \in Ids |-> IF future'[i] = "waiting" THEN "abandoned" ELSE future'[i]]
  BY DEF CancelAll, life
<1>3. \A i \in Ids : life'[i] = IF i \in pending THEN "failed" ELSE life[i]
  BY <1>2 DEF TypeOK, PendingIsUnsettled, CancelAll, life
<1>4. life' = [i \in Ids |-> IF i \in pending THEN "failed" ELSE life[i]]
  BY <1>2, <1>3
<1> QED
  BY <1>1, <1>4 DEF Lifecycle!Disconnect, Lifecycle!Open

\* An answer is at most a step of the id it carries.
LEMMA DispatchIsAnswer ==
  ASSUME TypeOK, PendingIsUnsettled, NEW i \in Ids,
         NEW verdict \in {"result", "error", "neither"}, DispatchIncoming(i, verdict)
  PROVE  Lifecycle!Answer(i) \/ UNCHANGED life
<1>1. CASE i \in pending /\ verdict \in {"result", "error"}
  <2>1. future' = [future EXCEPT ![i] = verdict] /\ pending' = pending \ {i}
    BY <1>1 DEF DispatchIncoming, PendingIsUnsettled, TypeOK
  <2>2. life[i] = "open"
    BY <1>1 DEF life
  <2>3. life' = [life EXCEPT ![i] = verdict]
    BY <1>1, <2>1 DEF life, TypeOK
  <2> QED
    BY <1>1, <2>2, <2>3 DEF Lifecycle!Answer
<1>2. CASE ~(i \in pending /\ verdict \in {"result", "error"})
  BY <1>2, ManagerStutters DEF DispatchIncoming
<1> QED
  BY <1>1, <1>2

\* A timeout expires the id its caller waits for, unless the verdict came first.
LEMMA TimeoutIsExpire ==
  ASSUME IInv, NEW c \in Callers, Timeout(c)
  PROVE  (\E i \in Ids : Lifecycle!Expire(i)) \/ UNCHANGED life
<1> DEFINE i == req[c]
<1>1. i \in Ids
  BY DEF Timeout, IInv, HoldersAreApart, HoldsId
<1>2. CASE i \in pending
  <2>1. future' = [future EXCEPT ![i] = "cancelled"] /\ pending' = pending \ {i}
    BY <1>2 DEF Timeout
  <2>2. life[i] = "open"
    BY <1>1, <1>2 DEF life
  <2>3. life' = [life EXCEPT ![i] = "cancelled"]
    BY <1>1, <2>1 DEF life, IInv, TypeOK
  <2> QED
    BY <1>1, <2>2, <2>3 DEF Lifecycle!Expire
<1>3. CASE i \notin pending
  <2>1. UNCHANGED managerVars
    BY <1>3 DEF Timeout, managerVars, IInv, TypeOK
  <2> QED
    BY <2>1, ManagerStutters
<1> QED
  BY <1>2, <1>3

\* Stopping the scheduler abandons the ids its callers wait for.
LEMMA StopIsAbandon ==
  ASSUME IInv, StopScheduler
  PROVE  Lifecycle!Abandon
<1>1. PICK heard : pending' = pending \ heard /\ UNCHANGED future
  BY DEF StopScheduler
<1> DEFINE S == heard \cap pending
<1>2. \A i \in Ids : life[i] = "open" <=> i \in pending
  BY DEF IInv, TypeOK, life, FutureStates, Settled
<1>3. S \in SUBSET Lifecycle!Open
  BY <1>2 DEF Lifecycle!Open, IInv, TypeOK
<1>4. life' = [i \in Ids |-> IF i \in S THEN "abandoned" ELSE life[i]]
  BY <1>1 DEF life, IInv, TypeOK, PendingIsUnsettled
<1> QED
  BY <1>3, <1>4 DEF Lifecycle!Abandon

\* Each step of MatterRequests is a step of the lifecycle or leaves it alone.
LEMMA StepRefines == IInv /\ [Next]_vars => [Lifecycle!Next]_life
<1> SUFFICES ASSUME IInv, [Next]_vars PROVE Lifecycle!Next \/ UNCHANGED life
  OBVIOUS
<1>1. CASE UNCHANGED managerVars
  BY <1>1, ManagerStutters
<1>2. CASE CancelAll
  BY <1>2, CancelAllIsDisconnect DEF Lifecycle!Next, IInv
<1>3. CASE ObserverStep
  BY <1>1, <1>2, <1>3 DEF ObserverStep, Connect, ConnectFails, Greet, MessageHandled, FramesEnd,
     SessionRaises, SessionExit, DisconnectStored, Retry, LeaveSession, OnDisconnected
<1>4. CASE FromNetwork
  <2>1. ASSUME NEW i \in Ids, Answer(i) PROVE Lifecycle!Next \/ UNCHANGED life
    <3>1. PICK verdict \in {"result", "error", "neither"} : DispatchIncoming(i, verdict)
      BY <2>1 DEF Answer
    <3> QED
      BY <3>1, DispatchIsAnswer DEF IInv, Lifecycle!Next
  <2>2. CASE HandleMessage \/ ServerShutdown \/ LinkLost
    BY <1>1, <1>2, <2>2 DEF HandleMessage, ServerShutdown, LinkLost, OnDisconnected
  <2> QED
    BY <1>4, <2>1, <2>2 DEF FromNetwork
<1>5. CASE StorageFault
  <2>1. CASE StorageFailsInSession
    BY <1>1, <2>1 DEF StorageFailsInSession, LeaveSession
  <2>2. CASE StorageFailsOnDisconnect
    BY <1>1, <1>2, <2>2 DEF StorageFailsOnDisconnect, OnDisconnected
  <2> QED
    BY <1>5, <2>1, <2>2 DEF StorageFault
<1>6. ASSUME NEW c \in Callers, CallerStep(c) PROVE Lifecycle!Next \/ UNCHANGED life
  <2>1. CASE Sent(c) \/ SentTooLate(c) \/ SendFails(c)
    BY <1>1, <2>1 DEF Sent, SentTooLate, SendFails
  <2>2. CASE Resume(c)
    <3>1. req[c] \in Ids /\ req[c] \notin pending
      BY <2>2 DEF Resume, IInv, HoldersAreApart, HoldsId, PendingIsUnsettled, Settled
    <3> QED
      BY <1>1, <2>2, <3>1 DEF Resume, managerVars
  <2>3. CASE Timeout(c)
    BY <2>3, TimeoutIsExpire DEF Lifecycle!Next
  <2> QED
    BY <1>6, <2>1, <2>2, <2>3 DEF CallerStep
<1>7. ASSUME NEW c \in Callers, CallerChoice(c) PROVE Lifecycle!Next \/ UNCHANGED life
  <2>1. CASE BeginProbe(c) \/ RequestRefused(c) \/ EndProbe(c)
    BY <1>1, <2>1 DEF BeginProbe, RequestRefused, EndProbe
  <2>2. ASSUME NEW i \in Ids, Request(c, i) PROVE Lifecycle!Next
    <3>1. i \notin pending
      BY <2>2 DEF Request, IInv, PendingIsUnsettled
    <3>2. life[i] = "unused"
      BY <2>2, <3>1 DEF Request, life
    <3>3. life' = [life EXCEPT ![i] = "open"]
      BY <2>2 DEF Request, life, IInv, TypeOK
    <3> QED
      BY <3>2, <3>3 DEF Lifecycle!Next, Lifecycle!Register
  <2> QED
    BY <1>7, <2>1, <2>2 DEF CallerChoice
<1>8. CASE Stop
  <2>1. CASE StopScheduler
    BY <2>1, StopIsAbandon DEF Lifecycle!Next
  <2>2. CASE StopObserver
    BY <1>1, <2>2 DEF StopObserver
  <2> QED
    BY <1>8, <2>1, <2>2 DEF Stop
<1>9. CASE UNCHANGED vars
  BY <1>1, <1>9 DEF vars
<1> QED
  BY <1>3, <1>4, <1>5, <1>6, <1>7, <1>8, <1>9 DEF Next

\* The manager of matter_ws.py implements RequestLifecycle: an id is registered
\* once and leaves _pending once, by its own answer, its own timeout, the
\* disconnect that fails all of them, or the stop of the task that waits for it.
THEOREM Refines == Spec => LifecycleSpec
<1>1. Init => Lifecycle!Init
  BY DEF Init, Lifecycle!Init, life
<1> QED
  BY <1>1, StepRefines, SpecIInv, PTL DEF Spec, LifecycleSpec, Lifecycle!Spec
=============================================================================
