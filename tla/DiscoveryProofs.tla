--------------------------- MODULE DiscoveryProofs ---------------------------
(***************************************************************************)
(* What Discovery guarantees for any sets of services, callback tasks and  *)
(* networks.                                                               *)
(***************************************************************************)
EXTENDS Discovery, TLAPS

\* q holds the tasks that await the database, each once.
Holds(q, tasks) ==
    /\ q \in Seq(Tasks)
    /\ \A t \in Tasks : (tasks[t].at \in Awaiting) <=> (\E i \in 1..Len(q) : q[i] = t)
    /\ \A i, j \in 1..Len(q) : q[i] = q[j] => i = j

\* The i-th task of q is the last one there that is in this state for service s.
LastIn(q, tasks, i, s, state) ==
    /\ i \in 1..Len(q) /\ tasks[q[i]].srv = s /\ tasks[q[i]].at = state
    /\ \A j \in 1..Len(q) : j > i => ~(tasks[q[j]].srv = s /\ tasks[q[j]].at = state)

Task == [at : TaskStates, srv : Services \cup {NoService}, kind : Kinds,
         content : Contents]

\* A task works on a service, and changes it by one of three events.
TasksHaveServices ==
    \A t \in Tasks :
        /\ task[t].at # "idle" => task[t].srv \in Services
        /\ task[t].at \in {"storing", "telling"} =>
               task[t].kind \in {"added", "changed", "removed"}

Types == TypeOK /\ TasksHaveServices

\* The change a task carries is the one the cache shows.
Carries(t, s) ==
    /\ Visible(known[s]) <=> task[t].kind # "removed"
    /\ task[t].content = known[s].content

\* The latest change of a service is with the last of its tasks that are storing.
StoringInOrder ==
    \A s \in Services, i \in 1..Len(db) :
        LastIn(db, task, i, s, "storing") => Carries(db[i], s)

\* When none is storing, it is with the last one that is telling, unless it was
\* overtaken.
TellingInOrder ==
    \A s \in TrelServices, i \in 1..Len(db) :
        ~overtaken[s] /\ Busy(s, {"storing"}) = {} /\ LastIn(db, task, i, s, "telling")
            => Carries(db[i], s)

\* A withdrawn service is not shown and not being resolved, unless a callback was
\* missed; one that is there is shown or has its addition still to come; and what
\* is shown is what is advertised or is being resolved.
MirrorsOrResolves ==
    \A s \in Services : ~missed[s] =>
        /\ ~present[s] => Busy(s, {"resolving"}) = {} /\ ~Visible(known[s])
        /\ present[s] =>
             /\ \/ Visible(known[s])
                \/ \E t \in Busy(s, {"resolving"}) : task[t].kind = "added"
             /\ Busy(s, {"resolving"}) = {} => known[s].content = advertised[s]

\* A row that a correlation has listed shows what the cache does, unless clobbered.
ListedFollowsCache ==
    \A s \in TrelServices :
        ~clobbered[s] /\ cycle.listed[s] # Absent =>
            /\ trel[s] # Absent
            /\ cycle.listed[s].visible = trel[s].visible
            /\ cycle.listed[s].content = trel[s].content

IInv ==
    /\ Types
    /\ RowsFollowCaches /\ ListedFollowsCache
    /\ MirrorsOrResolves
    /\ StoringInOrder /\ LogEndsInCurrentState
    /\ TellingInOrder /\ PeerFollowsService

-----------------------------------------------------------------------------
(* The queue of the database.                                              *)

\* When task t makes a step, the last task of the queue in a state for a service
\* was the last one before, or is t.
Keeps(q, tasks, q2, tasks2, t) ==
    \A s, state : state \in Awaiting =>
        \A i \in 1..Len(q2) :
            LastIn(q2, tasks2, i, s, state) =>
                \/ \E k \in 1..Len(q) :
                       /\ LastIn(q, tasks, k, s, state)
                       /\ q[k] = q2[i] /\ q[k] # t /\ q[k] \in Tasks
                       /\ ~(tasks2[t].srv = s /\ tasks2[t].at = state)
                \/ q2[i] = t /\ tasks2[t].srv = s /\ tasks2[t].at = state

LEMMA AppendFacts ==
  ASSUME NEW q \in Seq(Tasks), NEW t \in Tasks
  PROVE  /\ Append(q, t) \in Seq(Tasks) /\ Len(q) \in Nat
         /\ Len(Append(q, t)) = Len(q) + 1
         /\ \A i \in 1..Len(q) : Append(q, t)[i] = q[i]
         /\ Append(q, t)[Len(q) + 1] = t
  OBVIOUS

LEMMA TailFacts ==
  ASSUME NEW q \in Seq(Tasks), q # <<>>
  PROVE  /\ Tail(q) \in Seq(Tasks) /\ Len(q) \in Nat /\ Len(q) >= 1
         /\ Len(Tail(q)) = Len(q) - 1
         /\ \A i \in 1..(Len(q) - 1) : Tail(q)[i] = q[i + 1]
         /\ Head(q) = q[1] /\ q[1] \in Tasks
  OBVIOUS

\* A call joins the queue.
LEMMA Joins ==
  ASSUME NEW q, NEW tasks, NEW tasks2, Holds(q, tasks), NEW t \in Tasks,
         tasks[t].at \notin Awaiting, tasks2[t].at \in Awaiting,
         \A u \in Tasks : u # t => tasks2[u] = tasks[u]
  PROVE  Holds(Append(q, t), tasks2) /\ Keeps(q, tasks, Append(q, t), tasks2, t)
<1> DEFINE r == Append(q, t)
<1>1. q \in Seq(Tasks)
  BY DEF Holds
<1>2. /\ r \in Seq(Tasks) /\ Len(q) \in Nat /\ Len(r) = Len(q) + 1
      /\ \A i \in 1..Len(q) : r[i] = q[i]
      /\ r[Len(q) + 1] = t
  BY <1>1, AppendFacts
<1>3. \A i \in 1..Len(q) : q[i] # t /\ q[i] \in Tasks
  BY <1>1 DEF Holds
<1> HIDE DEF r
<1>4. \A u \in Tasks : (tasks2[u].at \in Awaiting) <=> (\E i \in 1..Len(r) : r[i] = u)
  <2>1. \A u \in Tasks : (\E i \in 1..Len(r) : r[i] = u)
            <=> (u = t \/ \E i \in 1..Len(q) : q[i] = u)
    BY <1>2
  <2> QED
    BY <2>1 DEF Holds
<1>5. \A i, j \in 1..Len(r) : r[i] = r[j] => i = j
  <2>1. \A i, j \in 1..Len(q) : q[i] = q[j] => i = j
    BY DEF Holds
  <2> QED
    BY <2>1, <1>2, <1>3
<1>6. Holds(r, tasks2)
  BY <1>2, <1>4, <1>5 DEF Holds
<1>7. ASSUME NEW s, NEW state, NEW i \in 1..Len(r), LastIn(r, tasks2, i, s, state)
      PROVE  \/ /\ i \in 1..Len(q) /\ LastIn(q, tasks, i, s, state)
                /\ r[i] = q[i] /\ q[i] # t /\ q[i] \in Tasks
                /\ ~(tasks2[t].srv = s /\ tasks2[t].at = state)
             \/ /\ r[i] = t
                /\ tasks2[t].srv = s /\ tasks2[t].at = state
  <2>1. CASE i = Len(q) + 1
    BY <2>1, <1>2, <1>7 DEF LastIn
  <2>2. CASE i \in 1..Len(q)
    <3>1. ~(tasks2[t].srv = s /\ tasks2[t].at = state)
      BY <2>2, <1>2, <1>7 DEF LastIn
    <3>2. \A j \in 1..Len(q) : r[j] = q[j] /\ tasks2[q[j]] = tasks[q[j]]
      BY <1>2, <1>3
    <3>3. LastIn(q, tasks, i, s, state)
      BY <2>2, <3>2, <1>2, <1>7 DEF LastIn
    <3> QED
      BY <2>2, <3>1, <3>2, <3>3, <1>3
  <2> QED
    BY <2>1, <2>2, <1>2
<1>8. Keeps(q, tasks, r, tasks2, t)
  BY <1>7 DEF Keeps
<1> QED
  BY <1>6, <1>8 DEF r

\* The call at the head is answered and its task makes no other.
LEMMA Leaves ==
  ASSUME NEW q, NEW tasks, NEW tasks2, Holds(q, tasks), NEW t \in Tasks,
         q # <<>>, Head(q) = t, tasks2[t].at \notin Awaiting,
         \A u \in Tasks : u # t => tasks2[u] = tasks[u]
  PROVE  Holds(Tail(q), tasks2) /\ Keeps(q, tasks, Tail(q), tasks2, t)
<1> DEFINE r == Tail(q)
<1>1. q \in Seq(Tasks)
  BY DEF Holds
<1>2. /\ r \in Seq(Tasks) /\ Len(q) \in Nat /\ Len(q) >= 1 /\ Len(r) = Len(q) - 1
      /\ \A i \in 1..(Len(q) - 1) : r[i] = q[i + 1]
      /\ q[1] = t
  BY <1>1, TailFacts
<1>3. \A i, j \in 1..Len(q) : q[i] = q[j] => i = j
  BY DEF Holds
<1>4. \A i \in 1..Len(r) : /\ i + 1 \in 1..Len(q) /\ r[i] = q[i + 1]
                           /\ q[i + 1] # t /\ q[i + 1] \in Tasks
  <2>1. \A i \in 1..Len(q) : q[i] \in Tasks
    BY <1>1
  <2>2. \A i \in 1..Len(r) : i + 1 \in 1..Len(q) /\ r[i] = q[i + 1]
    BY <1>2
  <2>3. 1 \in 1..Len(q)
    BY <1>2
  <2>4. \A i \in 1..Len(r) : i + 1 # 1
    BY <1>2
  <2> QED
    BY <1>2, <1>3, <2>1, <2>2, <2>3, <2>4
<1> HIDE DEF r
<1>5. \A u \in Tasks : (tasks2[u].at \in Awaiting) <=> (\E i \in 1..Len(r) : r[i] = u)
  <2> SUFFICES ASSUME NEW u \in Tasks
               PROVE  (tasks2[u].at \in Awaiting) <=> (\E i \in 1..Len(r) : r[i] = u)
    OBVIOUS
  <2>1. CASE u = t
    BY <2>1, <1>4
  <2>2. CASE u # t
    <3>1. (tasks2[u].at \in Awaiting) <=> (\E i \in 1..Len(q) : q[i] = u)
      BY <2>2 DEF Holds
    <3>2. ASSUME NEW i \in 1..Len(q), q[i] = u PROVE \E k \in 1..Len(r) : r[k] = u
      <4>1. i - 1 \in 1..Len(r) /\ r[i - 1] = q[i]
        BY <3>2, <2>2, <1>2
      <4> QED
        BY <4>1, <3>2
    <3> QED
      BY <3>1, <3>2, <1>4
  <2> QED
    BY <2>1, <2>2
<1>6. \A i, j \in 1..Len(r) : r[i] = r[j] => i = j
  <2> SUFFICES ASSUME NEW i \in 1..Len(r), NEW j \in 1..Len(r), r[i] = r[j] PROVE i = j
    OBVIOUS
  <2>1. i + 1 = j + 1
    BY <1>3, <1>4
  <2> QED
    BY <2>1
<1>7. Holds(r, tasks2)
  BY <1>2, <1>5, <1>6 DEF Holds
<1>8. ASSUME NEW s, NEW state, NEW i \in 1..Len(r), LastIn(r, tasks2, i, s, state)
      PROVE  LastIn(q, tasks, i + 1, s, state)
  <2>1. /\ i + 1 \in 1..Len(q)
        /\ tasks[q[i + 1]].srv = s /\ tasks[q[i + 1]].at = state
    BY <1>4, <1>8 DEF LastIn
  <2>2. ASSUME NEW j \in 1..Len(q), j > i + 1
        PROVE  ~(tasks[q[j]].srv = s /\ tasks[q[j]].at = state)
    <3>1. j - 1 \in 1..Len(r) /\ j - 1 > i /\ (j - 1) + 1 = j
      BY <2>2, <1>2
    <3>2. r[j - 1] = q[j] /\ q[j] # t /\ q[j] \in Tasks
      BY <3>1, <1>4
    <3> QED
      BY <3>1, <3>2, <1>8 DEF LastIn
  <2> QED
    BY <2>1, <2>2 DEF LastIn
<1>9. Keeps(q, tasks, r, tasks2, t)
  <2>1. \A state \in Awaiting : tasks2[t].at # state
    OBVIOUS
  <2> QED
    BY <1>4, <1>8, <2>1 DEF Keeps
<1> QED
  BY <1>7, <1>9 DEF r

\* The call at the head is answered and its task makes another one.
LEMMA Rotates ==
  ASSUME NEW q, NEW tasks, NEW tasks2, Holds(q, tasks), NEW t \in Tasks,
         q # <<>>, Head(q) = t, tasks2[t].at \in Awaiting,
         \A u \in Tasks : u # t => tasks2[u] = tasks[u]
  PROVE  /\ Holds(Append(Tail(q), t), tasks2)
         /\ Keeps(q, tasks, Append(Tail(q), t), tasks2, t)
<1> DEFINE between == [u \in Tasks |-> IF u = t THEN NoTask ELSE tasks[u]]
           r == Tail(q)
           r2 == Append(r, t)
<1>1. /\ between[t].at \notin Awaiting
      /\ \A u \in Tasks : u # t => between[u] = tasks[u] /\ tasks2[u] = between[u]
  BY DEF NoTask, Awaiting
<1> HIDE DEF between, r
<1>2. Holds(r, between) /\ Keeps(q, tasks, r, between, t)
  BY <1>1, Leaves DEF r
<1>3. Holds(r2, tasks2) /\ Keeps(r, between, r2, tasks2, t)
  BY <1>1, <1>2, Joins
<1> HIDE DEF r2
<1>4. Keeps(q, tasks, r2, tasks2, t)
  BY <1>2, <1>3 DEF Keeps
<1> QED
  BY <1>3, <1>4 DEF r, r2

\* A task that neither awaits the database before nor after does not matter.
LEMMA StaysOut ==
  ASSUME NEW q, NEW tasks, NEW tasks2, Holds(q, tasks), NEW t \in Tasks,
         tasks[t].at \notin Awaiting, tasks2[t].at \notin Awaiting,
         \A u \in Tasks : u # t => tasks2[u] = tasks[u]
  PROVE  Holds(q, tasks2) /\ Keeps(q, tasks, q, tasks2, t)
<1>1. \A i \in 1..Len(q) : q[i] # t /\ q[i] \in Tasks
  BY DEF Holds
<1>2. Holds(q, tasks2)
  BY DEF Holds
<1>3. \A i \in 1..Len(q) : tasks2[q[i]] = tasks[q[i]]
  BY <1>1
<1>4. Keeps(q, tasks, q, tasks2, t)
  BY <1>1, <1>3 DEF LastIn, Keeps
<1> QED
  BY <1>2, <1>4

-----------------------------------------------------------------------------
(* Records.                                                                *)

\* The mark of a missing record is no record.
LEMMA AbsentIsNoRecord == Absent \notin Service /\ Absent \notin Peer
<1>1. DOMAIN Absent = {"none"}
  BY DEF Absent
<1>2. ASSUME Absent \in Service PROVE FALSE
  <2>1. "visible" \in DOMAIN Absent
    BY <1>2 DEF Service
  <2> QED
    BY <1>1, <2>1
<1>3. ASSUME Absent \in Peer PROVE FALSE
  <2>1. "visible" \in DOMAIN Absent
    BY <1>3 DEF Peer
  <2> QED
    BY <1>1, <2>1
<1> QED
  BY <1>2, <1>3

\* A removed service is a record that is not visible and keeps its content.
LEMMA RemovedRecord ==
  ASSUME NEW record \in Service
  PROVE  /\ Removed(record) \in Service /\ Removed(record).visible = FALSE
         /\ Removed(record).content = record.content
  BY DEF Removed, Service

\* A task that reaches the TREL part writes a record with the visibility and the
\* content its change calls for.
LEMMA PeerRecord ==
  ASSUME Types, NEW t \in Tasks, HasPeer(t)
  PROVE  /\ PeerAfter(t) \in Peer
         /\ PeerAfter(t).visible <=> task[t].kind # "removed"
         /\ task[t].kind # "removed" => PeerAfter(t).content = task[t].content
<1> DEFINE s == task[t].srv
<1>1. s \in TrelServices /\ task[t].content \in Contents
  BY DEF Types, TypeOK, HasPeer
<1>2. CASE task[t].kind = "removed"
  <2>1. trel[s] \in Peer
    BY <1>1, <1>2 DEF HasPeer, Types, TypeOK
  <2> HIDE DEF s
  <2>2. PeerAfter(t) = [trel[s] EXCEPT !.visible = FALSE]
    BY <1>2 DEF PeerAfter, s
  <2> QED
    BY <2>1, <2>2, <1>2 DEF Peer
<1>3. CASE task[t].kind # "removed"
  <2> HIDE DEF s
  <2>1. PeerAfter(t) = [visible |-> TRUE, content |-> task[t].content,
                        verdict |-> "none"]
    BY <1>3 DEF PeerAfter
  <2>2. PeerAfter(t).visible = TRUE /\ PeerAfter(t).content = task[t].content
    BY <2>1
  <2>3. PeerAfter(t) \in Peer
    BY <2>1, <1>1 DEF Peer, Verdicts
  <2> QED
    BY <2>2, <2>3, <1>3
<1> QED
  BY <1>2, <1>3

\* A verdict is a verdict.
LEMMA VerdictType ==
  ASSUME NEW content, NEW networks
  PROVE  classify_trel_service(content, networks) \in Verdicts
  BY DEF classify_trel_service, Verdicts

-----------------------------------------------------------------------------
(* What a step does to the queue and to the cache.                         *)

\* A callback is processed up to its first await: the service is touched, or a
\* change of it begins, or it was not known.
Processes(t, s) ==
    \/ Touch(t, s)
    \/ \E kind \in {"added", "changed", "removed"}, record \in Service :
           Change(t, s, kind, record) /\ (record.visible <=> kind # "removed")
    \/ UNCHANGED <<known, row, db, overtaken, task>>

LEMMA AddedProcesses ==
  ASSUME Types, NEW t \in Tasks, NEW s \in Services, NEW content \in Contents,
         process_service_added(t, s, content)
  PROVE  /\ Processes(t, s)
         /\ Visible(known'[s]) /\ known'[s].content = content
         /\ task'[t].at \in {"touching", "storing"}
         /\ \A u \in Tasks : u # t => task'[u] = task[u]
<1> DEFINE new == [visible |-> TRUE, content |-> content]
           kind == IF Visible(known[s]) THEN "changed" ELSE "added"
<1>1. /\ new \in Service /\ new.visible = TRUE /\ new.content = content
      /\ kind \in {"added", "changed", "removed"} /\ kind # "removed"
  BY DEF Service
<1>2. new # Absent
  BY <1>1, AbsentIsNoRecord
<1>3. CASE Visible(known[s]) /\ known[s].content = content
  <2>1. Touch(t, s)
    BY <1>3 DEF process_service_added
  <2> QED
    BY <1>3, <2>1 DEF Touch, Store, Processes, Types, TypeOK, NoTask
<1>4. CASE ~(Visible(known[s]) /\ known[s].content = content)
  <2>1. Change(t, s, kind, new)
    BY <1>4 DEF process_service_added
  <2> HIDE DEF new, kind
  <2>2. Processes(t, s)
    BY <1>1, <2>1 DEF Processes
  <2>3. known'[s] = new /\ task'[t].at = "storing"
    BY <2>1 DEF Change, Store, Types, TypeOK
  <2>4. \A u \in Tasks : u # t => task'[u] = task[u]
    BY <2>1 DEF Change, Types, TypeOK
  <2> QED
    BY <1>1, <1>2, <2>2, <2>3, <2>4 DEF Visible
<1> QED
  BY <1>3, <1>4

\* What a resolution leads to.
LEMMA ResolvedProcesses ==
  ASSUME Types, NEW t \in Tasks, Resolved(t)
  PROVE  /\ task[t].srv \in Services /\ task[t].at = "resolving"
         /\ Processes(t, task[t].srv)
         /\ known'[task[t].srv] # Absent
         /\ known'[task[t].srv].content = advertised[task[t].srv]
         /\ task[t].kind = "added" \/ Visible(known[task[t].srv])
              => Visible(known'[task[t].srv])
         /\ task'[t].at \in {"touching", "storing"}
         /\ \A u \in Tasks : u # t => task'[u] = task[u]
<1> DEFINE s == task[t].srv
<1>1. s \in Services /\ advertised[s] \in Contents /\ task[t].at = "resolving"
  BY DEF Resolved, Types, TypeOK, TasksHaveServices
<1>2. \/ process_service_added(t, s, advertised[s])
      \/ task[t].kind # "added" /\ process_service_updated(t, s, advertised[s])
  BY DEF Resolved
<1> HIDE DEF s
<1>3. CASE process_service_added(t, s, advertised[s])
  <2>1. /\ Processes(t, s)
        /\ Visible(known'[s]) /\ known'[s].content = advertised[s]
        /\ task'[t].at \in {"touching", "storing"}
        /\ \A u \in Tasks : u # t => task'[u] = task[u]
    BY <1>1, <1>3, AddedProcesses
  <2> QED
    BY <1>1, <2>1 DEF s, Visible
<1>4. CASE /\ task[t].kind # "added" /\ Touch(t, s)
           /\ known[s] # Absent /\ known[s].content = advertised[s]
  <2>1. known'[s] = known[s] /\ task'[t].at = "touching"
    BY <1>1, <1>4 DEF Touch, Store, Types, TypeOK, NoTask
  <2>2. \A u \in Tasks : u # t => task'[u] = task[u]
    BY <1>4 DEF Touch, Types, TypeOK
  <2> QED
    BY <1>1, <1>4, <2>1, <2>2 DEF s, Visible, Processes
<1> QED
  BY <1>2, <1>3, <1>4 DEF process_service_updated

\* What a removal leads to.
LEMMA RemovedProcesses ==
  ASSUME Types, NEW t \in Tasks, NEW s \in Services, remove_service(t, s)
  PROVE  /\ task[t].at = "idle" /\ Processes(t, s) /\ ~Visible(known'[s])
         /\ task'[t].at \in {"idle", "touching", "storing"}
         /\ \A u \in Tasks : u # t => task'[u] = task[u]
<1>1. task[t].at = "idle" /\ process_service_removed(t, s)
  BY DEF remove_service
<1>2. CASE known[s] = Absent /\ UNCHANGED <<known, row, task, db, overtaken>>
  BY <1>1, <1>2 DEF Processes, Visible
<1>3. CASE known[s] # Absent /\ ~known[s].visible /\ Touch(t, s)
  <2>1. known'[s] = known[s] /\ task'[t].at = "touching"
    BY <1>3 DEF Touch, Store, Types, TypeOK, NoTask
  <2>2. \A u \in Tasks : u # t => task'[u] = task[u]
    BY <1>3 DEF Touch, Types, TypeOK
  <2> QED
    BY <1>1, <1>3, <2>1, <2>2 DEF Processes, Visible
<1>4. CASE known[s] # Absent /\ Change(t, s, "removed", Removed(known[s]))
  <2>1. Removed(known[s]) \in Service /\ Removed(known[s]).visible = FALSE
    <3>1. known[s] \in Service
      BY <1>4 DEF Types, TypeOK
    <3> QED
      BY <3>1, RemovedRecord
  <2>2. known'[s] = Removed(known[s]) /\ task'[t].at = "storing"
    BY <1>4 DEF Change, Store, Types, TypeOK
  <2>3. \A u \in Tasks : u # t => task'[u] = task[u]
    BY <1>4 DEF Change, Types, TypeOK
  <2>4. Processes(t, s)
    BY <1>4, <2>1 DEF Processes
  <2> QED
    BY <1>1, <2>1, <2>2, <2>3, <2>4 DEF Visible
<1> QED
  BY <1>1, <1>2, <1>3, <1>4 DEF process_service_removed

\* An answer of the database: the task returns, or makes its next call.
Answered(t) == Stored(t) \/ Told(t) \/ Finished(t)

Returns(t) == task' = [task EXCEPT ![t] = NoTask] /\ db' = Tail(db)

CallsAgain(t) ==
    /\ db' = Append(Tail(db), t)
    /\ \/ task[t].at = "storing" /\ task' = [task EXCEPT ![t].at = "telling"]
       \/ task' = [task EXCEPT ![t] = [NoTask EXCEPT !.at = "peering", !.srv = task[t].srv]]

LEMMA PeerUpdates ==
  ASSUME NEW t \in Tasks, UpdatePeer(t)
  PROVE  \/ /\ ~HasPeer(t) /\ Returns(t)
            /\ UNCHANGED <<trel, trelRow, clobbered>>
         \/ /\ HasPeer(t) /\ CallsAgain(t)
            /\ task' = [task EXCEPT ![t] = [NoTask EXCEPT !.at = "peering",
                                                          !.srv = task[t].srv]]
            /\ trel' = [trel EXCEPT ![task[t].srv] = PeerAfter(t)]
            /\ trelRow' = [trelRow EXCEPT ![task[t].srv] = PeerAfter(t)]
            /\ clobbered' = [clobbered EXCEPT ![task[t].srv] =
                                  cycle.listed[task[t].srv] # Absent]
  BY DEF UpdatePeer, PersistPeer, Return, Returns, CallsAgain

LEMMA AnswerMoves ==
  ASSUME Types, NEW t \in Tasks, Answered(t)
  PROVE  /\ db # <<>> /\ Head(db) = t
         /\ task[t].srv \in Services /\ task[t].at \in Awaiting
         /\ Returns(t) \/ CallsAgain(t)
         /\ \A u \in Tasks : u # t => task'[u] = task[u]
<1>1. db # <<>> /\ Head(db) = t /\ task[t].at \in Awaiting
  BY DEF Answered, Stored, Told, Finished, Woken, Awaiting
<1>2. task[t].srv \in Services
  BY <1>1 DEF Types, TypeOK, TasksHaveServices, Awaiting
<1>3. Returns(t) \/ CallsAgain(t)
  <2>1. CASE UpdatePeer(t)
    BY <2>1, PeerUpdates
  <2>2. CASE Stored(t) /\ Emits(t)
    BY <2>2 DEF Stored, CallsAgain, Woken
  <2>3. CASE Stored(t) /\ ~Emits(t)
    BY <2>3, <2>1 DEF Stored
  <2>4. CASE Told(t)
    BY <2>4, <2>1 DEF Told
  <2>5. CASE Finished(t)
    BY <2>5 DEF Finished, Return, Returns
  <2> QED
    BY <2>2, <2>3, <2>4, <2>5 DEF Answered
<1>4. \A u \in Tasks : u # t => task'[u] = task[u]
  <2>1. task \in [Tasks -> Task]
    BY DEF Types, TypeOK, Task
  <2> QED
    BY <1>3, <2>1 DEF Returns, CallsAgain
<1> QED
  BY <1>1, <1>2, <1>3, <1>4

-----------------------------------------------------------------------------
(* Types.                                                                  *)

\* The type invariant without the queue and the tasks.
RecordTypes ==
    /\ present \in [Services -> BOOLEAN] /\ advertised \in [Services -> Contents]
    /\ known \in [Services -> Service \cup {Absent}]
    /\ row \in [Services -> Service \cup {Absent}]
    /\ trel \in [TrelServices -> Peer \cup {Absent}]
    /\ trelRow \in [TrelServices -> Peer \cup {Absent}]
    /\ recent \subseteq Services \X Kinds
    /\ logged \in [Services -> Kinds \cup {"nothing"}]
    /\ configured \subseteq Networks
    /\ cycle \in [networks : SUBSET Networks,
                  listed : [TrelServices -> Peer \cup {Absent}]]
    /\ missed \in [Services -> BOOLEAN] /\ muted \in [Services -> BOOLEAN]
    /\ overtaken \in [Services -> BOOLEAN] /\ clobbered \in [TrelServices -> BOOLEAN]

LEMMA TypesParts ==
  Types <=> /\ RecordTypes /\ task \in [Tasks -> Task] /\ Holds(db, task)
            /\ TasksHaveServices
  BY DEF Types, TypeOK, RecordTypes, Task, Holds

LEMMA TypesPartsAfter ==
  Types' <=> /\ RecordTypes' /\ (task \in [Tasks -> Task])' /\ Holds(db, task)'
             /\ TasksHaveServices'
  BY DEF Types, TypeOK, RecordTypes, Task, Holds

LEMMA IdleTask ==
  /\ NoTask \in Task /\ NoTask.at = "idle"
  /\ \A s \in Services, state \in TaskStates, kind \in Kinds :
       [NoTask EXCEPT !.at = state, !.srv = s, !.kind = kind] \in Task
  /\ \A s \in Services, state \in TaskStates :
       [NoTask EXCEPT !.at = state, !.srv = s] \in Task
  BY DEF NoTask, Task, TaskStates, Awaiting, Kinds, Contents

LEMMA InitTypes == Init => Types
<1> SUFFICES ASSUME Init PROVE Types
  OBVIOUS
<1>1. RecordTypes
  BY DiscoveryAssumption DEF Init, RecordTypes, None, NothingListed, Contents
<1>2. task \in [Tasks -> Task] /\ \A t \in Tasks : task[t].at = "idle"
  BY IdleTask DEF Init
<1>3. Holds(db, task)
  BY <1>2 DEF Init, Holds, Awaiting
<1>4. TasksHaveServices
  BY <1>2 DEF TasksHaveServices
<1> QED
  BY <1>1, <1>2, <1>3, <1>4, TypesParts

\* A processed callback keeps the types, and its task is in the queue or idle.
LEMMA ProcessTypes ==
  ASSUME Types, NEW t \in Tasks, NEW s \in Services, Processes(t, s),
         task[t].at \notin Awaiting
  PROVE  /\ (task \in [Tasks -> Task])' /\ Holds(db, task)' /\ TasksHaveServices'
         /\ known' \in [Services -> Service \cup {Absent}]
         /\ row' \in [Services -> Service \cup {Absent}]
         /\ overtaken' \in [Services -> BOOLEAN]
<1> USE TypesParts
<1>1. task \in [Tasks -> Task] /\ Holds(db, task) /\ TasksHaveServices
  OBVIOUS
<1>2. CASE Touch(t, s)
  <2> DEFINE new == [NoTask EXCEPT !.at = "touching", !.srv = s]
  <2>1. new \in Task /\ new.at = "touching" /\ new.srv = s
    BY IdleTask DEF NoTask, TaskStates, Awaiting
  <2>2. task' = [task EXCEPT ![t] = new] /\ db' = Append(db, t)
    BY <1>2 DEF Touch
  <2> HIDE DEF new
  <2>3. /\ task'[t] = new /\ task' \in [Tasks -> Task]
        /\ \A u \in Tasks : u # t => task'[u] = task[u]
    BY <1>1, <2>1, <2>2
  <2>4. Holds(db', task')
    BY <1>1, <2>1, <2>2, <2>3, Joins DEF Awaiting
  <2>5. TasksHaveServices'
    BY <1>1, <2>1, <2>3 DEF TasksHaveServices
  <2>6. /\ known' \in [Services -> Service \cup {Absent}]
        /\ row' \in [Services -> Service \cup {Absent}] /\ overtaken' = overtaken
    BY <1>2 DEF Touch, Store, RecordTypes
  <2> QED
    BY <2>3, <2>4, <2>5, <2>6 DEF RecordTypes
<1>3. ASSUME NEW kind \in {"added", "changed", "removed"}, NEW record \in Service,
             Change(t, s, kind, record)
      PROVE  /\ (task \in [Tasks -> Task])' /\ Holds(db, task)' /\ TasksHaveServices'
             /\ known' \in [Services -> Service \cup {Absent}]
             /\ row' \in [Services -> Service \cup {Absent}]
             /\ overtaken' \in [Services -> BOOLEAN]
  <2> DEFINE new == [at |-> "storing", srv |-> s, kind |-> kind,
                     content |-> record.content]
  <2>1. new \in Task /\ new.at = "storing" /\ new.srv = s /\ new.kind = kind
    BY DEF Task, TaskStates, Awaiting, Kinds, Service
  <2>2. task' = [task EXCEPT ![t] = new] /\ db' = Append(db, t)
    BY <1>3 DEF Change
  <2> HIDE DEF new
  <2>3. /\ task'[t] = new /\ task' \in [Tasks -> Task]
        /\ \A u \in Tasks : u # t => task'[u] = task[u]
    BY <1>1, <2>1, <2>2
  <2>4. Holds(db', task')
    BY <1>1, <2>1, <2>2, <2>3, Joins DEF Awaiting
  <2>5. TasksHaveServices'
    BY <1>1, <2>1, <2>3 DEF TasksHaveServices
  <2>6. /\ known' \in [Services -> Service \cup {Absent}]
        /\ row' \in [Services -> Service \cup {Absent}]
    BY <1>3 DEF Change, Store, RecordTypes
  <2>7. overtaken' \in [Services -> BOOLEAN]
    <3>1. overtaken \in [Services -> BOOLEAN]
      BY DEF RecordTypes
    <3>2. overtaken' = [overtaken EXCEPT ![s] =
                            overtaken[s] /\ Busy(s, {"storing", "telling"}) # {}]
      BY <1>3 DEF Change
    <3>3. (overtaken[s] /\ Busy(s, {"storing", "telling"}) # {}) \in BOOLEAN
      OBVIOUS
    <3> QED
      BY <3>1, <3>2, <3>3
  <2> QED
    BY <2>3, <2>4, <2>5, <2>6, <2>7
<1>4. CASE UNCHANGED <<known, row, db, overtaken, task>>
  BY <1>4 DEF RecordTypes, TasksHaveServices
<1> QED
  BY <1>2, <1>3, <1>4 DEF Processes

\* So does an answer of the database.
LEMMA AnswerTypes ==
  ASSUME Types, NEW t \in Tasks, Answered(t)
  PROVE  (task \in [Tasks -> Task])' /\ Holds(db, task)' /\ TasksHaveServices'
<1>1. task \in [Tasks -> Task] /\ Holds(db, task) /\ TasksHaveServices
  BY TypesParts
<1>2. /\ db # <<>> /\ Head(db) = t
      /\ task[t].srv \in Services /\ task[t].at \in Awaiting
      /\ Returns(t) \/ CallsAgain(t)
      /\ \A u \in Tasks : u # t => task'[u] = task[u]
  BY AnswerMoves
<1>3. CASE Returns(t)
  <2>1. task'[t] = NoTask /\ task' \in [Tasks -> Task] /\ db' = Tail(db)
    BY <1>1, <1>3, IdleTask DEF Returns
  <2>2. Holds(db', task')
    <3>1. task'[t].at \notin Awaiting
      BY <2>1, IdleTask DEF Awaiting
    <3>2. Holds(Tail(db), task')
      BY <1>1, <1>2, <3>1, Leaves
    <3> QED
      BY <2>1, <3>2
  <2>3. TasksHaveServices'
    BY <1>1, <1>2, <2>1, IdleTask DEF TasksHaveServices
  <2> QED
    BY <2>1, <2>2, <2>3
<1>4. CASE CallsAgain(t)
  <2>1. db' = Append(Tail(db), t)
    BY <1>4 DEF CallsAgain
  <2>2. /\ task'[t] \in Task /\ task'[t].srv = task[t].srv
        /\ \/ task'[t].at = "peering"
           \/ task'[t].at = "telling" /\ task'[t].kind = task[t].kind
                /\ task[t].at = "storing"
        /\ task' \in [Tasks -> Task]
    <3>1. CASE task[t].at = "storing" /\ task' = [task EXCEPT ![t].at = "telling"]
      BY <1>1, <3>1 DEF Task, TaskStates, Awaiting
    <3>2. CASE task' = [task EXCEPT ![t] = [NoTask EXCEPT !.at = "peering",
                                                          !.srv = task[t].srv]]
      <4> DEFINE new == [NoTask EXCEPT !.at = "peering", !.srv = task[t].srv]
      <4>1. new \in Task /\ new.at = "peering" /\ new.srv = task[t].srv
        BY <1>2, IdleTask DEF NoTask, TaskStates, Awaiting
      <4> HIDE DEF new
      <4>2. task' = [task EXCEPT ![t] = new]
        BY <3>2 DEF new
      <4> QED
        BY <1>1, <4>1, <4>2
    <3> QED
      BY <1>4, <3>1, <3>2 DEF CallsAgain
  <2>3. Holds(db', task')
    BY <1>1, <1>2, <2>1, <2>2, Rotates DEF Awaiting
  <2>4. TasksHaveServices'
    BY <1>1, <1>2, <2>2 DEF TasksHaveServices
  <2> QED
    BY <2>2, <2>3, <2>4
<1> QED
  BY <1>2, <1>3, <1>4

LEMMA NextTypes == Types /\ [Next]_vars => Types'
<1> SUFFICES ASSUME Types, [Next]_vars
             PROVE  /\ RecordTypes' /\ (task \in [Tasks -> Task])' /\ Holds(db, task)'
                    /\ TasksHaveServices'
  BY TypesPartsAfter
<1>1. /\ RecordTypes /\ task \in [Tasks -> Task] /\ Holds(db, task)
      /\ TasksHaveServices
  BY TypesParts
<1>2. ASSUME NEW t \in Tasks, NEW s \in Services, add_service(t, s) \/ update_service(t, s)
      PROVE  /\ RecordTypes' /\ (task \in [Tasks -> Task])' /\ Holds(db, task)'
             /\ TasksHaveServices'
  <2>1. PICK kind \in {"added", "updated"} : Resolving(t, s, kind)
    BY <1>2 DEF add_service, update_service
  <2> DEFINE new == [NoTask EXCEPT !.at = "resolving", !.srv = s, !.kind = kind]
  <2>2. new \in Task /\ new.at = "resolving" /\ new.srv = s
    BY IdleTask DEF NoTask, TaskStates, Kinds
  <2>3. task' = [task EXCEPT ![t] = new] /\ db' = db
    BY <2>1 DEF Resolving
  <2> HIDE DEF new
  <2>4. /\ task'[t] = new /\ task' \in [Tasks -> Task]
        /\ \A u \in Tasks : u # t => task'[u] = task[u]
    BY <1>1, <2>2, <2>3
  <2>5. task[t].at = "idle"
    BY <1>2 DEF add_service, update_service
  <2>6. Holds(db', task')
    BY <1>1, <2>2, <2>3, <2>4, <2>5, StaysOut DEF Awaiting
  <2>7. TasksHaveServices'
    BY <1>1, <2>2, <2>4 DEF TasksHaveServices
  <2>8. present' \in [Services -> BOOLEAN] /\ advertised' \in [Services -> Contents]
    BY <1>1, <1>2, ZenonT(40) DEF add_service, update_service, RecordTypes
  <2>9. RecordTypes'
    BY <1>1, <2>1, <2>8 DEF RecordTypes, Resolving, history
  <2> QED
    BY <2>4, <2>6, <2>7, <2>9
<1>3. ASSUME NEW t \in Tasks, NEW s \in Services, remove_service(t, s)
      PROVE  /\ RecordTypes' /\ (task \in [Tasks -> Task])' /\ Holds(db, task)'
             /\ TasksHaveServices'
  <2>1. Processes(t, s) /\ task[t].at \notin Awaiting
    BY <1>3, RemovedProcesses DEF Awaiting
  <2>2. present' \in [Services -> BOOLEAN] /\ missed' \in [Services -> BOOLEAN]
    <3>1. (Busy(s, {"resolving"}) # {}) \in BOOLEAN
      OBVIOUS
    <3> QED
      BY <1>1, <1>3, <3>1 DEF remove_service, RecordTypes
  <2>3. UNCHANGED <<advertised, configured, trel, trelRow, recent, logged, cycle, muted,
                    clobbered>>
    BY <1>3 DEF remove_service
  <2> QED
    BY <1>1, <2>1, <2>2, <2>3, ProcessTypes DEF RecordTypes
<1>4. ASSUME NEW t \in Tasks, Unresolved(t)
      PROVE  /\ RecordTypes' /\ (task \in [Tasks -> Task])' /\ Holds(db, task)'
             /\ TasksHaveServices'
  <2>1. task[t].at = "resolving" /\ task' = [task EXCEPT ![t] = NoTask] /\ db' = db
    BY <1>4 DEF Unresolved
  <2>2. /\ task'[t] = NoTask /\ task' \in [Tasks -> Task]
        /\ \A u \in Tasks : u # t => task'[u] = task[u]
    BY <1>1, <2>1, IdleTask
  <2>3. Holds(db', task')
    BY <1>1, <2>1, <2>2, IdleTask, StaysOut DEF Awaiting
  <2>4. TasksHaveServices'
    BY <1>1, <2>2, IdleTask DEF TasksHaveServices
  <2>5. RecordTypes'
    BY <1>1, <1>4 DEF Unresolved, RecordTypes, world
  <2> QED
    BY <2>2, <2>3, <2>4, <2>5
<1>5. ASSUME NEW t \in Tasks, Resolved(t)
      PROVE  /\ RecordTypes' /\ (task \in [Tasks -> Task])' /\ Holds(db, task)'
             /\ TasksHaveServices'
  <2> DEFINE s == task[t].srv
             kept == missed[s] /\ ~(task[t].kind = "added" /\ present[s])
  <2>1. s \in Services /\ Processes(t, s) /\ task[t].at \notin Awaiting
    BY <1>5, ResolvedProcesses DEF Awaiting
  <2>2. missed' \in [Services -> BOOLEAN]
    <3>1. kept \in BOOLEAN
      OBVIOUS
    <3>2. missed' = [missed EXCEPT ![s] = kept]
      BY <1>5 DEF Resolved
    <3> HIDE DEF kept, s
    <3> QED
      BY <1>1, <3>1, <3>2 DEF RecordTypes
  <2>3. UNCHANGED <<present, advertised, configured, trel, trelRow, recent, logged, cycle,
                    muted, clobbered>>
    BY <1>5 DEF Resolved, world
  <2> HIDE DEF s
  <2> QED
    BY <1>1, <2>1, <2>2, <2>3, ProcessTypes DEF RecordTypes
<1>6. ASSUME NEW t \in Tasks, Answered(t)
      PROVE  /\ RecordTypes' /\ (task \in [Tasks -> Task])' /\ Holds(db, task)'
             /\ TasksHaveServices'
  <2> DEFINE s == task[t].srv
  <2>1. s \in Services /\ (task \in [Tasks -> Task])' /\ Holds(db, task)' /\ TasksHaveServices'
    BY <1>6, AnswerTypes, AnswerMoves
  <2>2. ASSUME UpdatePeer(t)
        PROVE  /\ trel' \in [TrelServices -> Peer \cup {Absent}]
               /\ trelRow' \in [TrelServices -> Peer \cup {Absent}]
               /\ clobbered' \in [TrelServices -> BOOLEAN]
    <3>1. CASE UNCHANGED <<trel, trelRow, clobbered>>
      BY <1>1, <3>1 DEF RecordTypes
    <3>2. CASE /\ HasPeer(t)
               /\ trel' = [trel EXCEPT ![s] = PeerAfter(t)]
               /\ trelRow' = [trelRow EXCEPT ![s] = PeerAfter(t)]
               /\ clobbered' = [clobbered EXCEPT ![s] = cycle.listed[s] # Absent]
      <4>1. PeerAfter(t) \in Peer /\ (cycle.listed[s] # Absent) \in BOOLEAN
        BY <3>2, PeerRecord
      <4> QED
        BY <1>1, <3>2, <4>1 DEF RecordTypes
    <3> QED
      BY <2>2, <3>1, <3>2, PeerUpdates
  <2>3. CASE Stored(t)
    <3>1. UNCHANGED <<present, advertised, configured, known, row, cycle, missed>>
      BY <2>3 DEF Stored, world
    <3>2. CASE Emits(t)
      <4>1. /\ recent' = recent \cup {<<s, task[t].kind>>}
            /\ logged' = [logged EXCEPT ![s] = task[t].kind]
            /\ muted' = [muted EXCEPT ![s] = FALSE]
            /\ UNCHANGED <<trel, trelRow, overtaken, clobbered>>
        BY <2>3, <3>2 DEF Stored
      <4>2. task[t].kind \in Kinds
        BY <1>1 DEF Task
      <4> HIDE DEF s
      <4> QED
        BY <1>1, <2>1, <3>1, <4>1, <4>2 DEF RecordTypes
    <3>3. CASE ~Emits(t)
      <4> DEFINE passes == overtaken[s] \/ Busy(s, {"telling"}) # {}
      <4>1. /\ muted' = [muted EXCEPT ![s] = TRUE]
            /\ overtaken' = [overtaken EXCEPT ![s] = passes]
            /\ UpdatePeer(t) /\ UNCHANGED <<recent, logged>>
        BY <2>3, <3>3 DEF Stored
      <4>2. passes \in BOOLEAN
        OBVIOUS
      <4> HIDE DEF s, passes
      <4> QED
        BY <1>1, <2>1, <2>2, <3>1, <4>1, <4>2 DEF RecordTypes
    <3> QED
      BY <3>2, <3>3
  <2>4. CASE Told(t)
    <3> HIDE DEF s
    <3>1. /\ UNCHANGED <<present, advertised, configured, known, row, recent, logged, cycle,
                          missed, muted, overtaken>>
          /\ UpdatePeer(t)
      BY <2>4 DEF Told, world
    <3> QED
      BY <1>1, <2>1, <2>2, <3>1 DEF RecordTypes
  <2>5. CASE Finished(t)
    BY <1>1, <2>1, <2>5 DEF Finished, world, history, RecordTypes
  <2> QED
    BY <1>6, <2>3, <2>4, <2>5 DEF Answered
<1>7. CASE UNCHANGED <<known, row, trel, task, db, history, logged>>
           /\ ( (\E key \in recent : WindowEnds(key)) \/ PollAnswersChange
                \/ BeginCorrelation \/ \E s \in TrelServices : Correlate(s) )
  <2>1. UNCHANGED <<present, advertised>>
    BY <1>7 DEF WindowEnds, PollAnswersChange, BeginCorrelation, Correlate, world
  <2>2. /\ trelRow' \in [TrelServices -> Peer \cup {Absent}]
        /\ recent' \subseteq Services \X Kinds /\ configured' \subseteq Networks
        /\ cycle' \in [networks : SUBSET Networks,
                        listed : [TrelServices -> Peer \cup {Absent}]]
    <3>1. CASE \E key \in recent : WindowEnds(key)
      BY <1>1, <3>1 DEF WindowEnds, RecordTypes, world
    <3>2. CASE PollAnswersChange
      BY <1>1, <3>2 DEF PollAnswersChange, RecordTypes
    <3>3. CASE BeginCorrelation
      BY <1>1, <3>3 DEF BeginCorrelation, RecordTypes, world
    <3>4. ASSUME NEW s \in TrelServices, Correlate(s)
          PROVE  /\ trelRow' \in [TrelServices -> Peer \cup {Absent}]
                 /\ recent' \subseteq Services \X Kinds /\ configured' \subseteq Networks
                 /\ cycle' \in [networks : SUBSET Networks,
                                 listed : [TrelServices -> Peer \cup {Absent}]]
      <4> DEFINE v == classify_trel_service(cycle.listed[s].content, cycle.networks)
      <4>1. cycle.listed[s] \in Peer /\ v \in Verdicts
        BY <1>1, <3>4, VerdictType DEF RecordTypes, Correlate
      <4>2. /\ trelRow' = [trelRow EXCEPT ![s] = [cycle.listed[s] EXCEPT !.verdict = v]]
            /\ cycle' = [cycle EXCEPT !.listed[s] = Absent]
            /\ UNCHANGED <<recent, configured>>
        BY <3>4 DEF Correlate, world
      <4> HIDE DEF v
      <4>3. [cycle.listed[s] EXCEPT !.verdict = v] \in Peer
        BY <4>1 DEF Peer
      <4> QED
        BY <1>1, <4>2, <4>3 DEF RecordTypes
    <3> QED
      BY <1>7, <3>1, <3>2, <3>3, <3>4
  <2>3. RecordTypes'
    BY <1>1, <1>7, <2>1, <2>2 DEF RecordTypes, history
  <2> QED
    BY <1>1, <1>7, <2>3 DEF TasksHaveServices
<1>8. CASE Restart
  <2>1. /\ present' = None /\ known' = row /\ trel' = trelRow /\ recent' = {}
        /\ cycle' = [networks |-> {}, listed |-> NothingListed]
        /\ UNCHANGED <<advertised, configured, row, trelRow, logged>>
        /\ clobbered' = [s \in TrelServices |-> FALSE]
        /\ task' = [t \in Tasks |-> NoTask] /\ db' = <<>>
    BY <1>8 DEF Restart
  <2>2. /\ missed' \in [Services -> BOOLEAN] /\ muted' \in [Services -> BOOLEAN]
        /\ overtaken' \in [Services -> BOOLEAN]
    <3>1. \A s \in Services :
            /\ (known[s] # Absent) \in BOOLEAN
            /\ (muted[s] \/ Busy(s, {"storing"}) # {}) \in BOOLEAN
            /\ (\/ overtaken[s] \/ Busy(s, {"storing", "telling"}) # {}
                \/ s \in TrelServices /\ clobbered[s]) \in BOOLEAN
      OBVIOUS
    <3> QED
      BY <1>8, <3>1 DEF Restart
  <2>3. RecordTypes'
    BY <1>1, <2>1, <2>2 DEF RecordTypes, None, NothingListed
  <2>4. (task \in [Tasks -> Task])' /\ \A t \in Tasks : task'[t].at = "idle"
    BY <2>1, IdleTask
  <2>5. Holds(db', task')
    BY <2>1, <2>4 DEF Holds, Awaiting
  <2>6. TasksHaveServices'
    BY <2>4 DEF TasksHaveServices
  <2> QED
    BY <2>3, <2>4, <2>5, <2>6
<1>9. CASE UNCHANGED vars
  BY <1>1, <1>9 DEF vars, world, history, RecordTypes, TasksHaveServices
<1> QED
  <2>1. CASE \E key \in recent : WindowEnds(key)
    BY <2>1, <1>7 DEF WindowEnds
  <2>2. CASE PollAnswersChange
    BY <2>2, <1>7 DEF PollAnswersChange
  <2>3. CASE BeginCorrelation
    BY <2>3, <1>7 DEF BeginCorrelation
  <2>4. CASE \E s \in TrelServices : Correlate(s)
    BY <2>4, <1>7 DEF Correlate
  <2>5. CASE Next
    BY <2>5, <1>2, <1>3, <1>4, <1>5, <1>6, <1>8, <2>1, <2>2, <2>3, <2>4 DEF Next, Answered
  <2> QED
    BY <1>9, <2>5

-----------------------------------------------------------------------------
(* Rows and caches.                                                        *)

\* A step that writes no TREL record and no row keeps the rows as they are.
LEMMA NextRows ==
  ASSUME Types, RowsFollowCaches, ListedFollowsCache, [Next]_vars
  PROVE  RowsFollowCaches' /\ ListedFollowsCache'
<1>1. RecordTypes
  BY TypesParts
<1>2. ASSUME row' = known', UNCHANGED <<trel, trelRow, clobbered, cycle>>
      PROVE  RowsFollowCaches' /\ ListedFollowsCache'
  BY <1>2 DEF RowsFollowCaches, ListedFollowsCache
<1>3. ASSUME NEW t \in Tasks, NEW s \in Services, Processes(t, s)
      PROVE  row' = known'
  BY <1>3 DEF Processes, Touch, Change, Store, RowsFollowCaches
<1>4. ASSUME NEW t \in Tasks, Answered(t)
      PROVE  RowsFollowCaches' /\ ListedFollowsCache'
  <2> DEFINE s == task[t].srv
  <2>1. UNCHANGED <<known, row, cycle>>
    BY <1>4 DEF Answered, Stored, Told, Finished
  <2>2. UpdatePeer(t) \/ UNCHANGED <<trel, trelRow, clobbered>>
    BY <1>4 DEF Answered, Stored, Told, Finished, history
  <2>3. CASE UNCHANGED <<trel, trelRow, clobbered>>
    BY <1>2, <2>1, <2>3 DEF RowsFollowCaches
  <2>4. CASE /\ HasPeer(t)
             /\ trel' = [trel EXCEPT ![s] = PeerAfter(t)]
             /\ trelRow' = [trelRow EXCEPT ![s] = PeerAfter(t)]
             /\ clobbered' = [clobbered EXCEPT ![s] = cycle.listed[s] # Absent]
    <3>1. s \in TrelServices /\ PeerAfter(t) \in Peer
      BY <2>4, PeerRecord DEF HasPeer
    <3> HIDE DEF s
    <3>2. /\ trel'[s] = trelRow'[s]
          /\ \A z \in TrelServices : z # s => /\ trel'[z] = trel[z]
                                               /\ trelRow'[z] = trelRow[z]
                                               /\ clobbered'[z] = clobbered[z]
          /\ clobbered'[s] = (cycle.listed[s] # Absent)
      BY <1>1, <2>4, <3>1 DEF RecordTypes
    <3>3. RowsFollowCaches'
      BY <2>1, <3>2 DEF RowsFollowCaches
    <3>4. ListedFollowsCache'
      BY <2>1, <3>2 DEF ListedFollowsCache
    <3> QED
      BY <3>3, <3>4
  <2> QED
    BY <2>2, <2>3, <2>4, PeerUpdates
<1>5. CASE BeginCorrelation
  <2>1. /\ UNCHANGED <<known, row, trel, trelRow, clobbered>>
        /\ cycle'.listed = trelRow
    BY <1>5 DEF BeginCorrelation, history
  <2> QED
    BY <2>1 DEF RowsFollowCaches, ListedFollowsCache
<1>6. ASSUME NEW s \in TrelServices, Correlate(s)
      PROVE  RowsFollowCaches' /\ ListedFollowsCache'
  <2> DEFINE copy == cycle.listed[s]
             v == classify_trel_service(copy.content, cycle.networks)
  <2>1. copy \in Peer
    BY <1>1, <1>6 DEF Correlate, RecordTypes
  <2>2. /\ UNCHANGED <<known, row, trel, clobbered>>
        /\ trelRow' = [trelRow EXCEPT ![s] = [copy EXCEPT !.verdict = v]]
        /\ cycle' = [cycle EXCEPT !.listed[s] = Absent]
    BY <1>6 DEF Correlate, history
  <2> HIDE DEF v
  <2>3. v \in Verdicts
    BY VerdictType DEF v
  <2>4. /\ [copy EXCEPT !.verdict = v] \in Peer
        /\ [copy EXCEPT !.verdict = v].visible = copy.visible
        /\ [copy EXCEPT !.verdict = v].content = copy.content
    BY <2>1, <2>3 DEF Peer
  <2>5. ~clobbered[s] => /\ trel[s] # Absent
                         /\ copy.visible = trel[s].visible
                         /\ copy.content = trel[s].content
    BY <1>6 DEF ListedFollowsCache, Correlate
  <2> DEFINE new == [copy EXCEPT !.verdict = v]
  <2>6. new # Absent /\ new.visible = copy.visible /\ new.content = copy.content
    BY <2>4, AbsentIsNoRecord
  <2>7. trelRow' = [trelRow EXCEPT ![s] = new]
    BY <2>2
  <2> HIDE DEF new
  <2>8. /\ trelRow'[s] = new
        /\ \A z \in TrelServices : z # s => trelRow'[z] = trelRow[z]
    BY <1>1, <2>7 DEF RecordTypes
  <2>9. /\ cycle'.listed[s] = Absent
        /\ \A z \in TrelServices : z # s => cycle'.listed[z] = cycle.listed[z]
    BY <1>1, <2>2 DEF RecordTypes
  <2>10. RowsFollowCaches'
    BY <2>2, <2>5, <2>6, <2>8 DEF RowsFollowCaches
  <2>11. ListedFollowsCache'
    BY <2>2, <2>9 DEF ListedFollowsCache
  <2> QED
    BY <2>10, <2>11
<1>7. CASE Restart
  <2>1. /\ known' = row /\ row' = row /\ trel' = trelRow /\ trelRow' = trelRow
        /\ cycle'.listed = NothingListed
    BY <1>7 DEF Restart
  <2> QED
    BY <2>1 DEF RowsFollowCaches, ListedFollowsCache, NothingListed
<1>8. CASE UNCHANGED vars
  BY <1>2, <1>8 DEF vars, history, RowsFollowCaches
<1>9. ASSUME NEW t \in Tasks, NEW s \in Services,
             add_service(t, s) \/ update_service(t, s) \/ remove_service(t, s)
      PROVE  RowsFollowCaches' /\ ListedFollowsCache'
  <2>1. UNCHANGED <<trel, trelRow, clobbered, cycle>>
    BY <1>9 DEF add_service, update_service, remove_service, Resolving, history
  <2>2. row' = known'
    BY <1>9, <1>3, RemovedProcesses
       DEF add_service, update_service, Resolving, RowsFollowCaches
  <2> QED
    BY <1>2, <2>1, <2>2
<1>10. ASSUME NEW t \in Tasks, Resolved(t)
       PROVE  RowsFollowCaches' /\ ListedFollowsCache'
  <2>1. UNCHANGED <<trel, trelRow, clobbered, cycle>>
    BY <1>10 DEF Resolved
  <2>2. task[t].srv \in Services /\ Processes(t, task[t].srv)
    BY <1>10, ResolvedProcesses
  <2>3. row' = known'
    BY <1>3, <2>2
  <2> QED
    BY <1>2, <2>1, <2>3
<1>11. ASSUME (\E t \in Tasks : Unresolved(t)) \/ (\E key \in recent : WindowEnds(key))
              \/ PollAnswersChange
       PROVE  RowsFollowCaches' /\ ListedFollowsCache'
  BY <1>2, <1>11 DEF Unresolved, WindowEnds, PollAnswersChange, history, RowsFollowCaches
<1> QED
  BY <1>4, <1>5, <1>6, <1>7, <1>8, <1>9, <1>10, <1>11 DEF Next, Answered

-----------------------------------------------------------------------------
(* The browser and the cache.                                              *)

\* What a task does not resolve before it does not resolve after, when no other
\* task changes.
LEMMA BusyAfter ==
  ASSUME NEW t \in Tasks, \A u \in Tasks : u # t => task'[u] = task[u],
         NEW s, NEW states
  PROVE  /\ \A u \in Tasks : u # t => (u \in Busy(s, states)' <=> u \in Busy(s, states))
         /\ t \in Busy(s, states)' <=> task'[t].srv = s /\ task'[t].at \in states
         /\ t \in Busy(s, states) <=> task[t].srv = s /\ task[t].at \in states
  BY DEF Busy

\* A processed callback concerns its own service.
LEMMA ProcessesOne ==
  ASSUME Types, NEW t \in Tasks, NEW s \in Services, Processes(t, s)
  PROVE  \A z \in Services : z # s => known'[z] = known[z]
  BY DEF Processes, Touch, Change, Store, Types, TypeOK

LEMMA NextMirrors ==
  ASSUME Types, RowsFollowCaches, MirrorsOrResolves, [Next]_vars
  PROVE  MirrorsOrResolves'
<1> DEFINE Good(z) == ~missed[z] =>
        /\ ~present[z] => Busy(z, {"resolving"}) = {} /\ ~Visible(known[z])
        /\ present[z] =>
             /\ \/ Visible(known[z])
                \/ \E t \in Busy(z, {"resolving"}) : task[t].kind = "added"
             /\ Busy(z, {"resolving"}) = {} => known[z].content = advertised[z]
<1>1. RecordTypes /\ task \in [Tasks -> Task] /\ TasksHaveServices
  BY TypesParts
<1>2. ASSUME NEW t \in Tasks, NEW s \in Services, add_service(t, s) \/ update_service(t, s)
      PROVE  MirrorsOrResolves'
  <2>1. PICK kind \in {"added", "updated"} :
          /\ Resolving(t, s, kind) /\ present'[s] = TRUE
          /\ kind = "added" \/ present[s]
    BY <1>1, <1>2 DEF add_service, update_service, RecordTypes
  <2>2. /\ \A z \in Services : z # s => present'[z] = present[z]
                                       /\ advertised'[z] = advertised[z]
        /\ task[t].at = "idle"
    BY <1>1, <1>2 DEF add_service, update_service, RecordTypes
  <2> DEFINE new == [NoTask EXCEPT !.at = "resolving", !.srv = s, !.kind = kind]
  <2>3. new.at = "resolving" /\ new.srv = s /\ new.kind = kind
    BY DEF NoTask
  <2>4. task' = [task EXCEPT ![t] = new] /\ UNCHANGED <<known, missed>>
    BY <2>1 DEF Resolving, history
  <2> HIDE DEF new
  <2>5. task'[t] = new /\ \A u \in Tasks : u # t => task'[u] = task[u]
    BY <1>1, <2>4
  <2> SUFFICES ASSUME NEW z \in Services PROVE Good(z)'
    BY DEF MirrorsOrResolves
  <2>6. Good(z)
    BY DEF MirrorsOrResolves
  <2>7. CASE z # s
    <3>1. Busy(z, {"resolving"})' = Busy(z, {"resolving"})
      BY <2>2, <2>3, <2>5, <2>7 DEF Busy
    <3>2. \A u \in Busy(z, {"resolving"}) : task'[u] = task[u]
      BY <2>2, <2>5 DEF Busy
    <3> QED
      BY <2>2, <2>4, <2>6, <2>7, <3>1, <3>2
  <2>8. CASE z = s
    <3>1. t \in Busy(s, {"resolving"})'
      BY <2>3, <2>5 DEF Busy
    <3>2. kind = "added" => task'[t].kind = "added"
      BY <2>3, <2>5
    <3>3. ASSUME kind # "added", NEW u \in Busy(s, {"resolving"}), task[u].kind = "added"
          PROVE  u \in Busy(s, {"resolving"})' /\ task'[u].kind = "added"
      BY <3>3, <2>2, <2>5 DEF Busy
    <3>4. CASE kind = "added"
      BY <2>1, <2>8, <3>1, <3>2, <3>4
    <3>5. CASE kind # "added"
      BY <2>1, <2>4, <2>6, <2>8, <3>1, <3>3, <3>5
    <3> QED
      BY <3>4, <3>5
  <2> QED
    BY <2>7, <2>8
<1>3. ASSUME NEW t \in Tasks, NEW s \in Services, remove_service(t, s)
      PROVE  MirrorsOrResolves'
  <2>1. /\ task[t].at = "idle" /\ Processes(t, s) /\ ~Visible(known'[s])
        /\ task'[t].at # "resolving"
        /\ \A u \in Tasks : u # t => task'[u] = task[u]
    BY <1>3, RemovedProcesses
  <2>2. /\ present'[s] = FALSE /\ missed'[s] = (Busy(s, {"resolving"}) # {})
        /\ \A z \in Services : z # s => present'[z] = present[z] /\ missed'[z] = missed[z]
        /\ advertised' = advertised
    BY <1>1, <1>3 DEF remove_service, RecordTypes
  <2>3. \A z \in Services : z # s => known'[z] = known[z]
    BY <2>1, ProcessesOne
  <2>4. \A z \in Services : Busy(z, {"resolving"})' = Busy(z, {"resolving"})
    BY <2>1 DEF Busy
  <2>5. \A z \in Services : \A u \in Busy(z, {"resolving"}) : task'[u] = task[u]
    BY <2>1 DEF Busy
  <2> SUFFICES ASSUME NEW z \in Services PROVE Good(z)'
    BY DEF MirrorsOrResolves
  <2>6. Good(z)
    BY DEF MirrorsOrResolves
  <2>7. CASE z # s
    BY <2>2, <2>3, <2>4, <2>5, <2>6, <2>7
  <2>8. CASE z = s
    BY <2>1, <2>2, <2>4, <2>8
  <2> QED
    BY <2>7, <2>8
<1>4. ASSUME NEW t \in Tasks, Unresolved(t)
      PROVE  MirrorsOrResolves'
  <2> DEFINE s == task[t].srv
  <2>1. /\ s \in Services /\ task[t].at = "resolving"
        /\ task' = [task EXCEPT ![t] = NoTask]
        /\ missed' = [missed EXCEPT ![s] = TRUE]
        /\ UNCHANGED <<present, advertised, known>>
    BY <1>1, <1>4 DEF Unresolved, world, TasksHaveServices
  <2> HIDE DEF s
  <2>2. /\ missed'[s] = TRUE /\ \A z \in Services : z # s => missed'[z] = missed[z]
        /\ task'[t] = NoTask /\ \A u \in Tasks : u # t => task'[u] = task[u]
    BY <1>1, <2>1 DEF RecordTypes
  <2> SUFFICES ASSUME NEW z \in Services, z # s PROVE Good(z)'
    BY <2>2 DEF MirrorsOrResolves
  <2>3. Good(z)
    BY DEF MirrorsOrResolves
  <2>4. /\ Busy(z, {"resolving"})' = Busy(z, {"resolving"})
        /\ \A u \in Busy(z, {"resolving"}) : task'[u] = task[u]
    <3>1. t \notin Busy(z, {"resolving"}) /\ t \notin Busy(z, {"resolving"})'
      BY <2>2, IdleTask DEF Busy, s
    <3> QED
      BY <2>2, <3>1 DEF Busy
  <2> QED
    BY <2>1, <2>2, <2>3, <2>4
<1>5. ASSUME NEW t \in Tasks, Resolved(t)
      PROVE  MirrorsOrResolves'
  <2>0. PICK s \in Services : s = task[t].srv
    BY <1>5, ResolvedProcesses
  <2> DEFINE kept == missed[s] /\ ~(task[t].kind = "added" /\ present[s])
  <2>1. /\ task[t].srv = s /\ task[t].at = "resolving"
        /\ Processes(t, s) /\ known'[s] # Absent
        /\ known'[s].content = advertised[s]
        /\ task[t].kind = "added" \/ Visible(known[s]) => Visible(known'[s])
        /\ task'[t].at # "resolving"
        /\ \A u \in Tasks : u # t => task'[u] = task[u]
    BY <1>5, <2>0, ResolvedProcesses
  <2>2. missed' = [missed EXCEPT ![s] = kept] /\ UNCHANGED <<present, advertised>>
    BY <1>5, <2>0 DEF Resolved, world
  <2>3. /\ missed'[s] = kept /\ \A z \in Services : z # s => missed'[z] = missed[z]
        /\ missed[s] \in BOOLEAN /\ present[s] \in BOOLEAN
    BY <1>1, <2>1, <2>2 DEF RecordTypes
  <2>4. \A z \in Services : z # s => known'[z] = known[z]
    BY <2>1, ProcessesOne
  <2>5. t \in Busy(s, {"resolving"})
    BY <2>1 DEF Busy
  <2> SUFFICES ASSUME NEW z \in Services PROVE Good(z)'
    BY DEF MirrorsOrResolves
  <2>6. Good(z)
    BY DEF MirrorsOrResolves
  <2>7. CASE z # s
    <3>1. t \notin Busy(z, {"resolving"}) /\ t \notin Busy(z, {"resolving"})'
      BY <2>1, <2>7 DEF Busy
    <3>2. /\ Busy(z, {"resolving"})' = Busy(z, {"resolving"})
          /\ \A u \in Busy(z, {"resolving"}) : task'[u] = task[u]
      BY <2>1, <3>1 DEF Busy
    <3> HIDE DEF kept
    <3> QED
      BY <2>2, <2>3, <2>4, <2>6, <2>7, <3>2
  <2>8. CASE z = s
    <3>1. ASSUME NEW u \in Busy(s, {"resolving"}), u # t
          PROVE  u \in Busy(s, {"resolving"})' /\ task'[u] = task[u]
      BY <3>1, <2>1 DEF Busy
    <3>2. CASE task[t].kind = "added"
      <4>1. CASE present[s]
        BY <2>1, <2>2, <2>8, <3>2, <4>1
      <4>2. CASE ~present[s]
        BY <2>2, <2>3, <2>5, <2>6, <2>8, <4>2
      <4> QED
        BY <4>1, <4>2
    <3>3. CASE task[t].kind # "added"
      <4>1. missed'[s] = missed[s]
        BY <2>3, <3>3
      <4>2. CASE missed[s]
        BY <2>8, <4>1, <4>2
      <4>3. CASE ~missed[s]
        <5>1. present[s]
          BY <2>5, <2>6, <2>8, <4>3
        <5>2. CASE Visible(known[s])
          BY <2>1, <2>2, <2>8, <5>1, <5>2
        <5>3. CASE ~Visible(known[s])
          <6>1. PICK u \in Busy(s, {"resolving"}) : task[u].kind = "added"
            BY <2>6, <2>8, <4>3, <5>1, <5>3
          <6>2. u # t
            BY <3>3, <6>1
          <6> QED
            BY <2>1, <2>2, <2>8, <3>1, <5>1, <6>1, <6>2
        <5> QED
          BY <5>2, <5>3
      <4> QED
        BY <4>2, <4>3
    <3> QED
      BY <3>2, <3>3
  <2> QED
    BY <2>7, <2>8
<1>6. ASSUME NEW t \in Tasks, Answered(t)
      PROVE  MirrorsOrResolves'
  <2>1. UNCHANGED <<present, advertised, known, missed>>
    BY <1>6 DEF Answered, Stored, Told, Finished, world, history
  <2>2. /\ task[t].srv \in Services /\ task[t].at \in Awaiting
        /\ Returns(t) \/ CallsAgain(t)
        /\ \A u \in Tasks : u # t => task'[u] = task[u]
    BY <1>6, AnswerMoves
  <2>3. task'[t].at # "resolving" /\ task[t].at # "resolving"
    <3>1. task[t].at # "resolving"
      BY <2>2 DEF Awaiting
    <3>2. CASE Returns(t)
      BY <1>1, <3>1, <3>2, IdleTask DEF Returns
    <3>3. CASE task' = [task EXCEPT ![t].at = "telling"]
      BY <1>1, <3>1, <3>3 DEF Task
    <3>4. CASE task' = [task EXCEPT ![t] = [NoTask EXCEPT !.at = "peering",
                                                          !.srv = task[t].srv]]
      <4> DEFINE new == [NoTask EXCEPT !.at = "peering", !.srv = task[t].srv]
      <4>1. new.at # "resolving"
        BY DEF NoTask
      <4>2. task' = [task EXCEPT ![t] = new]
        BY <3>4
      <4> HIDE DEF new
      <4> QED
        BY <1>1, <3>1, <4>1, <4>2
    <3> QED
      BY <2>2, <3>2, <3>3, <3>4 DEF CallsAgain
  <2>4. \A z \in Services : /\ Busy(z, {"resolving"})' = Busy(z, {"resolving"})
                            /\ \A u \in Busy(z, {"resolving"}) : task'[u] = task[u]
    BY <2>2, <2>3 DEF Busy
  <2> QED
    BY <2>1, <2>4 DEF MirrorsOrResolves
<1>7. CASE UNCHANGED <<present, advertised, known, missed, task>>
  BY <1>7 DEF MirrorsOrResolves, Busy
<1>8. CASE Restart
  <2>1. /\ known' = known /\ task' = [t \in Tasks |-> NoTask]
        /\ \A z \in Services : ~present'[z] /\ missed'[z] = (known[z] # Absent)
    BY <1>8 DEF Restart, None, RowsFollowCaches
  <2>2. \A z \in Services : Busy(z, {"resolving"})' = {}
    BY <2>1, IdleTask DEF Busy
  <2> QED
    BY <2>1, <2>2 DEF MirrorsOrResolves, Visible
<1>9. ASSUME (\E key \in recent : WindowEnds(key)) \/ PollAnswersChange \/ BeginCorrelation
             \/ (\E s \in TrelServices : Correlate(s)) \/ UNCHANGED vars
      PROVE  MirrorsOrResolves'
  BY <1>7, <1>9 DEF WindowEnds, PollAnswersChange, BeginCorrelation, Correlate, vars,
                    world, history
<1> QED
  BY <1>2, <1>3, <1>4, <1>5, <1>6, <1>8, <1>9 DEF Next, Answered

-----------------------------------------------------------------------------
(* Changes in the order of their cache writes.                             *)

Follows(t) == Keeps(db, task, db', task', t)

OthersStay(t) == \A u \in Tasks : u # t => task'[u] = task[u]

\* The task at the head of the queue is the last one in its state for its service
\* when it is the only one.
LEMMA OnlyIsLast ==
  ASSUME Types, NEW t \in Tasks, NEW state, Woken(t, state), NEW s \in Services,
         s = task[t].srv, \A u \in Busy(s, {state}) : u = t
  PROVE  1 \in 1..Len(db) /\ db[1] = t /\ LastIn(db, task, 1, s, state)
<1>1. Holds(db, task)
  BY TypesParts
<1>2. /\ db \in Seq(Tasks) /\ db # <<>> /\ Head(db) = t /\ task[t].at = state
      /\ \A i, j \in 1..Len(db) : db[i] = db[j] => i = j
  BY <1>1 DEF Holds, Woken
<1>3. Len(db) \in Nat /\ Len(db) >= 1 /\ db[1] = t
  BY <1>2, TailFacts
<1>4. \A j \in 1..Len(db) : j > 1 => db[j] # t /\ db[j] \in Tasks
  BY <1>2, <1>3
<1>5. \A j \in 1..Len(db) : j > 1 => ~(task[db[j]].srv = s /\ task[db[j]].at = state)
  BY <1>4 DEF Busy
<1> QED
  BY <1>2, <1>3, <1>5 DEF LastIn

Changing == {"storing", "telling"}

\* A step of task t that neither is nor comes to be in the middle of a change.
Quiet(t) ==
    /\ UNCHANGED <<known, trel, logged, muted, overtaken>>
    /\ task[t].at \notin Changing /\ task'[t].at \notin Changing
    /\ OthersStay(t) /\ Follows(t)

\* Task t begins a change of service s.
Begins(t, s) ==
    /\ UNCHANGED <<trel, logged, muted>>
    /\ task[t].at \notin Changing /\ task'[t].at = "storing" /\ task'[t].srv = s
    /\ Carries(t, s)'
    /\ \A z \in Services : z # s => known'[z] = known[z] /\ overtaken'[z] = overtaken[z]
    /\ OthersStay(t) /\ Follows(t)

LEMMA ProcessKinds ==
  ASSUME Types, NEW t \in Tasks, NEW s \in Services, Processes(t, s), OthersStay(t),
         task[t].at \notin Awaiting, UNCHANGED <<trel, logged, muted>>
  PROVE  Quiet(t) \/ Begins(t, s)
<1>1. RecordTypes /\ task \in [Tasks -> Task]
  BY TypesParts
<1>2. task[t].at \notin Changing
  BY DEF Changing, Awaiting
<1>3. CASE Touch(t, s)
  <2> DEFINE new == [NoTask EXCEPT !.at = "touching", !.srv = s]
  <2>1. new.at = "touching"
    BY DEF NoTask
  <2>2. /\ task' = [task EXCEPT ![t] = new] /\ db' = Append(db, t)
        /\ known' = known /\ overtaken' = overtaken
    BY <1>1, <1>3 DEF Touch, Store, RecordTypes
  <2> HIDE DEF new
  <2>3. task'[t].at = "touching"
    BY <1>1, <2>1, <2>2
  <2>4. Follows(t)
    BY <2>2, <2>3, TypesParts, Joins DEF Awaiting, Follows, OthersStay
  <2> QED
    BY <1>2, <2>2, <2>3, <2>4 DEF Quiet, Changing
<1>4. ASSUME NEW kind \in {"added", "changed", "removed"}, NEW record \in Service,
             Change(t, s, kind, record), record.visible <=> kind # "removed"
      PROVE  Begins(t, s)
  <2> DEFINE new == [at |-> "storing", srv |-> s, kind |-> kind,
                     content |-> record.content]
  <2>1. /\ new.at = "storing" /\ new.srv = s /\ new.kind = kind
        /\ new.content = record.content
    OBVIOUS
  <2>2. task' = [task EXCEPT ![t] = new] /\ db' = Append(db, t)
    BY <1>4 DEF Change
  <2> HIDE DEF new
  <2>3. task'[t] = new
    BY <1>1, <2>2
  <2>4. /\ known'[s] = record
        /\ \A z \in Services : z # s => known'[z] = known[z]
    BY <1>1, <1>4 DEF Change, Store, RecordTypes
  <2>5. \A z \in Services : z # s => overtaken'[z] = overtaken[z]
    BY <1>1, <1>4 DEF Change, RecordTypes
  <2>6. Carries(t, s)'
    BY <1>4, <2>1, <2>3, <2>4, AbsentIsNoRecord DEF Carries, Visible
  <2>7. Follows(t)
    BY <2>1, <2>2, <2>3, TypesParts, Joins
       DEF Awaiting, Follows, OthersStay
  <2> QED
    BY <1>2, <2>1, <2>3, <2>4, <2>5, <2>6, <2>7 DEF Begins
<1>5. CASE UNCHANGED <<known, row, db, overtaken, task>>
  <2>1. Follows(t)
    BY <1>5, TypesParts, StaysOut DEF Follows, OthersStay
  <2> QED
    BY <1>2, <1>5, <2>1 DEF Quiet
<1> QED
  BY <1>3, <1>4, <1>5 DEF Processes

\* An answer of the database keeps the order of the others.
LEMMA AnswerFollows ==
  ASSUME Types, NEW t \in Tasks, Answered(t)
  PROVE  Follows(t) /\ OthersStay(t) /\ known' = known
<1>1. task \in [Tasks -> Task] /\ Holds(db, task)
  BY TypesParts
<1>2. /\ db # <<>> /\ Head(db) = t
      /\ task[t].srv \in Services /\ task[t].at \in Awaiting
      /\ Returns(t) \/ CallsAgain(t)
      /\ \A u \in Tasks : u # t => task'[u] = task[u]
  BY AnswerMoves
<1> SUFFICES Follows(t)
  <2>1. known' = known
    BY DEF Answered, Stored, Told, Finished
  <2> QED
    BY <1>2, <2>1 DEF OthersStay
<1>3. CASE Returns(t)
  <2>1. task'[t].at \notin Awaiting /\ db' = Tail(db)
    BY <1>1, <1>3, IdleTask DEF Returns, Awaiting
  <2>2. Keeps(db, task, Tail(db), task', t)
    BY <1>1, <1>2, <2>1, Leaves
  <2> QED
    BY <2>1, <2>2 DEF Follows
<1>4. CASE CallsAgain(t)
  <2>1. db' = Append(Tail(db), t)
    BY <1>4 DEF CallsAgain
  <2>2. task'[t].at \in Awaiting
    <3>1. CASE task' = [task EXCEPT ![t].at = "telling"]
      BY <1>1, <3>1 DEF Task, Awaiting
    <3>2. CASE task' = [task EXCEPT ![t] = [NoTask EXCEPT !.at = "peering",
                                                          !.srv = task[t].srv]]
      <4> DEFINE new == [NoTask EXCEPT !.at = "peering", !.srv = task[t].srv]
      <4>1. new.at \in Awaiting
        BY DEF NoTask, Awaiting
      <4>2. task' = [task EXCEPT ![t] = new]
        BY <3>2
      <4> HIDE DEF new
      <4> QED
        BY <1>1, <4>1, <4>2
    <3> QED
      BY <1>4, <3>1, <3>2 DEF CallsAgain
  <2>3. Keeps(db, task, Append(Tail(db), t), task', t)
    BY <1>1, <1>2, <2>2, Rotates
  <2> QED
    BY <2>1, <2>3 DEF Follows
<1> QED
  BY <1>2, <1>3, <1>4

\* What an answer that ends the storing or the telling of a change leaves the task
\* doing.
LEMMA PeerUpdateMoves ==
  ASSUME Types, NEW t \in Tasks, UpdatePeer(t), task[t].srv \in Services
  PROVE  /\ task'[t].at \notin Changing
         /\ \A z \in TrelServices : z # task[t].srv => trel'[z] = trel[z]
<1>1. task \in [Tasks -> Task] /\ RecordTypes
  BY TypesParts
<1>2. CASE Returns(t) /\ UNCHANGED <<trel, trelRow, clobbered>>
  BY <1>1, <1>2, IdleTask DEF Returns, Changing
<1>3. CASE /\ task' = [task EXCEPT ![t] = [NoTask EXCEPT !.at = "peering",
                                                         !.srv = task[t].srv]]
           /\ trel' = [trel EXCEPT ![task[t].srv] = PeerAfter(t)]
  <2> DEFINE new == [NoTask EXCEPT !.at = "peering", !.srv = task[t].srv]
  <2>1. new.at = "peering"
    BY DEF NoTask
  <2>2. task' = [task EXCEPT ![t] = new]
    BY <1>3
  <2> HIDE DEF new
  <2>3. task'[t].at \notin Changing
    BY <1>1, <2>1, <2>2 DEF Changing
  <2> QED
    BY <1>1, <1>3, <2>3 DEF RecordTypes
<1> QED
  BY <1>2, <1>3, PeerUpdates

\* The TREL record that the last change of a service leaves follows the cache.
LEMMA PeerSettles ==
  ASSUME Types, NEW t \in Tasks, UpdatePeer(t), NEW s \in TrelServices,
         s = task[t].srv, Carries(t, s), task[t].kind \in Kinds
  PROVE  /\ Visible(trel'[s]) <=> Visible(known[s])
         /\ Visible(trel'[s]) => trel'[s].content = known[s].content
<1>1. RecordTypes
  BY TypesParts
<1>2. CASE ~HasPeer(t) /\ UNCHANGED trel
  <2>1. task[t].kind = "removed" /\ trel[s] = Absent
    BY <1>2 DEF HasPeer
  <2> QED
    BY <1>2, <2>1 DEF Carries, Visible
<1>3. CASE HasPeer(t) /\ trel' = [trel EXCEPT ![s] = PeerAfter(t)]
  <2>1. /\ PeerAfter(t) \in Peer
        /\ PeerAfter(t).visible <=> task[t].kind # "removed"
        /\ task[t].kind # "removed" => PeerAfter(t).content = task[t].content
    BY <1>3, PeerRecord
  <2>2. trel'[s] = PeerAfter(t) /\ trel'[s] # Absent
    BY <1>1, <1>3, <2>1, AbsentIsNoRecord DEF RecordTypes
  <2> QED
    BY <2>1, <2>2 DEF Carries, Visible
<1> QED
  BY <1>2, <1>3, PeerUpdates

\* The steps that matter to the order of changes.
Still == UNCHANGED <<known, trel, logged, muted, overtaken, task, db>>

LEMMA StepKinds ==
  ASSUME Types, RowsFollowCaches, [Next]_vars
  PROVE  \/ \E t \in Tasks : Quiet(t) \/ Stored(t) \/ Told(t)
         \/ \E t \in Tasks, s \in Services : Begins(t, s)
         \/ Restart \/ Still
<1>1. task \in [Tasks -> Task] /\ Holds(db, task)
  BY TypesParts
<1>2. ASSUME NEW t \in Tasks, NEW s \in Services, add_service(t, s) \/ update_service(t, s)
      PROVE  Quiet(t)
  <2>1. PICK kind \in {"added", "updated"} : Resolving(t, s, kind)
    BY <1>2 DEF add_service, update_service
  <2> DEFINE new == [NoTask EXCEPT !.at = "resolving", !.srv = s, !.kind = kind]
  <2>2. new.at = "resolving"
    BY DEF NoTask
  <2>3. /\ task' = [task EXCEPT ![t] = new] /\ db' = db
        /\ UNCHANGED <<known, trel, logged, muted, overtaken>>
    BY <2>1 DEF Resolving, history
  <2> HIDE DEF new
  <2>4. task'[t].at = "resolving" /\ OthersStay(t)
    BY <1>1, <2>2, <2>3 DEF OthersStay
  <2>5. task[t].at = "idle"
    BY <1>2 DEF add_service, update_service
  <2>6. Follows(t)
    BY <1>1, <2>3, <2>4, <2>5, StaysOut DEF Follows, OthersStay, Awaiting
  <2> QED
    BY <2>3, <2>4, <2>5, <2>6 DEF Quiet, Changing
<1>3. ASSUME NEW t \in Tasks, NEW s \in Services, remove_service(t, s)
      PROVE  Quiet(t) \/ Begins(t, s)
  <2>1. Processes(t, s) /\ OthersStay(t) /\ task[t].at \notin Awaiting
    BY <1>3, RemovedProcesses DEF OthersStay, Awaiting
  <2>2. UNCHANGED <<trel, logged, muted>>
    BY <1>3 DEF remove_service
  <2> QED
    BY <2>1, <2>2, ProcessKinds
<1>4. ASSUME NEW t \in Tasks, Unresolved(t)
      PROVE  Quiet(t)
  <2>1. /\ task[t].at = "resolving" /\ task' = [task EXCEPT ![t] = NoTask] /\ db' = db
        /\ UNCHANGED <<known, trel, logged, muted, overtaken>>
    BY <1>4 DEF Unresolved
  <2>2. task'[t].at = "idle" /\ OthersStay(t)
    BY <1>1, <2>1, IdleTask DEF OthersStay
  <2>3. Follows(t)
    BY <1>1, <2>1, <2>2, StaysOut DEF Follows, OthersStay, Awaiting
  <2> QED
    BY <2>1, <2>2, <2>3 DEF Quiet, Changing
<1>5. ASSUME NEW t \in Tasks, Resolved(t)
      PROVE  Quiet(t) \/ \E s \in Services : Begins(t, s)
  <2>1. PICK s \in Services : s = task[t].srv
    BY <1>5, ResolvedProcesses
  <2>2. Processes(t, s) /\ OthersStay(t) /\ task[t].at \notin Awaiting
    BY <1>5, <2>1, ResolvedProcesses DEF OthersStay, Awaiting
  <2>3. UNCHANGED <<trel, logged, muted>>
    BY <1>5 DEF Resolved
  <2> QED
    BY <2>2, <2>3, ProcessKinds
<1>6. ASSUME NEW t \in Tasks, Finished(t)
      PROVE  Quiet(t)
  <2>1. Follows(t) /\ OthersStay(t)
    BY <1>6, AnswerFollows DEF Answered
  <2>2. /\ task[t].at \in {"touching", "peering"} /\ task' = [task EXCEPT ![t] = NoTask]
        /\ UNCHANGED <<known, trel, logged, muted, overtaken>>
    BY <1>6 DEF Finished, Woken, Return, history
  <2>3. task'[t].at = "idle"
    BY <1>1, <2>2, IdleTask
  <2> QED
    BY <2>1, <2>2, <2>3 DEF Quiet, Changing
<1>7. ASSUME (\E key \in recent : WindowEnds(key)) \/ PollAnswersChange \/ BeginCorrelation
             \/ (\E s \in TrelServices : Correlate(s)) \/ UNCHANGED vars
      PROVE  Still
  BY <1>7 DEF Still, WindowEnds, PollAnswersChange, BeginCorrelation, Correlate, vars,
              history
<1> QED
  BY <1>2, <1>3, <1>4, <1>5, <1>6, <1>7 DEF Next

-----------------------------------------------------------------------------
(* Events and TREL records in the order of the changes.                    *)

\* The last task in a state is the one that made the step, if it came to that state,
\* and the last one before if not.
LEMMA LastBefore ==
  ASSUME NEW t \in Tasks, Follows(t), OthersStay(t), NEW z, NEW state \in Awaiting,
         NEW i \in 1..Len(db'), LastIn(db', task', i, z, state), NEW u, u = db'[i]
  PROVE  IF task'[t].srv = z /\ task'[t].at = state
         THEN u = t
         ELSE /\ u \in Tasks /\ task'[u] = task[u]
              /\ \E k \in 1..Len(db) : LastIn(db, task, k, z, state) /\ db[k] = u
  BY DEF Follows, Keeps, OthersStay

\* The only task that is storing a change of its service carries the latest one.
LEMMA StoredCarries ==
  ASSUME Types, StoringInOrder, NEW t \in Tasks, Woken(t, "storing"),
         NEW s \in Services, s = task[t].srv, \A u \in Busy(s, {"storing"}) : u = t
  PROVE  Carries(t, s)
<1>1. 1 \in 1..Len(db) /\ db[1] = t /\ LastIn(db, task, 1, s, "storing")
  BY OnlyIsLast
<1> QED
  BY <1>1 DEF StoringInOrder

LEMMA NextStoring ==
  ASSUME Types, RowsFollowCaches, StoringInOrder, [Next]_vars
  PROVE  StoringInOrder'
<1> SUFFICES ASSUME NEW z \in Services, NEW i \in 1..Len(db'),
                    LastIn(db', task', i, z, "storing"), NEW u, u = db'[i]
             PROVE  Carries(u, z)'
  BY DEF StoringInOrder, Carries
<1>1. ASSUME NEW t \in Tasks, Follows(t), OthersStay(t), known'[z] = known[z],
             ~(task'[t].srv = z /\ task'[t].at = "storing")
      PROVE  Carries(u, z)'
  <2>1. PICK k \in 1..Len(db) :
          /\ LastIn(db, task, k, z, "storing") /\ db[k] = u
          /\ task'[u] = task[u]
    <3>1. "storing" \in Awaiting
      BY DEF Awaiting
    <3> QED
      BY <1>1, <3>1, LastBefore
  <2> QED
    BY <1>1, <2>1 DEF StoringInOrder, Carries, Visible
<1>2. ASSUME NEW t \in Tasks, Quiet(t)
      PROVE  Carries(u, z)'
  BY <1>1, <1>2 DEF Quiet, Changing
<1>3. ASSUME NEW t \in Tasks, NEW s \in Services, Begins(t, s)
      PROVE  Carries(u, z)'
  <2>1. CASE z # s
    BY <1>1, <1>3, <2>1 DEF Begins
  <2>2. CASE z = s
    <3>1. "storing" \in Awaiting
      BY DEF Awaiting
    <3>2. u = t
      BY <1>3, <2>2, <3>1, LastBefore DEF Begins
    <3> QED
      BY <1>3, <2>2, <3>2 DEF Begins
  <2> QED
    BY <2>1, <2>2
<1>4. ASSUME NEW t \in Tasks, Stored(t) \/ Told(t)
      PROVE  Carries(u, z)'
  <2>1. Follows(t) /\ OthersStay(t) /\ known' = known
    BY <1>4, AnswerFollows DEF Answered
  <2>2. task'[t].at # "storing"
    <3>1. task \in [Tasks -> Task] /\ task[t].srv \in Services
      BY <1>4, TypesParts, AnswerMoves DEF Answered
    <3>2. CASE UpdatePeer(t)
      BY <3>1, <3>2, PeerUpdateMoves DEF Changing
    <3>3. CASE task' = [task EXCEPT ![t].at = "telling"]
      BY <3>1, <3>3 DEF Task
    <3> QED
      BY <1>4, <3>2, <3>3 DEF Stored, Told
  <2> QED
    BY <1>1, <2>1, <2>2
<1>5. CASE Restart
  BY <1>5 DEF Restart
<1>6. CASE Still
  <2>1. LastIn(db, task, i, z, "storing") /\ i \in 1..Len(db)
    BY <1>6 DEF Still
  <2> QED
    BY <1>6, <2>1 DEF Still, StoringInOrder, Carries, Visible
<1> QED
  BY <1>2, <1>3, <1>4, <1>5, <1>6, StepKinds

\* The tasks in some states for a service stay the same when the one that makes the
\* step is not among them, before or after.
LEMMA BusyStays ==
  ASSUME NEW t \in Tasks, OthersStay(t), NEW z, NEW S,
         ~(task[t].srv = z /\ task[t].at \in S), ~(task'[t].srv = z /\ task'[t].at \in S)
  PROVE  Busy(z, S)' = Busy(z, S)
  BY DEF Busy, OthersStay

\* The step that ends the storing of a change of s: its event is logged, or the TREL
\* record is updated at once.
Logs(t, s) ==
    /\ logged'[s] = task[t].kind /\ muted'[s] = FALSE
    /\ task'[t].at = "telling" /\ task'[t].srv = s
    /\ task'[t].kind = task[t].kind /\ task'[t].content = task[t].content
    /\ UNCHANGED <<trel, overtaken>>

Skips(t, s) ==
    /\ muted'[s] = TRUE
    /\ overtaken'[s] = (overtaken[s] \/ Busy(s, {"telling"}) # {})
    /\ task'[t].at \notin Changing
    /\ UpdatePeer(t)

LEMMA StoredDoes ==
  ASSUME Types, NEW t \in Tasks, Stored(t), NEW s \in Services, s = task[t].srv
  PROVE  /\ Woken(t, "storing") /\ task[t].kind \in {"added", "changed", "removed"}
         /\ Follows(t) /\ OthersStay(t) /\ known' = known
         /\ \A z \in Services : z # s =>
              /\ logged'[z] = logged[z] /\ muted'[z] = muted[z]
              /\ overtaken'[z] = overtaken[z]
              /\ task'[t].srv = z => task'[t].at \notin Changing
         /\ Logs(t, s) \/ Skips(t, s)
<1>1. /\ task \in [Tasks -> Task] /\ RecordTypes /\ TasksHaveServices
      /\ Woken(t, "storing") /\ task[t].at = "storing"
  BY TypesParts DEF Stored, Woken
<1>2. task[t].kind \in {"added", "changed", "removed"}
  BY <1>1 DEF TasksHaveServices
<1>3. Follows(t) /\ OthersStay(t) /\ known' = known
  BY AnswerFollows DEF Answered
<1>4. CASE Emits(t)
  <2>1. /\ logged' = [logged EXCEPT ![s] = task[t].kind]
        /\ muted' = [muted EXCEPT ![s] = FALSE]
        /\ task' = [task EXCEPT ![t].at = "telling"]
        /\ UNCHANGED <<trel, overtaken>>
    BY <1>4 DEF Stored
  <2>2. /\ task'[t].at = "telling" /\ task'[t].srv = s
        /\ task'[t].kind = task[t].kind /\ task'[t].content = task[t].content
    BY <1>1, <2>1 DEF Task
  <2>3. Logs(t, s)
    BY <1>1, <2>1, <2>2 DEF Logs, RecordTypes
  <2> QED
    BY <1>1, <1>2, <1>3, <2>1, <2>2, <2>3 DEF RecordTypes
<1>5. CASE ~Emits(t)
  <2> DEFINE passes == overtaken[s] \/ Busy(s, {"telling"}) # {}
  <2>1. /\ logged' = logged /\ muted' = [muted EXCEPT ![s] = TRUE]
        /\ overtaken' = [overtaken EXCEPT ![s] = passes]
        /\ UpdatePeer(t)
    BY <1>5 DEF Stored
  <2>2. task'[t].at \notin Changing
    BY <2>1, PeerUpdateMoves
  <2> HIDE DEF passes
  <2>3. /\ overtaken'[s] = passes /\ muted'[s] = TRUE
        /\ \A z \in Services : z # s => muted'[z] = muted[z] /\ overtaken'[z] = overtaken[z]
    BY <1>1, <2>1 DEF RecordTypes
  <2>4. Skips(t, s)
    BY <2>1, <2>2, <2>3 DEF Skips, passes
  <2> QED
    BY <1>1, <1>2, <1>3, <2>1, <2>2, <2>3, <2>4
<1> QED
  BY <1>4, <1>5

\* The step that ends the telling of a change.
LEMMA ToldDoes ==
  ASSUME Types, NEW t \in Tasks, Told(t)
  PROVE  /\ Woken(t, "telling") /\ task[t].srv \in Services
         /\ task[t].kind \in {"added", "changed", "removed"}
         /\ Follows(t) /\ OthersStay(t) /\ UNCHANGED <<known, logged, muted, overtaken>>
         /\ task'[t].at \notin Changing /\ UpdatePeer(t)
<1>1. /\ task \in [Tasks -> Task] /\ TasksHaveServices
      /\ Woken(t, "telling") /\ task[t].at = "telling"
      /\ UpdatePeer(t) /\ UNCHANGED <<known, logged, muted, overtaken>>
  BY TypesParts DEF Told, Woken
<1>2. task[t].srv \in Services /\ task[t].kind \in {"added", "changed", "removed"}
  BY <1>1 DEF TasksHaveServices
<1>3. Follows(t) /\ OthersStay(t)
  BY AnswerFollows DEF Answered
<1> QED
  BY <1>1, <1>2, <1>3, PeerUpdateMoves

LEMMA NextLog ==
  ASSUME Types, RowsFollowCaches, StoringInOrder, LogEndsInCurrentState, [Next]_vars
  PROVE  LogEndsInCurrentState'
<1> SUFFICES ASSUME NEW z \in Services, ~muted'[z], Busy(z, {"storing"})' = {}
             PROVE  Visible(known'[z]) <=> logged'[z] \in {"added", "changed"}
  BY DEF LogEndsInCurrentState, Visible
<1>1. ASSUME Busy(z, {"storing"}) = {}, known'[z] = known[z], logged'[z] = logged[z],
             muted'[z] = muted[z]
      PROVE  Visible(known'[z]) <=> logged'[z] \in {"added", "changed"}
  BY <1>1 DEF LogEndsInCurrentState
<1>2. ASSUME NEW t \in Tasks, Quiet(t)
      PROVE  Visible(known'[z]) <=> logged'[z] \in {"added", "changed"}
  <2>1. Busy(z, {"storing"})' = Busy(z, {"storing"})
    BY <1>2, BusyStays DEF Quiet, Changing
  <2> QED
    BY <1>1, <1>2, <2>1 DEF Quiet
<1>3. ASSUME NEW t \in Tasks, NEW s \in Services, Begins(t, s)
      PROVE  Visible(known'[z]) <=> logged'[z] \in {"added", "changed"}
  <2>1. z # s
    BY <1>3 DEF Begins, Busy
  <2>2. Busy(z, {"storing"})' = Busy(z, {"storing"})
    BY <1>3, <2>1, BusyStays DEF Begins, Changing
  <2> QED
    BY <1>1, <1>3, <2>1, <2>2 DEF Begins
<1>4. ASSUME NEW t \in Tasks, Stored(t)
      PROVE  Visible(known'[z]) <=> logged'[z] \in {"added", "changed"}
  <2>0. PICK s \in Services : s = task[t].srv
    BY <1>4, AnswerMoves DEF Answered
  <2>1. /\ Woken(t, "storing") /\ task[t].kind \in {"added", "changed", "removed"}
        /\ OthersStay(t) /\ known' = known
        /\ z # s => /\ logged'[z] = logged[z] /\ muted'[z] = muted[z]
                    /\ task'[t].srv = z => task'[t].at \notin Changing
        /\ Logs(t, s) \/ Skips(t, s)
    BY <1>4, <2>0, StoredDoes
  <2>2. CASE z # s
    <3>1. Busy(z, {"storing"})' = Busy(z, {"storing"})
      BY <2>0, <2>1, <2>2, BusyStays DEF Changing
    <3> QED
      BY <1>1, <2>1, <2>2, <3>1
  <2>3. CASE z = s
    <3>1. Logs(t, s)
      BY <2>1, <2>3 DEF Skips
    <3>2. \A u \in Busy(s, {"storing"}) : u = t
      BY <2>1, <2>3 DEF Busy, OthersStay
    <3>3. Carries(t, s)
      BY <2>0, <2>1, <3>2, StoredCarries
    <3> QED
      BY <2>1, <2>3, <3>1, <3>3 DEF Logs, Carries
  <2> QED
    BY <2>2, <2>3
<1>5. ASSUME NEW t \in Tasks, Told(t)
      PROVE  Visible(known'[z]) <=> logged'[z] \in {"added", "changed"}
  <2>1. /\ task[t].at = "telling" /\ task'[t].at \notin Changing /\ OthersStay(t)
        /\ UNCHANGED <<known, logged, muted>>
    BY <1>5, ToldDoes DEF Woken
  <2>2. Busy(z, {"storing"})' = Busy(z, {"storing"})
    BY <2>1, BusyStays DEF Changing
  <2> QED
    BY <1>1, <2>1, <2>2
<1>6. CASE Restart
  <2>1. known' = known /\ logged' = logged
    BY <1>6 DEF Restart, RowsFollowCaches
  <2>2. muted'[z] <=> (muted[z] \/ Busy(z, {"storing"}) # {})
    BY <1>6 DEF Restart
  <2> QED
    BY <2>1, <2>2 DEF LogEndsInCurrentState
<1>7. CASE Still
  <2>1. Busy(z, {"storing"})' = Busy(z, {"storing"})
    BY <1>7 DEF Still, Busy
  <2> QED
    BY <1>1, <1>7, <2>1 DEF Still
<1> QED
  BY <1>2, <1>3, <1>4, <1>5, <1>6, <1>7, StepKinds

LEMMA NextTelling ==
  ASSUME Types, RowsFollowCaches, StoringInOrder, TellingInOrder, [Next]_vars
  PROVE  TellingInOrder'
<1> SUFFICES ASSUME NEW z \in TrelServices, NEW i \in 1..Len(db'),
                    ~overtaken'[z], Busy(z, {"storing"})' = {},
                    LastIn(db', task', i, z, "telling"), NEW u, u = db'[i]
             PROVE  Carries(u, z)'
  BY DEF TellingInOrder, Carries
<1>0. z \in Services /\ "telling" \in Awaiting
  BY DiscoveryAssumption DEF Awaiting
<1>1. ASSUME NEW t \in Tasks, Follows(t), OthersStay(t), known'[z] = known[z],
             ~overtaken[z], Busy(z, {"storing"}) = {},
             ~(task'[t].srv = z /\ task'[t].at = "telling")
      PROVE  Carries(u, z)'
  <2>1. PICK k \in 1..Len(db) :
          LastIn(db, task, k, z, "telling") /\ db[k] = u /\ task'[u] = task[u]
    BY <1>0, <1>1, LastBefore
  <2> QED
    BY <1>1, <2>1 DEF TellingInOrder, Carries, Visible
<1>2. ASSUME NEW t \in Tasks, Quiet(t)
      PROVE  Carries(u, z)'
  <2>1. Busy(z, {"storing"})' = Busy(z, {"storing"})
    BY <1>2, BusyStays DEF Quiet, Changing
  <2> QED
    BY <1>1, <1>2, <2>1 DEF Quiet, Changing
<1>3. ASSUME NEW t \in Tasks, NEW s \in Services, Begins(t, s)
      PROVE  Carries(u, z)'
  <2>1. z # s
    BY <1>3 DEF Begins, Busy
  <2>2. Busy(z, {"storing"})' = Busy(z, {"storing"})
    BY <1>3, <2>1, BusyStays DEF Begins, Changing
  <2> QED
    BY <1>0, <1>1, <1>3, <2>1, <2>2 DEF Begins
<1>4. ASSUME NEW t \in Tasks, Stored(t)
      PROVE  Carries(u, z)'
  <2>0. PICK s \in Services : s = task[t].srv
    BY <1>4, AnswerMoves DEF Answered
  <2>1. /\ Woken(t, "storing") /\ Follows(t) /\ OthersStay(t) /\ known' = known
        /\ z # s => /\ overtaken'[z] = overtaken[z]
                    /\ task'[t].srv = z => task'[t].at \notin Changing
        /\ Logs(t, s) \/ Skips(t, s)
    BY <1>0, <1>4, <2>0, StoredDoes
  <2>2. CASE z # s
    <3>1. Busy(z, {"storing"})' = Busy(z, {"storing"})
      BY <2>0, <2>1, <2>2, BusyStays DEF Changing
    <3> QED
      BY <1>1, <2>1, <2>2, <3>1 DEF Changing
  <2>3. CASE z = s /\ Logs(t, s)
    <3>1. \A v \in Busy(s, {"storing"}) : v = t
      BY <2>1, <2>3 DEF Busy, OthersStay
    <3>2. Carries(t, s)
      BY <2>0, <2>1, <3>1, StoredCarries
    <3>3. u = t
      BY <1>0, <2>1, <2>3, LastBefore DEF Logs
    <3> QED
      BY <2>1, <2>3, <3>2, <3>3 DEF Logs, Carries, Visible
  <2>4. CASE z = s /\ Skips(t, s)
    <3>1. Busy(s, {"telling"}) = {} /\ task'[t].at # "telling"
      BY <2>4 DEF Skips, Changing
    <3>2. u \in Tasks /\ task'[u] = task[u]
      BY <1>0, <2>1, <3>1, LastBefore
    <3>3. u \in Busy(z, {"telling"})
      BY <3>2 DEF LastIn, Busy
    <3> QED
      BY <2>4, <3>1, <3>3
  <2> QED
    BY <2>1, <2>2, <2>3, <2>4
<1>5. ASSUME NEW t \in Tasks, Told(t)
      PROVE  Carries(u, z)'
  <2>1. /\ task[t].at = "telling" /\ task'[t].at \notin Changing
        /\ Follows(t) /\ OthersStay(t) /\ UNCHANGED <<known, overtaken>>
    BY <1>5, ToldDoes DEF Woken
  <2>2. Busy(z, {"storing"})' = Busy(z, {"storing"})
    BY <2>1, BusyStays DEF Changing
  <2> QED
    BY <1>1, <2>1, <2>2 DEF Changing
<1>6. CASE Restart
  BY <1>6 DEF Restart
<1>7. CASE Still
  <2>1. Busy(z, {"storing"})' = Busy(z, {"storing"})
    BY <1>7 DEF Still, Busy
  <2>2. LastIn(db, task, i, z, "telling") /\ i \in 1..Len(db)
    BY <1>7 DEF Still
  <2> QED
    BY <1>7, <2>1, <2>2 DEF Still, TellingInOrder, Carries, Visible
<1> QED
  BY <1>2, <1>3, <1>4, <1>5, <1>6, <1>7, StepKinds

LEMMA NextPeers ==
  ASSUME Types, RowsFollowCaches, StoringInOrder, TellingInOrder, PeerFollowsService,
         [Next]_vars
  PROVE  PeerFollowsService'
<1> DEFINE Settled(z) == /\ Visible(trel[z]) <=> Visible(known[z])
                         /\ Visible(trel[z]) => trel[z].content = known[z].content
<1> SUFFICES ASSUME NEW z \in TrelServices, ~overtaken'[z], Busy(z, Changing)' = {}
             PROVE  Settled(z)'
  BY DEF PeerFollowsService, Changing, Visible
<1>0. z \in Services
  BY DiscoveryAssumption
<1>1. ASSUME Busy(z, Changing) = {}, ~overtaken[z], known'[z] = known[z],
             trel'[z] = trel[z]
      PROVE  Settled(z)'
  BY <1>1 DEF PeerFollowsService, Visible, Changing
<1>2. ASSUME NEW t \in Tasks, Quiet(t)
      PROVE  Settled(z)'
  <2>1. Busy(z, Changing)' = Busy(z, Changing)
    BY <1>2, BusyStays DEF Quiet
  <2> HIDE DEF Settled
  <2> QED
    BY <1>1, <1>2, <2>1 DEF Quiet
<1>3. ASSUME NEW t \in Tasks, NEW s \in Services, Begins(t, s)
      PROVE  Settled(z)'
  <2>1. z # s
    BY <1>3 DEF Begins, Busy, Changing
  <2>2. Busy(z, Changing)' = Busy(z, Changing)
    BY <1>3, <2>1, BusyStays DEF Begins
  <2> HIDE DEF Settled
  <2> QED
    BY <1>0, <1>1, <1>3, <2>1, <2>2 DEF Begins
<1>4. ASSUME NEW t \in Tasks, Stored(t)
      PROVE  Settled(z)'
  <2>0. PICK s \in Services : s = task[t].srv
    BY <1>4, AnswerMoves DEF Answered
  <2>1. /\ Woken(t, "storing") /\ OthersStay(t) /\ known' = known
        /\ task[t].kind \in {"added", "changed", "removed"}
        /\ z # s => /\ overtaken'[z] = overtaken[z]
                    /\ task'[t].srv = z => task'[t].at \notin Changing
        /\ Logs(t, s) \/ Skips(t, s)
    BY <1>0, <1>4, <2>0, StoredDoes
  <2>2. CASE z # s
    <3>1. Busy(z, Changing)' = Busy(z, Changing)
      BY <2>0, <2>1, <2>2, BusyStays
    <3>2. trel'[z] = trel[z]
      BY <2>0, <2>1, <2>2, PeerUpdateMoves DEF Logs, Skips
    <3> HIDE DEF Settled
    <3> QED
      BY <1>1, <2>1, <2>2, <3>1, <3>2
  <2>3. CASE z = s
    <3>1. Skips(t, s)
      BY <2>1, <2>3 DEF Logs, Busy, Changing
    <3>2. \A v \in Busy(s, {"storing"}) : v = t
      BY <2>1, <2>3 DEF Busy, OthersStay, Changing
    <3>3. Carries(t, s)
      BY <2>0, <2>1, <3>2, StoredCarries
    <3>4. Settled(z)'
      BY <2>0, <2>1, <2>3, <3>1, <3>3, PeerSettles DEF Skips, Kinds, Visible
    <3> QED
      BY <3>4
  <2> QED
    BY <2>2, <2>3
<1>5. ASSUME NEW t \in Tasks, Told(t)
      PROVE  Settled(z)'
  <2>0. PICK s \in Services : s = task[t].srv
    BY <1>5, ToldDoes
  <2>1. /\ Woken(t, "telling") /\ task[t].kind \in {"added", "changed", "removed"}
        /\ task'[t].at \notin Changing /\ OthersStay(t) /\ UpdatePeer(t)
        /\ UNCHANGED <<known, overtaken>>
    BY <1>5, ToldDoes
  <2>2. CASE z # s
    <3>1. Busy(z, Changing)' = Busy(z, Changing)
      BY <2>0, <2>1, <2>2, BusyStays
    <3>2. trel'[z] = trel[z]
      BY <2>0, <2>1, <2>2, PeerUpdateMoves
    <3> HIDE DEF Settled
    <3> QED
      BY <1>1, <2>1, <2>2, <3>1, <3>2
  <2>3. CASE z = s
    <3>1. \A v \in Busy(s, {"telling"}) : v = t
      BY <2>1, <2>3 DEF Busy, OthersStay, Changing
    <3>2. Busy(s, {"storing"}) = {}
      BY <2>1, <2>3 DEF Busy, OthersStay, Changing, Woken
    <3>3. 1 \in 1..Len(db) /\ db[1] = t /\ LastIn(db, task, 1, s, "telling")
      BY <2>0, <2>1, <3>1, OnlyIsLast
    <3>4. Carries(t, s)
      BY <2>1, <2>3, <3>2, <3>3 DEF TellingInOrder
    <3>5. Settled(z)'
      BY <2>0, <2>1, <2>3, <3>4, PeerSettles DEF Kinds, Visible
    <3> QED
      BY <3>5
  <2> QED
    BY <2>2, <2>3
<1>6. CASE Restart
  <2>1. known' = known /\ trel' = trelRow
    BY <1>6 DEF Restart, RowsFollowCaches
  <2>2. ~overtaken[z] /\ Busy(z, Changing) = {} /\ ~clobbered[z]
    BY <1>0, <1>6 DEF Restart, Changing
  <2> QED
    BY <2>1, <2>2 DEF RowsFollowCaches, PeerFollowsService, Visible, Changing
<1>7. CASE Still
  <2>1. Busy(z, Changing)' = Busy(z, Changing)
    BY <1>7 DEF Still, Busy
  <2> HIDE DEF Settled
  <2> QED
    BY <1>1, <1>7, <2>1 DEF Still
<1> QED
  BY <1>2, <1>3, <1>4, <1>5, <1>6, <1>7, StepKinds

-----------------------------------------------------------------------------
(* The theorems.                                                           *)

LEMMA InitIInv == Init => IInv
<1> SUFFICES ASSUME Init PROVE IInv
  OBVIOUS
<1>1. Types
  BY InitTypes
<1>2. \A t \in Tasks : task[t].at = "idle"
  BY IdleTask DEF Init
<1>3. /\ \A s \in Services : /\ ~present[s] /\ known[s] = Absent
                             /\ logged[s] = "nothing"
      /\ \A s \in TrelServices : /\ trel[s] = Absent /\ trelRow[s] = Absent
                                 /\ cycle.listed[s] = Absent
      /\ row = known /\ db = <<>>
  BY DEF Init, None, NothingListed
<1>4. RowsFollowCaches /\ ListedFollowsCache
  BY <1>3 DEF RowsFollowCaches, ListedFollowsCache
<1>5. MirrorsOrResolves
  BY <1>2, <1>3 DEF MirrorsOrResolves, Busy, Visible
<1>6. StoringInOrder /\ TellingInOrder
  BY <1>3 DEF StoringInOrder, TellingInOrder
<1>7. LogEndsInCurrentState
  BY <1>3 DEF LogEndsInCurrentState, Visible
<1>8. PeerFollowsService
  BY <1>3, DiscoveryAssumption DEF PeerFollowsService, Visible
<1> QED
  BY <1>1, <1>4, <1>5, <1>6, <1>7, <1>8 DEF IInv

\* The invariant is inductive: no interleaving of callbacks, answers of the database,
\* correlations and restarts leaves it.
THEOREM SpecIInv == Spec => []IInv
<1>1. IInv /\ [Next]_vars => IInv'
  BY NextTypes, NextRows, NextMirrors, NextStoring, NextLog, NextTelling, NextPeers
     DEF IInv
<1> QED
  BY <1>1, InitIInv, PTL DEF Spec

\* The state keeps its types; the queue holds each task that awaits the database once.
THEOREM TypeCorrect == Spec => []TypeOK
<1>1. IInv => TypeOK
  BY DEF IInv, Types
<1> QED
  BY <1>1, SpecIInv, PTL

\* What is stored is what the observer's caches hold (_persist_mdns, _persist_trel),
\* except where a correlation wrote back an older copy.
THEOREM RowsCorrect == Spec => []RowsFollowCaches
<1>1. IInv => RowsFollowCaches
  BY DEF IInv
<1> QED
  BY <1>1, SpecIInv, PTL

\* Once its resolutions are done, the cache shows what the browser has
\* (process_service_added, process_service_updated, process_service_removed),
\* unless a callback was missed.
THEOREM CacheMirrorsBrowser == Spec => []MirrorsBrowser
<1>1. Types /\ MirrorsOrResolves => MirrorsBrowser
  BY DEF MirrorsOrResolves, MirrorsBrowser, Types, TypeOK
<1>2. IInv => MirrorsBrowser
  BY <1>1 DEF IInv
<1> QED
  BY <1>2, SpecIInv, PTL

\* The last event stored for a service agrees with the cache, however the tasks of
\* its callbacks interleave (_emit_mdns_event).
THEOREM LogCorrect == Spec => []LogEndsInCurrentState
<1>1. IInv => LogEndsInCurrentState
  BY DEF IInv
<1> QED
  BY <1>1, SpecIInv, PTL

\* When no change is on its way, the TREL record of a service agrees with the service
\* (_upsert_trel), unless a task with a suppressed event overtook another.
THEOREM PeersCorrect == Spec => []PeerFollowsService
<1>1. IInv => PeerFollowsService
  BY DEF IInv
<1> QED
  BY <1>1, SpecIInv, PTL
=============================================================================
