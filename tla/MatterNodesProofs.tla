-------------------------- MODULE MatterNodesProofs --------------------------
(***************************************************************************)
(* What MatterNodes guarantees for any number of nodes, probing tasks and  *)
(* name pushes.                                                            *)
(***************************************************************************)
EXTENDS MatterNodes, TLAPS

Working == Exposed \cup {"emitting"}

\* A task works on a node, and the session processes one, only when it says so.
WorkHasNode ==
    /\ \A p \in Probers : task[p].at \in Working <=> task[p].node \in Nodes
    /\ session.at = "processing" <=> session.node \in Nodes

Types == TypeOK /\ WorkHasNode

\* Nothing is left of a node whose removal raced with nobody: no record, and no
\* copy that could bring one back.
CleanRemoval ==
    \A n \in Nodes : reported[n] = "removed" /\ ~raced[n] =>
        /\ cache[n] = Absent /\ row[n] = Absent
        /\ ~RunInProgress(n)
        /\ session.node = n => session.existing = Absent

\* A record is there and says what the server said.
Agrees(record, word) ==
    /\ record # Absent
    /\ word = "yes" => record.avail = TRUE
    /\ word = "no" => record.avail = FALSE

\* The record is there, and every record or copy of it that may still be
\* written says what the server said.
CopiesAgree ==
    \A n \in Nodes : reported[n] \in {"yes", "no"} /\ ~raced[n] =>
        /\ Agrees(cache[n], reported[n]) /\ Agrees(row[n], reported[n])
        /\ \A p \in Probers : task[p].node = n /\ task[p].at \in Exposed
                                => Agrees(task[p].copy, reported[n])
        /\ \A q \in Probers \cup Pushers : listed[q][n] # Absent
                                => Agrees(listed[q][n], reported[n])
        /\ session.node = n => Agrees(session.existing, reported[n])

\* There is no record, or it has a result that is no older than this one.
Recent(record, result) == record = Absent \/ record.verdict >= result

\* A node without a record has no probe result to lose, and unless the last
\* result overlapped with a holder of an older copy no copy is older than it.
CopiesAreRecent ==
    \A n \in Nodes :
        /\ cache[n] = Absent => probed[n] = 0
        /\ ~overlapped[n] =>
             /\ Recent(cache[n], probed[n]) /\ Recent(row[n], probed[n])
             /\ \A p \in Probers : task[p].node = n /\ task[p].at \in Exposed
                                     => Recent(task[p].copy, probed[n])
             /\ \A q \in Probers \cup Pushers : Recent(listed[q][n], probed[n])
             /\ session.node = n => /\ Recent(session.existing, probed[n])
                                    /\ session.existing = Absent => probed[n] = 0

IInv ==
    /\ Types
    /\ CacheHasRow
    /\ CleanRemoval
    /\ CopiesAgree
    /\ CopiesAreRecent

-----------------------------------------------------------------------------
(* Records.                                                                *)

\* The mark of a missing record is no record.
LEMMA AbsentIsNoRecord == Absent \notin Record /\ Blank \in Record
<1>1. ASSUME Absent \in Record PROVE FALSE
  <2>1. DOMAIN Absent = {"none"}
    BY DEF Absent
  <2>2. "avail" \in DOMAIN Absent
    BY <1>1 DEF Record
  <2> QED
    BY <2>1, <2>2
<1>2. Blank \in Record
  BY NodesAssumption DEF Blank, Record
<1> QED
  BY <1>1, <1>2

\* What a report makes of the record read before the awaits.
LEMMA ProcessedRecord ==
  ASSUME session.existing \in Stored, session.report \in Reports
  PROVE  /\ Processed \in Record
         /\ session.report = "yes" => Processed.avail = TRUE
         /\ session.report = "no" => Processed.avail = FALSE
         /\ session.report = "missing" /\ session.existing # Absent
              => Processed.avail = session.existing.avail
         /\ session.existing # Absent => Processed.verdict = session.existing.verdict
         /\ session.existing = Absent => Processed.verdict = 0
<1> DEFINE old == IF session.existing = Absent THEN Blank ELSE session.existing
<1>1. old \in Record
  BY AbsentIsNoRecord DEF Stored
<1>2. Processed = IF session.report = "missing" THEN old
                  ELSE [old EXCEPT !.avail = session.report = "yes"]
  BY DEF Processed
<1>3. (session.report = "yes") \in BOOLEAN
  OBVIOUS
<1>4. session.existing = Absent => old.verdict = 0
  BY DEF Blank
<1> QED
  BY <1>1, <1>2, <1>3, <1>4 DEF Record, Reports

-----------------------------------------------------------------------------
(* Types.                                                                  *)

LEMMA InitTypes == Init => Types
<1> SUFFICES ASSUME Init PROVE Types
  OBVIOUS
<1>1. NoSession \in [at : {"idle", "processing"}, node : Nodes \cup {NoNode},
                     report : Reports, existing : Stored]
  BY DEF NoSession, Reports, Stored
<1>2. NoTask \in [at : TaskStates, node : Nodes \cup {NoNode}, copy : Record]
  BY AbsentIsNoRecord DEF NoTask, TaskStates
<1>3. TypeOK
  BY <1>1, <1>2, NodesAssumption DEF Init, TypeOK, Stored, NothingListed
<1>4. WorkHasNode
  BY NodesAssumption DEF Init, WorkHasNode, NoTask, NoSession, Working, Exposed
<1> QED
  BY <1>3, <1>4 DEF Types

\* The tasks of the type invariant.
Task == [at : TaskStates, node : Nodes \cup {NoNode}, copy : Record]

\* A write of a typed record keeps cache and rows typed.
LEMMA StoreTypes ==
  ASSUME TypeOK, NEW n, NEW record \in Record, Store(n, record)
  PROVE  cache' \in [Nodes -> Stored] /\ row' \in [Nodes -> Stored]
  BY DEF TypeOK, Store, Stored

LEMMA RefreshedRecord ==
  ASSUME TypeOK, NEW p \in Probers, task[p].node \in Nodes
  PROVE  Refreshed(p) \in Record
  BY DEF TypeOK, Refreshed, Stored

LEMMA NextTypes == Types /\ [Next]_vars => Types'
<1> SUFFICES ASSUME TypeOK, WorkHasNode, [Next]_vars PROVE TypeOK' /\ WorkHasNode'
  BY DEF Types
<1> USE NodesAssumption
<1> DEFINE Holding == {"asking", "pinging", "rewriting", "capturing", "emitting"}
<1>a. Working = Holding /\ TaskStates = Holding \cup {"idle", "correlating"}
  BY DEF Working, Exposed, TaskStates
<1>b. NoTask.node = NoNode /\ NoTask.copy \in Record
  BY AbsentIsNoRecord DEF NoTask
<1>c. \A p \in Probers : task[p] \in Task
  BY DEF TypeOK, Task
<1>t. ASSUME NEW p \in Probers, NEW x \in Task, task' = [task EXCEPT ![p] = x],
             x.at \in Working <=> x.node \in Nodes, UNCHANGED session
      PROVE  /\ task' \in [Probers -> [at : TaskStates, node : Nodes \cup {NoNode}, copy : Record]]
             /\ WorkHasNode'
  BY <1>t DEF TypeOK, WorkHasNode, Task
<1>1. ASSUME NEW n \in Nodes, NEW report \in Reports, BeginReport(n, report)
      PROVE  TypeOK' /\ WorkHasNode'
  <2>1. session' \in [at : {"idle", "processing"}, node : Nodes \cup {NoNode},
                      report : Reports, existing : Stored]
    BY <1>1 DEF BeginReport, TypeOK
  <2> QED
    BY <1>1, <2>1 DEF BeginReport, TypeOK, WorkHasNode, history
<1>2. CASE FinishReport
  <2>1. session.existing \in Stored /\ session.report \in Reports
    BY DEF TypeOK
  <2>2. cache' \in [Nodes -> Stored] /\ row' \in [Nodes -> Stored]
    BY <1>2, <2>1, ProcessedRecord, StoreTypes DEF FinishReport
  <2>3. session' \in [at : {"idle", "processing"}, node : Nodes \cup {NoNode},
                      report : Reports, existing : Stored]
        /\ session'.at = "idle" /\ session'.node = NoNode
    BY <1>2 DEF FinishReport, NoSession, Reports, Stored
  <2>4. reported' \in [Nodes -> {"never", "unstated", "yes", "no", "removed"}]
    BY <1>2, <2>1 DEF FinishReport, TypeOK, Reports
  <2>5. raced' \in [Nodes -> BOOLEAN]
    <3>1. CopyHeld(session.node) \in BOOLEAN
      BY DEF CopyHeld
    <3>2. (session.report = "missing" /\ raced[session.node]) \in BOOLEAN
      OBVIOUS
    <3> QED
      BY <1>2, <3>1, <3>2 DEF FinishReport, TypeOK
  <2> QED
    BY <1>2, <2>2, <2>3, <2>4, <2>5 DEF FinishReport, TypeOK, WorkHasNode
<1>3. ASSUME NEW n \in Nodes, RemoveNode(n) PROVE TypeOK' /\ WorkHasNode'
  <2>1. raced' \in [Nodes -> BOOLEAN]
    BY <1>3 DEF RemoveNode, RunInProgress, TypeOK
  <2>2. probed' \in [Nodes -> 0..MaxVerdict]
    BY <1>3 DEF RemoveNode, TypeOK
  <2> QED
    BY <1>3, <2>1, <2>2 DEF RemoveNode, TypeOK, Stored, WorkHasNode
<1>4. ASSUME NEW p \in Probers, NEW n \in Nodes, StartProbe(p, n) \/ StartCapture(p, n)
      PROVE  TypeOK' /\ WorkHasNode'
  <2>1. cache[n] \in Record
    BY <1>4 DEF StartProbe, StartCapture, TypeOK, Stored
  <2>2. PICK at \in {"asking", "capturing"} :
           task' = [task EXCEPT ![p] = [at |-> at, node |-> n, copy |-> cache[n]]]
    BY <1>4 DEF StartProbe, StartCapture
  <2>3. [at |-> at, node |-> n, copy |-> cache[n]] \in Task
    BY <1>a, <2>1 DEF Task
  <2> QED
    BY <1>4, <1>a, <1>t, <2>2, <2>3 DEF StartProbe, StartCapture, TypeOK, history
<1>5. ASSUME NEW p \in Probers, SkipProbe(p) PROVE TypeOK' /\ WorkHasNode'
  <2> DEFINE x == [task[p] EXCEPT !.at = "correlating"]
  <2>1. x \in Task /\ x.at \notin Working /\ x.node = NoNode
    BY <1>5, <1>a, <1>c DEF SkipProbe, Task, WorkHasNode
  <2>2. task' = [task EXCEPT ![p] = x]
    BY <1>5 DEF SkipProbe
  <2> HIDE DEF x
  <2> QED
    BY <1>5, <1>t, <2>1, <2>2 DEF SkipProbe, TypeOK, history
<1>6. ASSUME NEW p \in Probers, AttemptEnds(p) PROVE TypeOK' /\ WorkHasNode'
  <2> DEFINE x == [task[p] EXCEPT !.at = "emitting"]
  <2>1. x \in Task /\ x.at = "emitting" /\ x.node \in Nodes
    BY <1>6, <1>a, <1>c DEF AttemptEnds, Task, WorkHasNode
  <2>2. task' = [task EXCEPT ![p] = x]
    BY <1>6 DEF AttemptEnds
  <2>3. cache' \in [Nodes -> Stored] /\ row' \in [Nodes -> Stored]
    BY <1>6, <1>c, StoreTypes DEF AttemptEnds, Task
  <2> QED
    BY <1>6, <1>a, <1>t, <2>1, <2>2, <2>3, ZenonT(40) DEF AttemptEnds, TypeOK, history
<1>7. ASSUME NEW p \in Probers, NextAttempt(p) PROVE TypeOK' /\ WorkHasNode'
  <2> DEFINE x == [task[p] EXCEPT !.at = "asking", !.copy = Refreshed(p)]
  <2>1. task[p].node \in Nodes
    BY <1>7, <1>a DEF NextAttempt, WorkHasNode
  <2>2. x \in Task /\ x.at = "asking" /\ x.node \in Nodes
    BY <1>a, <1>c, <2>1, RefreshedRecord DEF Task
  <2>3. task' = [task EXCEPT ![p] = x]
    BY <1>7 DEF NextAttempt
  <2> QED
    BY <1>7, <1>a, <1>t, <2>2, <2>3 DEF NextAttempt, TypeOK, history
<1>8. ASSUME NEW p \in Probers, Aggregate(p) PROVE TypeOK' /\ WorkHasNode'
  <2> DEFINE record == [Refreshed(p) EXCEPT !.verdict = clock + 1]
             x == [task[p] EXCEPT !.at = "pinging", !.copy = record]
  <2>1. task[p].node \in Nodes
    BY <1>8, <1>a DEF Aggregate, WorkHasNode
  <2>2. clock + 1 \in 0..MaxVerdict
    BY <1>8 DEF Aggregate, TypeOK
  <2>3. record \in Record
    BY <2>1, <2>2, RefreshedRecord DEF Record
  <2>4. x \in Task /\ x.at = "pinging" /\ x.node \in Nodes
    BY <1>a, <1>c, <2>1, <2>3 DEF Task
  <2>5. task' = [task EXCEPT ![p] = x] /\ Store(task[p].node, record)
    BY <1>8 DEF Aggregate
  <2>6. cache' \in [Nodes -> Stored] /\ row' \in [Nodes -> Stored]
    BY <2>3, <2>5, StoreTypes
  <2>7. overlapped' \in [Nodes -> BOOLEAN]
    BY <1>8 DEF Aggregate, CopyHeld, TypeOK
  <2>8. probed' \in [Nodes -> 0..MaxVerdict] /\ clock' \in 0..MaxVerdict
    BY <1>8, <2>2 DEF Aggregate, TypeOK
  <2> HIDE DEF record, x
  <2> QED
    BY <1>8, <1>a, <1>t, <2>4, <2>5, <2>6, <2>7, <2>8 DEF Aggregate, TypeOK
<1>9. ASSUME NEW p \in Probers, PingEnds(p) PROVE TypeOK' /\ WorkHasNode'
  <2>1. PICK answered \in BOOLEAN :
          LET record == [task[p].copy EXCEPT !.ipv6 = answered]
          IN  /\ Store(task[p].node, record)
              /\ task' = [task EXCEPT ![p] =
                     IF PingEnabled THEN [@ EXCEPT !.at = "rewriting", !.copy = record]
                     ELSE [NoTask EXCEPT !.at = "correlating"]]
    BY <1>9 DEF PingEnds
  <2> DEFINE record == [task[p].copy EXCEPT !.ipv6 = answered]
             x == IF PingEnabled THEN [task[p] EXCEPT !.at = "rewriting", !.copy = record]
                  ELSE [NoTask EXCEPT !.at = "correlating"]
  <2>2. task[p].node \in Nodes
    BY <1>9, <1>a DEF PingEnds, WorkHasNode
  <2>3. record \in Record
    BY <1>c DEF Task, Record
  <2>4. x \in Task /\ (x.at \in Working <=> x.node \in Nodes)
    BY <1>a, <1>b, <1>c, <2>2, <2>3 DEF Task, NoTask
  <2>5. task' = [task EXCEPT ![p] = x] /\ Store(task[p].node, record)
    BY <2>1
  <2>6. cache' \in [Nodes -> Stored] /\ row' \in [Nodes -> Stored]
    BY <2>3, <2>5, StoreTypes
  <2> HIDE DEF record, x
  <2> QED
    BY <1>9, <1>t, <2>4, <2>5, <2>6 DEF PingEnds, TypeOK, history
<1>10. ASSUME NEW p \in Probers, RewriteAfterPing(p) PROVE TypeOK' /\ WorkHasNode'
  <2> DEFINE x == [NoTask EXCEPT !.at = "correlating"]
  <2>1. x \in Task /\ x.at \notin Working /\ x.node = NoNode
    BY <1>a, <1>b DEF Task, NoTask
  <2>2. task' = [task EXCEPT ![p] = x]
    BY <1>10 DEF RewriteAfterPing
  <2>3. cache' \in [Nodes -> Stored] /\ row' \in [Nodes -> Stored]
    BY <1>10, <1>c, StoreTypes DEF RewriteAfterPing, Task
  <2> HIDE DEF x
  <2> QED
    BY <1>10, <1>t, <2>1, <2>2, <2>3 DEF RewriteAfterPing, TypeOK, history
<1>11. ASSUME NEW p \in Probers, CaptureEnds(p) PROVE TypeOK' /\ WorkHasNode'
  <2>1. PICK answered \in BOOLEAN : Store(task[p].node, [task[p].copy EXCEPT !.ipv6 = answered])
    BY <1>11 DEF CaptureEnds
  <2>2. PICK next \in {"idle", "correlating"} : task' = [task EXCEPT ![p] = [NoTask EXCEPT !.at = next]]
    BY <1>11 DEF CaptureEnds
  <2>3. [task[p].copy EXCEPT !.ipv6 = answered] \in Record
    BY <1>c DEF Task, Record
  <2>4. cache' \in [Nodes -> Stored] /\ row' \in [Nodes -> Stored]
    BY <2>1, <2>3, StoreTypes
  <2> DEFINE x == [NoTask EXCEPT !.at = next]
  <2>5. x \in Task /\ x.at \notin Working /\ x.node = NoNode
    BY <1>a, <1>b DEF Task, NoTask
  <2> HIDE DEF x
  <2> QED
    BY <1>11, <1>t, <2>2, <2>4, <2>5 DEF CaptureEnds, TypeOK, history, x
<1>12. ASSUME NEW p \in Probers, ProbeRaises(p) PROVE TypeOK' /\ WorkHasNode'
  <2> DEFINE x == [NoTask EXCEPT !.at = IF task[p].at = "capturing" THEN "correlating" ELSE "idle"]
  <2>1. x \in Task /\ x.at \notin Working /\ x.node = NoNode
    BY <1>a, <1>b DEF Task, NoTask
  <2>2. task' = [task EXCEPT ![p] = x]
    BY <1>12 DEF ProbeRaises
  <2> HIDE DEF x
  <2> QED
    BY <1>12, <1>t, <2>1, <2>2 DEF ProbeRaises, TypeOK, history
<1>13. ASSUME NEW p \in Probers, Correlate(p) PROVE TypeOK' /\ WorkHasNode'
  <2>1. NoTask \in Task /\ NoTask.at \notin Working
    BY <1>a, <1>b DEF Task, NoTask
  <2>2. listed' \in [Probers \cup Pushers -> [Nodes -> Stored]]
    BY <1>13 DEF Correlate, TypeOK, Stored
  <2> QED
    BY <1>13, <1>b, <1>t, <2>1, <2>2 DEF Correlate, TypeOK, history
<1>14. ASSUME NEW h \in Pushers, PushNames(h) PROVE TypeOK' /\ WorkHasNode'
  <2>1. listed' \in [Probers \cup Pushers -> [Nodes -> Stored]]
    BY <1>14 DEF PushNames, TypeOK, Stored
  <2> QED
    BY <1>14, <2>1 DEF PushNames, TypeOK, WorkHasNode, history
<1>15. ASSUME NEW q \in Probers \cup Pushers, NEW n \in Nodes, RewriteRow(q, n)
       PROVE  TypeOK' /\ WorkHasNode'
  <2>1. listed[q][n] \in Record
    BY <1>15 DEF RewriteRow, TypeOK, Stored
  <2>2. row' \in [Nodes -> Stored]
    BY <1>15, <2>1 DEF RewriteRow, TypeOK, Stored, Record
  <2>3. listed' \in [Probers \cup Pushers -> [Nodes -> Stored]]
    BY <1>15 DEF RewriteRow, TypeOK, Stored
  <2> QED
    BY <1>15, <2>2, <2>3 DEF RewriteRow, TypeOK, WorkHasNode, history
<1>16. CASE Restart
  <2>1. NoTask \in Task /\ NoTask.at \notin Working
    BY <1>a, <1>b DEF Task, NoTask
  <2>2. NoSession \in [at : {"idle", "processing"}, node : Nodes \cup {NoNode},
                       report : Reports, existing : Stored]
        /\ NoSession.at = "idle" /\ NoSession.node = NoNode
    BY DEF NoSession, Reports, Stored
  <2> QED
    BY <1>16, <1>b, <2>1, <2>2 DEF Restart, TypeOK, WorkHasNode, Task, NothingListed, Stored, history
<1>17. CASE UNCHANGED vars
  BY <1>17 DEF vars, history, TypeOK, WorkHasNode
<1> QED
  BY <1>1, <1>2, <1>3, <1>4, <1>5, <1>6, <1>7, <1>8, <1>9, <1>10, <1>11, <1>12, <1>13,
     <1>14, <1>15, <1>16, <1>17 DEF Next, SessionNext, ProbeNext, EnrichNext

-----------------------------------------------------------------------------
(* Facts about one step.                                                   *)

\* What Store does to node n.
LEMMA StoreEffect ==
  ASSUME TypeOK, NEW m \in Nodes, NEW record, Store(m, record), NEW n \in Nodes
  PROVE  /\ cache'[n] = IF n = m THEN record ELSE cache[n]
         /\ row'[n] = IF n = m THEN record ELSE row[n]
  BY DEF TypeOK, Store

\* A prober that works has a node and a record; whatever it writes onto its
\* copy is a record again.
LEMMA WorkerEffect ==
  ASSUME Types, NEW p \in Probers, task[p].at \in Working
  PROVE  /\ task[p].node \in Nodes /\ task[p].copy \in Record /\ Refreshed(p) \in Record
         /\ \A answered \in BOOLEAN :
               LET record == [task[p].copy EXCEPT !.ipv6 = answered]
               IN  /\ record \in Record
                   /\ record.avail = task[p].copy.avail
                   /\ record.verdict = task[p].copy.verdict
         /\ cache[task[p].node] # Absent => Refreshed(p) = cache[task[p].node]
         /\ cache[task[p].node] = Absent => Refreshed(p) = task[p].copy
<1>1. task[p].node \in Nodes /\ task[p].copy \in Record
  BY DEF Types, TypeOK, WorkHasNode
<1> QED
  BY <1>1, RefreshedRecord DEF Types, Record, Refreshed

\* The steps of a working prober: it writes its own node or nothing, and goes
\* on with that node or with none.
LEMMA ProberEffect ==
  ASSUME Types, NEW p \in Probers,
         \/ AttemptEnds(p) \/ NextAttempt(p) \/ Aggregate(p) \/ PingEnds(p)
         \/ RewriteAfterPing(p) \/ CaptureEnds(p) \/ ProbeRaises(p)
  PROVE  /\ task[p].at \in Working
         /\ \/ \E record \in Record : Store(task[p].node, record)
            \/ UNCHANGED <<cache, row>>
         /\ \E x : task' = [task EXCEPT ![p] = x] /\ x.node \in {task[p].node, NoNode}
         /\ UNCHANGED <<session, listed, reported, raced>>
<1>1. task[p].at \in Working
  BY DEF AttemptEnds, NextAttempt, Aggregate, PingEnds, RewriteAfterPing, CaptureEnds,
         ProbeRaises, Working, Exposed
<1> DEFINE w == task[p]
<1>2. w \in Task /\ w.node \in Nodes /\ w.copy \in Record /\ Refreshed(p) \in Record
  BY <1>1, WorkerEffect DEF Types, TypeOK, Task
<1>3. \A y : [NoTask EXCEPT !.at = y].node = NoNode
  BY DEF NoTask
<1>4. \A y, z : [w EXCEPT !.at = y].node = w.node /\ [w EXCEPT !.at = y, !.copy = z].node = w.node
  BY <1>2 DEF Task
<1>5. CASE AttemptEnds(p)
  BY <1>1, <1>2, <1>4, <1>5 DEF AttemptEnds, history
<1>6. CASE NextAttempt(p)
  <2> DEFINE x == [w EXCEPT !.at = "asking", !.copy = Refreshed(p)]
  <2>1. task' = [task EXCEPT ![p] = x]
    BY <1>6 DEF NextAttempt
  <2>2. x.node = w.node
    BY <1>4
  <2> HIDE DEF x
  <2> QED
    BY <1>1, <1>6, <2>1, <2>2 DEF NextAttempt, history
<1>7. CASE Aggregate(p)
  <2>1. clock + 1 \in 0..MaxVerdict
    BY <1>7, NodesAssumption DEF Aggregate, Types, TypeOK
  <2> DEFINE record == [Refreshed(p) EXCEPT !.verdict = clock + 1]
             x == [w EXCEPT !.at = "pinging", !.copy = record]
  <2>2. record \in Record
    BY <1>2, <2>1 DEF Record
  <2>3. task' = [task EXCEPT ![p] = x] /\ Store(w.node, record)
    BY <1>7 DEF Aggregate
  <2>4. x.node = w.node
    BY <1>4
  <2> HIDE DEF x, record
  <2> QED
    BY <1>1, <1>7, <2>2, <2>3, <2>4 DEF Aggregate
<1>8. CASE PingEnds(p)
  <2>1. PICK answered \in BOOLEAN :
          LET record == [task[p].copy EXCEPT !.ipv6 = answered]
          IN  /\ Store(task[p].node, record)
              /\ task' = [task EXCEPT ![p] =
                     IF PingEnabled THEN [@ EXCEPT !.at = "rewriting", !.copy = record]
                     ELSE [NoTask EXCEPT !.at = "correlating"]]
    BY <1>8 DEF PingEnds
  <2> DEFINE record == [task[p].copy EXCEPT !.ipv6 = answered]
             x == IF PingEnabled THEN [w EXCEPT !.at = "rewriting", !.copy = record]
                  ELSE [NoTask EXCEPT !.at = "correlating"]
  <2>2. record \in Record
    BY <1>1, WorkerEffect
  <2>3. task' = [task EXCEPT ![p] = x] /\ Store(w.node, record)
    BY <2>1
  <2>4. x.node \in {w.node, NoNode}
    BY <1>3, <1>4
  <2> HIDE DEF x, record
  <2> QED
    BY <1>1, <1>8, <2>2, <2>3, <2>4 DEF PingEnds, history
<1>9. CASE RewriteAfterPing(p)
  BY <1>1, <1>2, <1>3, <1>9 DEF RewriteAfterPing, history
<1>10. CASE CaptureEnds(p)
  <2>1. \A answered \in BOOLEAN : [task[p].copy EXCEPT !.ipv6 = answered] \in Record
    BY <1>1, WorkerEffect
  <2> QED
    BY <1>1, <1>3, <1>10, <2>1 DEF CaptureEnds, history
<1>11. CASE ProbeRaises(p)
  BY <1>1, <1>3, <1>11 DEF ProbeRaises, history
<1> QED
  BY <1>5, <1>6, <1>7, <1>8, <1>9, <1>10, <1>11

-----------------------------------------------------------------------------
(* A cached node has a row.                                                *)

LEMMA NextCacheHasRow == Types /\ CacheHasRow /\ [Next]_vars => CacheHasRow'
<1> SUFFICES ASSUME Types, CacheHasRow, [Next]_vars, NEW n \in Nodes, cache'[n] # Absent
             PROVE  row'[n] # Absent
  BY DEF CacheHasRow
<1>1. ASSUME NEW m \in Nodes, NEW record \in Record, Store(m, record) PROVE row'[n] # Absent
  BY <1>1, StoreEffect, AbsentIsNoRecord DEF CacheHasRow, Types
<1>2. CASE UNCHANGED <<cache, row>>
  BY <1>2 DEF CacheHasRow
<1>3. CASE FinishReport
  <2>1. session.node \in Nodes
    BY <1>3 DEF FinishReport, Types, WorkHasNode
  <2>2. Processed \in Record
    BY ProcessedRecord DEF Types, TypeOK
  <2> QED
    BY <1>1, <1>3, <2>1, <2>2 DEF FinishReport
<1>4. ASSUME NEW m \in Nodes, RemoveNode(m) PROVE row'[n] # Absent
  BY <1>4 DEF RemoveNode, CacheHasRow, Types, TypeOK
<1>5. ASSUME NEW p \in Probers, ProbeNext(p) PROVE row'[n] # Absent
  <2>1. CASE \E m \in Nodes : StartProbe(p, m) \/ StartCapture(p, m)
    BY <1>2, <2>1 DEF StartProbe, StartCapture
  <2>2. CASE SkipProbe(p) \/ Correlate(p)
    BY <1>2, <2>2 DEF SkipProbe, Correlate
  <2>3. CASE \/ AttemptEnds(p) \/ NextAttempt(p) \/ Aggregate(p) \/ PingEnds(p)
             \/ RewriteAfterPing(p) \/ CaptureEnds(p) \/ ProbeRaises(p)
    <3>1. task[p].node \in Nodes
      BY <2>3, ProberEffect, WorkerEffect
    <3> QED
      BY <1>1, <1>2, <2>3, <3>1, ProberEffect
  <2> QED
    BY <1>5, <2>1, <2>2, <2>3 DEF ProbeNext
<1>6. ASSUME NEW q \in Probers \cup Pushers, NEW m \in Nodes, RewriteRow(q, m)
      PROVE  row'[n] # Absent
  <2>1. listed[q][m] \in Record
    BY <1>6 DEF RewriteRow, Types, TypeOK, Stored
  <2>2. [listed[q][m] EXCEPT !.name = TRUE] \in Record /\ [listed[q][m] EXCEPT !.ext = TRUE] \in Record
    BY <2>1 DEF Record
  <2> QED
    BY <1>6, <2>2, AbsentIsNoRecord DEF RewriteRow, CacheHasRow, Types, TypeOK
<1>7. CASE Restart
  BY <1>7 DEF Restart
<1>8. CASE \E m \in Nodes, report \in Reports : BeginReport(m, report)
  BY <1>2, <1>8 DEF BeginReport
<1>9. CASE \E h \in Pushers : PushNames(h)
  BY <1>2, <1>9 DEF PushNames
<1>10. CASE UNCHANGED vars
  BY <1>2, <1>10 DEF vars
<1> QED
  BY <1>3, <1>4, <1>5, <1>6, <1>7, <1>8, <1>9, <1>10 DEF Next, SessionNext, EnrichNext

-----------------------------------------------------------------------------
(* A removal that raced with nobody stays clean.                           *)

LEMMA NextCleanRemoval == Types /\ CleanRemoval /\ [Next]_vars => CleanRemoval'
<1> DEFINE Clean(n) ==
      /\ cache[n] = Absent /\ row[n] = Absent
      /\ ~RunInProgress(n)
      /\ session.node = n => session.existing = Absent
<1> SUFFICES ASSUME Types, CleanRemoval, [Next]_vars,
                    NEW n \in Nodes, reported'[n] = "removed", ~raced'[n]
             PROVE  Clean(n)'
  BY DEF CleanRemoval
<1> USE NodesAssumption
<1>a. reported[n] = "removed" /\ ~raced[n] => Clean(n)
  BY DEF CleanRemoval
<1>b. \A q \in Probers \cup Pushers : ~RunInProgress(n) => listed[q][n] = Absent
  BY DEF RunInProgress
<1>c. \A p \in Probers : ~RunInProgress(n) /\ task[p].node = n => task[p].at = "idle"
  BY DEF RunInProgress
<1>d. NoTask.node = NoNode /\ NoTask.at = "idle"
  BY DEF NoTask
<1>1. ASSUME NEW m \in Nodes, NEW report \in Reports, BeginReport(m, report) PROVE Clean(n)'
  BY <1>1, <1>a DEF BeginReport, history, RunInProgress
<1>2. CASE FinishReport
  <2>1. n # session.node
    <3> SUFFICES ASSUME n = session.node PROVE FALSE
      OBVIOUS
    <3>1. session.report = "missing" /\ session.existing # Absent /\ reported[n] = "removed"
      BY <1>2 DEF FinishReport, Types, TypeOK, Reports
    <3>2. ~raced[n]
      BY <1>2, <3>1 DEF FinishReport, Types, TypeOK
    <3> QED
      BY <1>a, <3>1, <3>2
  <2>2. session.node \in Nodes
    BY <1>2 DEF FinishReport, Types, WorkHasNode
  <2>3. Clean(n)
    BY <1>2, <1>a, <2>1 DEF FinishReport, Types, TypeOK
  <2>4. cache'[n] = Absent /\ row'[n] = Absent
    BY <1>2, <2>1, <2>2, <2>3, StoreEffect DEF FinishReport, Types
  <2>5. session'.node # n
    BY <1>2 DEF FinishReport, NoSession
  <2> QED
    BY <1>2, <2>3, <2>4, <2>5 DEF FinishReport, RunInProgress
<1>3. ASSUME NEW m \in Nodes, RemoveNode(m) PROVE Clean(n)'
  <2>1. CASE m = n
    <3>1. ~RunInProgress(n)
      BY <1>3, <2>1 DEF RemoveNode, Types, TypeOK
    <3>2. session.node # n
      BY <1>3 DEF RemoveNode, Types, WorkHasNode
    <3> QED
      BY <1>3, <2>1, <3>1, <3>2 DEF RemoveNode, RunInProgress, Types, TypeOK
  <2>2. CASE m # n
    BY <1>3, <1>a, <2>2 DEF RemoveNode, RunInProgress, Types, TypeOK
  <2> QED
    BY <2>1, <2>2
<1>4. ASSUME NEW p \in Probers, ProbeNext(p) PROVE Clean(n)'
  <2>1. Clean(n) /\ UNCHANGED session
    BY <1>4, <1>a DEF ProbeNext, StartProbe, StartCapture, SkipProbe, AttemptEnds, NextAttempt,
       Aggregate, PingEnds, RewriteAfterPing, CaptureEnds, ProbeRaises, Correlate, history
  <2>2. CASE \E m \in Nodes : StartProbe(p, m) \/ StartCapture(p, m)
    BY <2>1, <2>2, SMTT(25) DEF StartProbe, StartCapture, RunInProgress, Types, TypeOK
  <2>3. CASE SkipProbe(p)
    <3>1. task[p].node # n
      BY <2>3 DEF SkipProbe, Types, WorkHasNode, Working, Exposed
    <3>2. task'[p].node # n /\ \A o \in Probers : o # p => task'[o] = task[o]
      BY <2>3, <3>1 DEF SkipProbe, Types, TypeOK
    <3> QED
      BY <2>1, <2>3, <3>2 DEF SkipProbe, RunInProgress
  <2>4. CASE \/ AttemptEnds(p) \/ NextAttempt(p) \/ Aggregate(p) \/ PingEnds(p)
             \/ RewriteAfterPing(p) \/ CaptureEnds(p) \/ ProbeRaises(p)
    <3>1. task[p].at # "idle" /\ task[p].node # n /\ task[p].node \in Nodes
      BY <1>c, <2>1, <2>4, ProberEffect, WorkerEffect DEF Working, Exposed
    <3>2. cache'[n] = Absent /\ row'[n] = Absent
      BY <2>1, <2>4, <3>1, ProberEffect, StoreEffect DEF Types
    <3>3. task'[p].node # n /\ \A o \in Probers : o # p => task'[o] = task[o]
      BY <2>4, <3>1, ProberEffect DEF Types, TypeOK
    <3> QED
      BY <2>1, <2>4, <3>2, <3>3, ProberEffect DEF RunInProgress
  <2>5. CASE Correlate(p)
    <3>1. \A q \in Probers \cup Pushers : listed'[q][n] = Absent
      BY <1>b, <2>1, <2>5 DEF Correlate, Types, TypeOK
    <3>2. \A o \in Probers : task'[o] = IF o = p THEN NoTask ELSE task[o]
      BY <2>5 DEF Correlate, Types, TypeOK
    <3> QED
      BY <1>d, <2>1, <2>5, <3>1, <3>2 DEF Correlate, RunInProgress
  <2> QED
    BY <1>4, <2>2, <2>3, <2>4, <2>5 DEF ProbeNext
<1>5. ASSUME NEW h \in Pushers, PushNames(h) PROVE Clean(n)'
  <2>1. Clean(n)
    BY <1>5, <1>a DEF PushNames, history
  <2>2. \A q \in Probers \cup Pushers : listed'[q][n] = Absent
    BY <1>5, <1>b, <2>1 DEF PushNames, Types, TypeOK
  <2> QED
    BY <1>5, <2>1, <2>2 DEF PushNames, RunInProgress
<1>6. ASSUME NEW q \in Probers \cup Pushers, NEW m \in Nodes, RewriteRow(q, m) PROVE Clean(n)'
  <2>1. Clean(n)
    BY <1>6, <1>a DEF RewriteRow, history
  <2>2. m # n
    BY <1>6, <1>b, <2>1 DEF RewriteRow
  <2>3. row'[n] = Absent /\ \A o \in Probers \cup Pushers : listed'[o][n] = Absent
    BY <1>6, <1>b, <2>1, <2>2 DEF RewriteRow, Types, TypeOK
  <2> QED
    BY <1>6, <2>1, <2>3 DEF RewriteRow, RunInProgress
<1>7. CASE Restart
  <2>1. Clean(n)
    BY <1>7, <1>a DEF Restart, history
  <2> QED
    BY <1>7, <1>d, <2>1 DEF Restart, RunInProgress, NothingListed, NoSession
<1>8. CASE UNCHANGED vars
  BY <1>8, <1>a DEF vars, history, RunInProgress
<1> QED
  BY <1>1, <1>2, <1>3, <1>4, <1>5, <1>6, <1>7, <1>8 DEF Next, SessionNext, EnrichNext

-----------------------------------------------------------------------------
(* Every copy that may still be written agrees with the server.            *)

LEMMA NextCopiesAgree ==
  Types /\ CacheHasRow /\ CopiesAgree /\ [Next]_vars => CopiesAgree'
<1> DEFINE Agree(n, a) ==
             /\ Agrees(cache[n], a) /\ Agrees(row[n], a)
             /\ \A p \in Probers : task[p].node = n /\ task[p].at \in Exposed
                                     => Agrees(task[p].copy, a)
             /\ \A q \in Probers \cup Pushers : listed[q][n] # Absent => Agrees(listed[q][n], a)
             /\ session.node = n => Agrees(session.existing, a)
<1> SUFFICES ASSUME Types, CacheHasRow, CopiesAgree, [Next]_vars,
                    NEW n \in Nodes, reported'[n] \in {"yes", "no"}, ~raced'[n]
             PROVE  Agree(n, reported[n])'
  BY DEF CopiesAgree
<1> USE NodesAssumption
<1>a. reported[n] \in {"yes", "no"} /\ ~raced[n] => Agree(n, reported[n])
  BY DEF CopiesAgree
<1>r. \A record \in Record : record # Absent
  BY AbsentIsNoRecord
<1>d. NoTask.node = NoNode /\ NoSession.node = NoNode
  BY DEF NoTask, NoSession
<1> DEFINE a == reported'[n]
<1>s. ASSUME UNCHANGED <<reported, raced>> PROVE Agree(n, a)
  BY <1>a, <1>s
<1>p. ASSUME NEW p \in Probers, NEW x, task' = [task EXCEPT ![p] = x]
      PROVE  \A o \in Probers : task'[o] = IF o = p THEN x ELSE task[o]
  BY <1>p DEF Types, TypeOK
<1>1. ASSUME NEW m \in Nodes, NEW report \in Reports, BeginReport(m, report)
      PROVE  Agree(n, reported[n])'
  <2>1. Agree(n, a)
    BY <1>1, <1>s DEF BeginReport, history
  <2> QED
    BY <1>1, <2>1 DEF BeginReport, history
<1>2. CASE FinishReport
  <2>1. session.node \in Nodes /\ session.existing \in Stored /\ session.report \in Reports
    BY <1>2 DEF FinishReport, Types, TypeOK, WorkHasNode
  <2>2. session'.node # n
    BY <1>2, <1>d DEF FinishReport
  <2>3. CASE n # session.node
    <3>1. Agree(n, a)
      BY <1>2, <1>a, <2>3 DEF FinishReport, Types, TypeOK
    <3>2. cache'[n] = cache[n] /\ row'[n] = row[n]
      BY <1>2, <2>1, <2>3, StoreEffect DEF FinishReport, Types
    <3> QED
      BY <1>2, <2>2, <3>1, <3>2 DEF FinishReport
  <2>4. CASE n = session.node
    <3>1. raced'[n] = (CopyHeld(n) \/ (session.report = "missing" /\ raced[n]))
      BY <1>2, <2>4 DEF FinishReport, Types, TypeOK
    <3>2. ~CopyHeld(n)
      BY <3>1
    <3>3. cache'[n] = Processed /\ row'[n] = Processed
      BY <1>2, <2>1, <2>4, StoreEffect DEF FinishReport, Types
    <3>4. Processed \in Record /\ Agrees(Processed, a)
      <4>1. CASE session.report = "missing"
        <5>1. ~raced[n] /\ session.existing # Absent /\ reported'[n] = reported[n]
          BY <1>2, <2>4, <3>1, <4>1 DEF FinishReport, Types, TypeOK
        <5>2. Agrees(session.existing, a)
          BY <1>a, <2>4, <5>1 DEF Agrees
        <5> QED
          BY <1>r, <2>1, <4>1, <5>1, <5>2, ProcessedRecord DEF Agrees
      <4>2. CASE session.report # "missing"
        <5>1. reported'[n] = session.report
          BY <1>2, <2>4, <4>2 DEF FinishReport, Types, TypeOK
        <5> QED
          BY <1>r, <2>1, <4>2, <5>1, ProcessedRecord DEF Agrees
      <4> QED
        BY <4>1, <4>2
    <3> QED
      BY <1>2, <1>r, <2>2, <3>2, <3>3, <3>4 DEF FinishReport, CopyHeld, Agrees
  <2> QED
    BY <2>3, <2>4
<1>3. ASSUME NEW m \in Nodes, RemoveNode(m) PROVE Agree(n, reported[n])'
  <2>1. m # n
    BY <1>3 DEF RemoveNode, Types, TypeOK
  <2>2. Agree(n, a)
    BY <1>3, <1>a, <2>1 DEF RemoveNode, Types, TypeOK
  <2> QED
    BY <1>3, <2>1, <2>2 DEF RemoveNode, Types, TypeOK
<1>4. ASSUME NEW p \in Probers, NEW m \in Nodes, StartProbe(p, m) \/ StartCapture(p, m)
      PROVE  Agree(n, reported[n])'
  <2>1. Agree(n, a) /\ UNCHANGED <<cache, row, session, listed, reported>>
    BY <1>4, <1>s DEF StartProbe, StartCapture, history
  <2>2. PICK at \in {"asking", "capturing"} :
           task' = [task EXCEPT ![p] = [at |-> at, node |-> m, copy |-> cache[m]]]
    BY <1>4 DEF StartProbe, StartCapture
  <2>3. \A o \in Probers : task'[o] = IF o = p THEN [at |-> at, node |-> m, copy |-> cache[m]]
                                      ELSE task[o]
    BY <1>p, <2>2
  <2> QED
    BY <2>1, <2>3
<1>5. ASSUME NEW p \in Probers, SkipProbe(p) \/ ProbeRaises(p) \/ Correlate(p)
      PROVE  Agree(n, reported[n])'
  <2>1. Agree(n, a) /\ UNCHANGED <<cache, row, session, reported>>
    BY <1>5, <1>s DEF SkipProbe, ProbeRaises, Correlate, history
  <2>2. \A q \in Probers \cup Pushers : listed'[q][n] \in {listed[q][n], row[n], Absent}
    <3>1. CASE SkipProbe(p) \/ ProbeRaises(p)
      BY <3>1 DEF SkipProbe, ProbeRaises
    <3>2. CASE Correlate(p)
      BY <3>2 DEF Correlate, Types, TypeOK
    <3> QED
      BY <1>5, <3>1, <3>2
  <2>3. PICK x : task' = [task EXCEPT ![p] = x] /\ x.at \notin Exposed
    <3>1. CASE SkipProbe(p)
      <4>1. [task[p] EXCEPT !.at = "correlating"].at = "correlating"
        BY DEF Types, TypeOK
      <4> QED
        BY <3>1, <4>1 DEF SkipProbe, Exposed
    <3>2. CASE ProbeRaises(p)
      <4> DEFINE x == [NoTask EXCEPT !.at = IF task[p].at = "capturing" THEN "correlating" ELSE "idle"]
      <4>1. x.at \notin Exposed
        BY DEF NoTask, Exposed
      <4>2. task' = [task EXCEPT ![p] = x]
        BY <3>2 DEF ProbeRaises
      <4> HIDE DEF x
      <4> QED
        BY <4>1, <4>2
    <3>3. CASE Correlate(p)
      <4>1. NoTask.at \notin Exposed
        BY DEF NoTask, Exposed
      <4> QED
        BY <3>3, <4>1 DEF Correlate
    <3> QED
      BY <1>5, <3>1, <3>2, <3>3
  <2>4. \A o \in Probers : task'[o] = IF o = p THEN x ELSE task[o]
    BY <1>p, <2>3
  <2> QED
    BY <2>1, <2>2, <2>3, <2>4
<1>6. ASSUME NEW p \in Probers,
             \/ AttemptEnds(p) \/ NextAttempt(p) \/ Aggregate(p) \/ PingEnds(p)
             \/ RewriteAfterPing(p) \/ CaptureEnds(p)
      PROVE  Agree(n, reported[n])'
  <2>1. Agree(n, a) /\ UNCHANGED <<session, listed, reported>>
    BY <1>6, <1>s, ProberEffect
  <2>2. task[p].at \in Working /\ task[p].node \in Nodes
    BY <1>6, ProberEffect, WorkerEffect
  <2>3. PICK record, x :
           /\ record \in Record
           /\ Store(task[p].node, record) \/ UNCHANGED <<cache, row>>
           /\ task' = [task EXCEPT ![p] = x]
           /\ task[p].node = n =>
                /\ Store(task[p].node, record) => Agrees(record, a)
                /\ x.at \in Exposed /\ x.node = n => Agrees(x.copy, a)
    <3> DEFINE w == task[p]
    <3>1. w \in Task /\ w.copy \in Record /\ Refreshed(p) \in Record
      BY <2>2, WorkerEffect DEF Types, TypeOK, Task
    <3>2. w.node = n => Agrees(Refreshed(p), a)
      BY <2>1, <2>2, WorkerEffect DEF Agrees
    <3>3. w.node = n /\ w.at \in Exposed => Agrees(w.copy, a)
      BY <2>1
    <3>4. \A y : [NoTask EXCEPT !.at = y].node = NoNode
      BY DEF NoTask
    <3>5. CASE AttemptEnds(p)
      <4> DEFINE x == [w EXCEPT !.at = "emitting"]
      <4>1. x.at \notin Exposed
        BY <3>1 DEF Task, Exposed
      <4>2. w.at \in Exposed /\ Store(w.node, w.copy) /\ task' = [task EXCEPT ![p] = x]
        BY <3>5 DEF AttemptEnds, Exposed
      <4> HIDE DEF x
      <4> QED
        BY <3>1, <3>3, <4>1, <4>2 DEF Agrees
    <3>6. CASE NextAttempt(p)
      <4> DEFINE x == [w EXCEPT !.at = "asking", !.copy = Refreshed(p)]
      <4>1. x.copy = Refreshed(p)
        BY <3>1 DEF Task
      <4>2. UNCHANGED <<cache, row>> /\ task' = [task EXCEPT ![p] = x]
        BY <3>6 DEF NextAttempt
      <4>3. w.node = n => Agrees(cache[n], a)
        BY <2>1
      <4> HIDE DEF x
      <4>4. Store(w.node, Refreshed(p)) /\ w.node = n => Agrees(Refreshed(p), a)
        BY <3>2 DEF Agrees
      <4> QED
        BY <3>1, <3>2, <4>1, <4>2, <4>4
    <3>7. CASE Aggregate(p)
      <4> DEFINE record == [Refreshed(p) EXCEPT !.verdict = clock + 1]
                 x == [w EXCEPT !.at = "pinging", !.copy = record]
      <4>1. clock + 1 \in 0..MaxVerdict
        BY <3>7 DEF Aggregate, Types, TypeOK
      <4>2. record \in Record /\ record.avail = Refreshed(p).avail
        BY <3>1, <4>1 DEF Record
      <4>3. x.copy = record
        BY <3>1 DEF Task
      <4>4. Store(w.node, record) /\ task' = [task EXCEPT ![p] = x]
        BY <3>7 DEF Aggregate
      <4> HIDE DEF x, record
      <4> QED
        BY <1>r, <3>2, <4>2, <4>3, <4>4 DEF Agrees
    <3>8. CASE PingEnds(p)
      <4>1. PICK answered \in BOOLEAN :
              LET record == [task[p].copy EXCEPT !.ipv6 = answered]
              IN  /\ Store(task[p].node, record)
                  /\ task' = [task EXCEPT ![p] =
                         IF PingEnabled THEN [@ EXCEPT !.at = "rewriting", !.copy = record]
                         ELSE [NoTask EXCEPT !.at = "correlating"]]
        BY <3>8 DEF PingEnds
      <4> DEFINE record == [w.copy EXCEPT !.ipv6 = answered]
                 x == IF PingEnabled THEN [w EXCEPT !.at = "rewriting", !.copy = record]
                      ELSE [NoTask EXCEPT !.at = "correlating"]
      <4>2. record \in Record /\ record.avail = w.copy.avail
        BY <2>2, WorkerEffect
      <4>3. x.copy = record \/ x.node # n
        BY <3>1, <3>4 DEF Task
      <4>4. Store(w.node, record) /\ task' = [task EXCEPT ![p] = x]
        BY <4>1
      <4>5. w.at \in Exposed
        BY <3>8 DEF PingEnds, Exposed
      <4> HIDE DEF x, record
      <4> QED
        BY <1>r, <3>3, <4>2, <4>3, <4>4, <4>5 DEF Agrees
    <3>9. CASE RewriteAfterPing(p)
      <4> DEFINE x == [NoTask EXCEPT !.at = "correlating"]
      <4>1. x.node # n
        BY <3>4
      <4>2. w.at \in Exposed /\ Store(w.node, w.copy) /\ task' = [task EXCEPT ![p] = x]
        BY <3>9 DEF RewriteAfterPing, Exposed
      <4> HIDE DEF x
      <4> QED
        BY <3>1, <3>3, <4>1, <4>2 DEF Agrees
    <3>10. CASE CaptureEnds(p)
      <4>1. PICK answered \in BOOLEAN : Store(w.node, [w.copy EXCEPT !.ipv6 = answered])
        BY <3>10 DEF CaptureEnds
      <4>2. PICK next : task' = [task EXCEPT ![p] = [NoTask EXCEPT !.at = next]]
        BY <3>10 DEF CaptureEnds
      <4> DEFINE record == [w.copy EXCEPT !.ipv6 = answered]
                 x == [NoTask EXCEPT !.at = next]
      <4>3. record \in Record /\ record.avail = w.copy.avail
        BY <2>2, WorkerEffect
      <4>4. x.node # n
        BY <3>4
      <4>5. w.at \in Exposed
        BY <3>10 DEF CaptureEnds, Exposed
      <4>6. Store(w.node, record) /\ task' = [task EXCEPT ![p] = x]
        BY <4>1, <4>2
      <4> HIDE DEF x, record
      <4> QED
        BY <1>r, <3>3, <4>3, <4>4, <4>5, <4>6 DEF Agrees
    <3> QED
      BY <1>6, <3>5, <3>6, <3>7, <3>8, <3>9, <3>10
  <2>4. \A o \in Probers : task'[o] = IF o = p THEN x ELSE task[o]
    BY <1>p, <2>3
  <2>5. Agrees(cache'[n], a) /\ Agrees(row'[n], a)
    BY <1>r, <2>1, <2>2, <2>3, StoreEffect DEF Types
  <2>6. x.node \in {task[p].node, NoNode}
    <3>1. PICK y : task' = [task EXCEPT ![p] = y] /\ y.node \in {task[p].node, NoNode}
      BY <1>6, ProberEffect
    <3>2. task'[p] = y
      BY <1>p, <3>1
    <3> QED
      BY <2>4, <3>1, <3>2
  <2> QED
    BY <2>1, <2>3, <2>4, <2>5, <2>6
<1>7. ASSUME NEW h \in Pushers, PushNames(h) PROVE Agree(n, reported[n])'
  <2>1. Agree(n, a) /\ UNCHANGED <<cache, row, session, task, reported>>
    BY <1>7, <1>s DEF PushNames, history
  <2>2. \A q \in Probers \cup Pushers : listed'[q][n] \in {listed[q][n], row[n], Absent}
    BY <1>7 DEF PushNames, Types, TypeOK
  <2> QED
    BY <2>1, <2>2
<1>8. ASSUME NEW q \in Probers \cup Pushers, NEW m \in Nodes, RewriteRow(q, m)
      PROVE  Agree(n, reported[n])'
  <2>1. Agree(n, a) /\ UNCHANGED <<cache, session, task, reported>>
    BY <1>8, <1>s DEF RewriteRow, history
  <2>2. \A o \in Probers \cup Pushers : listed'[o][n] \in {listed[o][n], Absent}
    BY <1>8 DEF RewriteRow, Types, TypeOK
  <2>3. Agrees(row'[n], a)
    <3>1. listed[q][m] \in Record
      BY <1>8 DEF RewriteRow, Types, TypeOK, Stored
    <3>2. \A record \in {[listed[q][m] EXCEPT !.name = TRUE], [listed[q][m] EXCEPT !.ext = TRUE]} :
             record \in Record /\ record.avail = listed[q][m].avail
      BY <3>1 DEF Record
    <3>3. row'[n] = row[n] \/
          (m = n /\ row'[n] \in {[listed[q][m] EXCEPT !.name = TRUE], [listed[q][m] EXCEPT !.ext = TRUE]})
      BY <1>8 DEF RewriteRow, Types, TypeOK
    <3>4. m = n => Agrees(listed[q][m], a)
      BY <1>8, <2>1 DEF RewriteRow
    <3> QED
      BY <1>r, <2>1, <3>2, <3>3, <3>4 DEF Agrees
  <2> QED
    BY <2>1, <2>2, <2>3
<1>9. CASE Restart
  <2>1. Agree(n, a)
    BY <1>9, <1>s DEF Restart, history
  <2> QED
    BY <1>9, <1>d, <2>1 DEF Restart, history, NothingListed
<1>10. CASE UNCHANGED vars
  <2>1. Agree(n, a)
    BY <1>10, <1>s DEF vars, history
  <2> QED
    BY <1>10, <2>1 DEF vars, history
<1> QED
  BY <1>1, <1>2, <1>3, <1>4, <1>5, <1>6, <1>7, <1>8, <1>9, <1>10
  DEF Next, SessionNext, ProbeNext, EnrichNext

-----------------------------------------------------------------------------
(* No copy is older than the last probe result.                            *)

LEMMA NextCopiesAreRecent ==
  Types /\ CacheHasRow /\ CopiesAreRecent /\ [Next]_vars => CopiesAreRecent'
<1> DEFINE Kept(n, r) ==
             /\ Recent(cache[n], r) /\ Recent(row[n], r)
             /\ \A p \in Probers : task[p].node = n /\ task[p].at \in Exposed
                                     => Recent(task[p].copy, r)
             /\ \A q \in Probers \cup Pushers : Recent(listed[q][n], r)
             /\ session.node = n => /\ Recent(session.existing, r)
                                    /\ session.existing = Absent => r = 0
           Good(n) == /\ cache[n] = Absent => probed[n] = 0
                      /\ ~overlapped[n] => Kept(n, probed[n])
<1> SUFFICES ASSUME Types, CacheHasRow, CopiesAreRecent, [Next]_vars, NEW n \in Nodes
             PROVE  Good(n)'
  BY DEF CopiesAreRecent
<1> USE NodesAssumption
<1>g. Good(n)
  BY DEF CopiesAreRecent
<1>r. \A record \in Record : record # Absent /\ Recent(record, 0)
  BY AbsentIsNoRecord DEF Record, Recent
<1>z. Recent(Absent, probed[n])
  BY DEF Recent
<1>d. NoTask.node = NoNode /\ NoSession.node = NoNode
  BY DEF NoTask, NoSession
<1>p. ASSUME NEW p \in Probers, NEW x, task' = [task EXCEPT ![p] = x]
      PROVE  \A o \in Probers : task'[o] = IF o = p THEN x ELSE task[o]
  BY <1>p DEF Types, TypeOK
<1>1. ASSUME NEW m \in Nodes, NEW report \in Reports, BeginReport(m, report) PROVE Good(n)'
  BY <1>1, <1>g DEF BeginReport, history
<1>2. CASE FinishReport
  <2>1. session.node \in Nodes /\ session.existing \in Stored /\ session.report \in Reports
    BY <1>2 DEF FinishReport, Types, TypeOK, WorkHasNode
  <2>2. session'.node # n
    BY <1>2, <1>d DEF FinishReport
  <2>3. UNCHANGED <<task, listed, probed, overlapped>>
    BY <1>2 DEF FinishReport
  <2>4. CASE n # session.node
    <3>1. cache'[n] = cache[n] /\ row'[n] = row[n]
      BY <1>2, <2>1, <2>4, StoreEffect DEF FinishReport, Types
    <3> QED
      BY <1>g, <2>2, <2>3, <3>1
  <2>5. CASE n = session.node
    <3>1. cache'[n] = Processed /\ row'[n] = Processed
      BY <1>2, <2>1, <2>5, StoreEffect DEF FinishReport, Types
    <3>2. Processed \in Record
      BY <2>1, ProcessedRecord
    <3>3. ~overlapped[n] => Recent(Processed, probed[n])
      <4>1. CASE session.existing = Absent
        BY <1>g, <1>r, <2>5, <3>2, <4>1
      <4>2. CASE session.existing # Absent
        BY <1>g, <2>1, <2>5, <4>2, ProcessedRecord DEF Recent
      <4> QED
        BY <4>1, <4>2
    <3> QED
      BY <1>g, <1>r, <2>2, <2>3, <3>1, <3>2, <3>3
  <2> QED
    BY <2>4, <2>5
<1>3. ASSUME NEW m \in Nodes, RemoveNode(m) PROVE Good(n)'
  <2>1. session.node \notin Nodes /\ UNCHANGED <<session, task, listed, overlapped>>
    BY <1>3 DEF RemoveNode, Types, WorkHasNode
  <2>2. CASE m # n
    <3>1. cache'[n] = cache[n] /\ row'[n] = row[n] /\ probed'[n] = probed[n]
      BY <1>3, <2>2 DEF RemoveNode, Types, TypeOK
    <3> QED
      BY <1>g, <2>1, <3>1
  <2>3. CASE m = n
    <3>1. cache'[n] = Absent /\ row'[n] = Absent /\ probed'[n] = 0
      BY <1>3, <2>3 DEF RemoveNode, Types, TypeOK
    <3>2. \A p \in Probers : Recent(task[p].copy, 0)
      BY <1>r DEF Types, TypeOK
    <3>3. \A q \in Probers \cup Pushers : Recent(listed[q][n], 0)
      BY <1>r DEF Types, TypeOK, Stored, Recent
    <3> QED
      BY <2>1, <3>1, <3>2, <3>3 DEF Recent
  <2> QED
    BY <2>2, <2>3
<1>4. ASSUME NEW p \in Probers, NEW m \in Nodes, StartProbe(p, m) \/ StartCapture(p, m)
      PROVE  Good(n)'
  <2>1. UNCHANGED <<cache, row, session, listed, probed, overlapped>>
    BY <1>4 DEF StartProbe, StartCapture, history
  <2>2. PICK at \in {"asking", "capturing"} :
           task' = [task EXCEPT ![p] = [at |-> at, node |-> m, copy |-> cache[m]]]
    BY <1>4 DEF StartProbe, StartCapture
  <2>3. \A o \in Probers : task'[o] = IF o = p THEN [at |-> at, node |-> m, copy |-> cache[m]]
                                      ELSE task[o]
    BY <1>p, <2>2
  <2> QED
    BY <1>g, <2>1, <2>3
<1>5. ASSUME NEW p \in Probers, SkipProbe(p) \/ ProbeRaises(p) \/ Correlate(p)
      PROVE  Good(n)'
  <2>1. UNCHANGED <<cache, row, session, probed, overlapped>>
    BY <1>5 DEF SkipProbe, ProbeRaises, Correlate, history
  <2>2. \A q \in Probers \cup Pushers : listed'[q][n] \in {listed[q][n], row[n], Absent}
    <3>1. CASE SkipProbe(p) \/ ProbeRaises(p)
      BY <3>1 DEF SkipProbe, ProbeRaises
    <3>2. CASE Correlate(p)
      BY <3>2 DEF Correlate, Types, TypeOK
    <3> QED
      BY <1>5, <3>1, <3>2
  <2>3. PICK x : task' = [task EXCEPT ![p] = x] /\ x.at \notin Exposed
    <3>1. CASE SkipProbe(p)
      <4>1. [task[p] EXCEPT !.at = "correlating"].at = "correlating"
        BY DEF Types, TypeOK
      <4> QED
        BY <3>1, <4>1 DEF SkipProbe, Exposed
    <3>2. CASE ProbeRaises(p)
      <4> DEFINE x == [NoTask EXCEPT !.at = IF task[p].at = "capturing" THEN "correlating" ELSE "idle"]
      <4>1. x.at \notin Exposed
        BY DEF NoTask, Exposed
      <4>2. task' = [task EXCEPT ![p] = x]
        BY <3>2 DEF ProbeRaises
      <4> HIDE DEF x
      <4> QED
        BY <4>1, <4>2
    <3>3. CASE Correlate(p)
      <4>1. NoTask.at \notin Exposed
        BY DEF NoTask, Exposed
      <4> QED
        BY <3>3, <4>1 DEF Correlate
    <3> QED
      BY <1>5, <3>1, <3>2, <3>3
  <2>4. \A o \in Probers : task'[o] = IF o = p THEN x ELSE task[o]
    BY <1>p, <2>3
  <2> QED
    BY <1>g, <1>z, <2>1, <2>2, <2>3, <2>4
<1>6. ASSUME NEW p \in Probers, Aggregate(p) PROVE Good(n)'
  <2> DEFINE w == task[p]
             record == [Refreshed(p) EXCEPT !.verdict = clock + 1]
             x == [w EXCEPT !.at = "pinging", !.copy = record]
  <2>1. w.at \in Working /\ w.node \in Nodes /\ Refreshed(p) \in Record
    BY <1>6, ProberEffect, WorkerEffect
  <2>2. clock + 1 \in 0..MaxVerdict
    BY <1>6 DEF Aggregate, Types, TypeOK
  <2>3. record \in Record /\ record.verdict = clock + 1
    BY <2>1, <2>2 DEF Record
  <2>4. x.copy = record /\ x.node = w.node
    BY DEF Types, TypeOK
  <2>5. Store(w.node, record) /\ task' = [task EXCEPT ![p] = x] /\ UNCHANGED <<session, listed>>
    BY <1>6 DEF Aggregate
  <2> HIDE DEF record, x
  <2>6. \A o \in Probers : task'[o] = IF o = p THEN x ELSE task[o]
    BY <1>p, <2>5
  <2>7. CASE n = w.node
    <3>1. probed'[n] = clock + 1 /\ overlapped'[n] = (session.node = n \/ CopyHeld(n))
      BY <1>6, <2>7 DEF Aggregate, Types, TypeOK
    <3>2. cache'[n] = record /\ row'[n] = record
      BY <2>1, <2>5, <2>7, StoreEffect DEF Types
    <3>3. Recent(record, clock + 1)
      BY <2>2, <2>3 DEF Recent
    <3>4. ASSUME ~overlapped'[n]
          PROVE  /\ session.node # n
                 /\ \A o \in Probers : ~(task[o].node = n /\ task[o].at \in Exposed)
                 /\ \A q \in Probers \cup Pushers : listed[q][n] = Absent
      BY <3>1, <3>4 DEF CopyHeld
    <3> QED
      BY <1>r, <2>3, <2>4, <2>5, <2>6, <3>1, <3>2, <3>3, <3>4 DEF Recent
  <2>8. CASE n # w.node
    <3>1. probed'[n] = probed[n] /\ overlapped'[n] = overlapped[n]
      BY <1>6, <2>8 DEF Aggregate, Types, TypeOK
    <3>2. cache'[n] = cache[n] /\ row'[n] = row[n]
      BY <2>1, <2>5, <2>8, StoreEffect DEF Types
    <3> QED
      BY <1>g, <2>4, <2>5, <2>6, <2>8, <3>1, <3>2
  <2> QED
    BY <2>7, <2>8
<1>7. ASSUME NEW p \in Probers,
             \/ AttemptEnds(p) \/ NextAttempt(p) \/ PingEnds(p)
             \/ RewriteAfterPing(p) \/ CaptureEnds(p)
      PROVE  Good(n)'
  <2>1. UNCHANGED <<session, listed, probed, overlapped>>
    BY <1>7 DEF AttemptEnds, NextAttempt, PingEnds, RewriteAfterPing, CaptureEnds, history
  <2>2. task[p].at \in Working /\ task[p].node \in Nodes
    BY <1>7, ProberEffect, WorkerEffect
  <2> DEFINE Fine(record) == task[p].node = n /\ ~overlapped[n] => Recent(record, probed[n])
  <2>3. PICK record, x :
           /\ record \in Record
           /\ Store(task[p].node, record) \/ UNCHANGED <<cache, row>>
           /\ task' = [task EXCEPT ![p] = x]
           /\ x.node \in {task[p].node, NoNode}
           /\ Store(task[p].node, record) => Fine(record)
           /\ x.at \in Exposed /\ x.node = n => Fine(x.copy)
    <3> DEFINE w == task[p]
    <3>1. w \in Task /\ w.copy \in Record /\ Refreshed(p) \in Record
      BY <2>2, WorkerEffect DEF Types, TypeOK, Task
    <3>2. Fine(Refreshed(p))
      BY <1>g, <1>r, <2>2, <3>1, WorkerEffect
    <3>3. w.at \in Exposed => Fine(w.copy)
      BY <1>g
    <3>4. \A y : [NoTask EXCEPT !.at = y].node = NoNode
      BY DEF NoTask
    <3>5. CASE AttemptEnds(p)
      <4> DEFINE x == [w EXCEPT !.at = "emitting"]
      <4>1. x.at \notin Exposed /\ x.node = w.node
        BY <3>1 DEF Task, Exposed
      <4>2. w.at \in Exposed /\ Store(w.node, w.copy) /\ task' = [task EXCEPT ![p] = x]
        BY <3>5 DEF AttemptEnds, Exposed
      <4> HIDE DEF x
      <4> QED
        BY <3>1, <3>3, <4>1, <4>2
    <3>6. CASE NextAttempt(p)
      <4> DEFINE x == [w EXCEPT !.at = "asking", !.copy = Refreshed(p)]
      <4>1. x.copy = Refreshed(p) /\ x.node = w.node
        BY <3>1 DEF Task
      <4>2. UNCHANGED <<cache, row>> /\ task' = [task EXCEPT ![p] = x]
        BY <3>6 DEF NextAttempt
      <4> HIDE DEF x
      <4> QED
        BY <3>1, <3>2, <4>1, <4>2
    <3>7. CASE PingEnds(p)
      <4>1. PICK answered \in BOOLEAN :
              LET record == [task[p].copy EXCEPT !.ipv6 = answered]
              IN  /\ Store(task[p].node, record)
                  /\ task' = [task EXCEPT ![p] =
                         IF PingEnabled THEN [@ EXCEPT !.at = "rewriting", !.copy = record]
                         ELSE [NoTask EXCEPT !.at = "correlating"]]
        BY <3>7 DEF PingEnds
      <4> DEFINE record == [w.copy EXCEPT !.ipv6 = answered]
                 x == IF PingEnabled THEN [w EXCEPT !.at = "rewriting", !.copy = record]
                      ELSE [NoTask EXCEPT !.at = "correlating"]
      <4>2. record \in Record /\ record.verdict = w.copy.verdict
        BY <2>2, WorkerEffect
      <4>3. (x.copy = record /\ x.node = w.node) \/ x.node = NoNode
        BY <3>1, <3>4 DEF Task
      <4>4. Store(w.node, record) /\ task' = [task EXCEPT ![p] = x]
        BY <4>1
      <4>5. Fine(record)
        BY <1>r, <3>1, <3>3, <3>7, <4>2 DEF PingEnds, Exposed, Recent
      <4> HIDE DEF x, record
      <4> QED
        BY <4>2, <4>3, <4>4, <4>5
    <3>8. CASE RewriteAfterPing(p)
      <4> DEFINE x == [NoTask EXCEPT !.at = "correlating"]
      <4>1. x.node = NoNode
        BY <3>4
      <4>2. w.at \in Exposed /\ Store(w.node, w.copy) /\ task' = [task EXCEPT ![p] = x]
        BY <3>8 DEF RewriteAfterPing, Exposed
      <4> HIDE DEF x
      <4> QED
        BY <3>1, <3>3, <4>1, <4>2
    <3>9. CASE CaptureEnds(p)
      <4>1. PICK answered \in BOOLEAN : Store(w.node, [w.copy EXCEPT !.ipv6 = answered])
        BY <3>9 DEF CaptureEnds
      <4>2. PICK next : task' = [task EXCEPT ![p] = [NoTask EXCEPT !.at = next]]
        BY <3>9 DEF CaptureEnds
      <4> DEFINE record == [w.copy EXCEPT !.ipv6 = answered]
                 x == [NoTask EXCEPT !.at = next]
      <4>3. record \in Record /\ record.verdict = w.copy.verdict
        BY <2>2, WorkerEffect
      <4>4. x.node = NoNode
        BY <3>4
      <4>5. Fine(record)
        BY <1>r, <3>1, <3>3, <3>9, <4>3 DEF CaptureEnds, Exposed, Recent
      <4>6. Store(w.node, record) /\ task' = [task EXCEPT ![p] = x]
        BY <4>1, <4>2
      <4> HIDE DEF x, record
      <4> QED
        BY <4>3, <4>4, <4>5, <4>6
    <3> QED
      BY <1>7, <3>5, <3>6, <3>7, <3>8, <3>9
  <2>4. \A o \in Probers : task'[o] = IF o = p THEN x ELSE task[o]
    BY <1>p, <2>3
  <2>5. /\ cache'[n] = cache[n] \/ (task[p].node = n /\ cache'[n] = record /\ Fine(record))
        /\ row'[n] = row[n] \/ (task[p].node = n /\ row'[n] = record /\ Fine(record))
    BY <2>2, <2>3, StoreEffect DEF Types
  <2> QED
    BY <1>g, <1>r, <2>1, <2>3, <2>4, <2>5
<1>8. ASSUME NEW h \in Pushers, PushNames(h) PROVE Good(n)'
  <2>1. UNCHANGED <<cache, row, session, task, probed, overlapped>>
    BY <1>8 DEF PushNames, history
  <2>2. \A q \in Probers \cup Pushers : listed'[q][n] \in {listed[q][n], row[n], Absent}
    BY <1>8 DEF PushNames, Types, TypeOK
  <2> QED
    BY <1>g, <1>z, <2>1, <2>2
<1>9. ASSUME NEW q \in Probers \cup Pushers, NEW m \in Nodes, RewriteRow(q, m)
      PROVE  Good(n)'
  <2>1. UNCHANGED <<cache, session, task, probed, overlapped>>
    BY <1>9 DEF RewriteRow, history
  <2>2. \A o \in Probers \cup Pushers : listed'[o][n] \in {listed[o][n], Absent}
    BY <1>9 DEF RewriteRow, Types, TypeOK
  <2>3. ~overlapped[n] => Recent(row'[n], probed[n])
    <3>1. listed[q][m] \in Record /\ listed[q][m] # Absent
      BY <1>9 DEF RewriteRow, Types, TypeOK, Stored
    <3>2. \A record \in {[listed[q][m] EXCEPT !.name = TRUE], [listed[q][m] EXCEPT !.ext = TRUE]} :
             record \in Record /\ record.verdict = listed[q][m].verdict
      BY <3>1 DEF Record
    <3>3. row'[n] = row[n] \/
          (m = n /\ row'[n] \in {[listed[q][m] EXCEPT !.name = TRUE], [listed[q][m] EXCEPT !.ext = TRUE]})
      BY <1>9 DEF RewriteRow, Types, TypeOK
    <3>4. m = n /\ ~overlapped[n] => Recent(listed[q][m], probed[n])
      BY <1>g
    <3> QED
      BY <1>g, <3>1, <3>2, <3>3, <3>4 DEF Recent
  <2> QED
    BY <1>g, <1>z, <2>1, <2>2, <2>3
<1>10. CASE Restart
  <2>1. cache' = row /\ UNCHANGED <<row, probed, overlapped>>
    BY <1>10 DEF Restart, history
  <2>2. session'.node # n /\ \A p \in Probers : task'[p].node # n
    BY <1>10, <1>d DEF Restart
  <2>3. \A q \in Probers \cup Pushers : listed'[q][n] = Absent
    BY <1>10 DEF Restart, NothingListed
  <2>4. row[n] = Absent => cache[n] = Absent
    BY DEF CacheHasRow
  <2> QED
    BY <1>g, <1>z, <2>1, <2>2, <2>3, <2>4
<1>11. CASE UNCHANGED vars
  BY <1>11, <1>g DEF vars, history
<1> QED
  BY <1>1, <1>2, <1>3, <1>4, <1>5, <1>6, <1>7, <1>8, <1>9, <1>10, <1>11
  DEF Next, SessionNext, ProbeNext, EnrichNext

-----------------------------------------------------------------------------
(* The theorems.                                                           *)

LEMMA InitIInv == Init => IInv
<1> SUFFICES ASSUME Init PROVE IInv
  OBVIOUS
<1>1. CacheHasRow
  BY DEF Init, CacheHasRow
<1>2. CleanRemoval /\ CopiesAgree
  BY DEF Init, CleanRemoval, CopiesAgree
<1>3. CopiesAreRecent
  BY NodesAssumption DEF Init, CopiesAreRecent, Recent, NothingListed, NoTask, NoSession
<1> QED
  BY <1>1, <1>2, <1>3, InitTypes DEF IInv

\* IInv is an invariant of MatterNodes: types, and what each kind of held copy
\* still has in common with the record.
THEOREM SpecIInv == Spec => []IInv
<1>1. IInv /\ [Next]_vars => IInv'
  BY NextTypes, NextCacheHasRow, NextCleanRemoval, NextCopiesAgree, NextCopiesAreRecent DEF IInv
<1> QED
  BY <1>1, InitIInv, PTL DEF Spec

\* Every record that the session, a probe or an enrichment writes is complete.
THEOREM TypeCorrect == Spec => []TypeOK
<1>1. IInv => TypeOK
  BY DEF IInv, Types
<1> QED
  BY <1>1, SpecIInv, PTL

\* No interleaving of removals, probes, enrichments and restarts leaves a
\* cached node without the row that a restart would load it from.
THEOREM CachedNodesHaveRows == Spec => []CacheHasRow
<1>1. IInv => CacheHasRow
  BY DEF IInv
<1> QED
  BY <1>1, SpecIInv, PTL

\* Only a report processed while a task held an older copy can be undone.
THEOREM AvailabilityFollowsReports == Spec => []AvailabilityIsReported
<1>1. IInv => AvailabilityIsReported
  BY DEF IInv, CopiesAgree, Agrees, AvailabilityIsReported, SaysOtherwise
<1> QED
  BY <1>1, SpecIInv, PTL

\* Only a removal during a probe run or an enrichment of that node can be undone.
THEOREM RemovalsLast == Spec => []RemovedStaysRemoved
<1>1. IInv => RemovedStaysRemoved
  BY DEF IInv, CleanRemoval, RemovedStaysRemoved
<1> QED
  BY <1>1, SpecIInv, PTL

\* Only a probe result written while somebody held an older copy can be lost.
THEOREM ProbeResultsLast == Spec => []ProbeResultIsKept
<1>1. ASSUME IInv PROVE ProbeResultIsKept
  <2> SUFFICES ASSUME NEW n \in Nodes, NEW record \in {cache[n], row[n]} \ {Absent},
                      record.verdict < probed[n], ~overlapped[n]
               PROVE  FALSE
    BY DEF ProbeResultIsKept
  <2>1. record \in Record
    BY <1>1 DEF IInv, Types, TypeOK, Stored
  <2>2. Recent(cache[n], probed[n]) /\ Recent(row[n], probed[n])
    BY <1>1 DEF IInv, CopiesAreRecent
  <2>3. record.verdict >= probed[n]
    BY <2>2 DEF Recent
  <2>4. record.verdict \in Nat /\ probed[n] \in Nat
    BY <1>1, <2>1, NodesAssumption DEF IInv, Types, TypeOK, Record
  <2> QED
    BY <2>3, <2>4
<1> QED
  BY <1>1, SpecIInv, PTL
=============================================================================
