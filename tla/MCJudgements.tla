---- MODULE MCJudgements ----
(* Worlds that differ from a healthy one in at most two respects, and one  *)
(* more; one node with two readable paths; thresholds scaled down.         *)
EXTENDS Judgements

Generous ==
    [role_warning |-> 1, role_degraded |-> 2, availability_warning |-> 1,
     availability_degraded |-> 2, probe_warning |-> 1, probe_degraded |-> 3,
     service_warning |-> 1, service_degraded |-> 2, unavailable_critical |-> 1]

Source(state, role, network) == [state |-> state, role |-> role, network |-> network]
Body(state, role) == <<Source(state, role, "n1")>>

MCBodies ==
    {Body(state, role) : state \in {Null, "disabled", "leader", "router"},
                         role \in {Null, "disabled", "leader"}}
    \cup {<<Source(Null, Null, Null), Source("router", Null, "n1")>>,
          <<Source(Null, Null, Null), Source(Null, "child", Null)>>}

MCAnswers ==
    [node : MCBodies, devices : MCBodies, legacy : MCBodies \cup {Unanswered}]

Good(network) == Row(<<Source("leader", Null, network)>>, Unanswered, Unanswered)
StackDisabled == Row(Body("disabled", Null), Unanswered, Body("disabled", Null))
Contradicted == Row(Body("disabled", Null), Unanswered, Body("leader", "leader"))
Inactive == Row(<<Source(Null, Null, "n1")>>, Unanswered, Unanswered)
NoNetwork == Row(<<Source("router", "router", Null)>>, Unanswered, Unanswered)

Connected == [connected |-> TRUE, inventory |-> TRUE, availability |-> TRUE, unavailable |-> 0]

Base ==
    [configured |-> {"a", "b"}, row_a |-> Good("n1"), row_b |-> Good("n1"),
     changes_a |-> 0, servers |-> {"s"}, server_s |-> Connected, server_t |-> Absent,
     networks |-> {"primary"},
     mdns |-> [enabled |-> TRUE, running |-> TRUE, degraded |-> "no"],
     mdnsFlaps |-> 0, trelFlaps |-> 0, foreignTrel |-> FALSE, logged |-> TRUE,
     relevant |-> TRUE]

Alternatives ==
    [configured |-> {{}, {"a"}},
     row_a |-> {Absent, Unreachable(Absent), Unreachable(Contradicted), StackDisabled,
                Contradicted, Inactive, NoNetwork},
     row_b |-> {Absent, Unreachable(Good("n1")), Unreachable(Contradicted), Contradicted,
                Good("n2")},
     changes_a |-> {1, 2},
     servers |-> {{}, {"t"}, {"s", "t"}},
     server_s |-> {Absent, [Connected EXCEPT !.connected = FALSE],
                   [Connected EXCEPT !.inventory = FALSE, !.availability = FALSE]},
     server_t |-> {Connected, [Connected EXCEPT !.connected = FALSE]},
     networks |-> {{}, {"unknown"}},
     mdns |-> {[enabled |-> FALSE, running |-> FALSE, degraded |-> Null],
               [enabled |-> TRUE, running |-> FALSE, degraded |-> Null],
               [enabled |-> TRUE, running |-> TRUE, degraded |-> Null]},
     mdnsFlaps |-> {1, 2}, trelFlaps |-> {1, 2}, foreignTrel |-> {TRUE},
     logged |-> {FALSE}, relevant |-> {FALSE}]

\* The functions of router and server ids.
Assembled(f) ==
    [configured |-> f.configured, rows |-> [a |-> f.row_a, b |-> f.row_b],
     roleChanges |-> [a |-> f.changes_a, b |-> 0], servers |-> f.servers,
     serverRows |-> [s |-> f.server_s, t |-> f.server_t], networks |-> f.networks,
     mdns |-> f.mdns, mdnsFlaps |-> f.mdnsFlaps, trelFlaps |-> f.trelFlaps,
     foreignTrel |-> f.foreignTrel, logged |-> f.logged, relevant |-> f.relevant]

Changed(f) == UNION {{[f EXCEPT ![k] = v] : v \in Alternatives[k]} : k \in DOMAIN Alternatives}

\* A first server that has never answered.
OneServer ==
    [Base EXCEPT !.configured = {}, !.row_a = Absent, !.row_b = Absent, !.servers = {"t"},
                 !.server_s = Absent, !.server_t = [Connected EXCEPT !.connected = FALSE],
                 !.networks = {}, !.logged = FALSE, !.relevant = FALSE]

MCLivedWorlds == {Assembled(Base)}
MCWorlds ==
    {Assembled(f) : f \in {Base, OneServer} \cup Changed(Base) \cup UNION {Changed(g) : g \in Changed(Base)}}

MCRecords ==
    {Fresh,
     [Fresh EXCEPT !.available = FALSE, !.flaps = 1],
     [Fresh EXCEPT !.available = FALSE, !.flaps = 1, !.down = 1],
     [Fresh EXCEPT !.diagnostics = TRUE, !.ok = "no", !.failures = 1],
     [Fresh EXCEPT !.diagnostics = TRUE, !.ok = "yes", !.failures = 3, !.path = <<1, 6, 0>>],
     [Fresh EXCEPT !.diagnostics = TRUE, !.limited = TRUE, !.unsupported = {<<1, 6, 0>>}],
     [Fresh EXCEPT !.diagnostics = TRUE, !.ok = "yes", !.path = <<1, 6, 0>>, !.ping = "no"]}

OnOff == <<1, 6, 0>>
Covering == <<1, 258, 10>>
MCKeySets == {{OnOff}, {OnOff, Covering}}
MCFallback == <<OnOff>>
MCMaxEvents == [down |-> 1, up |-> 1, generic |-> 2, specific |-> 1]
MCNone == <<>>

\* The age of an outage that is over decides nothing: the next one is dated anew.
View ==
    <<mode, [node EXCEPT !.down = IF node.available THEN 0 ELSE @], log, run, outage,
      replanned, world, answers>>
====
