-------------------------- MODULE MCMonitoringEngine --------------------------
(* Values for TLC: one account on a managed database, a critical cost breach
   of one service and a storage breach of another, and a rule that pauses. *)
EXTENDS MonitoringEngine, TLC
CONSTANTS a1, s1, s2, v1, v2, q1, r1, g1, c1, m1

MCServiceOf == v1 :> s1 @@ v2 :> s2
MCCategory  == v1 :> "cost" @@ v2 :> "storage"

MCUsageLevels == {{q1}, {v1, v2}}
MCBreached    == {{v1, q1}, {v1, v2, q1}}

MCSettings(prot, cats, disc, del, prod) ==
    [protected |-> prot, categories |-> cats, autoDisconnect |-> disc,
     autoDelete |-> del, productionProtected |-> prod]

(* The defaults of a new account; an operator who guards one service; one who
   lets the engine delete. *)
MCDefaults == {MCSettings({}, {"cost"}, TRUE, FALSE, TRUE)}
MCConfigs  == MCDefaults \cup
    {MCSettings({s2}, {"cost", "storage"}, TRUE, TRUE, TRUE),
     MCSettings({}, {"cost", "storage"}, TRUE, TRUE, FALSE)}

MCRule(conds, logic, action, target, approval) ==
    [conditions |-> conds, logic |-> logic, action |-> action, target |-> target,
     approval |-> approval]
MCPause == r1 :> MCRule({q1}, "any", "pause-cluster", s1, FALSE)
MCAgentTarget == [g \in AgentRules |-> s1]

(* What a PUT may make of a rule: one without conditions that joins them by
   "all"; one that asks for approval. *)
MCEmptied == {MCRule({}, "all", "delete", s1, FALSE)}
MCTexts   == MCEmptied \cup {MCRule({v1, v2}, "all", "disconnect", s2, TRUE)}
=============================================================================
