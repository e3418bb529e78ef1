--------------------------- MODULE MCAgentService ---------------------------
(* TLC instance of AgentService.                                           *)
EXTENDS AgentService, TLC

CONSTANTS t1, t2, a1, a2, m1, m2, i1, i2
MCTenant == {t1, t2}
MCAgent == {i1, i2}
MCAction == {a1, a2}
MCModel == {m1, m2}
MCPlugin == {"unknown"}
MCSkill == {"monitoring"}

\* The second body makes the agents of the tenant impossible until the first,
\* or a DELETE, puts that right.
MCBody == {"agentModel" :> m1 @@ "actionAllowlist" :> {},
           "agentModel" :> m2 @@ "activeSkills" :> MCSkill @@ "activePlugins" :> MCPlugin}
MCConfig == MCBody \cup {Empty} \cup {Merge(b, c) : b \in MCBody, c \in MCBody}

=============================================================================
