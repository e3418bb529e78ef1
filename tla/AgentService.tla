---------------------------- MODULE AgentService ----------------------------
(***************************************************************************)
(* The agents of the agent service, over the configurations that operators *)
(* change meanwhile.  POST /agent/invoke and a monitoring run each read    *)
(* their tenant's configuration once, make a model and an agent of it, and *)
(* let the agent call tools.  What an agent may write is proposals and     *)
(* alerts, both keys in Redis.                                             *)
(***************************************************************************)
EXTENDS TenantConfig, Naturals

CONSTANTS
    Agent,         \* invocations and monitoring runs
    Monitor,       \* those that are monitoring runs
    Default,       \* the tenant of the process
    Model,         \* the model strings
    Supported,     \* those the model factory makes a client of
    EnvModel,
    Action,
    DefaultList,   \* getDefaultAllowlist
    Registered,    \* the action types the process's registry knows
    Plugin, Skill, \* ids, known or not
    MaxAlerts,     \* bound: alerts in a behaviour
    MaxTime        \* bound: milliseconds in a behaviour

Ids == [agent : Agent, action : Action]
Alert == [agent : Agent, number : 1..MaxAlerts, at : 0..MaxTime]
Field == {"agentModel", "actionAllowlist", "activePlugins", "activeSkills"}

ASSUME AgentAssumption ==
    /\ Monitor \subseteq Agent /\ Default \in Tenant
    /\ Supported \subseteq Model /\ EnvModel \in Model
    /\ DefaultList \subseteq Action /\ Registered \subseteq Action
    /\ MaxAlerts \in Nat /\ MaxTime \in Nat
    /\ None \notin Tenant \cup Alert
    /\ \A c \in Config : /\ DOMAIN c \subseteq Field
                         /\ "agentModel" \in DOMAIN c => c["agentModel"] \in Model
                         /\ "actionAllowlist" \in DOMAIN c => c["actionAllowlist"] \subseteq Action
                         /\ "activePlugins" \in DOMAIN c => c["activePlugins"] \subseteq Plugin
                         /\ "activeSkills" \in DOMAIN c => c["activeSkills"] \subseteq Skill

VARIABLES
    now,        \* Date.now() when an alert was last sent or its key ran out
    agent,      \* how far each is, or its outcome
    for,        \* its tenant
    settings,   \* the configuration it read
    proposals,  \* proposal:<tenant>:<id>, with the agent that made it
    alerts,     \* alert:<tenant>:<ms>
    sent,       \* how many alerts were sent
    told,       \* history: the alerts an agent was told are sent
    current     \* history: the configurations there were while it waited for its GET

vars == <<configVars, now, agent, for, settings, proposals, alerts, sent, told, current>>

TypeOK ==
    /\ ConfigTypeOK
    /\ now \in 0..MaxTime
    /\ agent \in [Agent -> {"idle", "reading", "running", "ended", "unsupported", "failed"}]
    /\ for \in [Agent -> Tenant \cup {None}]
    /\ settings \in [Agent -> Config]
    /\ proposals \subseteq Ids
    /\ alerts \in [Tenant \X (0..MaxTime) -> Alert \cup {None}]
    /\ sent \in 0..MaxAlerts
    /\ told \subseteq Alert
    /\ current \in [Agent -> SUBSET Config]
    /\ \A i \in Agent : agent[i] # "idle" => for[i] \in Tenant

Init ==
    /\ ConfigInit
    /\ now = 0
    /\ agent = [i \in Agent |-> "idle"]
    /\ for = [i \in Agent |-> None]
    /\ settings = [i \in Agent |-> Empty]
    /\ proposals = {}
    /\ alerts = [k \in Tenant \X (0..MaxTime) |-> None]
    /\ sent = 0
    /\ told = {}
    /\ current = [i \in Agent |-> {}]

\* A field of a configuration, or what stands in for it.
Get(c, f, default) == IF f \in DOMAIN c THEN c[f] ELSE default

\* createModelFromConfig: whether it makes a model or throws.
HasModel(c) == Get(c, "agentModel", EnvModel) \in Supported

\* An empty allowlist permits everything.
Permits(c, a) ==
    LET allowlist == Get(c, "actionAllowlist", DefaultList)
    IN  (allowlist # {} => a \in allowlist) /\ a \in Registered

SkillPlugins(s) ==
    CASE s = "analytics" -> {"ontology/core", "analytics/core"}
      [] s = "monitoring" -> {"ontology/core", "monitoring/core"}
      [] OTHER -> {}

\* The plugins that are activated: the core, those of the skills and those
\* named, each once; ids that are not registered are skipped.
ActivePlugins(i, c) ==
    LET skills == Get(c, "activeSkills", {}) \cup IF i \in Monitor THEN {"monitoring"} ELSE {}
        ids == {"ontology/core"} \cup UNION {SkillPlugins(s) : s \in skills}
                 \cup Get(c, "activePlugins", {})
    IN  ids \cap {"ontology/core", "analytics/core", "monitoring/core"}

\* A request or a tick; its GET is sent.
Invoke(i, t) ==
    /\ agent[i] = "idle"
    /\ i \in Monitor => t = Default
    /\ agent' = [agent EXCEPT ![i] = "reading"]
    /\ for' = [for EXCEPT ![i] = t]
    /\ current' = [current EXCEPT ![i] = {Existing(config[t])}]
    /\ UNCHANGED <<configVars, now, settings, proposals, alerts, sent, told>>

\* The GET is run and answered: the model is made, or throws, and the agent is
\* built, all before anything else is awaited.
Build(i) ==
    /\ agent[i] = "reading"
    /\ LET c == Existing(config[for[i]])
       IN  /\ settings' = [settings EXCEPT ![i] = c]
           /\ agent' = [agent EXCEPT ![i] = IF HasModel(c) THEN "running" ELSE "unsupported"]
    /\ UNCHANGED <<configVars, now, for, proposals, alerts, sent, told, current>>

\* Mutant: the tool asks for the configuration of the moment.
ProposeByCurrent(i, a) ==
    /\ agent[i] = "running"
    /\ Permits(Existing(config[for[i]]), a)
    /\ proposals' = proposals \cup {[agent |-> i, action |-> a]}
    /\ UNCHANGED <<configVars, now, agent, for, settings, alerts, sent, told, current>>

\* propose_action, on a payload that is valid.
Propose(i, a) ==
    /\ agent[i] = "running"
    /\ Permits(settings[i], a)
    /\ proposals' = proposals \cup {[agent |-> i, action |-> a]}
    /\ UNCHANGED <<configVars, now, agent, for, settings, alerts, sent, told, current>>

\* send_alert.  Its time is part of the key: two alerts of a tenant in one
\* millisecond have the same one.
SendAlert(i) ==
    /\ agent[i] = "running" /\ "monitoring/core" \in ActivePlugins(i, settings[i])
    /\ sent < MaxAlerts
    /\ sent' = sent + 1
    /\ now' \in now..MaxTime
    /\ LET alert == [agent |-> i, number |-> sent', at |-> now']
       IN  /\ alerts' = [alerts EXCEPT ![<<for[i], now'>>] = alert]
           /\ told' = told \cup {alert}
    /\ UNCHANGED <<configVars, agent, for, settings, proposals, current>>

\* Redis drops a key when its TTL is over, long after the millisecond of it.
ExpireAlert(k) ==
    /\ alerts[k] # None
    /\ now' \in now..MaxTime /\ k[2] < now'
    /\ alerts' = [alerts EXCEPT ![k] = None]
    /\ UNCHANGED <<configVars, agent, for, settings, proposals, sent, told, current>>

\* The agent answers or throws, or the process stops; what it had sent to
\* Redis has run or never will.
End(i) ==
    /\ agent[i] = "running"
    /\ agent' = [agent EXCEPT ![i] = "ended"]
    /\ UNCHANGED <<configVars, now, for, settings, proposals, alerts, sent, told, current>>

\* The GET fails, or the process stops before it is answered.
Fail(i) ==
    /\ agent[i] = "reading"
    /\ agent' = [agent EXCEPT ![i] = "failed"]
    /\ UNCHANGED <<configVars, now, for, settings, proposals, alerts, sent, told, current>>

\* A step on the configurations, seen by those who wait for one.
Reconfigure ==
    /\ Configure
    /\ current' = [i \in Agent |-> IF agent[i] = "reading"
                                     THEN current[i] \cup {Existing(config'[for[i]])}
                                     ELSE current[i]]
    /\ UNCHANGED <<now, agent, for, settings, proposals, alerts, sent, told>>

Next ==
    \/ Reconfigure
    \/ \E k \in DOMAIN alerts : ExpireAlert(k)
    \/ \E i \in Agent :
          \/ \E t \in Tenant : Invoke(i, t)
          \/ \E a \in Action : Propose(i, a)
          \/ Build(i) \/ SendAlert(i) \/ End(i) \/ Fail(i)

Spec == Init /\ [][Next]_vars

-----------------------------------------------------------------------------
(* Properties.                                                             *)

\* However the configuration changes meanwhile, an agent acts on one that its
\* tenant had between its arrival and the answer of its GET: that one permits
\* every proposal it made, has the plugin if it sent an alert, and has a model
\* unless it was turned down for it.
AgentsFollowAConfig ==
    \A i \in {j \in Agent : agent[j] \in {"running", "ended", "unsupported"}} :
        \E c \in current[i] :
           /\ \A p \in proposals : p.agent = i => Permits(c, p.action)
           /\ \A x \in told : x.agent = i => "monitoring/core" \in ActivePlugins(i, c)
           /\ agent[i] = "unsupported" <=> ~HasModel(c)

=============================================================================
