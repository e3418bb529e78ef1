------------------------- MODULE AgentServiceProofs -------------------------
(***************************************************************************)
(* What the configurations and the agents that read them keep for any      *)
(* number of tenants, requests, agents and alerts.                         *)
(***************************************************************************)
EXTENDS AgentService, TLAPS

(* Configurations.                                                         *)

\* Merging configurations gives a configuration.
LEMMA MergeIsConfig ==
    ASSUME NEW c \in Config, NEW d \in Config
    PROVE  Merge(c, d) \in Config
BY ConfigAssumption

\* No key counts as a configuration without fields.
LEMMA ExistingIsConfig ==
    ASSUME NEW c \in Config \cup {None}
    PROVE  Existing(c) \in Config
BY ConfigAssumption DEF Existing

\* The types of the configurations.
LEMMA ConfigTypeStep ==
    ASSUME ConfigTypeOK, Configure \/ UNCHANGED configVars
    PROVE  ConfigTypeOK'
<1> USE DEF ConfigTypeOK, RequestStep
<1>0. Body \subseteq Config /\ None \notin Tenant
  BY ConfigAssumption, AgentAssumption
<1>1. CASE UNCHANGED configVars
  BY <1>1 DEF configVars
<1>2. ASSUME NEW r \in Request, NEW t \in Tenant, NEW b \in Body, Put(r, t, b)
      PROVE  ConfigTypeOK'
  BY <1>2 DEF Put
<1>3. ASSUME NEW r \in Request, NEW t \in Tenant, Delete(r, t)
      PROVE  ConfigTypeOK'
  BY <1>3 DEF Delete
<1>4. ASSUME NEW r \in Request, GetConfig(r)
      PROVE  ConfigTypeOK'
  <2>1. tenant[r] \in Tenant
    BY <1>4 DEF GetConfig
  <2>2. Existing(config[tenant[r]]) \in Config
    BY <2>1, ExistingIsConfig
  <2> QED
    BY <1>4, <2>2 DEF GetConfig
<1>5. ASSUME NEW r \in Request, request[r] = "writing", Write(r)
      PROVE  /\ config' \in [Tenant -> Config \cup {None}]
             /\ serial' \in [Tenant -> Config \cup {None}]
             /\ lost' \subseteq Tenant
  <2>1. tenant[r] \in Tenant /\ body[r] \in Config /\ found[r] \in Config
    BY <1>0, <1>5
  <2>2. Merge(found[r], body[r]) \in Config /\ Merge(Existing(serial[tenant[r]]), body[r]) \in Config
    BY <2>1, MergeIsConfig, ExistingIsConfig
  <2> QED
    BY <1>5, <2>1, <2>2 DEF Write
<1>6. ASSUME NEW r \in Request, SetConfig(r)
      PROVE  ConfigTypeOK'
  BY <1>5, <1>6 DEF SetConfig
<1>7. ASSUME NEW r \in Request, DelConfig(r)
      PROVE  ConfigTypeOK'
  BY <1>7 DEF DelConfig, Drop
<1>8. ASSUME NEW r \in Request, FailConfig(r)
      PROVE  ConfigTypeOK'
  <2>1. /\ config' \in [Tenant -> Config \cup {None}]
        /\ serial' \in [Tenant -> Config \cup {None}]
        /\ lost' \subseteq Tenant
    <3>1. CASE UNCHANGED <<config, serial, lost>>
      BY <3>1
    <3>2. CASE request[r] = "writing" /\ Write(r)
      BY <3>2, <1>5
    <3>3. CASE request[r] = "deleting" /\ Drop(tenant[r])
      BY <3>3 DEF Drop
    <3> QED
      BY <1>8, <3>1, <3>2, <3>3 DEF FailConfig
  <2> QED
    BY <1>8, <2>1 DEF FailConfig
<1> QED
  BY <1>1, <1>2, <1>3, <1>4, <1>6, <1>7, <1>8 DEF Configure

\* Field f of a configuration of tenant t came with a PUT for it.
Brought(t, f, v) ==
    \E r \in Request : /\ tenant[r] = t /\ body[r] # None
                       /\ f \in DOMAIN body[r] /\ body[r][f] = v

\* What a key holds, and what a PUT found there and is about to write back, was
\* brought; and a DELETE has no body.
AllBrought ==
    /\ \A t \in Tenant : config[t] # None =>
          \A f \in DOMAIN config[t] : Brought(t, f, config[t][f])
    /\ \A r \in Request : request[r] = "writing" =>
          \A f \in DOMAIN found[r] : Brought(tenant[r], f, found[r][f])
    /\ \A r \in Request : request[r] = "idle" => body[r] = None

\* The keys are those of atomic merges where no PUT was out of date.
SerialUnlessLost == \A t \in Tenant : t \notin lost => config[t] = serial[t]

ConfigInv == AllBrought /\ SerialUnlessLost

\* The merge of what was brought, and of a body, was brought.
LEMMA WriteKeeps ==
    ASSUME ConfigTypeOK, ConfigInv, NEW r \in Request, request[r] = "writing", Write(r),
           UNCHANGED <<tenant, body, found>>, NEW s \in RequestStep \ {"idle", "writing"},
           request' = [request EXCEPT ![r] = s]
    PROVE  ConfigInv'
<1> DEFINE t == tenant[r]
           c == Merge(found[r], body[r])
<1>0. t \in Tenant /\ body[r] \in Body /\ body[r] \in Config /\ found[r] \in Config
  BY ConfigAssumption DEF ConfigTypeOK
<1>1. \A u \in Tenant : \A f, v : Brought(u, f, v)' <=> Brought(u, f, v)
  BY DEF Brought
<1>2. \A u \in Tenant : config'[u] = IF u = t THEN c ELSE config[u]
  BY DEF Write, ConfigTypeOK
<1>3. ASSUME NEW f \in DOMAIN c
      PROVE  Brought(t, f, c[f])
  <2>1. CASE f \in DOMAIN body[r]
    <3>1. c[f] = body[r][f] /\ body[r] # None
      BY <1>0, <2>1, ConfigAssumption DEF Merge
    <3> QED
      BY <2>1, <3>1 DEF Brought
  <2>2. CASE f \notin DOMAIN body[r]
    <3>1. f \in DOMAIN found[r] /\ c[f] = found[r][f]
      BY <2>2 DEF Merge
    <3> QED
      BY <3>1 DEF ConfigInv, AllBrought
  <2> QED
    BY <2>1, <2>2
<1> HIDE DEF c
<1>4. AllBrought'
  <2>1. ASSUME NEW u \in Tenant, config'[u] # None, NEW f \in DOMAIN config'[u]
        PROVE  Brought(u, f, config'[u][f])
    BY <1>2, <1>3, <2>1 DEF ConfigInv, AllBrought
  <2>2. ASSUME NEW q \in Request, request'[q] = "writing", NEW f \in DOMAIN found[q]
        PROVE  Brought(tenant[q], f, found[q][f])
    BY <2>2 DEF ConfigInv, AllBrought, ConfigTypeOK
  <2>3. \A q \in Request : request'[q] = "idle" => body[q] = None
    BY DEF ConfigInv, AllBrought, ConfigTypeOK
  <2>4. \A q \in Request : request'[q] = "writing" => tenant[q] \in Tenant
    BY DEF ConfigTypeOK
  <2> QED
    BY <1>1, <2>1, <2>2, <2>3, <2>4 DEF AllBrought
<1>5. SerialUnlessLost'
  <2>1. t \notin lost' => t \notin lost /\ found[r] = Existing(config[t])
    BY <1>0 DEF Write
  <2>2. t \notin lost' => config'[t] = serial'[t]
    BY <1>0, <2>1 DEF Write, ConfigInv, SerialUnlessLost, ConfigTypeOK
  <2>3. \A u \in Tenant \ {t} : config'[u] = config[u] /\ serial'[u] = serial[u]
                                /\ (u \notin lost' => u \notin lost)
    BY <1>0 DEF Write, ConfigTypeOK
  <2> QED
    BY <2>2, <2>3 DEF ConfigInv, SerialUnlessLost
<1> QED
  BY <1>4, <1>5 DEF ConfigInv

\* Every step on the configurations.
LEMMA ConfigStep ==
    ASSUME ConfigTypeOK, ConfigInv, Configure \/ UNCHANGED configVars
    PROVE  ConfigInv'
<1>1. CASE UNCHANGED configVars
  BY <1>1 DEF configVars, ConfigInv, AllBrought, SerialUnlessLost, Brought
<1>2. ASSUME NEW r \in Request, NEW t \in Tenant, NEW b \in Body, Put(r, t, b)
      PROVE  ConfigInv'
  <2>1. \A q \in Request : q # r => tenant'[q] = tenant[q] /\ body'[q] = body[q] /\ request'[q] = request[q]
    BY <1>2 DEF Put, ConfigTypeOK
  <2>2. body[r] = None /\ request'[r] = "reading" /\ UNCHANGED <<config, found, serial, lost>>
    BY <1>2 DEF Put, ConfigInv, AllBrought, ConfigTypeOK
  <2>3. ASSUME NEW u, NEW f, NEW v, Brought(u, f, v)
        PROVE  \E q \in Request : /\ tenant'[q] = u /\ body'[q] # None
                                  /\ f \in DOMAIN body'[q] /\ body'[q][f] = v
    BY <2>1, <2>2, <2>3 DEF Brought
  <2>4. AllBrought'
    <3>1. ASSUME NEW u \in Tenant, config'[u] # None, NEW f \in DOMAIN config'[u]
          PROVE  \E q \in Request : /\ tenant'[q] = u /\ body'[q] # None
                                    /\ f \in DOMAIN body'[q] /\ body'[q][f] = config'[u][f]
      <4>1. Brought(u, f, config[u][f]) /\ config' = config
        BY <2>2, <3>1 DEF ConfigInv, AllBrought
      <4> QED
        BY <4>1, <2>3
    <3>2. ASSUME NEW p \in Request, request'[p] = "writing", NEW f \in DOMAIN found'[p]
          PROVE  \E q \in Request : /\ tenant'[q] = tenant'[p] /\ body'[q] # None
                                    /\ f \in DOMAIN body'[q] /\ body'[q][f] = found'[p][f]
      <4>1. p # r /\ request[p] = "writing" /\ tenant'[p] = tenant[p] /\ found' = found
        BY <2>1, <2>2, <3>2
      <4>2. Brought(tenant[p], f, found[p][f])
        BY <3>2, <4>1 DEF ConfigInv, AllBrought
      <4> QED
        BY <4>1, <4>2, <2>3
    <3>3. \A q \in Request : request'[q] = "idle" => body'[q] = None
      BY <2>1, <2>2 DEF ConfigInv, AllBrought
    <3> QED
      BY <3>1, <3>2, <3>3 DEF AllBrought, Brought
  <2> QED
    BY <2>2, <2>4 DEF ConfigInv, SerialUnlessLost
<1>3. ASSUME NEW r \in Request, NEW t \in Tenant, Delete(r, t)
      PROVE  ConfigInv'
  <2>1. \A q \in Request : /\ q # r => tenant'[q] = tenant[q] /\ request'[q] = request[q]
                           /\ body'[q] = body[q]
    BY <1>3 DEF Delete, ConfigTypeOK
  <2>2. body[r] = None /\ request'[r] = "deleting" /\ UNCHANGED <<config, found, serial, lost>>
    BY <1>3 DEF Delete, ConfigInv, AllBrought, ConfigTypeOK
  <2>3. ASSUME NEW u, NEW f, NEW v, Brought(u, f, v)
        PROVE  \E q \in Request : /\ tenant'[q] = u /\ body'[q] # None
                                  /\ f \in DOMAIN body'[q] /\ body'[q][f] = v
    BY <2>1, <2>2, <2>3 DEF Brought
  <2>4. AllBrought'
    <3>1. ASSUME NEW u \in Tenant, config'[u] # None, NEW f \in DOMAIN config'[u]
          PROVE  \E q \in Request : /\ tenant'[q] = u /\ body'[q] # None
                                    /\ f \in DOMAIN body'[q] /\ body'[q][f] = config'[u][f]
      <4>1. Brought(u, f, config[u][f]) /\ config' = config
        BY <2>2, <3>1 DEF ConfigInv, AllBrought
      <4> QED
        BY <4>1, <2>3
    <3>2. ASSUME NEW p \in Request, request'[p] = "writing", NEW f \in DOMAIN found'[p]
          PROVE  \E q \in Request : /\ tenant'[q] = tenant'[p] /\ body'[q] # None
                                    /\ f \in DOMAIN body'[q] /\ body'[q][f] = found'[p][f]
      <4>1. p # r /\ request[p] = "writing" /\ tenant'[p] = tenant[p] /\ found' = found
        BY <2>1, <2>2, <3>2
      <4>2. Brought(tenant[p], f, found[p][f])
        BY <3>2, <4>1 DEF ConfigInv, AllBrought
      <4> QED
        BY <4>1, <4>2, <2>3
    <3>3. \A q \in Request : request'[q] = "idle" => body'[q] = None
      BY <2>1, <2>2 DEF ConfigInv, AllBrought
    <3> QED
      BY <3>1, <3>2, <3>3 DEF AllBrought, Brought
  <2> QED
    BY <2>2, <2>4 DEF ConfigInv, SerialUnlessLost
<1>4. ASSUME NEW r \in Request, GetConfig(r)
      PROVE  ConfigInv'
  <2>1. UNCHANGED <<config, tenant, body, serial, lost>> /\ tenant[r] \in Tenant
    BY <1>4 DEF GetConfig, ConfigTypeOK
  <2>2. \A f \in DOMAIN found'[r] : Brought(tenant[r], f, found'[r][f])
    <3>1. found'[r] = Existing(config[tenant[r]])
      BY <1>4 DEF GetConfig, ConfigTypeOK
    <3>2. DOMAIN Empty = {}
      BY DEF Empty
    <3> QED
      BY <2>1, <3>1, <3>2 DEF Existing, ConfigInv, AllBrought
  <2>3. \A q \in Request : /\ q # r => request'[q] = request[q] /\ found'[q] = found[q]
                           /\ request'[r] = "writing"
    BY <1>4 DEF GetConfig, ConfigTypeOK
  <2> QED
    BY <2>1, <2>2, <2>3 DEF ConfigInv, AllBrought, SerialUnlessLost, Brought
<1>5. ASSUME NEW r \in Request, SetConfig(r)
      PROVE  ConfigInv'
  BY <1>5, WriteKeeps DEF SetConfig, RequestStep
<1>6. ASSUME NEW r \in Request, NEW s \in RequestStep \ {"idle", "writing"}, request[r] # "idle",
             request' = [request EXCEPT ![r] = s], UNCHANGED <<tenant, body, found>>,
             UNCHANGED <<config, serial, lost>> \/ (tenant[r] \in Tenant /\ Drop(tenant[r]))
      PROVE  ConfigInv'
  <2>1. \A q \in Request : (request'[q] = "writing" => request[q] = "writing")
                           /\ (request'[q] = "idle" => request[q] = "idle")
    BY <1>6 DEF ConfigTypeOK
  <2>2. \A u \in Tenant : config'[u] = config[u] \/ config'[u] = None
    BY <1>6 DEF Drop, ConfigTypeOK
  <2>3. AllBrought'
    BY <1>6, <2>1, <2>2 DEF ConfigInv, AllBrought, Brought
  <2>4. SerialUnlessLost'
    BY <1>6 DEF ConfigInv, SerialUnlessLost, Drop, ConfigTypeOK
  <2> QED
    BY <2>3, <2>4 DEF ConfigInv
<1>7. ASSUME NEW r \in Request, DelConfig(r)
      PROVE  ConfigInv'
  <2>1. tenant[r] \in Tenant
    BY <1>7 DEF DelConfig, ConfigTypeOK
  <2> QED
    BY <1>6, <1>7, <2>1 DEF DelConfig, RequestStep
<1>8. ASSUME NEW r \in Request, FailConfig(r)
      PROVE  ConfigInv'
  <2>1. tenant[r] \in Tenant
    BY <1>8 DEF FailConfig, ConfigTypeOK
  <2>2. CASE request[r] = "writing" /\ Write(r)
    BY <1>8, <2>2, WriteKeeps DEF FailConfig, RequestStep
  <2>3. CASE ~ (request[r] = "writing" /\ Write(r))
    BY <1>6, <1>8, <2>1, <2>3 DEF FailConfig, RequestStep
  <2> QED
    BY <2>2, <2>3
<1> QED
  BY <1>1, <1>2, <1>3, <1>4, <1>5, <1>7, <1>8 DEF Configure

-----------------------------------------------------------------------------
(* Agents.                                                                 *)

\* Every step is a step on the configurations or leaves them alone.
LEMMA ConfigOfNext ==
    ASSUME [Next]_vars
    PROVE  Configure \/ UNCHANGED configVars
BY DEF Next, Reconfigure, Invoke, Build, Propose, SendAlert, ExpireAlert, End, Fail, vars

\* What send_alert stores is an alert, under a key of its tenant.
LEMMA NewAlert ==
    ASSUME TypeOK, NEW i \in Agent, SendAlert(i)
    PROVE  /\ [agent |-> i, number |-> sent', at |-> now'] \in Alert
           /\ <<for[i], now'>> \in Tenant \X (0..MaxTime)
           /\ sent' \in 0..MaxAlerts /\ now' \in 0..MaxTime /\ sent' = sent + 1 /\ sent \in Nat
<1>1. sent' \in 1..MaxAlerts /\ now' \in 0..MaxTime /\ sent' = sent + 1 /\ sent \in Nat
  BY AgentAssumption DEF TypeOK, SendAlert
<1>2. for[i] \in Tenant
  BY DEF TypeOK, SendAlert
<1> QED
  BY <1>1, <1>2, AgentAssumption DEF Alert

\* Every step keeps the types.
LEMMA TypeStep == TypeOK /\ [Next]_vars => TypeOK'
<1> SUFFICES ASSUME TypeOK, [Next]_vars PROVE TypeOK'
  OBVIOUS
<1>1. ConfigTypeOK'
  BY ConfigTypeStep, ConfigOfNext DEF TypeOK
<1>2. ASSUME NEW i \in Agent, NEW t \in Tenant, Invoke(i, t)
      PROVE  TypeOK'
  <2>1. Existing(config[t]) \in Config
    BY ExistingIsConfig DEF TypeOK, ConfigTypeOK
  <2> QED
    BY <1>1, <1>2, <2>1 DEF TypeOK, Invoke
<1>3. ASSUME NEW i \in Agent, Build(i)
      PROVE  TypeOK'
  <2>1. for[i] \in Tenant
    BY <1>3 DEF TypeOK, Build
  <2>2. Existing(config[for[i]]) \in Config
    BY <2>1, ExistingIsConfig DEF TypeOK, ConfigTypeOK
  <2> QED
    BY <1>1, <1>3, <2>2 DEF TypeOK, Build
<1>4. ASSUME NEW i \in Agent, NEW a \in Action, Propose(i, a)
      PROVE  TypeOK'
  BY <1>1, <1>4 DEF TypeOK, Propose, Ids
<1>5. ASSUME NEW i \in Agent, SendAlert(i)
      PROVE  TypeOK'
  <2>1. /\ [agent |-> i, number |-> sent', at |-> now'] \in Alert
        /\ <<for[i], now'>> \in Tenant \X (0..MaxTime)
        /\ sent' \in 0..MaxAlerts /\ now' \in 0..MaxTime
    BY <1>5, NewAlert
  <2>2. /\ alerts' \in [Tenant \X (0..MaxTime) -> Alert \cup {None}]
        /\ told' \subseteq Alert
    BY <1>5, <2>1 DEF TypeOK, SendAlert
  <2> QED
    BY <1>1, <1>5, <2>1, <2>2 DEF TypeOK, SendAlert
<1>6. ASSUME NEW i \in Agent, End(i) \/ Fail(i)
      PROVE  TypeOK'
  BY <1>1, <1>6 DEF TypeOK, End, Fail
<1>7. ASSUME Reconfigure
      PROVE  TypeOK'
  <2>1. \A i \in Agent : agent[i] = "reading" => Existing(config'[for[i]]) \in Config
    BY <1>1, ExistingIsConfig DEF TypeOK, ConfigTypeOK
  <2>2. current' \in [Agent -> SUBSET Config]
    BY <1>7, <2>1 DEF TypeOK, Reconfigure
  <2> QED
    BY <1>1, <1>7, <2>2 DEF TypeOK, Reconfigure
<1>8. ASSUME NEW k \in DOMAIN alerts, ExpireAlert(k)
      PROVE  TypeOK'
  <2>1. alerts[k] \in Alert
    BY <1>8 DEF TypeOK, ExpireAlert
  <2> QED
    BY <1>1, <1>8, <2>1 DEF TypeOK, ExpireAlert
<1>9. CASE UNCHANGED vars
  BY <1>1, <1>9 DEF TypeOK, vars
<1> QED
  BY <1>2, <1>3, <1>4, <1>5, <1>6, <1>7, <1>8, <1>9 DEF Next

Built == {"running", "ended"}

\* What an agent read is one of the configurations there were, and it acts on
\* it alone.
ActsOnSettings ==
    /\ \A i \in Agent :
          /\ agent[i] = "reading" => Existing(config[for[i]]) \in current[i]
          /\ agent[i] \in Built => settings[i] \in current[i] /\ HasModel(settings[i])
          /\ agent[i] = "unsupported" => settings[i] \in current[i] /\ ~HasModel(settings[i])
    /\ \A p \in proposals : agent[p.agent] \in Built /\ Permits(settings[p.agent], p.action)
    /\ \A x \in told : /\ agent[x.agent] \in Built /\ x.number <= sent
                       /\ "monitoring/core" \in ActivePlugins(x.agent, settings[x.agent])

\* The configuration it acts on is its settings.
LEMMA Follows == ActsOnSettings => AgentsFollowAConfig
<1> SUFFICES ASSUME ActsOnSettings, NEW i \in Agent, agent[i] \in {"running", "ended", "unsupported"}
             PROVE  /\ settings[i] \in current[i]
                    /\ \A p \in proposals : p.agent = i => Permits(settings[i], p.action)
                    /\ \A x \in told : x.agent = i => "monitoring/core" \in ActivePlugins(i, settings[i])
                    /\ agent[i] = "unsupported" <=> ~HasModel(settings[i])
  BY DEF AgentsFollowAConfig
<1> QED
  BY DEF ActsOnSettings, Built

\* What an agent did stays its own, and its settings stay as they are.
LEMMA ActsStep == TypeOK /\ ActsOnSettings /\ [Next]_vars => ActsOnSettings'
<1> SUFFICES ASSUME TypeOK, ActsOnSettings, [Next]_vars PROVE ActsOnSettings'
  OBVIOUS
<1> USE DEF TypeOK, ActsOnSettings, Built
<1>0. /\ \A p \in proposals : p.agent \in Agent
      /\ \A x \in told : x.agent \in Agent /\ x.number \in Nat
      /\ sent \in Nat
  BY AgentAssumption DEF Ids, Alert
<1>1. ASSUME NEW i \in Agent, NEW t \in Tenant, Invoke(i, t)
      PROVE  ActsOnSettings'
  BY <1>0, <1>1 DEF Invoke, configVars
<1>2. ASSUME NEW i \in Agent, Build(i)
      PROVE  ActsOnSettings'
  BY <1>0, <1>2 DEF Build, configVars
<1>3. ASSUME NEW i \in Agent, NEW a \in Action, Propose(i, a)
      PROVE  ActsOnSettings'
  <2>1. \A p \in proposals' : p \in proposals \/ (p.agent = i /\ p.action = a)
    BY <1>3 DEF Propose
  <2>2. UNCHANGED <<config, agent, for, settings, sent, told, current>>
    BY <1>3 DEF Propose, configVars
  <2>3. agent[i] = "running" /\ Permits(settings[i], a)
    BY <1>3 DEF Propose
  <2>4. \A p \in proposals' : agent[p.agent] \in Built /\ Permits(settings[p.agent], p.action)
    BY <2>1, <2>3
  <2> QED
    BY <2>2, <2>4
<1>4. ASSUME NEW i \in Agent, SendAlert(i)
      PROVE  ActsOnSettings'
  <2>1. UNCHANGED <<config, agent, for, settings, proposals, current>>
    BY <1>4 DEF SendAlert, configVars
  <2>2. /\ agent[i] = "running" /\ "monitoring/core" \in ActivePlugins(i, settings[i])
        /\ told' = told \cup {[agent |-> i, number |-> sent', at |-> now']}
    BY <1>4 DEF SendAlert
  <2>3. sent' = sent + 1
    BY <1>4, NewAlert
  <2>4. \A x \in told' : /\ agent[x.agent] \in Built /\ x.number <= sent'
                         /\ "monitoring/core" \in ActivePlugins(x.agent, settings[x.agent])
    <3>1. \A x \in told : x.number <= sent'
      BY <1>0, <2>3
    <3>2. sent' <= sent'
      BY <1>0, <2>3
    <3> QED
      BY <2>2, <3>1, <3>2
  <2> QED
    BY <2>1, <2>4
<1>5. ASSUME NEW i \in Agent, End(i) \/ Fail(i)
      PROVE  ActsOnSettings'
  <2>1. UNCHANGED <<config, for, settings, proposals, sent, told, current>>
    BY <1>5 DEF End, Fail, configVars
  <2>2. /\ \A j \in Agent \ {i} : agent'[j] = agent[j]
        /\ (agent[i] = "running" /\ agent'[i] = "ended") \/ (agent[i] = "reading" /\ agent'[i] = "failed")
    BY <1>5 DEF End, Fail
  <2> QED
    BY <1>0, <2>1, <2>2
<1>6. ASSUME Reconfigure
      PROVE  ActsOnSettings'
  <2>1. UNCHANGED <<agent, for, settings, proposals, told, sent>>
    BY <1>6 DEF Reconfigure
  <2>2. \A i \in Agent : current[i] \subseteq current'[i]
                         /\ (agent[i] = "reading" => Existing(config'[for[i]]) \in current'[i])
    BY <1>6 DEF Reconfigure
  <2> QED
    BY <2>1, <2>2 DEF Existing
<1>7. CASE UNCHANGED <<configVars, agent, for, settings, proposals, sent, told, current>>
  BY <1>7 DEF configVars
<1> QED
  BY <1>1, <1>2, <1>3, <1>4, <1>5, <1>6, <1>7 DEF Next, ExpireAlert, vars

-----------------------------------------------------------------------------

IInv == TypeOK /\ ConfigInv /\ ActsOnSettings

\* The inductive invariant holds from the beginning.
LEMMA IInvInit == Init => IInv
<1> SUFFICES ASSUME Init PROVE IInv
  OBVIOUS
<1>1. Empty \in Config /\ MaxAlerts \in Nat /\ MaxTime \in Nat
  BY ConfigAssumption, AgentAssumption
<1>2. TypeOK
  BY <1>1 DEF Init, ConfigInit, TypeOK, ConfigTypeOK, RequestStep
<1>3. ConfigInv
  BY DEF Init, ConfigInit, ConfigInv, AllBrought, SerialUnlessLost
<1>4. ActsOnSettings
  BY DEF Init, ActsOnSettings, Built
<1> QED
  BY <1>2, <1>3, <1>4 DEF IInv

\* Every step keeps it.
LEMMA IInvStep == IInv /\ [Next]_vars => IInv'
<1>1. TypeOK /\ ConfigInv /\ [Next]_vars => ConfigInv'
  BY ConfigStep, ConfigOfNext DEF TypeOK
<1> QED
  BY <1>1, TypeStep, ActsStep DEF IInv

\* Types, configurations, agents and alerts together, for any instance.
THEOREM Invariance == Spec => []IInv
BY IInvInit, IInvStep, PTL DEF Spec

\* Every variable keeps its type.
THEOREM TypeCorrect == Spec => []TypeOK
<1>1. IInv => TypeOK
  BY DEF IInv
<1> QED
  BY <1>1, Invariance, PTL

\* For any number of overlapping PUTs and DELETEs: a key is what atomic merges
\* make of it unless a PUT wrote over what it had not seen, and has no field
\* that no PUT for its tenant brought.
THEOREM ConfigsAreMerged == Spec => []ConfigsMerge
<1>1. IInv => ConfigsMerge
  BY DEF IInv, ConfigInv, AllBrought, SerialUnlessLost, Brought, ConfigsMerge
<1> QED
  BY <1>1, Invariance, PTL

\* An agent acts on one configuration that its tenant had while it waited.
THEOREM AgentsFollow == Spec => []AgentsFollowAConfig
<1>1. IInv => AgentsFollowAConfig
  BY Follows DEF IInv
<1> QED
  BY <1>1, Invariance, PTL

=============================================================================
