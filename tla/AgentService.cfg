\* Two agents, one of them a monitoring run, and two requests that change what they read.
CONSTANTS
    t1 = t1
    t2 = t2
    a1 = a1
    a2 = a2
    m1 = m1
    m2 = m2
    i1 = i1
    i2 = i2
    Tenant <- MCTenant
    Request = {r1, r2}
    Config <- MCConfig
    Body <- MCBody
    None = None
    Agent <- MCAgent
    Monitor = {i2}
    Default = t1
    Model <- MCModel
    Supported = {m1}
    EnvModel = m1
    Action <- MCAction
    DefaultList = {a1}
    Registered <- MCAction
    Plugin <- MCPlugin
    Skill <- MCSkill
    MaxAlerts = 2
    MaxTime = 1
CHECK_DEADLOCK FALSE
SPECIFICATION Spec
INVARIANTS
    TypeOK
    ConfigsMerge
    AgentsFollowAConfig
