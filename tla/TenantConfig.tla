---------------------------- MODULE TenantConfig ----------------------------
(***************************************************************************)
(* The agent configuration of each tenant, one Redis key without expiry.   *)
(* PUT /agent/config/:tenantId reads the key, merges the body over what it *)
(* found and writes the result; DELETE drops the key.  The key is read and *)
(* written by two commands, and requests interleave between them.          *)
(***************************************************************************)
CONSTANTS
    Tenant,
    Request,  \* the PUT and DELETE requests
    Config,   \* configurations: functions from the fields they set
    Body,     \* the bodies that pass ConfigPatchSchema
    None

Empty == [f \in {} |-> None]

\* { ...existing, ...partial }
Merge(c, d) == [f \in DOMAIN c \cup DOMAIN d |-> IF f \in DOMAIN d THEN d[f] ELSE c[f]]

ASSUME ConfigAssumption ==
    /\ Body \subseteq Config /\ Empty \in Config /\ None \notin Config
    /\ \A c, d \in Config : Merge(c, d) \in Config

VARIABLES
    config,   \* the keys
    request,  \* how far a request is, or its answer
    tenant,   \* the tenant in its URL
    body,     \* its body; none of a DELETE
    found,    \* what its GET found, {} for no key
    serial,   \* history: the keys if each PUT had been one atomic merge
    lost      \* history: the tenants with a write, not deleted since, of a PUT
              \* whose GET was out of date

configVars == <<config, request, tenant, body, found, serial, lost>>

RequestStep == {"idle", "reading", "writing", "deleting", "200", "204", "500"}

ConfigTypeOK ==
    /\ config \in [Tenant -> Config \cup {None}]
    /\ request \in [Request -> RequestStep]
    /\ tenant \in [Request -> Tenant \cup {None}]
    /\ body \in [Request -> Body \cup {None}]
    /\ found \in [Request -> Config]
    /\ serial \in [Tenant -> Config \cup {None}]
    /\ lost \subseteq Tenant
    /\ \A r \in Request :
          /\ request[r] # "idle" => tenant[r] \in Tenant
          /\ request[r] \in {"reading", "writing"} => body[r] \in Body

ConfigInit ==
    /\ config = [t \in Tenant |-> None]
    /\ request = [r \in Request |-> "idle"]
    /\ tenant = [r \in Request |-> None]
    /\ body = [r \in Request |-> None]
    /\ found = [r \in Request |-> Empty]
    /\ serial = [t \in Tenant |-> None]
    /\ lost = {}

Existing(c) == IF c = None THEN Empty ELSE c

\* A PUT arrives; its GET is sent.
Put(r, t, b) ==
    /\ request[r] = "idle"
    /\ request' = [request EXCEPT ![r] = "reading"]
    /\ tenant' = [tenant EXCEPT ![r] = t]
    /\ body' = [body EXCEPT ![r] = b]
    /\ UNCHANGED <<config, found, serial, lost>>

\* Mutant: no key is not an empty configuration.
GetConfigRaw(r) ==
    /\ request[r] = "reading"
    /\ request' = [request EXCEPT ![r] = "writing"]
    /\ found' = [found EXCEPT ![r] = config[tenant[r]]]
    /\ UNCHANGED <<config, tenant, body, serial, lost>>

\* Redis runs the GET; its answer is parsed and merged, and the SET is sent.
GetConfig(r) ==
    /\ request[r] = "reading"
    /\ request' = [request EXCEPT ![r] = "writing"]
    /\ found' = [found EXCEPT ![r] = Existing(config[tenant[r]])]
    /\ UNCHANGED <<config, tenant, body, serial, lost>>

\* Mutant: the body replaces the configuration.
WriteBody(r) ==
    LET t == tenant[r] IN
    /\ config' = [config EXCEPT ![t] = body[r]]
    /\ serial' = [serial EXCEPT ![t] = Merge(Existing(serial[t]), body[r])]
    /\ lost' = IF found[r] = Existing(config[t]) THEN lost ELSE lost \cup {t}

\* The SET of what was merged.
Write(r) ==
    LET t == tenant[r] IN
    /\ config' = [config EXCEPT ![t] = Merge(found[r], body[r])]
    /\ serial' = [serial EXCEPT ![t] = Merge(Existing(serial[t]), body[r])]
    /\ lost' = IF found[r] = Existing(config[t]) THEN lost ELSE lost \cup {t}

SetConfig(r) ==
    /\ request[r] = "writing"
    /\ request' = [request EXCEPT ![r] = "200"]
    /\ Write(r)
    /\ UNCHANGED <<tenant, body, found>>

\* DELETE /agent/config/:tenantId.
Delete(r, t) ==
    /\ request[r] = "idle"
    /\ request' = [request EXCEPT ![r] = "deleting"]
    /\ tenant' = [tenant EXCEPT ![r] = t]
    /\ UNCHANGED <<config, body, found, serial, lost>>

Drop(t) ==
    /\ config' = [config EXCEPT ![t] = None]
    /\ serial' = [serial EXCEPT ![t] = None]
    /\ lost' = lost \ {t}

DelConfig(r) ==
    /\ request[r] = "deleting"
    /\ request' = [request EXCEPT ![r] = "204"]
    /\ Drop(tenant[r])
    /\ UNCHANGED <<tenant, body, found>>

\* A command fails, before or after it took effect, and the request with it;
\* or the process stops and leaves the command it sent behind.
FailConfig(r) ==
    /\ request[r] \in {"reading", "writing", "deleting"}
    /\ request' = [request EXCEPT ![r] = "500"]
    /\ \/ UNCHANGED <<config, serial, lost>>
       \/ request[r] = "writing" /\ Write(r)
       \/ request[r] = "deleting" /\ Drop(tenant[r])
    /\ UNCHANGED <<tenant, body, found>>

Configure ==
    \E r \in Request :
        \/ \E t \in Tenant : Delete(r, t) \/ \E b \in Body : Put(r, t, b)
        \/ GetConfig(r) \/ SetConfig(r) \/ DelConfig(r) \/ FailConfig(r)

-----------------------------------------------------------------------------

\* A key holds what its PUTs and DELETEs, each as one atomic step, would have
\* made of it, unless a PUT wrote over a change it had not seen; the next DELETE
\* puts that right.  Even then no key holds a field that no PUT for its tenant
\* brought.
ConfigsMerge ==
    \A t \in Tenant :
        /\ t \notin lost => config[t] = serial[t]
        /\ config[t] # None => \A f \in DOMAIN config[t] :
              \E r \in Request : /\ tenant[r] = t /\ body[r] # None
                                 /\ f \in DOMAIN body[r] /\ body[r][f] = config[t][f]

=============================================================================
