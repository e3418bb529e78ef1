--------------------------- MODULE InternalAgent ---------------------------
(***************************************************************************)
(* The control plane's internal agent: one POST /internal-agent/invoke,    *)
(* while log entries arrive.  The route makes a policy of the operator and *)
(* the body; the runner lets the model call tools, round after round, each *)
(* call through the governance, and both count calls.  The model is not    *)
(* ours: it may answer with any calls, with none, or throw.                *)
(***************************************************************************)
EXTENDS LogBroadcast, Integers, Sequences, FiniteSets

CONSTANTS
    Unknown,       \* a name that is no tool's
    Asked,         \* the requests a behaviour may begin with
    Calls,         \* the calls the model may make
    MaxToolCalls,  \* of READONLY_OPERATOR_POLICY; the route never overrides it
    MaxRounds      \* the runner's own limit

Scoped == {"get_tenant", "get_tenant_health", "get_tenant_metrics",
           "query_tenant_logs", "summarize_tenant_incidents"}
Tool == Scoped \cup {"list_tenants"}
Name == Tool \cup {Unknown}

\* A limit with None in it is none.
Limit(S) == S \cup {None}

Request == [role : {"admin", "operator"}, active : BOOLEAN, own : SUBSET Tenant,
            tenantIds : SUBSET Limit(Tenant), toolNames : SUBSET Limit(Name)]
Call == [name : Name, tenant : Tenant \cup {None}]
Reason == {"policy", "budget", "no tenant", "scope"}
Entries == {"allowed", "error"} \cup Reason
Result == [ok : BOOLEAN, tenant : Tenant \cup {None}, logs : SUBSET Entry]

ASSUME AgentAssumption ==
    /\ MaxToolCalls \in Nat /\ MaxRounds \in Nat
    /\ Asked \subseteq Request /\ Calls \subseteq Call
    /\ Unknown \notin Tool /\ None \notin Name \cup Reason

VARIABLES
    request,
    tooling,   \* whose tools the runner has: those of tools.ts over the repositories a
               \* configured factory is given, the same as the route passes them, or
               \* the ones of InternalAgentRunner.create
    tools,     \* the policy: its tools
    scope,     \* and its tenants
    phase,     \* where the run is
    call,      \* the call whose tool is reading
    round, calls,  \* the runner's counters
    used,      \* the governance's counter
    audit,     \* the actions of its audit, what was denied under the reason
    evidence,  \* the tenants of its evidence
    results,   \* toolResults, by name
    unknown,   \* history: calls of names that are no tool's
    read       \* history: which tool was let read of which tenant

runVars == <<request, tooling, tools, scope, phase, call, round, calls, used,
             audit, evidence, results, unknown, read>>
vars == <<logVars, runVars>>

Tooling == {"factory", "route", "create"}
Phase == {"arrived", "invoking", "calling", "called", "reading", "final", "answered", "refused"}

TypeOK ==
    /\ LogTypeOK
    /\ request \in Asked
    /\ tooling \in Tooling
    /\ tools \subseteq Tool
    /\ scope \subseteq Limit(Tenant)
    /\ phase \in Phase
    /\ call \in Call \cup {None}
    /\ phase = "reading" => call \in Call /\ call.name \in Tool
    /\ round \in Nat /\ calls \in Nat /\ used \in Nat
    /\ audit \in Seq(Entries)
    /\ evidence \subseteq Tenant
    /\ results \in [Name -> Result \cup {None}]
    /\ unknown \in Nat
    /\ read \subseteq Tool \X Tenant

Init ==
    /\ LogInit
    /\ request \in Asked
    /\ tooling \in Tooling
    /\ tools = {} /\ scope = {}
    /\ phase = "arrived"
    /\ call = None
    /\ round = 0 /\ calls = 0 /\ used = 0 /\ unknown = 0
    /\ audit = <<>>
    /\ evidence = {} /\ read = {}
    /\ results = [n \in Name |-> None]

\* The next turn of the loop, or the invocation after it.
Turn(i) == IF i < MaxToolCalls /\ i < MaxRounds THEN "invoking" ELSE "final"

\* Mutant: the policy keeps the names it is given.
AllowedToolsAsAsked(names) == IF None \in names THEN Tool ELSE names

\* composeInternalAgentPolicy: names that are no tool's are dropped.
AllowedTools(names) == IF None \in names THEN Tool ELSE names \cap Tool

\* Mutant: an operator who names tenants gets those.
ScopeAsAsked(q) == IF q.role = "admin" \/ None \notin q.tenantIds THEN q.tenantIds ELSE q.own

\* An admin may narrow the scope; an operator has the tenants of the token.
Scope(q) == IF q.role = "admin" THEN q.tenantIds ELSE q.own

\* operatorAuth, the policy, and the run up to its first invocation; a 400, or
\* a 502 for a model that cannot be made, ends it before.
Authenticate ==
    /\ phase = "arrived"
    /\ \/ /\ request.active
          /\ tools' = AllowedTools(request.toolNames)
          /\ scope' = Scope(request)
          /\ phase' = Turn(0)
       \/ phase' = "refused" /\ UNCHANGED <<tools, scope>>
    /\ UNCHANGED <<request, tooling, call, round, calls, used, audit, evidence, results,
                   unknown, read>>

\* The model answers with calls, answers without one, or throws.
Invoke ==
    /\ phase = "invoking"
    /\ phase' \in {"calling", "answered"}
    /\ UNCHANGED <<request, tooling, tools, scope, call, round, calls, used, audit,
                   evidence, results, unknown, read>>

\* The invocation after the loop; its calls, if any, are part of the answer.
Conclude ==
    /\ phase = "final"
    /\ phase' = "answered"
    /\ UNCHANGED <<request, tooling, tools, scope, call, round, calls, used, audit,
                   evidence, results, unknown, read>>

Nothing == [ok |-> FALSE, tenant |-> None, logs |-> {}]

\* Why the governance denies a call, in the order it asks; None if it does not.
Denial(c) ==
    IF c.name \notin tools THEN "policy"
    ELSE IF used >= MaxToolCalls THEN "budget"
    ELSE IF None \in scope THEN None
    ELSE IF c.name \in Scoped /\ c.tenant = None THEN "no tenant"
    ELSE IF c.tenant # None /\ c.tenant \notin scope THEN "scope"
    ELSE None

\* A call that runs no tool: its result is an error.
Refuse(c) ==
    /\ results' = [results EXCEPT ![c.name] = Nothing]
    /\ calls' = calls + 1
    /\ phase' = "called"
    /\ UNCHANGED <<call, used>>

\* Mutant: the runner leaves the budget to the governance.
MakeCallAnyway(c) ==
    /\ phase \in {"calling", "called"} /\ calls <= MaxToolCalls
    /\ IF c.name = Unknown
         THEN Refuse(c) /\ unknown' = unknown + 1 /\ UNCHANGED audit
         ELSE /\ audit' = Append(audit, IF Denial(c) = None THEN "allowed" ELSE Denial(c))
              /\ UNCHANGED unknown
              /\ IF Denial(c) # None
                   THEN Refuse(c)
                   ELSE /\ call' = c
                        /\ used' = used + 1
                        /\ phase' = "reading"
                        /\ UNCHANGED <<results, calls>>
    /\ UNCHANGED <<request, tooling, tools, scope, round, evidence, read>>

\* Mutant: what the policy excludes is not worth an audit entry.
MakeCallQuietly(c) ==
    /\ phase \in {"calling", "called"} /\ calls < MaxToolCalls
    /\ IF c.name = Unknown \/ c.name \notin tools
         THEN Refuse(c) /\ UNCHANGED <<audit, unknown>>
         ELSE /\ audit' = Append(audit, IF Denial(c) = None THEN "allowed" ELSE Denial(c))
              /\ UNCHANGED unknown
              /\ IF Denial(c) # None
                   THEN Refuse(c)
                   ELSE /\ call' = c
                        /\ used' = used + 1
                        /\ phase' = "reading"
                        /\ UNCHANGED <<results, calls>>
    /\ UNCHANGED <<request, tooling, tools, scope, round, evidence, read>>

\* The next call of the answer, while the runner has calls left: a name that
\* is no tool's never reaches the governance, which allows or denies the rest.
MakeCall(c) ==
    /\ phase \in {"calling", "called"} /\ calls < MaxToolCalls
    /\ IF c.name = Unknown
         THEN Refuse(c) /\ unknown' = unknown + 1 /\ UNCHANGED audit
         ELSE /\ audit' = Append(audit, IF Denial(c) = None THEN "allowed" ELSE Denial(c))
              /\ UNCHANGED unknown
              /\ IF Denial(c) # None
                   THEN Refuse(c)
                   ELSE /\ call' = c
                        /\ used' = used + 1
                        /\ phase' = "reading"
                        /\ UNCHANGED <<results, calls>>
    /\ UNCHANGED <<request, tooling, tools, scope, round, evidence, read>>

\* The arguments of a call are JSON, but null: what reads them throws, and the
\* run is over.
MakeBrokenCall ==
    /\ phase \in {"calling", "called"} /\ calls < MaxToolCalls
    /\ phase' = "answered"
    /\ UNCHANGED <<request, tooling, tools, scope, call, round, calls, used, audit,
                   evidence, results, unknown, read>>

\* A tool has its result; tenants are those its evidence names.
Return(result, tenants) ==
    /\ results' = [results EXCEPT ![call.name] = result]
    /\ evidence' = evidence \cup tenants
    /\ calls' = calls + 1
    /\ phase' = "called"
    /\ UNCHANGED audit

Own == [ok |-> TRUE, tenant |-> call.tenant, logs |-> {}]

\* What each tool makes of the rows that are there, or of a tenant without
\* any.  The members of Tenant are those that are listed.
ListTenants ==
    call.name = "list_tenants" /\ Return([Nothing EXCEPT !.ok = TRUE], Tenant)

GetTenant ==
    call.name = "get_tenant" /\ (Return(Own, {call.tenant}) \/ Return(Nothing, {}))

GetTenantHealth == call.name = "get_tenant_health" /\ Return(Own, {call.tenant})

GetTenantMetrics ==
    /\ call.name = "get_tenant_metrics"
    /\ \E result \in {Own, Nothing} : Return(result, {call.tenant})

QueryTenantLogs ==
    /\ call.name = "query_tenant_logs"
    /\ Return([Own EXCEPT !.logs = {e \in stored : about[e] = call.tenant}], {call.tenant})

SummarizeTenantIncidents ==
    call.name = "summarize_tenant_incidents" /\ Return(Own, {call.tenant})

Find == \/ ListTenants \/ GetTenant \/ GetTenantHealth \/ GetTenantMetrics
        \/ QueryTenantLogs \/ SummarizeTenantIncidents

\* Whose rows the tool of a call asks for: list_tenants for everybody's,
\* whatever the call names.
Rows(c) == IF c.name \in Scoped THEN {c.tenant} ELSE Tenant

\* The allowed tool runs.  Without a tenant it asks for one.  The runner's own
\* context holds no repositories, so that a read throws, as it may on a
\* database that fails: the tools of tools.ts catch that, those of create end
\* the run.
Read ==
    /\ phase = "reading"
    /\ IF call.name \in Scoped /\ call.tenant = None
         THEN Return(Nothing, {}) /\ UNCHANGED read
         ELSE \/ /\ tooling = "factory"
                 /\ read' = read \cup ({call.name} \X Rows(call))
                 /\ Find
              \/ tooling # "create" /\ Return(Nothing, {}) /\ UNCHANGED read
              \/ /\ tooling = "create"
                 /\ audit' = Append(audit, "error")
                 /\ phase' = "answered"
                 /\ UNCHANGED <<results, evidence, calls, read>>
    /\ call' = None
    /\ UNCHANGED <<request, tooling, tools, scope, round, used, unknown>>

\* Mutant: a turn that could not call anything is not counted.
EndTurnUncounted ==
    /\ phase = "called" \/ (phase = "calling" /\ calls >= MaxToolCalls)
    /\ round' = IF phase = "called" THEN round + 1 ELSE round
    /\ phase' = Turn(round')
    /\ UNCHANGED <<request, tooling, tools, scope, call, calls, used, audit,
                   evidence, results, unknown, read>>

\* The calls of the answer are done, or what is left of them is dropped.
EndTurn ==
    /\ phase = "called" \/ (phase = "calling" /\ calls >= MaxToolCalls)
    /\ round' = round + 1
    /\ phase' = Turn(round')
    /\ UNCHANGED <<request, tooling, tools, scope, call, calls, used, audit,
                   evidence, results, unknown, read>>

Run == Authenticate \/ Invoke \/ Conclude \/ (\E c \in Calls : MakeCall(c))
       \/ MakeBrokenCall \/ Read \/ EndTurn

Next == (Run /\ UNCHANGED logVars) \/ (Logs /\ UNCHANGED runVars)

Spec == Init /\ [][Next]_vars

\* The model and the database answer or fail.
FairSpec == Spec /\ WF_vars(Run /\ UNCHANGED logVars)

-----------------------------------------------------------------------------
(* Properties.                                                             *)

Reading == IF phase = "reading" THEN 1 ELSE 0
Count(actions) == Cardinality({i \in DOMAIN audit : audit[i] \in actions})

\* The two budgets agree: the runner stops before the governance would have to
\* deny a call for its number, and turns and calls keep within their limits.
BudgetsAgree ==
    /\ calls + Reading <= MaxToolCalls /\ used <= MaxToolCalls
    /\ round <= MaxToolCalls /\ round <= MaxRounds
    /\ Count({"budget"}) = 0

\* Every call that was made is in the audit, allowed or denied, but those of
\* names that are no tool's; an error is the last thing that happened.
AuditIsComplete ==
    /\ Count({"allowed"} \cup Reason) + unknown = calls + Reading + Count({"error"})
    /\ Count({"allowed"}) = used
    /\ \A i \in DOMAIN audit : audit[i] = "error" => i = Len(audit) /\ phase = "answered"

\* The tenants of the operator, or those an admin named.
Theirs == IF request.role = "operator" THEN request.own
          ELSE IF None \in request.tenantIds THEN Tenant ELSE request.tenantIds

ToolsKeepToScope ==
    \A p \in read : /\ None \in request.toolNames \/ p[1] \in request.toolNames
                    /\ p[1] # "list_tenants" => p[2] \in Theirs

EvidenceWasRead == \A t \in evidence : \E p \in read : p[2] = t

LogsAreTheirs ==
    \A n \in Name : results[n] # None =>
        \A e \in results[n].logs :
            e \in stored /\ about[e] = results[n].tenant /\ about[e] \in Theirs

\* Whatever the model asks for, only tools that the request lets it have read.
\* All of them but list_tenants, which the governance exempts and which lists
\* everybody's, read of the tenants of the operator, or of those an admin
\* named.  The evidence names no tenant that was not read of, and every log
\* shown is stored and belongs to the tenant that was asked about.
ScopeHolds == ToolsKeepToScope /\ EvidenceWasRead /\ LogsAreTheirs

\* A run ends, whatever the model keeps asking for.
RunEnds == phase = "arrived" ~> phase \in {"answered", "refused"}

=============================================================================
