-------------------------- MODULE MCInternalAgent --------------------------
(* TLC instance of InternalAgent.                                          *)
EXTENDS InternalAgent

CONSTANTS a, b
MCTenant == {a, b}

\* An operator of one tenant who names another, an admin who names one and
\* some tools, an admin without limits on tenants, and one who is suspended.
Ask(role, active, tenantIds, toolNames) ==
    [role |-> role, active |-> active, own |-> IF role = "admin" THEN {} ELSE {a},
     tenantIds |-> tenantIds, toolNames |-> toolNames]
MCAsked ==
    {Ask("operator", TRUE, {b},
         {"list_tenants", "get_tenant", "query_tenant_logs", "get_tenant_health"}),
     Ask("admin", TRUE, {b}, {"summarize_tenant_incidents", Unknown}),
     Ask("admin", TRUE, {None}, {None}),
     Ask("operator", FALSE, {None}, {None})}

MCCalls ==
    {[name |-> n, tenant |-> None] : n \in {"list_tenants", "get_tenant_health", Unknown}}
    \cup {[name |-> n, tenant |-> a] : n \in {"query_tenant_logs", "get_tenant", "get_tenant_metrics"}}
    \cup {[name |-> n, tenant |-> b] : n \in {"get_tenant_health", "summarize_tenant_incidents"}}

=============================================================================
