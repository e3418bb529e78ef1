\* One run of two turns and two calls, while one entry arrives and one socket listens.
CONSTANTS
    a = a
    b = b
    Tenant <- MCTenant
    Entry = {e}
    Socket = {s}
    None = None
    Unknown = Unknown
    Asked <- MCAsked
    Calls <- MCCalls
    MaxToolCalls = 2
    MaxRounds = 2
CHECK_DEADLOCK FALSE
SPECIFICATION FairSpec
INVARIANTS
    TypeOK
    BudgetsAgree
    AuditIsComplete
    ScopeHolds
    SubscribersSeeTheLogs
PROPERTIES
    RunEnds
    ImplementsFeed
