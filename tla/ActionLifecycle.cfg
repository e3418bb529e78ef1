\* Two proposals, three requests in any mix of approve, reject and execute.
CONSTANTS
    Proposal = {p1, p2}
    Request = {r1, r2, r3}
    Content = {c1}
    Allowlist = {}
    AgentRegistry = {c1}
    None = None
SPECIFICATION Spec
SYMMETRY Symmetry
INVARIANTS
    TypeOK
    SettledNotPending
    ExecutedOnceUnlessContended
    AuditedExecution
    PublishedAfterRecorded
    SoleDecisionRecorded
PROPERTY LeavesByDecision
