\* One content the agent may propose; no symmetry, which
\* is unsound for liveness.
CONSTANTS
    Proposal = {p1}
    Request = {r1, r2}
    Content = {c1}
    Allowlist = {c1}
    AgentRegistry = {c1}
    None = None
SPECIFICATION MetricsSpec
INVARIANT CountsMissNothing
PROPERTIES
    RequestsEnd
    ImplementsGate
