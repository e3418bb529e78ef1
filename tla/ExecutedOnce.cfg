\* Two approvals of one proposal are enough.
CONSTANTS
    Proposal = {p1}
    Request = {r1, r2}
    Content = {c1}
    Allowlist = {}
    AgentRegistry = {c1}
    None = None
SPECIFICATION Spec
INVARIANT ExecutedOnce
