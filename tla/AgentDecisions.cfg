\* One proposal of an agent and one decision on it are enough.
CONSTANTS
    Proposal = {p1}
    Request = {r1}
    Content = {c1}
    Allowlist = {}
    AgentRegistry = {c1}
    None = None
SPECIFICATION Spec
INVARIANT AgentDecisionsAudited
