\* The API takes uploads, the agent service only boots; three uploads.
CONSTANTS
    api = api
    agent = agent
    s0 = s0
    s1 = s1
    s2 = s2
    Node = {api, agent}
    Uploader = {api}
    Schema = {s0, s1, s2}
    BootSchema <- MCBootSchema
    Upload = {u1, u2, u3}
    None = None
SPECIFICATION Spec
SYMMETRY Symmetry
INVARIANTS
    TypeOK
    CacheFollowsMemory
    PersistedBeforeActive
    SerialUploadTakesEffect
