\* One upload is enough: the row outlives the process, the registry does not.
CONSTANTS
    api = api
    agent = agent
    s0 = s0
    s1 = s1
    s2 = s2
    Node = {api, agent}
    Uploader = {api}
    Schema = {s0, s1, s2}
    BootSchema <- MCBootSchema
    Upload = {u1}
    None = None
SPECIFICATION Spec
INVARIANT StoredSchemaIsActive
