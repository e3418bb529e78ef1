\* Two registrations of one slug, two polls that may overlap, one failing statement.
CONSTANTS
    t1 = t1
    t2 = t2
    Tenant <- MCTenant
    Slug = {acme}
    MaxFailures = 1
    MaxPoll = 2
    Probes <- MCProbes
    None = None
SPECIFICATION Spec
INVARIANTS
    TypeOK
    RegistrationsAreRight
    HealthFollowsChecks
PROPERTIES
    OffboardedIsLeftAlone
    ImplementsSlugs
