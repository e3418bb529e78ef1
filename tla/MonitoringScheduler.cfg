\* Three runs: two overlap while a third begins or has been lost.
CONSTANTS
    Run = {r1, r2, r3}
    Enabled = TRUE
    None = None
SPECIFICATION FairSpec
INVARIANTS
    TypeOK
    IdleIsNotRunning
    ErrorOfResult
    KeyFollowsLastResult
PROPERTY RunningClears
