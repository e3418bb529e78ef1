\* One tick and a Redis that fails twice are enough.
CONSTANTS
    Run = {r1}
    Enabled = TRUE
    None = None
SPECIFICATION Spec
INVARIANT TicksNeverThrow
