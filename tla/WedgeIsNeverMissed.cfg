\* Refuted: a try_lock that meets a reader of the stamp reads as nothing held.
SPECIFICATION Spec
CONSTANTS
    Caps = {c1, c2}
    RerankCap = c3
    Capacity = 1
    Attributions = {"Measured"}
    Cached = TRUE
    MaxBuilds = 2
    MaxTears = 2
INVARIANTS
    WedgeIsNeverMissed
SYMMETRY Symmetry
CHECK_DEADLOCK FALSE
