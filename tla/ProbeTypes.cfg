\* HealthProbe.cfg, for the inductive invariant.
SPECIFICATION Spec
CONSTANTS
    Caps = {c1, c2}
    RerankCap = c3
    Capacity = 1
    Attributions = {"Measured"}
    Cached = TRUE
    MaxBuilds = 2
    MaxTears = 2
INVARIANTS
    IInv
SYMMETRY Symmetry
CHECK_DEADLOCK FALSE
