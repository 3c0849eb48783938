\* One probe after another beside the two engines; one compiled-model cache.
SPECIFICATION Spec
CONSTANTS
    Caps = {c1, c2}
    RerankCap = c3
    Capacity = 1
    Attributions = {"Measured"}
    Cached = TRUE
    MaxBuilds = 2
    MaxTears = 2
INVARIANTS
    WedgeIsReported
    ReadyBuildsAreCounted
    QuietRepliesAgree
SYMMETRY Symmetry
CHECK_DEADLOCK FALSE
