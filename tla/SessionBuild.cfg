\* Two loads by two engines, nothing serialized. It stops when they are used up.
SPECIFICATION Spec
CONSTANTS
    Engines = {embed, rerank}
    Requests = {"auto", "dml"}
    Order <- SmallOrder
    Cpu = "cpu"
    None = None
    NoSample = NoSample
    Sizes = {0, 1}
    MaxBuilds = 2
SYMMETRY Symmetry
CHECK_DEADLOCK FALSE
INVARIANTS
    FigureExcludesOverlaps
    OverlapsAreReal
    SessionsHonourThePin
    UnreadyIsExplained
