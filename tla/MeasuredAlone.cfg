\* A build that starts and ends before this one counts itself in.
SPECIFICATION Spec
CONSTANTS
    Engines = {embed, rerank}
    Requests = {"auto", "dml"}
    Order <- SmallOrder
    Cpu = "cpu"
    None = None
    NoSample = NoSample
    Sizes = {0, 1}
    MaxBuilds = 2
SYMMETRY Symmetry
CHECK_DEADLOCK FALSE
INVARIANT MeasuredAlone
