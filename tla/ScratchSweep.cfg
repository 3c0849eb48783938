\* Three test runs over one temp root.
SPECIFICATION ScratchSpec
CONSTANTS
    TestRuns = {r1, r2, r3}
    Names = {n1}
    Pids = {p1, p2, p3}
    Namespaces = {h1}
    Stranger = Stranger
    Torn = Torn
    None = None
    MaxMishaps = 2
SYMMETRY Symmetry
CHECK_DEADLOCK FALSE
INVARIANT LiveScratchIsClaimed
PROPERTIES
    OnlyTheCondemnedIsRemoved
    UndisturbedSweepCollects
