\* Two embed rungs and the reranker, over two crashes.
SPECIFICATION Spec
CONSTANTS
    EmbedShapes = {b32s128, b32s256}
    RerankShape = s512
    Absent = Absent
    Unlaunched = Unlaunched
    MaxCrashes = 2
SYMMETRY Symmetry
INVARIANTS
    ResidentRungsAreVerified
    EmbedCompilesIntoItsOwnSlice
    PathStaysWithTheBuild
PROPERTIES
    RebuildStartsClean
