SPECIFICATION Spec
CONSTANTS
    EmbedShapes = {b32s256}
    RerankShape = s512
    Absent = Absent
    Unlaunched = Unlaunched
    MaxCrashes = 0
INVARIANT RerankRunsItsOwnProgram
