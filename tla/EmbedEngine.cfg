\* Two passes and a drain over three caps on a two-rung cache.
SPECIFICATION Spec
CONSTANTS
    NoOne = NoOne
    Requests = {r1, r2}
    Unloaders = {u1}
    Caps = {1, 2, 3}
    Batches = {1}
    Capacity = 2
    MaxTeardowns = 1
    MaxRivals = 1
SYMMETRY Symmetry
INVARIANTS
    CommitmentMirrorsResidency
    CommitmentIsBacked
    NoPhantomStamp
    NativeCallIsStamped
    PassFindsItsRung
    SuspectEngineNeverServes
PROPERTY ImplementsService
