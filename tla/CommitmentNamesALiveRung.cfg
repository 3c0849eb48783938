SPECIFICATION Spec
CONSTANTS
    NoOne = NoOne
    Requests = {r1, r2}
    Unloaders = {u1}
    Caps = {1, 2}
    Batches = {1, 2}
    Capacity = 1
    MaxTeardowns = 1
    MaxRivals = 1
INVARIANT CommitmentNamesALiveRung
