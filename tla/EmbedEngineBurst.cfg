\* One burst of calls under weak fairness. The burst ends, so the system stops.
SPECIFICATION BurstSpec
CONSTANTS
    NoOne = NoOne
    Requests = {r1, r2}
    Unloaders = {u1}
    Caps = {1, 2}
    Batches = {1}
    Capacity = 1
    MaxTeardowns = 2
    MaxRivals = 1
CHECK_DEADLOCK FALSE
PROPERTY EveryCallIsAnswered
