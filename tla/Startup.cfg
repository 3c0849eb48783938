\* Two sidecars over one cache, three starts, one error of the file system.
SPECIFICATION Spec
CONSTANTS
    Sidecars = {s1, s2}
    Files = {tok, weights}
    Tokenizer = tok
    Size = 2
    NoFile = NoFile
    MaxBoots = 3
    MaxFaults = 1
INVARIANTS
    SameSizeIsWhole
    CountsFromTheFirstStart
PROPERTY
    SeedingRepairs
CHECK_DEADLOCK FALSE
