SPECIFICATION Spec
CONSTANTS
    Sidecars = {s1, s2}
    Files = {tok, weights}
    Tokenizer = tok
    Size = 2
    NoFile = NoFile
    MaxBoots = 2
    MaxFaults = 0
PROPERTY SameSizeIsNeverOverwritten
CHECK_DEADLOCK FALSE
