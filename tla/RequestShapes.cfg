\* Requests of up to three texts, to two engines and the counter.
SPECIFICATION ShapesSpec
CONSTANTS
    Tokens <- MCTokens
    Refused = Refused
    MaxTexts = 3
    Lengths = {0, 8}
    Batches = {0, 1}
    ConfigLength = 256
    ConfigBatch = 3
    RerankLength = 128
    MaxTokenize = 2
    MaxBad = 2
INVARIANTS
    EveryTextItsOwnRow
    AccountingIsTrue
    FirstRunsAreAbsorbed
    EveryDocumentItsScore
