SPECIFICATION Spec
CONSTANTS
    Kind = "chain"
    Clients = {c1}
    MaxProviderSwaps = 1
    FirstHeight = 2
    MaxHeight = 4
    QuoteTimeout = 1
    ProviderTimeout = 4
    Answers <- Boltz
    ApproachBlocks = 1
PROPERTIES
    RefundEndsOnEvidence
