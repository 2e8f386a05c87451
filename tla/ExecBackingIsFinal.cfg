SPECIFICATION Spec
CONSTANTS
    Kind = "chain"
    Clients = {c1, c2}
    MaxProviderSwaps = 2
    FirstHeight = 2
    MaxHeight = 2
    QuoteTimeout = 1
    ProviderTimeout = 4
    Answers <- Boltz
    ApproachBlocks = 1
PROPERTIES
    BackingIsFinal
