SPECIFICATION Spec
CONSTANTS
    Kind = "submarine"
    Clients = {c1}
    MaxProviderSwaps = 1
    FirstHeight = 3
    MaxHeight = 6
    QuoteTimeout = 2
    ProviderTimeout = 6
    Answers <- Boltz
    ApproachBlocks = 1
PROPERTIES
    SubmarineIsGivenItsBlocks
