SPECIFICATION Spec
CONSTANTS
    Kind = "reverse"
    Clients = {c1, c2}
    MaxProviderSwaps = 2
    FirstHeight = 1
    MaxHeight = 1
    QuoteTimeout = 2
    ProviderTimeout = 3
    Answers <- BoltzOrMock
    ApproachBlocks = 1
CONSTRAINT HeightUnknown
SYMMETRY ClientSymmetry
INVARIANT CommittedSwapIsBacked
