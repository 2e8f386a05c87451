SPECIFICATION FairSpec
CONSTANTS
    Kind = "chain"
    Clients = {c1}
    MaxProviderSwaps = 1
    FirstHeight = 2
    MaxHeight = 4
    QuoteTimeout = 1
    ProviderTimeout = 4
    Answers <- BoltzOrMock
    ApproachBlocks = 1
INVARIANTS
    TypeOK
    RecordedMeansDone
PROPERTIES
    RefundWaitsForTimelock
    NoRebroadcastOnceStored
    RefundCompletesOnEvidence
    ClaimOnlyWhenSigning
    ImplementsLifecycle
    SettledIsClosed
